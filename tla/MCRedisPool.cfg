SPECIFICATION Spec
CONSTANTS
  Hosts = {ip, name1, name2}
  Dotted = {ip}
  NoHost = NoHost
  Dbs = {0, 1}
  Handles = {h1, h2}
  MaxCtx = 3
INVARIANTS
  TypeOK
  FreedOnce
  PoolIsOpen
  RightServer
  TwiceOnlyIfLost
CHECK_DEADLOCK FALSE
