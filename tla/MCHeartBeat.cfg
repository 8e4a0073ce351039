SPECIFICATION Spec
CONSTANTS
  connector = connector
  accepted = accepted
  Socks = {connector, accepted}
  Keep = {connector}
  Cnt = 2
  Bucket <- MCBucket
  Beat = 6
  Idle = 2
  Delay = 1
  Gap = 4
  Lag = 1
  MaxConn = 1
  MaxClock = 16
INVARIANTS
  TypeOK
  KeptAlive
  SilentDropped
CHECK_DEADLOCK FALSE
