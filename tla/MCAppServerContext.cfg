SPECIFICATION Spec
CONSTANTS
  s1 = s1
  s2 = s2
  c1 = c1
  f1 = f1
  f2 = f2
  NoFd = NoFd
  Socks <- OneSock
  Conns <- NoConns
  Fds <- OneFd
  CacheSize = 2
  Expire = 2
  Period = 3
  MaxPosts = 5
  MaxTime = 0
CHECK_DEADLOCK FALSE
INVARIANTS
  ForgetsDisconnected
