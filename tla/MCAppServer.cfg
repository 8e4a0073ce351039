SPECIFICATION Spec
CONSTANTS
  s1 = s1
  s2 = s2
  c1 = c1
  f1 = f1
  f2 = f2
  NoFd = NoFd
  Socks <- TwoSocks
  Conns <- NoConns
  Fds <- TwoFds
  CacheSize = 2
  Expire = 2
  Period = 3
  MaxPosts = 5
  MaxTime = 3
CHECK_DEADLOCK FALSE
SYMMETRY Symmetry
INVARIANTS
  TypeOK
  Registered
