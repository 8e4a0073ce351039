SPECIFICATION FairSpec
CONSTANTS
  c1 = c1
  c2 = c2
  Threads = {1}
  Jobs = {c1, c2}
  Clients = {c1, c2}
  MaxCo = 2
  MaxGen = 2
  Connects <- Bound
  MaxCalls <- Bound
PROPERTY CallReturns
CHECK_DEADLOCK FALSE
