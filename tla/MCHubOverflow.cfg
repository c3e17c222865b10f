\* A browser that stalls until its Send buffer is full.
SPECIFICATION FairSpec
CONSTANTS
  c1 = c1  c2 = c2  A = A  B = B  d1 = d1
  Companies = {A, B}
  Devices = {d1}
  NoDevice = NoDevice  NoMsg = NoMsg  NoClient = NoClient
  Clients = {c1}
  CompanyOf <- OneClient
  Events <- PositionsOfA
  SendCap = 1
  BroadcastCap = 1
  MaxPublished = 3
PROPERTY OverflowDisconnects
\* the bounded supply of events ends and every goroutine waits
CHECK_DEADLOCK FALSE
