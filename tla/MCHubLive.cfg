\* Progress of a browser, up to and past its full buffer, while the hub is not blocked.
SPECIFICATION FairSpec
CONSTANTS
  c1 = c1  c2 = c2  A = A  B = B  d1 = d1
  Companies = {A, B}
  Devices = {d1}
  NoDevice = NoDevice  NoMsg = NoMsg  NoClient = NoClient
  Clients = {c1}
  CompanyOf <- OneClient
  Events <- PositionsOfA
  SendCap = 2
  BroadcastCap = 1
  MaxPublished = 4
INVARIANT FeedInOrder
PROPERTIES SessionsEnd EventsFannedOut
\* the bounded supply of events ends and every goroutine waits
CHECK_DEADLOCK FALSE
