\* Two browsers of one tenant; its positions and another tenant's alerts.
SPECIFICATION Spec
CONSTANTS
  c1 = c1  c2 = c2  A = A  B = B  d1 = d1
  Companies = {A, B}
  Devices = {d1}
  NoDevice = NoDevice  NoMsg = NoMsg  NoClient = NoClient
  Clients = {c1, c2}
  CompanyOf <- TwoOfATenant
  Events <- MixedEvents
  SendCap = 1
  BroadcastCap = 1
  MaxPublished = 2
INVARIANTS TypeOK NoPanic TenantIsolation FeedComplete
\* the bounded supply of events ends and every goroutine waits
CHECK_DEADLOCK FALSE
SYMMETRY SameTenant
