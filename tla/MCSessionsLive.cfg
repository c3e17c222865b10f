\* A device that reconnects, failing statements, a shutdown and a crash.
SPECIFICATION FairSpec
CONSTANTS
  k1 = k1  k2 = k2  d1 = d1  d2 = d2  i1 = i1  i2 = i2
  NoConn = NoConn  NoDevice = NoDevice  NoCmd = NoCmd
  Conns = {k1, k2}
  Devices = {d1}
  Commands = {i1}
  TargetOf <- OneCommand
  DbMayFail = TRUE
  MaxRestarts = 1
INVARIANT RegistryLive
PROPERTIES StatusMonotone LostConnectionEnds
\* the connections and commands of the instance run out
CHECK_DEADLOCK FALSE
