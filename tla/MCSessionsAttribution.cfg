\* Two commands under way to one device.
SPECIFICATION Spec
CONSTANTS
  k1 = k1  k2 = k2  d1 = d1  d2 = d2  i1 = i1  i2 = i2
  NoConn = NoConn  NoDevice = NoDevice  NoCmd = NoCmd
  Conns = {k1}
  Devices = {d1}
  Commands = {i1, i2}
  TargetOf <- OneDevice
  DbMayFail = FALSE
  MaxRestarts = 0
INVARIANT AcknowledgedMeansReplied
\* the connections and commands of the instance run out
CHECK_DEADLOCK FALSE
