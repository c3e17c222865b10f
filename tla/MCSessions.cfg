\* Two devices with a command each, or one of them reconnecting; statements may fail.
SPECIFICATION Spec
CONSTANTS
  k1 = k1  k2 = k2  d1 = d1  d2 = d2  i1 = i1  i2 = i2
  NoConn = NoConn  NoDevice = NoDevice  NoCmd = NoCmd
  Conns = {k1, k2}
  Devices = {d1, d2}
  Commands = {i1, i2}
  TargetOf <- TwoDevices
  DbMayFail = TRUE
  MaxRestarts = 0
INVARIANTS TypeOK ProgressMeansWritten OwnDeviceResponse
SYMMETRY SameConns
\* the connections and commands of the instance run out
CHECK_DEADLOCK FALSE
