\* A command for a device that has just reconnected.
SPECIFICATION Spec
CONSTANTS
  k1 = k1  k2 = k2  d1 = d1  d2 = d2  i1 = i1  i2 = i2
  NoConn = NoConn  NoDevice = NoDevice  NoCmd = NoCmd
  Conns = {k1, k2}
  Devices = {d1}
  Commands = {i1}
  TargetOf <- OneCommand
  DbMayFail = FALSE
  MaxRestarts = 0
PROPERTY MissedOnlyIfOffline
\* the connections and commands of the instance run out
CHECK_DEADLOCK FALSE
