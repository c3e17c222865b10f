\* The feed of a session that has ended reaches the store of the next one.
SPECIFICATION LiveSafety

CONSTANTS
  A = A  B = B  a1 = a1  b1 = b1
  Companies = {A, B}
  NoCompany = NoCompany
  Devices = {a1, b1}
  CompanyOf <- OneDeviceEach
  MaxVersion = 2
  MaxFetches = 1
  MaxSignIns = 1
  MaxRuns = 2

INVARIANT OwnFleetOnly
