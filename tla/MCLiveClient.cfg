\* Two companies; A has one device, which changes once, B has none, so that an
\* answer for B empties A's store and a feed of A fills B's.  The effect of the
\* socket runs up to twice in a page load, for two mounts or for a token that
\* changes under one.
SPECIFICATION LiveSpec

CONSTANTS
  A = A  B = B  a1 = a1  b1 = b1
  Companies = {A, B}
  NoCompany = NoCompany
  Devices = {a1}
  CompanyOf <- OnlyOfA
  MaxVersion = 2
  MaxFetches = 2
  MaxSignIns = 1
  MaxRuns = 2

INVARIANTS
  TypeOK
  OneLinkPerRun

PROPERTIES
  StoreSettles
  FeedReconnects
  ImplementsView
