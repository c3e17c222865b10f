\* Every stream of seven bytes, and up to two frames of a device after noise
\* without zero bytes, cut into reads of up to seven bytes in every way.
SPECIFICATION FairSpec
CONSTANTS
  Base = 3
  PreambleSize = 2
  CRCSize = 1
  MaxDataLen = 2
  Known = {1}
  StreamSize = 7
  Lines <- AnyLine
  ReadSize = 7
INVARIANTS ChunkingIrrelevant BufferBounded Reassembles
PROPERTIES LoopShrinks NextReturns
\* the stream ends
CHECK_DEADLOCK FALSE
