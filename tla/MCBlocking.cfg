SPECIFICATION FairSpec
CONSTANTS
  Blocks = {b1, b2}
  NoBlock = NoBlock
  NumMSHRs = 2
  ReadBufferSize = 2
  WriteBuffers = 1
  WriteReserve = 4
  MaxReads = 3
  MaxWrites = 1
  NumTarget = 3
  MaxTargets = 2
INVARIANTS FreeListSuffices WriteBufferSuffices FreeListExact OneMSHRPerBlock BlockedForCause
PROPERTY RetrySent
