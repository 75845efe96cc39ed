SPECIFICATION FairSpec
CONSTANTS
  Ranks = {r1, r2}
  ReadBufferSize = 2
  WriteBufferSize = 4
  FillBufferSize = 2
  WriteHighThreshold = 2
  WriteLowThreshold = 1
  FillHighThreshold = 2
  MinWritesPerSwitch = 1
  MaxMisses = 1
  MaxWriteResp = 1
INVARIANTS BuffersBounded NoLostWakeup RetryIsOwed
PROPERTIES DrainSignalledWhenIdle ReadsProgress RefusedAccepted WritesProgress DrainCompletes
