SPECIFICATION Spec
CONSTANTS
  Blocks = {0, 1}
  NumSets = 1
  Packets = {p1, p2}
  Requesters = {"cpu", "gpu"}
  NumMSHRs = 2
  MaxPerBlock = 1
  MaxVersion = 2
  MAPI_PREDICTOR = FALSE
  BypassMode = "dirtyClean"
SYMMETRY PacketSymmetry
INVARIANTS NoWriteLost HitsCurrent NoDirtyMiss
PROPERTY StaleOnlyFromWriteBuffer
