SPECIFICATION Spec
CONSTANTS
  Blocks = {0, 1}
  NumSets = 1
  Packets = {p1, p2}
  Requesters = {"cpu"}
  NumMSHRs = 2
  MaxPerBlock = 2
  MaxVersion = 1
  MAPI_PREDICTOR = TRUE
  BypassMode = "none"
SYMMETRY PacketSymmetry
\* A failed assert ends the program.
CHECK_DEADLOCK FALSE
INVARIANTS NoWriteMeetsMiss PamInStep
