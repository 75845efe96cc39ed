SPECIFICATION Spec
CONSTANTS
  Blocks = {0, 1}
  NumSets = 1
  Packets = {p1, p2}
  Requesters = {"cpu"}
  NumMSHRs = 2
  MaxPerBlock = 1
  MaxVersion = 1
  MAPI_PREDICTOR = TRUE
  BypassMode = "none"
INVARIANT AnswersMatched
