SPECIFICATION Spec
CONSTANTS
  Blocks = {b1, b2}
  PREDICTION_LATENCY = 2
  AccessLatency = 3
  WriteBuffers = 2
  MaxWriteBacks = 3
  MemLatency = 2
INVARIANT SendScheduled
