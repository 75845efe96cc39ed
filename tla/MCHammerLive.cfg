SPECIFICATION FairSpec
CONSTANTS
  CPUs = {c1}
  c1 = c1
  GPU = gpu
  GPUL1s = {g1}
  g1 = g1
  Dir = dir
  None = none
  CPURequests <- StoresAndFlushes
  GPURequests = {"Load", "BypassLoad"}
  Readers = {c1}
  Writers = {c1}
  DmaRequests = {"DMA_READ", "DMA_WRITE"}
  Crowded = {c1}
INVARIANTS MemoryLatest NoInvalidTransition
PROPERTIES RequestsServed DmaServed
