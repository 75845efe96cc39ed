SPECIFICATION Spec
CONSTANTS
  CPUs = {c1, c2}
  c1 = c1
  c2 = c2
  GPU = gpu
  GPUL1s = {g1}
  g1 = g1
  Dir = dir
  None = none
  CPURequests <- ReadersAndWriters
  Readers = {c1, c2}
  Writers = {c1}
  GPURequests = {"Store", "Atomic"}
  DmaRequests = {"DMA_READ"}
  Crowded = {c1, gpu}
INVARIANTS
  TypeOK
  NoInvalidTransition
  SingleWriter
  ReadableIsLatest
  DmaReadsLatest
  DataLatest
  NoLostWakeup
  DirectoryAgrees
