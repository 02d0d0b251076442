\* predict, prepare and compute of LingBot-VLA v2, with every environment and failure.
CONSTANTS
  Chunk = 3
  VlmCausal = TRUE
  RealDim = 2
  MaxDim = 3
  RawMap <- MCRawMap
  Layers = 2
  Steps = 2
  Environments <- MCEnvironments
  Requests <- MCRequests
  MaxJobs = 1
SPECIFICATION Spec
INVARIANTS
  TypeOK
  RunsLiveGraph
  ReadsOwnKv
  DumpIsIntact
  OwnState
  PrefixSound
