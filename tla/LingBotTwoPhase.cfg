\* Without predict the state of the robot is not used.
CONSTANTS
  Chunk = 3
  VlmCausal = TRUE
  RealDim = 2
  MaxDim = 3
  RawMap <- MCRawMap
  Layers = 2
  Steps = 2
  Environments <- MCEnvironments
  Requests <- MCRequests
  MaxJobs = 1
SPECIFICATION Spec
INVARIANT BitForBit
