\* The vectorized attention over time against what its comment says of it.
CONSTANTS
  Environments <- Batched
  Requests <- FewRequests
  Actions = 2
  PerImage = 4
  MaxJobs = 1
  HeadDim = 1
  Heads = 2
  FramePatches = 3
  Stray = FALSE
SPECIFICATION Spec
INVARIANT CausalMemory
CHECK_DEADLOCK FALSE
