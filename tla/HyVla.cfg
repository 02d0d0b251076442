\* predict of HY-VLA, in every environment that changes its way, with every failure.
CONSTANTS
  Environments <- MCEnvironments
  Requests <- MCRequests
  Actions = 2
  PerImage = 4
  MaxJobs = 2
  HeadDim = 1
  Heads = 2
  FramePatches = 3
  Stray = FALSE
SPECIFICATION Spec
INVARIANTS
  TypeOK
  NothingLeft
  PrefixSound
  
  StopsOnlyWhenKept
\* The process stops, or no call is left.
CHECK_DEADLOCK FALSE
