\* Two requests in flight, RTC and inpainting on, failures.
CONSTANTS
  RealDim = 2
  MaxDim = 3
  ChunkSize = 4
  Rtc = TRUE
  Horizon = 3
  Delay = 1
  Inpaint = TRUE
  Period = 3
  MaxInFlight = 2
  Faults = {"init", "alloc", "run"}
  Requests <- MCRequests
SPECIFICATION FairSpec
INVARIANTS
  GraphFits
  GuidedByLeftover
  GuidanceFades
PROPERTIES
  ReproducesPredict
  
