\* Every factory, with any of its allocations failing.
CONSTANTS
  Files <- MCFiles
  Setups <- MCSetups
SPECIFICATION Spec
INVARIANTS
  Owned
  NothingLeft
  NoneOutlivesBackend
  
  CompleteIsLoaded
\* A load that failed and a model that was freed are the end.
CHECK_DEADLOCK FALSE
