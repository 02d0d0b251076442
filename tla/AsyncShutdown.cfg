CONSTANTS
  c1 = c1
  Conns = {c1}
  Kinds = {"good"}
  MaxRequests = 1
SPECIFICATION FairSpec
PROPERTY ReturnsAfterShutdown
\* The server stops.
CHECK_DEADLOCK FALSE
