\* Two clients, one request each.
CONSTANTS
  c1 = c1
  c2 = c2
  Conns = {c1, c2}
  Kinds = {"garbled", "failing", "good"}
  MaxRequests = 1
SPECIFICATION FairSpec
PROPERTIES
  ImplementsService
  ShutdownReturns
\* The server stops.
CHECK_DEADLOCK FALSE
