\* Two clients that send two requests each.
CONSTANTS
  c1 = c1
  c2 = c2
  Conns = {c1, c2}
  Kinds = {"garbled", "unprepared", "good"}
  MaxRequests = 2
SPECIFICATION FairSpec
PROPERTIES
  ImplementsService
  ReturnsAfterShutdown
\* The server stops.
CHECK_DEADLOCK FALSE
