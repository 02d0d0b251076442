\* Two clients that send two requests each, of every kind.
CONSTANTS
  c1 = c1
  c2 = c2
  Conns = {c1, c2}
  Kinds = {"garbled", "invalid", "unprepared", "failing", "good"}
  MaxRequests = 2
SPECIFICATION Spec
SYMMETRY ConnSymmetry
INVARIANTS
  TypeOK
  NothingLost
  AtMostOnce
  NoSleepOnWork
  DrainedAtExit
  Owned
\* The server stops.
CHECK_DEADLOCK FALSE
