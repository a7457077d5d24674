SPECIFICATION FairSpec
CONSTANTS
  h1 = h1  h2 = h2  k1 = k1  k2 = k2
  Handles = {h1, h2}
  Connections = {k1, k2}
  MayUse <- SharedOrNot
  Plain = Plain
  NoSession = NoSession
  Restarts = 1
INVARIANTS WellFormed HeldSessionsAnswer
PROPERTIES GoneSessionsClosed
CHECK_DEADLOCK FALSE
