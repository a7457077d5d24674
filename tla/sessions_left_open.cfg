SPECIFICATION FairSpec
CONSTANTS
  h1 = h1  h2 = h2  k1 = k1  k2 = k2
  Handles = {h1, h2}
  Connections = {k1, k2}
  MayUse <- SharedOrNot
  Plain = Plain
  NoSession = NoSession
  Restarts = 0

PROPERTIES EverySessionCloses
CHECK_DEADLOCK FALSE
