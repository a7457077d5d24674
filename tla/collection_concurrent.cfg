SPECIFICATION Spec
CONSTANTS
  i1 = i1  i2 = i2  i3 = i3  t1 = t1  t2 = t2
  a = a  b = b  s1 = s1  s2 = s2
  NoTask = NoTask  NoItem = NoItem  NoFile = NoFile  NoKey = NoKey
  Items = {i1, i2, i3}
  AttrsOf <- MCAttrsOf
  Tasks = {t1, t2}
  OpsOf <- Pair
  Replaces = {TRUE, FALSE}
  Broken = {}
  Secrets = {s1, s2}
  WeakSecrets = {}
  Persistent = TRUE
  InitialItems <- TwoItems
  StartStates = {"locked", "unlocked"}
  Budget <- Calls4Fault
INVARIANTS WellFormed ItemsFollowCollection DeletedStaysDeleted
