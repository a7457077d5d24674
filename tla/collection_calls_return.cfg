SPECIFICATION FairSpec
CONSTANTS
  i1 = i1  i2 = i2  i3 = i3  t1 = t1  t2 = t2
  a = a  b = b  s1 = s1  s2 = s2
  NoTask = NoTask  NoItem = NoItem  NoFile = NoFile  NoKey = NoKey
  Items = {i1, i3}
  AttrsOf <- MCAttrsOf
  Tasks = {t1, t2}
  OpsOf <- All
  Replaces = {TRUE}
  Broken = {}
  Secrets = {s1, s2}
  WeakSecrets = {s2}
  Persistent = TRUE
  InitialItems <- OneItem
  StartStates = {"locked", "unlocked"}
  Budget <- Calls3Fault
PROPERTIES CallsReturn
