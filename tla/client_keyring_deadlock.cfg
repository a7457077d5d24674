SPECIFICATION FairSpec
CONSTANTS
  a = a  b = b  c = c  v1 = v1  v2 = v2  h1 = h1  h2 = h2  keyringLock = keyringLock  t1 = t1  t2 = t2  t3 = t3
  Attributes <- Flat
  Values = {v1, v2}
  OwnAttributes <- FlatItems
  FirstValue = v1
  Handles = {h1, h2}
  Tasks = {t1, t2, t3}
  NoTask = NoTask
  Shared = keyringLock
  OpsOf <- ThreeTasks
  Budget <- Calls4
PROPERTY CallsReturn
CHECK_DEADLOCK FALSE
