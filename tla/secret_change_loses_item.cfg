SPECIFICATION Spec
CONSTANTS
  i1 = i1  i2 = i2  i3 = i3  s1 = s1  s2 = s2  w = w
  t1 = t1  t2 = t2  a = a  b = b
  Items = {i1, i2, i3}
  AttrsOf <- MCAttrsOf
  Secrets = {s1, s2}
  WeakSecrets = {}
  NoSecret = NoSecret  NoKey = NoKey  NoTask = NoTask  NoFile = NoFile  Torn = Torn
  Tasks = {t1, t2}
  OpsOf <- ChangeAndCreate
  Openings = {"load"}
  Queries <- MCQueries
  LegacyItems = {}
  InitialFiles <- NoOrOldFile
  FaultPoints = {}
  Budget <- Calls2
INVARIANTS AckedItemsStay
