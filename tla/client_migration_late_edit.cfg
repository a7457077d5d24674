SPECIFICATION Spec
CONSTANTS
  p1 = p1  p2 = p2  a = a  b = b  c = c  v1 = v1  v2 = v2
  Paths = {p1, p2}
  AttrsOf <- Apart
  Values = {v1, v2}
  NoValue = NoValue
  Queries <- Overlapping
  OtherItem <- Other
  LateEdits = TRUE
  Budget <- OneEdit
INVARIANT NothingLost
CHECK_DEADLOCK FALSE
