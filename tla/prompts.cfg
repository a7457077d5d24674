SPECIFICATION FairSpec
CONSTANTS
  u = u  v = v  k = k  x = x  c1 = c1  c2 = c2
  d1 = d1  d2 = d2  s1 = s1  s2 = s2
  Prompts = {u, k, x}
  Clients = {c1, c2}
  OwnerOf <- OwnersOf
  CallersOf <- Owners
  RoleOf <- RolesOf
  Dialogs = {d1, d2}
  NoPrompt = NoPrompt  NoDialog = NoDialog
  Secrets = {s1}
  NoSecret = NoSecret
  InitialCollections <- LockedOrPlain
  Prompters = {"gnome", "plasma", "cli"}
  Budget <- Small
INVARIANTS WellFormed ResultIsTrue NothingLeftBehind
PROPERTIES ClientsAnswered KeepsContract
CHECK_DEADLOCK FALSE
