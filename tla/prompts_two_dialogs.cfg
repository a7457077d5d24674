SPECIFICATION Spec
CONSTANTS
  u = u  v = v  k = k  x = x  c1 = c1  c2 = c2
  d1 = d1  d2 = d2  s1 = s1  s2 = s2
  Prompts = {u}
  Clients = {c1, c2}
  OwnerOf <- OwnersOf
  CallersOf <- Everybody
  RoleOf <- RolesOf
  Dialogs = {d1, d2}
  NoPrompt = NoPrompt  NoDialog = NoDialog
  Secrets = {s1}
  NoSecret = NoSecret
  InitialCollections <- LockedOrPlain
  Prompters = {"gnome", "plasma"}
  Budget <- Small
INVARIANTS OneDialog
CHECK_DEADLOCK FALSE
