SPECIFICATION Spec
CONSTANTS
  i1 = i1  i2 = i2  i3 = i3  s1 = s1  s2 = s2  t1 = t1  t2 = t2
  Names = {"login", "wallet"}
  Login = "login"
  PathOf <- Paths
  V0 = {"login"}
  KWallets = {"wallet"}
  LegacyItems <- ItemsOf
  PasswordOf <- PasswordsOf
  NewItems = {i3}
  Secrets = {s1, s2}
  NoSecret = NoSecret
  StartSecrets = {NoSecret, s2}
  LoginSecrets = {s1}
  Typed <- TypedRight
  NewNames = {"wallet"}
  Aliases = {"default"}
  Tasks = {t1, t2}
  Boot = Boot
  NoWorker = NoWorker  NoObject = NoObject  NoFile = NoFile
  OpsOf <- SplitOps
  Objects = {1, 2, 3, 4, 5, 6, 7, 8}
  Budget <- Calls2
INVARIANTS StampedWereMoved
CHECK_DEADLOCK FALSE
