SPECIFICATION FairSpec
CONSTANTS
  gdm = gdm  passwd = passwd  tty = tty
  Hosts = {gdm, passwd}
  CallsOf <- LoginAndPasswd
  AutoStart = {gdm}
  SameUser = {}
  Daemons = {d1, d2}
  Overlap = FALSE
  Replace = FALSE
  Helpers = {h1}
  OldPassword = old
  NewPassword = new
  NoPassword = NoPassword
  Credential = NoPassword
  Nobody = Nobody
  Budget <- OneCrashOneFault
INVARIANTS WellFormed ReceivedIsTried ListenerReachable
PROPERTIES SecretArrives
CHECK_DEADLOCK FALSE
