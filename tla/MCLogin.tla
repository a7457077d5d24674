------------------------------- MODULE MCLogin -------------------------------
(* Small instances of Login for TLC. *)
EXTENDS Login, TLC

CONSTANTS gdm, passwd, tty

LoginCalls == <<"authenticate", "open_session">>
ExpiredCalls == <<"authenticate", "chauthtok", "open_session">>

LoginAndPasswd == (gdm :> LoginCalls) @@ (passwd :> <<"chauthtok">>)
ExpiredLogin == gdm :> ExpiredCalls

OneCrashOneFault == ("crash" :> 1) @@ ("fault" :> 1)
NoTrouble == ("crash" :> 0) @@ ("fault" :> 0)
===============================================================================
