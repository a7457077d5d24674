------------------------------ MODULE MCService ------------------------------
(* Small instances of Service for TLC. *)
EXTENDS Service, TLC

CONSTANTS i1, i2, i3, s1, s2, t1, t2

\* Two files may go by one path.
Paths == [n \in Names |-> IF n = "Work" THEN "work" ELSE n]

ItemsOf == [s \in Sources |-> IF s[1] = "v0" THEN {i1} ELSE {i2}]
\* The wallet has another password than the login keyring, which PAM knows.
PasswordsOf == [s \in Sources |-> IF s[1] = "v0" THEN s1 ELSE s2]
TypedRight == [n \in Names |-> IF n = Login THEN {s1} ELSE {s2}]

BudgetOf(c, d, f) == ("call" :> c) @@ ("crash" :> d) @@ ("fault" :> f)
Calls2 == BudgetOf(2, 1, 1)

SplitOps == (t1 :> Op) @@ (t2 :> {"create", "unlock", "pam"})
===============================================================================
