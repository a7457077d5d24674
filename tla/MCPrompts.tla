------------------------------ MODULE MCPrompts ------------------------------
(* Small instances of Prompts for TLC. *)
EXTENDS Prompts, TLC

CONSTANTS u, v, k, x, c1, c2, d1, d2, s1, s2

\* One client unlocks and creates, the other changes the password.
MCOwnerOf == (u :> c1) @@ (v :> c2) @@ (k :> c1) @@ (x :> c2)
MCRoleOf == (u :> "unlock") @@ (v :> "unlock") @@ (k :> "create") @@ (x :> "change")

Owners == [p \in Prompts |-> {MCOwnerOf[p]}]
Everybody == [p \in Prompts |-> Clients]

OwnersOf == [p \in Prompts |-> MCOwnerOf[p]]
RolesOf == [p \in Prompts |-> MCRoleOf[p]]

\* A locked collection, also with items that its password does not decrypt, and one
\* that is open and has no password.
LockedOrPlain ==
  [state : {"locked"}, password : {s1}, broken : {"none", "some", "most"}]
  \cup {[state |-> "unlocked", password |-> NoSecret, broken |-> "none"]}

BudgetOf(a, d, l, f) == ("answer" :> a) @@ ("dismiss" :> d) @@ ("lock" :> l) @@ ("fault" :> f)

Small == BudgetOf(2, 1, 1, 1)
===============================================================================
