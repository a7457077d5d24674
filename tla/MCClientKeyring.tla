--------------------------- MODULE MCClientKeyring ---------------------------
(* Small instances of ClientKeyring for TLC. *)
EXTENDS ClientKeyring, TLC

CONSTANTS a, b, c, v1, v2, h1, h2, keyringLock, t1, t2, t3

Flat == {{a}, {b}}
FlatItems == <<{a}, {b}>>

BudgetOf(n, f) == ("call" :> n) @@ ("fault" :> f)
Calls4 == BudgetOf(4, 0)
Calls3 == BudgetOf(3, 1)

\* The second task makes no call that removes an entry from the list.
NotTwoEditors == (t1 :> KeyringOp \cup ItemOp) @@
  (t2 :> {"lock", "unlock", "create", "search", "lockItem", "unlockItem", "readItem"})
TwoEditors == (t1 :> {"setAttributes"}) @@ (t2 :> {"search", "set", "replace"})
ThreeTasks == (t1 :> {"setAttributes"}) @@ (t2 :> {"set"}) @@ (t3 :> {"lock"})
OneCaller == (t1 :> KeyringOp \cup ItemOp)
===============================================================================
