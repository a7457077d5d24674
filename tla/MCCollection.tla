----------------------------- MODULE MCCollection -----------------------------
(* Small instances of Collection for TLC. *)
EXTENDS Collection, TLC

CONSTANTS i1, i2, i3, t1, t2, a, b, s1, s2

\* i3 has the attributes of i1.
MCAttrsOf == [i \in Items |-> IF i = i2 THEN {b} ELSE {a}]

TwoItems == {<<i1, i2>>}
NoOrTwo  == {<<>>, <<i1, i2>>}
OneItem  == {<<i1>>}

\* One caller, or two of which only the first creates.
Alone    == t1 :> {"create", "deleteItem", "deleteCollection", "lock", "unlock", "pamUnlock",
                   "changePassword"}
Rekeys   == t1 :> {"lockItem", "changePassword", "lock", "unlock"}
Pair     == (t1 :> {"create", "lock", "unlock", "changePassword"})
         @@ (t2 :> {"deleteItem", "lock", "pamUnlock"})
Locker   == (t1 :> {"create"}) @@ (t2 :> {"lock"})
Deleter  == (t1 :> {"create"}) @@ (t2 :> {"deleteCollection"})
All      == [t \in {t1, t2} |-> Op]

BudgetOf(calls, faults) == [call |-> calls, fault |-> faults]
Calls2      == BudgetOf(2, 0)
Calls2Fault == BudgetOf(2, 1)
Calls3      == BudgetOf(3, 0)
Calls3Fault == BudgetOf(3, 1)
Calls4Fault == BudgetOf(4, 1)
Calls5      == BudgetOf(5, 0)
===============================================================================
