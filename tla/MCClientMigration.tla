-------------------------- MODULE MCClientMigration --------------------------
(* Small instances of ClientMigration for TLC. *)
EXTENDS ClientMigration, TLC

CONSTANTS p1, p2, a, b, c, v1, v2

\* Two items that share an attribute.
Apart  == (p1 :> {a, b}) @@ (p2 :> {a, c})

\* Of the two queries the second finds an item again.
Overlapping == <<{a}, {b}>>
Shared == <<{a}>>

Other == [attributes |-> {c}, value |-> v1]

BudgetOf(calls, faults, kills, edits, writes) ==
  ("call" :> calls) @@ ("fault" :> faults) @@ ("kill" :> kills) @@ ("edit" :> edits)
    @@ ("write" :> writes)
Plenty == BudgetOf(3, 2, 2, 2, 1)
OneEdit == BudgetOf(1, 0, 0, 1, 0)
===============================================================================
