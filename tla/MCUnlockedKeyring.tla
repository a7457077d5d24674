--------------------------- MODULE MCUnlockedKeyring ---------------------------
(* Small instances of UnlockedKeyring for TLC. *)
EXTENDS KeyringStoreRefinement, TLC

CONSTANTS i1, i2, i3, s1, s2, w, t1, t2, a, b

\* i1 and i2 share an attribute, i2 has one more: replacing with i1 replaces i2 and
\* not the other way round.  i3 has none and replaces everything.
MCAttrsOf == (i1 :> {a}) @@ (i2 :> {a, b}) @@ (i3 :> {})

MCQueries == {{}, {a}, {b}}

\* An existing keyring with one item, under s1.
OldFile ==
  [salt |-> 1, entries |-> {Encrypt(i1, KeyOf(s1, 1))}, mtime |-> 1, synced |-> TRUE]

\* One whose only good item is kept company by one under another key.
MixedFile == [OldFile EXCEPT !.entries = @ \cup {Encrypt(i2, KeyOf(s2, 1))}]

NoOrOldFile == {NoFile, OldFile}

AllFiles == {NoFile, OldFile, MixedFile}

(* Who may call what. *)

EditOps == {"create", "bulk", "delete", "replaceIndex", "deleteIndex", "deleteBroken"}

TwoEditors == (t1 :> EditOps \cup {"write", "search"}) @@ (t2 :> {"create", "bulk", "search", "write"})

OneCaller == [t \in {t1} |-> (EditOps \ {"deleteIndex"}) \cup {"write", "change"}]

BrokenAndWrite == (t1 :> {"create", "bulk", "delete", "deleteBroken", "write"}) @@ (t2 :> {"create", "peek"})

ChangeAndCreate == (t1 :> {"change"}) @@ (t2 :> {"create"})

ChangeAndSearch == (t1 :> {"change"}) @@ (t2 :> {"search"})

CreateAndWrite == [t \in {t1, t2} |-> {"create", "write", "peek"}]

AnyPoint == DumpLabels

BeforeStat == DumpLabels \ {"stat"}

BudgetOf(c, o, f, e, k) ==
  ("call" :> c) @@ ("new" :> o) @@ ("fault" :> f) @@ ("external" :> e) @@ ("crash" :> k)

Calls2         == BudgetOf(2, 1, 0, 0, 0)
Calls2Foreign  == BudgetOf(2, 1, 0, 1, 0)
Calls2External == BudgetOf(2, 1, 1, 1, 1)
Calls3         == BudgetOf(3, 1, 1, 0, 0)
Calls3Crash    == BudgetOf(3, 2, 1, 0, 1)
===============================================================================
