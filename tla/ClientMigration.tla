--------------------------- MODULE ClientMigration ---------------------------
(***************************************************************************)
(* oo7::migrate (client/src/migration.rs): an application moves its items  *)
(* from the Secret Service of the host to its keyring file, while other    *)
(* clients use the service, another process writes the file, calls fail    *)
(* and the application is killed and tries again.                          *)
(*                                                                         *)
(* An item of the service has a path and keeps its attributes; Collection  *)
(* has the daemon's side.  The file is read and replaced as a whole;       *)
(* UnlockedKeyring has the steps of that.                                  *)
(***************************************************************************)
EXTENDS Naturals, Sequences, SequencesExt

CONSTANTS
  Paths,       \* items of the service
  AttrsOf,     \* and their attributes
  Values,      \* secrets
  NoValue,     \* there is no such item
  Queries,     \* the sets of attributes that migrate is called with, in their order
  OtherItem,   \* what the other process stores in the file
  LateEdits,   \* whether items are changed between their reading and their deletion
  Budget       \* how many migrations, failures, kills, changes by others there may be

Entry == [attributes : {AttrsOf[p] : p \in Paths} \cup {OtherItem.attributes},
          value : Values]

ASSUME MigrationAssumption ==
  /\ IsFiniteSet(Paths) /\ DOMAIN AttrsOf = Paths
  /\ Queries \in Seq(Range(Queries))
  /\ NoValue \notin Values
  /\ OtherItem \in Entry
  /\ LateEdits \in BOOLEAN
  /\ Budget \in [{"call", "fault", "kill", "edit", "write"} -> Nat]

VARIABLES
  source,   \* the service: the secret of each item
  file,     \* the items of the keyring file
  pc, loc,  \* the migration: where it is, and its local variables
  answer,   \* what migrate returned
  owed,     \* history: the secret that clients stored last and did not delete
  plain,    \* history: whether a migration without replace wrote the file
  budget    \* what is left of Budget

vars == <<source, file, pc, loc, answer, owed, plain, budget>>

\* memory: the keyring as it was loaded; left: queries not yet asked; found: all_items;
\* new: new_items; gone: how many of found were gone through; failed: deletion_errors.
Local == [replace : BOOLEAN, memory : Seq(Entry), left : Seq(Range(Queries)),
          found : Seq(Paths), new : Seq(Entry), gone : Nat, failed : BOOLEAN]

Blank == [replace |-> FALSE, memory |-> <<>>, left |-> <<>>, found |-> <<>>,
          new |-> <<>>, gone |-> 0, failed |-> FALSE]

TypeOK ==
  /\ source \in [Paths -> Values \cup {NoValue}]
  /\ file \in Seq(Entry)
  /\ pc \in {"idle", "load", "search", "read", "create", "delete"}
  /\ loc \in Local
  /\ answer \in {"none", "ok", "error"}
  /\ owed \in [Paths -> Values \cup {NoValue}]
  /\ plain \in BOOLEAN
  /\ budget \in [{"call", "fault", "kill", "edit", "write"} -> Nat]

Spend(k) == budget[k] > 0 /\ budget' = [budget EXCEPT ![k] = @ - 1]

EntryOf(p) == [attributes |-> AttrsOf[p], value |-> source[p]]

\* Items that the migration has read and not yet deleted.
InHand(p) ==
  pc # "idle" /\ \E i \in DOMAIN loc.new : loc.found[i] = p /\ i > loc.gone

Fail == pc' = "idle" /\ answer' = "error"

-----------------------------------------------------------------------------
(* migrate *)

\* migrate obtains the secret from the portal ...
Start ==
  /\ pc = "idle" /\ Spend("call")
  /\ \E r \in BOOLEAN : loc' = [Blank EXCEPT !.replace = r, !.left = Queries]
  /\ pc' = "load" /\ answer' = "none"
  /\ UNCHANGED <<source, file, owed, plain>>

\* ... and when there is no portal, it does nothing and returns Ok.
NoPortal ==
  /\ pc = "idle" /\ Spend("call")
  /\ loc' = Blank /\ answer' = "ok"
  /\ UNCHANGED <<source, file, pc, owed, plain>>

Load ==
  /\ pc = "load"
  /\ loc' = [loc EXCEPT !.memory = file]
  /\ pc' = "search"
  /\ UNCHANGED <<source, file, answer, owed, plain, budget>>

Found(q) == {p \in Paths : source[p] # NoValue /\ q \subseteq AttrsOf[p]}

\* An item that two of the queries find is found twice.
Search ==
  /\ pc = "search"
  /\ IF loc.left = <<>> THEN pc' = "read" /\ UNCHANGED loc
     ELSE /\ \E found \in SetToSeqs(Found(Head(loc.left))) :
               loc' = [loc EXCEPT !.left = Tail(@), !.found = @ \o found]
          /\ UNCHANGED pc
  /\ UNCHANGED <<source, file, answer, owed, plain, budget>>

\* The calls for the attributes, the label and the secret fail when the item is gone.
Read ==
  /\ pc = "read"
  /\ LET n == Len(loc.new) + 1
     IN IF n > Len(loc.found) THEN pc' = "create" /\ UNCHANGED <<loc, answer>>
        ELSE IF source[loc.found[n]] = NoValue THEN Fail /\ UNCHANGED loc
        ELSE /\ loc' = [loc EXCEPT !.new = Append(@, EntryOf(loc.found[n]))]
             /\ UNCHANGED <<pc, answer>>
  /\ UNCHANGED <<source, file, owed, plain, budget>>

\* Mutant: the items that a new one replaces are not removed.
MutAdded(entries, e) == Append(entries, e)

\* Without those of the entries that have the attributes of e.
Without(entries, e) ==
  LET kept[n \in 0 .. Len(entries)] ==
        IF n = 0 THEN <<>>
        ELSE IF e.attributes \subseteq entries[n].attributes THEN kept[n - 1]
        ELSE Append(kept[n - 1], entries[n])
  IN kept[Len(entries)]

Added(entries, e) == Append(IF loc.replace THEN Without(entries, e) ELSE entries, e)

\* The items are put in one after the other.
Written ==
  LET after[n \in 0 .. Len(loc.new)] ==
        IF n = 0 THEN loc.memory ELSE Added(after[n - 1], loc.new[n])
  IN after[Len(loc.new)]

Write ==
  /\ file' = Written
  /\ plain' = (plain \/ ~loc.replace)

\* Mutant: an error of create_items is noted and the items are deleted all the same.
MutGiveUp == pc' = "delete" /\ UNCHANGED answer

GiveUp == Fail

\* create_items writes all of them at once, unless the file was changed since it was
\* loaded; it may fail before the file is replaced, or after, when it reads the time stamp.
CreateItems ==
  /\ pc = "create"
  /\ \/ file = loc.memory /\ Write /\ pc' = "delete" /\ UNCHANGED <<answer, budget>>
     \/ file # loc.memory /\ GiveUp /\ UNCHANGED <<file, plain, budget>>
     \/ Spend("fault") /\ GiveUp /\ UNCHANGED <<file, plain>>
     \/ file = loc.memory /\ Spend("fault") /\ Write /\ GiveUp
  /\ UNCHANGED <<source, loc, owed>>

\* Mutant: errors of the deletions are not reported.
MutAnswer == "ok"

Answer == IF loc.failed THEN "error" ELSE "ok"

\* The items are deleted one by one, whether or not the one before could be.
Delete ==
  /\ pc = "delete"
  /\ IF loc.gone = Len(loc.found)
     THEN /\ pc' = "idle" /\ answer' = Answer
          /\ UNCHANGED <<source, loc, budget>>
     ELSE LET p == loc.found[loc.gone + 1]
          IN /\ \/ /\ source[p] # NoValue
                   /\ source' = [source EXCEPT ![p] = NoValue]
                   /\ loc' = [loc EXCEPT !.gone = @ + 1]
                   /\ UNCHANGED budget
                \/ /\ IF source[p] = NoValue THEN UNCHANGED budget ELSE Spend("fault")
                   /\ loc' = [loc EXCEPT !.gone = @ + 1, !.failed = TRUE]
                   /\ UNCHANGED source
             /\ UNCHANGED <<pc, answer>>
  /\ UNCHANGED <<file, owed, plain>>

\* Any other call may fail, and `?` returns its error.
CallFails ==
  /\ pc \in {"load", "search", "read"} /\ Spend("fault")
  /\ Fail
  /\ UNCHANGED <<source, file, loc, owed, plain>>

Killed ==
  /\ pc # "idle" /\ Spend("kill")
  /\ pc' = "idle" /\ loc' = Blank
  /\ UNCHANGED <<source, file, answer, owed, plain>>

-----------------------------------------------------------------------------
(* Others *)

\* Another client of the service sets the secret of an item, or deletes the item.
Edit(p, v) ==
  /\ source[p] # NoValue /\ source[p] # v /\ Spend("edit")
  /\ v = NoValue \/ LateEdits \/ ~InHand(p)
  /\ source' = [source EXCEPT ![p] = v]
  /\ owed' = [owed EXCEPT ![p] = v]
  /\ UNCHANGED <<file, pc, loc, answer, plain>>

\* Another process stores an item in the keyring file.
OtherWrites ==
  /\ Spend("write")
  /\ file' = Append(file, OtherItem)
  /\ UNCHANGED <<source, pc, loc, answer, owed, plain>>

-----------------------------------------------------------------------------

Init ==
  /\ source \in [Paths -> Values]
  /\ file = <<>> /\ plain = FALSE
  /\ pc = "idle" /\ loc = Blank /\ answer = "none"
  /\ owed = source
  /\ budget = Budget

Migrate == Start \/ NoPortal \/ Load \/ Search \/ Read \/ CreateItems \/ Delete \/ CallFails

Next == Migrate \/ Killed \/ OtherWrites
          \/ \E p \in Paths, v \in Values \cup {NoValue} : Edit(p, v)

Spec == Init /\ [][Next]_vars

-----------------------------------------------------------------------------
(* Properties *)

InFile(e) == \E i \in DOMAIN file : file[i] = e

\* What a client stored and nobody deleted is in the service or in the file, wherever a
\* migration failed or was killed, and however often it is tried again.
NothingLost ==
  \A p \in Paths : owed[p] # NoValue =>
    source[p] = owed[p] \/ InFile([attributes |-> AttrsOf[p], value |-> owed[p]])

\* "If the migration is successful, the items are removed from the host Secret Service"
\* (migration.rs:8), and everything that was read is in the file.
OkMeansMoved ==
  answer = "ok" =>
    /\ \A i \in DOMAIN loc.found : source[loc.found[i]] = NoValue
    /\ \A i \in DOMAIN loc.new : InFile(loc.new[i])

\* With replace, a migration that is tried again, or whose queries overlap, leaves one
\* item in the file for each in the service.
ReplaceKeepsOne ==
  ~plain => \A i, j \in DOMAIN file :
    file[i].attributes = file[j].attributes /\ file[i] # OtherItem => i = j

\* The types, and ReplaceKeepsOne.
WellFormed == TypeOK /\ ReplaceKeepsOne
===============================================================================
