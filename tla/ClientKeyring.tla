---------------------------- MODULE ClientKeyring ----------------------------
(***************************************************************************)
(* oo7::Keyring and oo7::Item with the file backend (client/src/keyring.rs)*)
(* as the tasks of one application use them: the RwLock around the keyring,*)
(* one RwLock for each Item, and what a call does between their guards.    *)
(*                                                                         *)
(* A call of the backend, file::UnlockedKeyring, is taken as two steps, a  *)
(* change in memory and a write of the file; UnlockedKeyring has the rest. *)
(***************************************************************************)
EXTENDS Naturals, Sequences, FiniteSets, SequencesExt

CONSTANTS
  Attributes,  \* the sets of attributes that items may have
  Values,      \* secrets and labels
  OwnAttributes, \* those of the items that are there at first, in their order
  FirstValue,  \* and their value
  Handles,     \* Items that the application may have
  Shared,      \* stands for the keyring among the RwLocks
  Tasks, NoTask,
  OpsOf,       \* the calls that each task may make
  Budget       \* how many calls, failures and dropped futures there may be

KeyringOp == {"lock", "unlock", "create", "replace", "delete", "search", "isLocked"}
ItemOp == {"set", "setAttributes", "lockItem", "unlockItem", "deleteItem", "readItem"}

ASSUME ClientKeyringAssumption ==
  /\ OwnAttributes \in Seq(Attributes) \ {<<>>} /\ FirstValue \in Values
  /\ \A a \in Attributes : IsFiniteSet(a)
  /\ NoTask \notin Tasks /\ Handles # {}
  /\ Shared \notin Handles
  /\ OpsOf \in [Tasks -> SUBSET (KeyringOp \cup ItemOp)]
  /\ Budget \in [{"call", "fault"} -> Nat]

Locks == Handles \cup {Shared}
Entry == [attributes : Attributes, value : Values]

VARIABLES
  keyring,  \* Option<file::Keyring>
  item,     \* of each handle: Option<file::Item>, and the item itself
  lock,     \* the RwLocks
  memory,   \* the items of the keyring
  file,     \* and of its file
  pc, loc,  \* of each task: where it is, and its local variables
  acked,    \* history: entries whose call answered Ok, and that no call was made against
  broken,   \* history: what was in the hands of a call that failed or was dropped
  budget    \* what is left of Budget

vars == <<keyring, item, lock, memory, file, pc, loc, acked, broken, budget>>

Lock == [readers : SUBSET Tasks, writer : Tasks \cup {NoTask},
         queue : Seq(Tasks)]

\* index: what lookup_item_index found; own: the attributes that it looked for.
Local == [op : KeyringOp \cup ItemOp \cup {"none"}, handle : Handles, attributes : Attributes,
          value : Values, own : Attributes, index : Nat]

TypeOK ==
  /\ keyring \in {"locked", "unlocked", "none"}
  /\ item \in [Handles -> [state : {"unused", "locked", "unlocked", "none"},
                           attributes : Attributes, value : Values]]
  /\ lock \in [Locks -> Lock]
  /\ memory \in Seq(Entry) /\ file \in Seq(Entry)
  /\ pc \in [Tasks -> {"idle", "first", "second", "lookup", "edit", "write", "crypt", "unlock"}]
  /\ loc \in [Tasks -> Local]
  /\ acked \subseteq Entry /\ broken \subseteq Locks
  /\ budget \in [{"call", "fault"} -> Nat]

AnyHandle == CHOOSE h \in Handles : TRUE
Blank == [op |-> "none", handle |-> AnyHandle, attributes |-> OwnAttributes[1],
          value |-> FirstValue, own |-> OwnAttributes[1], index |-> 0]

Spend(k) == budget[k] > 0 /\ budget' = [budget EXCEPT ![k] = @ - 1]

\* Vec::retain: the elements of s that are in S, in their order.
Kept(s, S) ==
  LET kept[n \in 0 .. Len(s)] ==
        IF n = 0 THEN <<>>
        ELSE IF s[n] \in S THEN Append(kept[n - 1], s[n]) ELSE kept[n - 1]
  IN kept[Len(s)]

-----------------------------------------------------------------------------
(* RwLocks: first come, first served; a reader waits behind a waiting writer *)

\* Mutant: set_attributes takes the keyring for itself.
MutFirstGuard(l) ==
  CASE l.op \in {"lock", "unlock", "setAttributes"} -> [on |-> Shared, write |-> TRUE]
    [] l.op \in {"create", "replace", "delete", "search", "isLocked"} ->
         [on |-> Shared, write |-> FALSE]
    [] l.op \in {"set", "lockItem", "unlockItem"} -> [on |-> l.handle, write |-> TRUE]
    [] l.op \in {"deleteItem", "readItem"} -> [on |-> l.handle, write |-> FALSE]

\* The guard that a call takes first: keyring.rs takes the item's and then the keyring's,
\* but for set_attributes.
FirstGuard(l) ==
  CASE l.op \in {"lock", "unlock"} -> [on |-> Shared, write |-> TRUE]
    [] l.op \in {"create", "replace", "delete", "search", "isLocked", "setAttributes"} ->
         [on |-> Shared, write |-> FALSE]
    [] l.op \in {"set", "lockItem", "unlockItem"} -> [on |-> l.handle, write |-> TRUE]
    [] l.op \in {"deleteItem", "readItem"} -> [on |-> l.handle, write |-> FALSE]

SecondGuard(l) ==
  IF l.op = "setAttributes" THEN [on |-> l.handle, write |-> TRUE]
                            ELSE [on |-> Shared, write |-> FALSE]

Wanted(t) == IF pc[t] = "first" THEN FirstGuard(loc[t]) ELSE SecondGuard(loc[t])

\* Mutant: a writer does not wait for the readers.
MutGrants(t, g) == lock[g.on].queue = <<>> /\ lock[g.on].writer = NoTask

Grants(t, g) ==
  LET k == lock[g.on]
  IN /\ IF k.queue = <<>> THEN TRUE ELSE Head(k.queue) = t
     /\ k.writer = NoTask
     /\ g.write => k.readers = {}

Taken(t, g) ==
  [lock EXCEPT ![g.on] =
     [readers |-> IF g.write THEN {} ELSE @.readers \cup {t},
      writer |-> IF g.write THEN t ELSE NoTask,
      queue |-> IF @.queue = <<>> THEN <<>> ELSE Tail(@.queue)]]

LeftBy(queue, t) == Kept(queue, {u \in ToSet(queue) : u # t})

Released(t) ==
  [k \in Locks |-> [readers |-> lock[k].readers \ {t},
                    writer |-> IF lock[k].writer = t THEN NoTask ELSE lock[k].writer,
                    queue |-> LeftBy(lock[k].queue, t)]]

Enqueue(t) ==
  LET g == Wanted(t)
  IN /\ pc[t] \in {"first", "second"}
     /\ ~Grants(t, g)
     /\ \A i \in DOMAIN lock[g.on].queue : lock[g.on].queue[i] # t
     /\ lock' = [lock EXCEPT ![g.on].queue = Append(@, t)]
     /\ UNCHANGED <<keyring, item, memory, file, pc, loc, acked, broken, budget>>

-----------------------------------------------------------------------------
(* The backend's list of items *)

Matches(e, a) == a \subseteq e.attributes

MutFirstMatch(a) == Cardinality({i \in DOMAIN memory : Matches(memory[i], a)})

\* lookup_item_index; 0 stands for None.
FirstMatch(a) ==
  LET found == {i \in DOMAIN memory : Matches(memory[i], a)}
  IN IF found = {} THEN 0 ELSE CHOOSE i \in found : \A j \in found : i <= j

Without(a) == Kept(memory, {e \in ToSet(memory) : ~Matches(e, a)})

New(l) == [attributes |-> l.attributes, value |-> l.value]

\* What the backend makes of a call.
Edited(l) ==
  CASE l.op = "create" -> Append(memory, New(l))
    [] l.op \in {"replace", "set"} -> Append(Without(l.attributes), New(l))
    [] l.op \in {"delete", "deleteItem"} -> Without(l.attributes)
    [] l.op = "setAttributes" ->
         IF l.index = 0 THEN Append(Without(l.attributes), New(l))
                        ELSE [memory EXCEPT ![l.index] = New(l)]

\* The entries that the caller means to be gone.
Meant(l) ==
  CASE l.op = "create" -> {}
    [] l.op = "setAttributes" ->
         {e \in acked : IF l.index = 0 THEN Matches(e, l.attributes) ELSE e.attributes = l.own}
    [] OTHER -> {e \in acked : Matches(e, l.attributes)}

-----------------------------------------------------------------------------
(* Calls *)

Goto(t, label, local) == pc' = [pc EXCEPT ![t] = label] /\ loc' = [loc EXCEPT ![t] = local]

\* The call returns, or its future is dropped: its guards are released.
Return(t) ==
  /\ Goto(t, "idle", Blank)
  /\ lock' = Released(t)

Call(t, op) ==
  /\ pc[t] = "idle" /\ Spend("call")
  /\ \E h \in Handles, a \in Attributes, v \in Values :
       /\ op \in ItemOp => item[h].state # "unused"
       /\ op = "search" => item[h].state = "unused"
       /\ op \notin ItemOp \cup {"search"} => h = AnyHandle
       /\ op \notin {"create", "replace", "delete", "search", "setAttributes"} => a = Blank.attributes
       /\ op \notin {"create", "replace", "set"} => v = FirstValue
       /\ Goto(t, "first", [Blank EXCEPT !.op = op, !.handle = h, !.attributes = a, !.value = v])
  /\ UNCHANGED <<keyring, item, lock, memory, file, acked, broken>>

\* Keyring: lock has nothing to wait for, unlock takes the keyring out of its Option.
LockKeyring(t) ==
  /\ loc[t].op = "lock"
  /\ keyring' = IF keyring = "unlocked" THEN "locked" ELSE keyring
  /\ Return(t)
  /\ UNCHANGED item

UnlockKeyring(t) ==
  /\ loc[t].op = "unlock"
  /\ IF keyring = "locked"
       THEN /\ keyring' = "none"
            /\ Goto(t, "unlock", loc[t])
            /\ lock' = Taken(t, FirstGuard(loc[t]))
       ELSE Return(t) /\ UNCHANGED keyring
  /\ UNCHANGED item

Unlocked(t) ==
  /\ pc[t] = "unlock"
  /\ \/ /\ keyring' = "unlocked"
        /\ UNCHANGED <<broken, budget>>
     \/ Spend("fault") /\ broken' = broken \cup {Shared} /\ UNCHANGED keyring
  /\ Return(t)
  /\ UNCHANGED <<item, memory, file, acked>>

\* Keyring: create_item, delete, search_items; Item: set_attributes.
WithKeyring(t) ==
  LET l == loc[t]
  IN /\ l.op \in {"create", "replace", "delete", "setAttributes"}
     /\ IF keyring = "unlocked"
          THEN /\ Goto(t, IF l.op = "setAttributes" THEN "second" ELSE "edit", l)
               /\ lock' = Taken(t, FirstGuard(l))
          ELSE Return(t)
     /\ UNCHANGED <<keyring, item>>

\* The handle is a copy of the first item found.
Search(t) ==
  LET l == loc[t]
      i == FirstMatch(l.attributes)
  IN /\ l.op = "search"
     /\ item' = IF keyring = "unlocked" /\ i # 0 /\ item[l.handle].state = "unused"
                  THEN [item EXCEPT ![l.handle] =
                         [state |-> "unlocked", attributes |-> memory[i].attributes,
                          value |-> memory[i].value]]
                  ELSE item
     /\ Return(t)
     /\ UNCHANGED keyring

\* Item: set_secret and set_label change the copy before they ask for the keyring.
Set(t) ==
  LET l == loc[t]
      own == item[l.handle].attributes
  IN /\ l.op = "set"
     /\ IF item[l.handle].state = "unlocked"
          THEN /\ item' = [item EXCEPT ![l.handle].value = l.value]
               /\ Goto(t, "second", [l EXCEPT !.attributes = own, !.own = own])
               /\ lock' = Taken(t, FirstGuard(l))
          ELSE Return(t) /\ UNCHANGED item
     /\ UNCHANGED keyring

\* Item: lock and unlock take the item out of its Option.
Turn(t) ==
  LET l == loc[t]
  IN /\ l.op \in {"lockItem", "unlockItem"}
     /\ IF item[l.handle].state = (IF l.op = "lockItem" THEN "unlocked" ELSE "locked")
          THEN /\ item' = [item EXCEPT ![l.handle].state = "none"]
               /\ Goto(t, "second", l)
               /\ lock' = Taken(t, FirstGuard(l))
          ELSE Return(t) /\ UNCHANGED item
     /\ UNCHANGED keyring

\* Item: delete.
DeleteItem(t) ==
  LET own == item[loc[t].handle]
  IN /\ loc[t].op = "deleteItem"
     /\ IF own.state = "unlocked"
          THEN /\ Goto(t, "second", [loc[t] EXCEPT !.attributes = own.attributes])
               /\ lock' = Taken(t, FirstGuard(loc[t]))
          ELSE Return(t)
     /\ UNCHANGED <<keyring, item>>

\* The getters.
Look(t) == loc[t].op = "isLocked" /\ Return(t) /\ UNCHANGED <<keyring, item>>
ReadItem(t) == loc[t].op = "readItem" /\ Return(t) /\ UNCHANGED <<keyring, item>>

First(t) ==
  /\ pc[t] = "first" /\ Grants(t, FirstGuard(loc[t]))
  /\ \/ LockKeyring(t) \/ UnlockKeyring(t) \/ WithKeyring(t) \/ Search(t)
     \/ Set(t) \/ Turn(t) \/ DeleteItem(t) \/ Look(t) \/ ReadItem(t)
  /\ UNCHANGED <<memory, file, acked, broken, budget>>

Is(op) == IF op = "lockItem" THEN "unlocked" ELSE "locked"

\* What a call has taken out of its Option.
InHand(t) ==
  IF pc[t] = "unlock" THEN {Shared}
  ELSE IF pc[t] \in {"second", "crypt"} /\ loc[t].op \in {"lockItem", "unlockItem"}
  THEN {loc[t].handle} ELSE {}

\* Mutant: the item is not put back when the keyring turns out to be locked.
MutPutBack(l) == item' = item

\* The item goes back to its Option.
PutBack(l) ==
  item' = IF l.op \in {"lockItem", "unlockItem"}
            THEN [item EXCEPT ![l.handle].state = Is(l.op)] ELSE item

\* The second guard; a keyring that is locked ends the call, and one that is not there
\* its task.
Second(t) ==
  LET l == loc[t]
  IN /\ pc[t] = "second" /\ Grants(t, SecondGuard(l))
     /\ \/ /\ l.op # "setAttributes" /\ keyring = "unlocked"
           /\ Goto(t, IF l.op \in {"lockItem", "unlockItem"} THEN "crypt" ELSE "edit", l)
           /\ lock' = Taken(t, SecondGuard(l))
           /\ UNCHANGED <<item, broken>>
        \/ /\ l.op # "setAttributes" /\ keyring = "locked"
           /\ Return(t)
           /\ PutBack(l)
           /\ UNCHANGED broken
        \/ /\ l.op # "setAttributes" /\ keyring = "none"
           /\ Return(t)
           /\ broken' = broken \cup InHand(t)
           /\ UNCHANGED item
        \/ /\ l.op = "setAttributes" /\ item[l.handle].state = "unlocked"
           /\ Goto(t, "lookup", l)
           /\ lock' = Taken(t, SecondGuard(l))
           /\ UNCHANGED <<item, broken>>
        \/ /\ l.op = "setAttributes" /\ item[l.handle].state # "unlocked"
           /\ Return(t) /\ UNCHANGED <<item, broken>>
     /\ UNCHANGED <<keyring, memory, file, acked, budget>>

\* lock_item and unlock_item may fail, and the item is gone then.
Crypt(t) ==
  LET l == loc[t]
  IN /\ pc[t] = "crypt"
     /\ \/ /\ item' = [item EXCEPT ![l.handle].state =
                        IF l.op = "lockItem" THEN "locked" ELSE "unlocked"]
           /\ UNCHANGED <<broken, budget>>
        \/ Spend("fault") /\ broken' = broken \cup {l.handle} /\ UNCHANGED item
     /\ Return(t)
     /\ UNCHANGED <<keyring, memory, file, acked>>

\* set_attributes: the index of the first item with the old attributes.
Lookup(t) ==
  LET h == loc[t].handle
      own == item[h].attributes
  IN /\ pc[t] = "lookup"
     /\ Goto(t, "edit", [loc[t] EXCEPT !.own = own, !.index = FirstMatch(own),
                                       !.value = item[h].value])
     /\ item' = [item EXCEPT ![h].attributes = loc[t].attributes]
     /\ UNCHANGED <<keyring, lock, memory, file, acked, broken, budget>>

\* An index that is no longer there is an error.
Edit(t) ==
  LET l == loc[t]
  IN /\ pc[t] = "edit"
     /\ IF l.index > Len(memory)
          THEN Return(t) /\ UNCHANGED <<memory, acked>>
          ELSE /\ memory' = Edited(l)
               /\ acked' = acked \ Meant(l)
               /\ Goto(t, "write", l)
               /\ UNCHANGED lock
     /\ UNCHANGED <<keyring, item, file, broken, budget>>

Written(l) == memory

Write(t) ==
  LET l == loc[t]
  IN /\ pc[t] = "write"
     /\ \/ /\ file' = Written(l)
           /\ acked' = IF l.op \notin {"delete", "deleteItem"} /\ New(l) \in ToSet(memory)
                         THEN acked \cup {New(l)} ELSE acked
           /\ UNCHANGED budget
        \/ Spend("fault") /\ UNCHANGED <<file, acked>>
     /\ Return(t)
     /\ UNCHANGED <<keyring, item, memory, broken>>

\* The application drops the future of a call, where it waits.
Cancel(t) ==
  /\ pc[t] # "idle" /\ Spend("fault")
  /\ Return(t)
  /\ broken' = broken \cup InHand(t)
  /\ UNCHANGED <<keyring, item, memory, file, acked>>

Step(t) ==
  \/ Enqueue(t) \/ First(t) \/ Second(t) \/ Unlocked(t) \/ Crypt(t) \/ Lookup(t) \/ Edit(t)
  \/ Write(t)

\* An application that has opened its keyring, and has an Item for its first entry.
Init ==
  /\ keyring = "unlocked"
  /\ memory = [i \in DOMAIN OwnAttributes |->
                 [attributes |-> OwnAttributes[i], value |-> FirstValue]]
  /\ file = memory
  /\ item = [h \in Handles |->
       [state |-> IF h = AnyHandle THEN "unlocked" ELSE "unused",
        attributes |-> OwnAttributes[1], value |-> FirstValue]]
  /\ lock = [k \in Locks |-> [readers |-> {}, writer |-> NoTask, queue |-> <<>>]]
  /\ pc = [t \in Tasks |-> "idle"] /\ loc = [t \in Tasks |-> Blank]
  /\ acked = ToSet(memory) /\ broken = {}
  /\ budget = Budget

Next ==
  \E t \in Tasks : Step(t) \/ Cancel(t) \/ \E op \in OpsOf[t] : Call(t, op)

Spec == Init /\ [][Next]_vars

\* The runtime polls every task that can go on.
Fairness == \A t \in Tasks : WF_vars(Step(t))

FairSpec == Spec /\ Fairness

-----------------------------------------------------------------------------
(* Properties *)

\* An entry whose call answered Ok stays in the file, until a call is made that is to
\* remove or replace it: not one about other attributes, whose index has moved.
AckedStay == acked \subseteq ToSet(file)

\* set_attributes replaces the item that the handle stands for.
EditsOwnItem ==
  \A t \in Tasks :
    pc[t] = "edit" /\ loc[t].op = "setAttributes" /\ loc[t].index # 0 =>
      loc[t].index \in DOMAIN memory /\ memory[loc[t].index].attributes = loc[t].own

Empty == {h \in Handles : item[h].state = "none"} \cup (IF keyring = "none" THEN {Shared} ELSE {})

\* Whatever is taken out of an Option is put back, but for a call that failed or was dropped
\* while it had it in hand.
NothingLeftTaken == Empty \subseteq broken \cup UNION {InHand(t) : t \in Tasks}

\* The types, and what is where the code expects it.
WellFormed == TypeOK /\ NothingLeftTaken

\* While the keyring is locked, nothing changes in memory or in the file, also by a call
\* that found it unlocked.
LockedUntouched ==
  [][memory' # memory \/ file' # file => keyring = "unlocked" /\ keyring' = "unlocked"]_vars

\* Every call returns: no two wait for each other's guards.
CallsReturn == \A t \in Tasks : pc[t] # "idle" ~> pc[t] = "idle"
===============================================================================
