------------------------- MODULE ClientKeyringProofs -------------------------
(***************************************************************************)
(* What holds of ClientKeyring for all values of its constants.            *)
(*                                                                         *)
(*   Shape     what the steps need to know of the values: the fields of    *)
(*             the records, the labels, the operation of a call            *)
(*   GuardInv  which calls hold the keyring's RwLock, and that the keyring *)
(*             is unlocked under the eyes of those that read it            *)
(*   TypeInv   the types, and which calls may be at a label                *)
(*   AckInv    what is acknowledged is in the list and in the file         *)
(***************************************************************************)
EXTENDS ClientKeyring, FiniteSetTheorems, WellFoundedInduction, TLAPS

OwnOp == {"set", "lockItem", "unlockItem", "deleteItem", "setAttributes"}
Labels == {"idle", "first", "second", "lookup", "edit", "write", "crypt", "unlock"}

IsLocal(l) ==
  /\ DOMAIN l = {"op", "handle", "attributes", "value", "own", "index"}
  /\ l.handle \in Handles

\* What call may be at a label.
Suits(l, label) ==
  /\ label # "idle" => l.op \in KeyringOp \cup ItemOp
  /\ label = "second" => l.op \in OwnOp
  /\ label = "crypt" => l.op \in {"lockItem", "unlockItem"}

TaskShape ==
  /\ pc \in [Tasks -> Labels]
  /\ DOMAIN loc = Tasks
  /\ \A t \in Tasks : IsLocal(loc[t]) /\ Suits(loc[t], pc[t])

LockShape ==
  /\ DOMAIN lock = Locks
  /\ \A k \in Locks : DOMAIN lock[k] = {"readers", "writer", "queue"}

ItemShape ==
  /\ DOMAIN item = Handles
  /\ \A h \in Handles : DOMAIN item[h] = {"state", "attributes", "value"}

Shape ==
  /\ keyring \in {"locked", "unlocked", "none"}
  /\ TaskShape /\ LockShape /\ ItemShape

\* Calls that have the keyring's read guard.
Reading(t) ==
  \/ pc[t] \in {"lookup", "edit", "write", "crypt"}
  \/ pc[t] = "second" /\ loc[t].op = "setAttributes"

GuardInv ==
  /\ lock[Shared].writer # NoTask => lock[Shared].readers = {}
  /\ \A t \in Tasks : Reading(t) => t \in lock[Shared].readers /\ keyring = "unlocked"

-----------------------------------------------------------------------------
(* The operators *)

LEMMA AnyHandleType == AnyHandle \in Handles
BY ClientKeyringAssumption DEF AnyHandle

LEMMA SharedIsLock == Shared \in Locks /\ Handles \subseteq Locks /\ Shared \notin Handles
BY ClientKeyringAssumption DEF Locks

LEMMA BlankShape == IsLocal(Blank) /\ Suits(Blank, "idle")
BY AnyHandleType DEF Blank, IsLocal, Suits

LEMMA GotoShape ==
  ASSUME TaskShape, NEW t \in Tasks, NEW label \in Labels, NEW l,
         IsLocal(l), Suits(l, label), Goto(t, label, l)
  PROVE  TaskShape'
BY DEF TaskShape, Goto

LEMMA ReturnShape ==
  ASSUME TaskShape, LockShape, NEW t \in Tasks, Return(t)
  PROVE  TaskShape' /\ LockShape'
<1>1. TaskShape'
  BY BlankShape, GotoShape DEF Return, Labels
<1>2. LockShape'
  BY DEF Return, Released, LockShape
<1> QED
  BY <1>1, <1>2

LEMMA TakenShape ==
  ASSUME LockShape, NEW t \in Tasks, NEW g, lock' = Taken(t, g)
  PROVE  LockShape'
BY DEF LockShape, Taken

LEMMA FirstGuardType ==
  ASSUME NEW l, IsLocal(l), l.op \in KeyringOp \cup ItemOp
  PROVE  /\ FirstGuard(l).on \in Locks
         /\ FirstGuard(l).on = Shared => l.op \in KeyringOp \cup {"setAttributes"}
         /\ l.op \in {"lock", "unlock"} => FirstGuard(l).write = TRUE
         /\ FirstGuard(l).on = Shared /\ l.op \notin {"lock", "unlock"} =>
              FirstGuard(l).write = FALSE
         /\ l.op \in KeyringOp \cup {"setAttributes"} => FirstGuard(l).on = Shared
<1> l.handle \in Handles
  BY DEF IsLocal
<1>1. CASE l.op \in {"lock", "unlock"}
  BY <1>1, SharedIsLock DEF FirstGuard, KeyringOp
<1>2. CASE l.op \in {"create", "replace", "delete", "search", "isLocked", "setAttributes"}
  <2>1. FirstGuard(l) = [on |-> Shared, write |-> FALSE] /\ l.op \notin {"lock", "unlock"}
    BY <1>2 DEF FirstGuard
  <2>2. l.op \in KeyringOp \cup {"setAttributes"}
    BY <1>2 DEF KeyringOp
  <2>3. FirstGuard(l).on = Shared /\ FirstGuard(l).write = FALSE
    BY <2>1
  <2> QED
    BY <2>1, <2>2, <2>3, SharedIsLock
<1>3. CASE l.op \in {"set", "lockItem", "unlockItem"}
  BY <1>3, SharedIsLock DEF FirstGuard, KeyringOp
<1>4. CASE l.op \in {"deleteItem", "readItem"}
  BY <1>4, SharedIsLock DEF FirstGuard, KeyringOp
<1> QED
  BY <1>1, <1>2, <1>3, <1>4 DEF KeyringOp, ItemOp

LEMMA SecondGuardType ==
  ASSUME NEW l, IsLocal(l), l.op \in OwnOp
  PROVE  /\ SecondGuard(l).on \in Locks
         /\ SecondGuard(l).on = Shared => SecondGuard(l).write = FALSE
         /\ l.op = "setAttributes" => SecondGuard(l).on # Shared
         /\ l.op # "setAttributes" => SecondGuard(l).on = Shared
BY SharedIsLock DEF SecondGuard, IsLocal, OwnOp

-----------------------------------------------------------------------------
(* Shape *)

LEMMA InitShape == Init => Shape
<1> SUFFICES ASSUME Init PROVE Shape
  OBVIOUS
<1>1. TaskShape
  BY BlankShape DEF Init, TaskShape, Labels
<1>2. LockShape /\ ItemShape
  BY DEF Init, LockShape, ItemShape
<1> QED
  BY <1>1, <1>2 DEF Init, Shape

LEMMA CallShape ==
  ASSUME Shape, NEW t \in Tasks, NEW op \in OpsOf[t], Call(t, op)
  PROVE  Shape'
<1>1. PICK h \in Handles, a \in Attributes, v \in Values :
        Goto(t, "first", [Blank EXCEPT !.op = op, !.handle = h, !.attributes = a, !.value = v])
  BY DEF Call
<1> DEFINE l == [Blank EXCEPT !.op = op, !.handle = h, !.attributes = a, !.value = v]
<1>2. op \in KeyringOp \cup ItemOp
  BY ClientKeyringAssumption
<1>3. IsLocal(l) /\ Suits(l, "first")
  BY <1>2 DEF IsLocal, Suits, Blank
<1>4. TaskShape'
  <2> HIDE DEF l
  <2> QED BY <1>1, <1>3, GotoShape DEF Shape, Labels, l
<1> QED
  BY <1>4 DEF Call, Shape, LockShape, ItemShape

LEMMA FirstShape ==
  ASSUME Shape, NEW t \in Tasks, First(t)
  PROVE  Shape'
<1> USE DEF Shape
<1>0. IsLocal(loc[t]) /\ Suits(loc[t], "first") /\ pc[t] = "first"
  BY DEF First, TaskShape
<1>1. CASE LockKeyring(t)
  BY <1>1, ReturnShape DEF LockKeyring, ItemShape
<1>2. CASE UnlockKeyring(t)
  <2>1. Suits(loc[t], "unlock")
    BY <1>0 DEF Suits
  <2> QED
    BY <1>0, <1>2, <2>1, ReturnShape, GotoShape, TakenShape DEF UnlockKeyring, ItemShape, Labels
<1>3. CASE WithKeyring(t)
  <2>1. Suits(loc[t], "edit")
    BY <1>0 DEF Suits
  <2>2. loc[t].op = "setAttributes" => Suits(loc[t], "second")
    BY <1>0 DEF Suits, OwnOp
  <2> QED
    BY <1>0, <1>3, <2>1, <2>2, ReturnShape, GotoShape, TakenShape
       DEF WithKeyring, ItemShape, Labels
<1>4. CASE Search(t)
  <2>1. ItemShape'
    BY <1>4 DEF Search, ItemShape
  <2> QED
    BY <1>4, <2>1, ReturnShape DEF Search
<1>5. CASE Set(t)
  <2>1. ItemShape'
    BY <1>0, <1>5 DEF Set, ItemShape, IsLocal
  <2> DEFINE l == [loc[t] EXCEPT !.attributes = item[loc[t].handle].attributes,
                                 !.own = item[loc[t].handle].attributes]
  <2>2. IsLocal(l) /\ Suits(l, "second")
    BY <1>0, <1>5 DEF Set, IsLocal, Suits, OwnOp
  <2>3. CASE Goto(t, "second", l) /\ lock' = Taken(t, FirstGuard(loc[t]))
    <3> HIDE DEF l
    <3> QED BY <1>5, <2>1, <2>2, <2>3, GotoShape, TakenShape DEF Set, Labels
  <2>4. CASE Return(t)
    BY <1>5, <2>1, <2>4, ReturnShape DEF Set
  <2> QED
    BY <1>5, <2>3, <2>4 DEF Set
<1>6. CASE Turn(t)
  <2>1. ItemShape'
    BY <1>0, <1>6 DEF Turn, ItemShape, IsLocal
  <2>2. Suits(loc[t], "second")
    BY <1>0, <1>6 DEF Turn, Suits, OwnOp
  <2> QED
    BY <1>0, <1>6, <2>1, <2>2, ReturnShape, GotoShape, TakenShape DEF Turn, Labels
<1>7. CASE DeleteItem(t)
  <2> DEFINE l == [loc[t] EXCEPT !.attributes = item[loc[t].handle].attributes]
  <2>2. IsLocal(l) /\ Suits(l, "second")
    BY <1>0, <1>7 DEF DeleteItem, IsLocal, Suits, OwnOp
  <2>3. CASE Goto(t, "second", l) /\ lock' = Taken(t, FirstGuard(loc[t]))
    <3> HIDE DEF l
    <3> QED BY <1>7, <2>2, <2>3, GotoShape, TakenShape DEF DeleteItem, Labels, ItemShape
  <2>4. CASE Return(t)
    BY <1>7, <2>4, ReturnShape DEF DeleteItem, ItemShape
  <2> QED
    BY <1>7, <2>3, <2>4 DEF DeleteItem
<1>8. CASE Look(t) \/ ReadItem(t)
  BY <1>8, ReturnShape DEF Look, ReadItem, ItemShape
<1> QED
  BY <1>1, <1>2, <1>3, <1>4, <1>5, <1>6, <1>7, <1>8 DEF First

LEMMA SecondShape ==
  ASSUME Shape, NEW t \in Tasks, Second(t)
  PROVE  Shape'
<1> USE DEF Shape
<1>0. IsLocal(loc[t]) /\ Suits(loc[t], "second") /\ pc[t] = "second"
  BY DEF Second, TaskShape
<1>1. ItemShape' /\ keyring' = keyring
  BY <1>0 DEF Second, PutBack, ItemShape, IsLocal
<1>2. CASE Return(t)
  BY <1>1, <1>2, ReturnShape
<1>3. CASE /\ Goto(t, IF loc[t].op \in {"lockItem", "unlockItem"} THEN "crypt" ELSE "edit", loc[t])
           /\ lock' = Taken(t, SecondGuard(loc[t]))
  <2>1. Suits(loc[t], IF loc[t].op \in {"lockItem", "unlockItem"} THEN "crypt" ELSE "edit")
    BY <1>0 DEF Suits
  <2> QED
    BY <1>0, <1>1, <1>3, <2>1, GotoShape, TakenShape DEF Labels
<1>4. CASE Goto(t, "lookup", loc[t]) /\ lock' = Taken(t, SecondGuard(loc[t]))
  <2>1. Suits(loc[t], "lookup")
    BY <1>0 DEF Suits
  <2> QED
    BY <1>0, <1>1, <1>4, <2>1, GotoShape, TakenShape DEF Labels
<1> QED
  BY <1>2, <1>3, <1>4 DEF Second

\* The steps under the guards.
LEMMA LastShape ==
  ASSUME Shape, NEW t \in Tasks,
         Unlocked(t) \/ Crypt(t) \/ Lookup(t) \/ Edit(t) \/ Write(t) \/ Cancel(t)
  PROVE  Shape'
<1> USE DEF Shape
<1>0. IsLocal(loc[t]) /\ Suits(loc[t], pc[t])
  BY DEF TaskShape
<1>1. CASE Unlocked(t)
  BY <1>1, ReturnShape DEF Unlocked, ItemShape
<1>2. CASE Crypt(t)
  <2>1. ItemShape'
    BY <1>0, <1>2 DEF Crypt, ItemShape, IsLocal
  <2> QED
    BY <1>2, <2>1, ReturnShape DEF Crypt
<1>3. CASE Lookup(t)
  <2>1. ItemShape'
    BY <1>0, <1>3 DEF Lookup, ItemShape, IsLocal
  <2> DEFINE l == [loc[t] EXCEPT !.own = item[loc[t].handle].attributes,
                                 !.index = FirstMatch(item[loc[t].handle].attributes),
                                 !.value = item[loc[t].handle].value]
  <2>2. IsLocal(l) /\ Suits(l, "edit")
    BY <1>0, <1>3 DEF Lookup, IsLocal, Suits
  <2>3. Goto(t, "edit", l)
    BY <1>3 DEF Lookup
  <2> HIDE DEF l
  <2> QED
    BY <1>3, <2>1, <2>2, <2>3, GotoShape DEF Lookup, Labels, LockShape
<1>4. CASE Edit(t)
  <2>1. Suits(loc[t], "write")
    BY <1>0, <1>4 DEF Edit, Suits
  <2>2. CASE Return(t)
    BY <1>4, <2>2, ReturnShape DEF Edit, ItemShape
  <2>3. CASE Goto(t, "write", loc[t]) /\ UNCHANGED lock
    BY <1>0, <1>4, <2>1, <2>3, GotoShape DEF Edit, ItemShape, LockShape, Labels
  <2> QED
    BY <1>4, <2>2, <2>3 DEF Edit
<1>5. CASE Write(t)
  BY <1>5, ReturnShape DEF Write, ItemShape
<1>6. CASE Cancel(t)
  BY <1>6, ReturnShape DEF Cancel, ItemShape
<1> QED
  BY <1>1, <1>2, <1>3, <1>4, <1>5, <1>6

LEMMA NextShape == Shape /\ [Next]_vars => Shape'
<1> SUFFICES ASSUME Shape, [Next]_vars PROVE Shape'
  OBVIOUS
<1>1. ASSUME NEW t \in Tasks, NEW op \in OpsOf[t], Call(t, op) PROVE Shape'
  BY <1>1, CallShape
<1>2. ASSUME NEW t \in Tasks, Enqueue(t) PROVE Shape'
  BY <1>2 DEF Enqueue, Shape, TaskShape, LockShape, ItemShape
<1>3. ASSUME NEW t \in Tasks, Step(t) \/ Cancel(t) PROVE Shape'
  BY <1>2, <1>3, FirstShape, SecondShape, LastShape DEF Step
<1>4. CASE UNCHANGED vars
  BY <1>4 DEF vars, Shape, TaskShape, LockShape, ItemShape
<1> QED
  BY <1>1, <1>3, <1>4 DEF Next

LEMMA ShapeInvariant == Spec => []Shape
BY InitShape, NextShape, PTL DEF Spec

-----------------------------------------------------------------------------
(* The keyring's RwLock *)

\* A step that takes no guard of the keyring, and lets none go but those of t.
LEMMA OthersKeepReading ==
  ASSUME Shape, GuardInv, NEW t \in Tasks, UNCHANGED keyring,
         \A u \in Tasks \ {t} : pc'[u] = pc[u] /\ loc'[u] = loc[u],
         lock'[Shared].readers \in {lock[Shared].readers, lock[Shared].readers \ {t}},
         lock'[Shared].writer \in {lock[Shared].writer, NoTask},
         Reading(t)' => Reading(t) /\ lock'[Shared].readers = lock[Shared].readers
  PROVE  GuardInv'
<1>1. lock'[Shared].writer # NoTask => lock'[Shared].readers = {}
  BY DEF GuardInv
<1>2. ASSUME NEW u \in Tasks, Reading(u)'
      PROVE  u \in lock'[Shared].readers /\ keyring' = "unlocked"
  <2>1. CASE u = t
    BY <1>2, <2>1 DEF GuardInv
  <2>2. CASE u # t
    <3>1. Reading(u)
      BY <1>2, <2>2 DEF Reading
    <3> QED
      BY <2>2, <3>1 DEF GuardInv
  <2> QED
    BY <2>1, <2>2
<1> QED
  BY <1>1, <1>2 DEF GuardInv

LEMMA ReturnGuards ==
  ASSUME Shape, GuardInv, NEW t \in Tasks, Return(t), UNCHANGED keyring
  PROVE  GuardInv'
<1>1. /\ lock'[Shared].readers = lock[Shared].readers \ {t}
      /\ lock'[Shared].writer \in {lock[Shared].writer, NoTask}
  BY SharedIsLock DEF Return, Released
<1>2. pc'[t] = "idle" /\ \A u \in Tasks \ {t} : pc'[u] = pc[u] /\ loc'[u] = loc[u]
  BY DEF Return, Goto, Shape, TaskShape
<1>3. ~Reading(t)'
  BY <1>2 DEF Reading
<1> QED
  BY <1>1, <1>2, <1>3, OthersKeepReading

\* A reader comes to a keyring that is unlocked, or reads on.
LEMMA EnterGuards ==
  ASSUME Shape, GuardInv, NEW t \in Tasks, UNCHANGED keyring,
         \A u \in Tasks \ {t} : pc'[u] = pc[u] /\ loc'[u] = loc[u],
         keyring = "unlocked", lock[Shared].writer = NoTask,
         lock'[Shared].readers = lock[Shared].readers \cup {t},
         lock'[Shared].writer = NoTask
  PROVE  GuardInv'
<1>1. ASSUME NEW u \in Tasks, Reading(u)'
      PROVE  u \in lock'[Shared].readers /\ keyring' = "unlocked"
  <2>1. CASE u # t
    <3>1. Reading(u)
      BY <1>1, <2>1 DEF Reading
    <3> QED
      BY <2>1, <3>1 DEF GuardInv
  <2> QED
    BY <2>1
<1> QED
  BY <1>1 DEF GuardInv

LEMMA OwnGuards ==
  ASSUME Shape, NEW t \in Tasks, NEW g, g.on \in Locks, lock' = Taken(t, g)
  PROVE  /\ g.on # Shared => lock'[Shared] = lock[Shared]
         /\ g.on = Shared /\ g.write = FALSE =>
              lock'[Shared].readers = lock[Shared].readers \cup {t} /\ lock'[Shared].writer = NoTask
         /\ g.on = Shared /\ g.write = TRUE =>
              lock'[Shared].readers = {} /\ lock'[Shared].writer = t
BY SharedIsLock DEF Taken, Shape, LockShape

\* Nobody reads when the keyring is taken for writing.
LEMMA WriterAlone ==
  ASSUME Shape, GuardInv, NEW t \in Tasks, NEW g,
         Grants(t, g), g.on = Shared, g.write = TRUE
  PROVE  lock[Shared].readers = {} /\ \A u \in Tasks : ~Reading(u)
BY DEF Grants, GuardInv

LEMMA InitGuards == Init => GuardInv
BY SharedIsLock DEF Init, GuardInv, Reading

LEMMA CallGuards ==
  ASSUME Shape, GuardInv, NEW t \in Tasks, NEW op \in OpsOf[t], Call(t, op)
  PROVE  GuardInv'
<1>1. pc'[t] = "first" /\ \A u \in Tasks \ {t} : pc'[u] = pc[u] /\ loc'[u] = loc[u]
  BY DEF Call, Goto, Shape, TaskShape
<1>2. ~Reading(t)'
  BY <1>1 DEF Reading
<1> QED
  BY <1>1, <1>2, OthersKeepReading DEF Call

LEMMA FirstGuards ==
  ASSUME Shape, GuardInv, NEW t \in Tasks, First(t)
  PROVE  GuardInv'
<1> DEFINE g == FirstGuard(loc[t])
<1>0. /\ IsLocal(loc[t]) /\ loc[t].op \in KeyringOp \cup ItemOp /\ Grants(t, g)
      /\ ~Reading(t)
  BY DEF First, Shape, TaskShape, Suits, Reading
<1>1. /\ g.on \in Locks
      /\ loc[t].op \in {"lock", "unlock"} => g.write = TRUE
      /\ g.on = Shared /\ loc[t].op \notin {"lock", "unlock"} => g.write = FALSE
      /\ loc[t].op \in KeyringOp \cup {"setAttributes"} => g.on = Shared
      /\ g.on = Shared => loc[t].op \in KeyringOp \cup {"setAttributes"}
  BY <1>0, FirstGuardType
<1>2. \A label, l : Goto(t, label, l) =>
        pc'[t] = label /\ loc'[t] = l
          /\ \A u \in Tasks \ {t} : pc'[u] = pc[u] /\ loc'[u] = loc[u]
  BY DEF Goto, Shape, TaskShape
<1>3. CASE LockKeyring(t)
  <2>1. g.on = Shared /\ g.write = TRUE
    BY <1>1, <1>3 DEF LockKeyring, KeyringOp
  <2>2. \A u \in Tasks : ~Reading(u)
    BY <1>0, <2>1, WriterAlone
  <2>3. \A u \in Tasks : ~Reading(u)'
    BY <1>2, <1>3, <2>2 DEF LockKeyring, Return, Reading
  <2>4. lock'[Shared].writer # NoTask => lock'[Shared].readers = {}
    BY <1>3, SharedIsLock DEF LockKeyring, Return, Released, GuardInv
  <2> QED
    BY <2>3, <2>4 DEF GuardInv
<1>4. CASE UnlockKeyring(t)
  <2>1. g.on = Shared /\ g.write = TRUE
    BY <1>1, <1>4 DEF UnlockKeyring, KeyringOp
  <2>2. \A u \in Tasks : ~Reading(u)
    BY <1>0, <2>1, WriterAlone
  <2>3. \A u \in Tasks : ~Reading(u)'
    BY <1>2, <1>4, <2>2 DEF UnlockKeyring, Return, Reading
  <2>4. CASE Return(t)
    <3>1. lock'[Shared].writer # NoTask => lock'[Shared].readers = {}
      BY <2>4, SharedIsLock DEF Return, Released, GuardInv
    <3> QED
      BY <2>3, <3>1 DEF GuardInv
  <2>5. CASE lock' = Taken(t, g)
    <3>1. lock'[Shared].readers = {}
      BY <1>1, <2>1, <2>5, OwnGuards
    <3> QED
      BY <2>3, <3>1 DEF GuardInv
  <2> QED
    BY <1>4, <2>4, <2>5 DEF UnlockKeyring
<1>5. CASE WithKeyring(t)
  <2>1. g.on = Shared /\ g.write = FALSE
    BY <1>1, <1>5 DEF WithKeyring, KeyringOp
  <2>2. CASE Return(t)
    BY <1>5, <2>2, ReturnGuards DEF WithKeyring
  <2>3. CASE keyring = "unlocked" /\ lock' = Taken(t, g)
    <3>1. /\ lock'[Shared].readers = lock[Shared].readers \cup {t}
          /\ lock'[Shared].writer = NoTask /\ lock[Shared].writer = NoTask
      BY <1>0, <1>1, <2>1, <2>3, OwnGuards DEF Grants
    <3>2. \A u \in Tasks \ {t} : pc'[u] = pc[u] /\ loc'[u] = loc[u]
      BY <1>2, <1>5, <2>3 DEF WithKeyring
    <3> QED
      BY <1>5, <2>3, <3>1, <3>2, EnterGuards DEF WithKeyring
  <2> QED
    BY <1>5, <2>2, <2>3 DEF WithKeyring
<1>6. CASE Set(t) \/ Turn(t) \/ DeleteItem(t)
  <2>1. CASE Return(t)
    BY <1>6, <2>1, ReturnGuards DEF Set, Turn, DeleteItem
  <2>2. ASSUME NEW l, Goto(t, "second", l), l.op # "setAttributes", lock' = Taken(t, g)
        PROVE  GuardInv'
    <3>1. g.on # Shared
      BY <1>1, <1>6 DEF Set, Turn, DeleteItem, KeyringOp
    <3>2. lock'[Shared] = lock[Shared]
      BY <1>1, <2>2, <3>1, OwnGuards
    <3>3. ~Reading(t)' /\ \A u \in Tasks \ {t} : pc'[u] = pc[u] /\ loc'[u] = loc[u]
      BY <1>2, <2>2 DEF Reading
    <3>4. UNCHANGED keyring
      BY <1>6 DEF Set, Turn, DeleteItem
    <3> QED
      BY <3>2, <3>3, <3>4, OthersKeepReading
  <2>3. CASE Set(t)
    <3> DEFINE l == [loc[t] EXCEPT !.attributes = item[loc[t].handle].attributes,
                                   !.own = item[loc[t].handle].attributes]
    <3>1. l.op # "setAttributes"
      BY <1>0, <2>3 DEF Set, IsLocal
    <3>2. Return(t) \/ (Goto(t, "second", l) /\ lock' = Taken(t, g))
      BY <2>3 DEF Set
    <3> HIDE DEF l, g
    <3> QED
      BY <2>1, <2>2, <3>1, <3>2
  <2>4. CASE Turn(t)
    <3>1. Return(t) \/ (Goto(t, "second", loc[t]) /\ lock' = Taken(t, g))
      BY <2>4 DEF Turn
    <3>2. loc[t].op # "setAttributes"
      BY <2>4 DEF Turn
    <3> QED
      BY <2>1, <2>2, <3>1, <3>2
  <2>5. CASE DeleteItem(t)
    <3> DEFINE l == [loc[t] EXCEPT !.attributes = item[loc[t].handle].attributes]
    <3>1. l.op # "setAttributes"
      BY <1>0, <2>5 DEF DeleteItem, IsLocal
    <3>2. Return(t) \/ (Goto(t, "second", l) /\ lock' = Taken(t, g))
      BY <2>5 DEF DeleteItem
    <3> HIDE DEF l, g
    <3> QED
      BY <2>1, <2>2, <3>1, <3>2
  <2> QED
    BY <1>6, <2>3, <2>4, <2>5
<1>7. CASE Search(t) \/ Look(t) \/ ReadItem(t)
  BY <1>7, ReturnGuards DEF Search, Look, ReadItem
<1> QED
  BY <1>3, <1>4, <1>5, <1>6, <1>7 DEF First

LEMMA SecondGuards ==
  ASSUME Shape, GuardInv, NEW t \in Tasks, Second(t)
  PROVE  GuardInv'
<1> DEFINE g == SecondGuard(loc[t])
<1>0. /\ IsLocal(loc[t]) /\ loc[t].op \in OwnOp /\ Grants(t, g) /\ pc[t] = "second"
  BY DEF Second, Shape, TaskShape, Suits
<1>1. /\ g.on \in Locks
      /\ g.on = Shared => g.write = FALSE
      /\ loc[t].op = "setAttributes" => g.on # Shared
      /\ loc[t].op # "setAttributes" => g.on = Shared
  BY <1>0, SecondGuardType
<1>2. \A label, l : Goto(t, label, l) =>
        pc'[t] = label /\ loc'[t] = l
          /\ \A u \in Tasks \ {t} : pc'[u] = pc[u] /\ loc'[u] = loc[u]
  BY DEF Goto, Shape, TaskShape
<1>3. UNCHANGED keyring
  BY DEF Second
<1>4. CASE Return(t)
  BY <1>3, <1>4, ReturnGuards
<1>5. CASE /\ loc[t].op # "setAttributes" /\ keyring = "unlocked" /\ lock' = Taken(t, g)
           /\ \E label : Goto(t, label, loc[t])
  <2>1. /\ lock'[Shared].readers = lock[Shared].readers \cup {t}
        /\ lock'[Shared].writer = NoTask /\ lock[Shared].writer = NoTask
    BY <1>0, <1>1, <1>5, OwnGuards DEF Grants
  <2> QED
    BY <1>2, <1>3, <1>5, <2>1, EnterGuards
<1>6. CASE loc[t].op = "setAttributes" /\ Goto(t, "lookup", loc[t]) /\ lock' = Taken(t, g)
  <2>1. lock'[Shared] = lock[Shared]
    BY <1>1, <1>6, OwnGuards
  <2>2. Reading(t)
    BY <1>0, <1>6 DEF Reading
  <2> QED
    BY <1>2, <1>3, <1>6, <2>1, <2>2, OthersKeepReading
<1> QED
  BY <1>4, <1>5, <1>6 DEF Second

\* The steps under the keyring's guard.
LEMMA LastGuards ==
  ASSUME Shape, GuardInv, NEW t \in Tasks,
         Crypt(t) \/ Lookup(t) \/ Edit(t) \/ Write(t) \/ Cancel(t)
  PROVE  GuardInv'
<1>1. UNCHANGED keyring
  BY DEF Crypt, Lookup, Edit, Write, Cancel
<1>2. CASE Return(t)
  BY <1>1, <1>2, ReturnGuards
<1>3. CASE Lookup(t)
  <2>1. Reading(t) /\ UNCHANGED lock
    BY <1>3 DEF Lookup, Reading
  <2>2. \A u \in Tasks \ {t} : pc'[u] = pc[u] /\ loc'[u] = loc[u]
    BY <1>3 DEF Lookup, Goto, Shape, TaskShape
  <2> QED
    BY <1>1, <2>1, <2>2, OthersKeepReading
<1>4. CASE Edit(t) /\ ~Return(t)
  <2>1. Reading(t) /\ UNCHANGED lock /\ Goto(t, "write", loc[t])
    BY <1>4 DEF Edit, Reading
  <2>2. \A u \in Tasks \ {t} : pc'[u] = pc[u] /\ loc'[u] = loc[u]
    BY <2>1 DEF Goto, Shape, TaskShape
  <2> QED
    BY <1>1, <2>1, <2>2, OthersKeepReading
<1>5. CASE Crypt(t) \/ Write(t) \/ Cancel(t)
  BY <1>2, <1>5 DEF Crypt, Write, Cancel
<1> QED
  BY <1>2, <1>3, <1>4, <1>5

\* The keyring becomes "unlocked", or stays away.
LEMMA UnlockedGuards ==
  ASSUME Shape, GuardInv, NEW t \in Tasks, Unlocked(t)
  PROVE  GuardInv'
<1>1. /\ lock'[Shared].readers = lock[Shared].readers \ {t}
      /\ lock'[Shared].writer \in {lock[Shared].writer, NoTask}
  BY SharedIsLock DEF Unlocked, Return, Released
<1>2. pc'[t] = "idle" /\ \A u \in Tasks \ {t} : pc'[u] = pc[u] /\ loc'[u] = loc[u]
  BY DEF Unlocked, Return, Goto, Shape, TaskShape
<1>3. ASSUME NEW u \in Tasks, Reading(u)'
      PROVE  u \in lock'[Shared].readers /\ keyring' = "unlocked"
  <2>1. u # t
    BY <1>2, <1>3 DEF Reading
  <2>2. Reading(u)
    BY <1>2, <1>3, <2>1 DEF Reading
  <2>3. u \in lock[Shared].readers /\ keyring = "unlocked"
    BY <2>2 DEF GuardInv
  <2>4. keyring' = "unlocked" \/ keyring' = keyring
    BY DEF Unlocked
  <2> QED
    BY <1>1, <2>1, <2>3, <2>4
<1> QED
  BY <1>1, <1>3 DEF GuardInv

LEMMA EnqueueGuards ==
  ASSUME Shape, GuardInv, NEW t \in Tasks, Enqueue(t)
  PROVE  GuardInv'
<1>1. lock'[Shared].readers = lock[Shared].readers /\ lock'[Shared].writer = lock[Shared].writer
  BY SharedIsLock DEF Enqueue, Shape, LockShape
<1> QED
  BY <1>1 DEF Enqueue, GuardInv, Reading

LEMMA NextGuards == Shape /\ GuardInv /\ [Next]_vars => GuardInv'
<1> SUFFICES ASSUME Shape, GuardInv, [Next]_vars PROVE GuardInv'
  OBVIOUS
<1>1. ASSUME NEW t \in Tasks, NEW op \in OpsOf[t], Call(t, op) PROVE GuardInv'
  BY <1>1, CallGuards
<1>2. ASSUME NEW t \in Tasks, Step(t) \/ Cancel(t) PROVE GuardInv'
  BY <1>2, EnqueueGuards, FirstGuards, SecondGuards, UnlockedGuards, LastGuards DEF Step
<1>3. CASE UNCHANGED vars
  BY <1>3 DEF vars, GuardInv, Reading
<1> QED
  BY <1>1, <1>2, <1>3 DEF Next

\* Invariant: the keyring's RwLock has a writer or readers, and a call that reads the keyring
\* holds its read guard and finds it unlocked until it lets go.
THEOREM GuardsHold == Spec => []GuardInv
<1>1. Init => Shape /\ GuardInv
  BY InitShape, InitGuards
<1>2. (Shape /\ GuardInv) /\ [Next]_vars => (Shape /\ GuardInv)'
  BY NextShape, NextGuards
<1> QED
  BY <1>1, <1>2, PTL DEF Spec

-----------------------------------------------------------------------------
(* What the guards are for *)

\* What changes the items is a step of a call that reads the keyring.
LEMMA ChangesAreRead ==
  ASSUME [Next]_vars, memory' # memory \/ file' # file
  PROVE  \E t \in Tasks : Reading(t) /\ UNCHANGED keyring
<1>1. PICK t \in Tasks : Step(t) \/ Cancel(t) \/ \E op \in OpsOf[t] : Call(t, op)
  BY DEF Next, vars
<1>2. Edit(t) \/ Write(t)
  BY <1>1 DEF Step, Enqueue, First, Second, Unlocked, Crypt, Lookup, Cancel, Call
<1> QED
  BY <1>2 DEF Edit, Write, Reading

\* Nothing changes in memory or in the file while the keyring is locked, whichever calls
\* found it unlocked before: Keyring::lock waits for their guards.
THEOREM LockedStaysUntouched == Spec => LockedUntouched
<1>1. GuardInv /\ [Next]_vars =>
        [memory' # memory \/ file' # file => keyring = "unlocked" /\ keyring' = "unlocked"]_vars
  <2> SUFFICES ASSUME GuardInv, [Next]_vars, memory' # memory \/ file' # file
               PROVE  keyring = "unlocked" /\ keyring' = "unlocked"
    OBVIOUS
  <2> QED
    BY ChangesAreRead DEF GuardInv
<1> QED
  BY <1>1, GuardsHold, PTL DEF Spec, LockedUntouched

-----------------------------------------------------------------------------
(* The Options that lock and unlock take out *)

\* A step of t leaves the others what they have in hand, and lets go only of what is put back,
\* or recorded as broken.
LEMMA TakenAndPutBack ==
  ASSUME NothingLeftTaken, NEW t \in Tasks,
         \A u \in Tasks \ {t} : pc'[u] = pc[u] /\ loc'[u] = loc[u],
         broken \subseteq broken',
         Empty' \subseteq Empty \cup InHand(t)',
         InHand(t) \cap Empty' \subseteq InHand(t)' \cup broken'
  PROVE  NothingLeftTaken'
<1>1. \A u \in Tasks \ {t} : InHand(u)' = InHand(u)
  BY DEF InHand
<1>2. SUFFICES ASSUME NEW x \in Empty', x \notin broken'
               PROVE  \E u \in Tasks : x \in InHand(u)'
  BY DEF NothingLeftTaken
<1>3. CASE x \in InHand(t)'
  BY <1>3
<1>4. CASE x \notin InHand(t)'
  <2>1. x \in Empty /\ x \notin broken
    BY <1>2, <1>4
  <2>2. PICK u \in Tasks : x \in InHand(u)
    BY <2>1 DEF NothingLeftTaken
  <2>3. u # t
    BY <1>2, <1>4, <2>2
  <2> QED
    BY <1>1, <2>2, <2>3
<1> QED
  BY <1>3, <1>4

LEMMA OnlyOwn ==
  ASSUME Shape, NEW t \in Tasks, NEW label, NEW l, Goto(t, label, l)
  PROVE  /\ pc'[t] = label /\ loc'[t] = l
         /\ \A u \in Tasks \ {t} : pc'[u] = pc[u] /\ loc'[u] = loc[u]
BY DEF Goto, Shape, TaskShape

LEMMA ReturnHand ==
  ASSUME Shape, NEW t \in Tasks, Return(t)
  PROVE  /\ \A u \in Tasks \ {t} : pc'[u] = pc[u] /\ loc'[u] = loc[u]
         /\ InHand(t)' = {}
BY OnlyOwn DEF Return, InHand

LEMMA FirstHand ==
  ASSUME Shape, NothingLeftTaken, NEW t \in Tasks, First(t)
  PROVE  NothingLeftTaken'
<1>0. pc[t] = "first" /\ InHand(t) = {} /\ UNCHANGED broken /\ loc[t].handle \in Handles
  BY DEF First, InHand, Shape, TaskShape, IsLocal
<1>1. CASE UnlockKeyring(t)
  <2>1. CASE Return(t) /\ UNCHANGED keyring
    <3>1. Empty' = Empty
      BY <1>1, <2>1 DEF UnlockKeyring, Empty
    <3> QED
      BY <1>0, <2>1, <3>1, ReturnHand, TakenAndPutBack
  <2>2. CASE keyring' = "none" /\ Goto(t, "unlock", loc[t])
    <3>1. InHand(t)' = {Shared} /\ \A u \in Tasks \ {t} : pc'[u] = pc[u] /\ loc'[u] = loc[u]
      BY <2>2, OnlyOwn DEF InHand
    <3>2. Empty' \subseteq Empty \cup {Shared}
      BY <1>1 DEF UnlockKeyring, Empty
    <3> QED
      BY <1>0, <3>1, <3>2, TakenAndPutBack
  <2> QED
    BY <1>1, <2>1, <2>2 DEF UnlockKeyring
<1>2. CASE Turn(t)
  <2>1. CASE Return(t) /\ UNCHANGED item
    <3>1. Empty' = Empty
      BY <1>2, <2>1 DEF Turn, Empty
    <3> QED
      BY <1>0, <2>1, <3>1, ReturnHand, TakenAndPutBack
  <2>2. CASE /\ item' = [item EXCEPT ![loc[t].handle].state = "none"]
             /\ Goto(t, "second", loc[t])
    <3>1. /\ InHand(t)' = {loc[t].handle}
          /\ \A u \in Tasks \ {t} : pc'[u] = pc[u] /\ loc'[u] = loc[u]
      BY <1>2, <2>2, OnlyOwn DEF InHand, Turn
    <3>2. \A h \in Handles \ {loc[t].handle} : item'[h] = item[h]
      BY <2>2 DEF Shape, ItemShape
    <3>3. Empty' \subseteq Empty \cup {loc[t].handle}
      BY <1>2, <3>2 DEF Turn, Empty
    <3> QED
      BY <1>0, <3>1, <3>3, TakenAndPutBack
  <2> QED
    BY <1>2, <2>1, <2>2 DEF Turn
<1>3. CASE Set(t) \/ WithKeyring(t) \/ DeleteItem(t)
  <2>1. Empty' \subseteq Empty
    <3>1. \A h \in Handles : item'[h].state = item[h].state
      BY <1>3 DEF Set, WithKeyring, DeleteItem, Shape, ItemShape
    <3> QED
      BY <1>3, <3>1 DEF Set, WithKeyring, DeleteItem, Empty
  <2>2. \A u \in Tasks \ {t} : pc'[u] = pc[u] /\ loc'[u] = loc[u]
    BY <1>3 DEF Set, WithKeyring, DeleteItem, Return, Goto, Shape, TaskShape
  <2> QED
    BY <1>0, <2>1, <2>2, TakenAndPutBack
<1>4. CASE LockKeyring(t) \/ Search(t) \/ Look(t) \/ ReadItem(t)
  <2>1. Empty' \subseteq Empty
    <3>1. \A h \in Handles : item'[h].state = item[h].state \/ item'[h].state = "unlocked"
      BY <1>4 DEF LockKeyring, Search, Look, ReadItem, Shape, ItemShape
    <3>2. keyring' = "none" => keyring = "none"
      BY <1>4 DEF LockKeyring, Search, Look, ReadItem
    <3> QED
      BY <3>1, <3>2 DEF Empty
  <2>2. Return(t)
    BY <1>4 DEF LockKeyring, Search, Look, ReadItem
  <2> QED
    BY <1>0, <2>1, <2>2, ReturnHand, TakenAndPutBack
<1> QED
  BY <1>1, <1>2, <1>3, <1>4 DEF First

LEMMA SecondHand ==
  ASSUME Shape, NothingLeftTaken, NEW t \in Tasks, Second(t)
  PROVE  NothingLeftTaken'
<1>0. pc[t] = "second" /\ UNCHANGED keyring /\ loc[t].handle \in Handles
  BY DEF Second, Shape, TaskShape, IsLocal
<1>1. CASE Return(t) /\ UNCHANGED item /\ broken' = broken \cup InHand(t)
  <2>1. Empty' = Empty
    BY <1>0, <1>1 DEF Empty
  <2> QED
    BY <1>1, <2>1, ReturnHand, TakenAndPutBack
<1>2. CASE Return(t) /\ PutBack(loc[t]) /\ UNCHANGED broken
  <2>1. CASE loc[t].op \in {"lockItem", "unlockItem"}
    <3>1. item'[loc[t].handle].state # "none"
      BY <1>0, <1>2, <2>1 DEF PutBack, Is, Shape, ItemShape
    <3>2. \A h \in Handles \ {loc[t].handle} : item'[h] = item[h]
      BY <1>0, <1>2, <2>1 DEF PutBack, Shape, ItemShape
    <3>3. Empty' \subseteq Empty /\ loc[t].handle \notin Empty'
      BY <1>0, <3>1, <3>2, SharedIsLock DEF Empty
    <3>4. InHand(t) = {loc[t].handle}
      BY <1>0, <2>1 DEF InHand
    <3> QED
      BY <1>2, <3>3, <3>4, ReturnHand, TakenAndPutBack
  <2>2. CASE loc[t].op \notin {"lockItem", "unlockItem"}
    <3>1. InHand(t) = {} /\ Empty' = Empty
      BY <1>0, <1>2, <2>2 DEF InHand, PutBack, Empty
    <3> QED
      BY <1>2, <3>1, ReturnHand, TakenAndPutBack
  <2> QED
    BY <2>1, <2>2
<1>3. CASE /\ Goto(t, IF loc[t].op \in {"lockItem", "unlockItem"} THEN "crypt" ELSE "edit", loc[t])
           /\ UNCHANGED <<item, broken>>
  <2>1. InHand(t)' = InHand(t)
    BY <1>0, <1>3, OnlyOwn DEF InHand
  <2>2. \A u \in Tasks \ {t} : pc'[u] = pc[u] /\ loc'[u] = loc[u]
    BY <1>3, OnlyOwn
  <2>3. Empty' = Empty
    BY <1>0, <1>3 DEF Empty
  <2> QED
    BY <1>3, <2>1, <2>2, <2>3, TakenAndPutBack
<1>4. CASE /\ loc[t].op = "setAttributes" /\ UNCHANGED <<item, broken>>
           /\ Return(t) \/ Goto(t, "lookup", loc[t])
  <2>1. InHand(t) = {}
    BY <1>0, <1>4 DEF InHand
  <2>2. \A u \in Tasks \ {t} : pc'[u] = pc[u] /\ loc'[u] = loc[u]
    BY <1>4, OnlyOwn DEF Return
  <2>3. Empty' = Empty
    BY <1>0, <1>4 DEF Empty
  <2> QED
    BY <1>4, <2>1, <2>2, <2>3, TakenAndPutBack
<1> QED
  BY <1>1, <1>2, <1>3, <1>4 DEF Second

LEMMA LastHand ==
  ASSUME Shape, NothingLeftTaken, NEW t \in Tasks,
         Unlocked(t) \/ Crypt(t) \/ Lookup(t) \/ Edit(t) \/ Write(t) \/ Cancel(t)
  PROVE  NothingLeftTaken'
<1>0. loc[t].handle \in Handles /\ Suits(loc[t], pc[t])
  BY DEF Shape, TaskShape, IsLocal
<1>1. CASE Unlocked(t)
  <2>1. InHand(t) = {Shared}
    BY <1>1 DEF Unlocked, InHand
  <2>2. Empty' \subseteq Empty /\ (Shared \notin Empty' \/ Shared \in broken')
    BY <1>1, SharedIsLock DEF Unlocked, Empty
  <2>3. broken \subseteq broken'
    BY <1>1 DEF Unlocked
  <2>4. Return(t)
    BY <1>1 DEF Unlocked
  <2> QED
    BY <2>1, <2>2, <2>3, <2>4, ReturnHand, TakenAndPutBack
<1>2. CASE Crypt(t)
  <2>1. InHand(t) = {loc[t].handle}
    BY <1>0, <1>2 DEF Crypt, InHand, Suits
  <2>2. \A h \in Handles \ {loc[t].handle} : item'[h] = item[h]
    BY <1>2 DEF Crypt, Shape, ItemShape
  <2>3. item'[loc[t].handle].state # "none" \/ (UNCHANGED item /\ loc[t].handle \in broken')
    BY <1>0, <1>2 DEF Crypt, Shape, ItemShape
  <2>4. Empty' \subseteq Empty /\ (loc[t].handle \notin Empty' \/ loc[t].handle \in broken')
    BY <1>0, <1>2, <2>2, <2>3, SharedIsLock DEF Crypt, Empty
  <2>5. broken \subseteq broken'
    BY <1>2 DEF Crypt
  <2>6. Return(t)
    BY <1>2 DEF Crypt
  <2> QED
    BY <2>1, <2>4, <2>5, <2>6, ReturnHand, TakenAndPutBack
<1>3. CASE Lookup(t) \/ Edit(t) \/ Write(t)
  <2>1. InHand(t) = {} /\ UNCHANGED <<broken, keyring>>
    BY <1>3 DEF Lookup, Edit, Write, InHand
  <2>2. \A h \in Handles : item'[h].state = item[h].state
    BY <1>3 DEF Lookup, Edit, Write, Shape, ItemShape
  <2>3. Empty' = Empty
    BY <2>1, <2>2 DEF Empty
  <2>4. \A u \in Tasks \ {t} : pc'[u] = pc[u] /\ loc'[u] = loc[u]
    BY <1>3 DEF Lookup, Edit, Write, Return, Goto, Shape, TaskShape
  <2> QED
    BY <2>1, <2>3, <2>4, TakenAndPutBack
<1>4. CASE Cancel(t)
  <2>1. Return(t) /\ broken' = broken \cup InHand(t)
    BY <1>4 DEF Cancel
  <2>2. Empty' = Empty
    BY <1>4 DEF Cancel, Empty
  <2> QED
    BY <2>1, <2>2, ReturnHand, TakenAndPutBack
<1> QED
  BY <1>1, <1>2, <1>3, <1>4

LEMMA NextHand == Shape /\ NothingLeftTaken /\ [Next]_vars => NothingLeftTaken'
<1> SUFFICES ASSUME Shape, NothingLeftTaken, [Next]_vars PROVE NothingLeftTaken'
  OBVIOUS
<1>1. ASSUME NEW t \in Tasks, NEW op \in OpsOf[t], Call(t, op) PROVE NothingLeftTaken'
  <2>1. InHand(t) = {} /\ UNCHANGED <<item, keyring, broken>>
    BY <1>1 DEF Call, InHand
  <2>2. \A u \in Tasks \ {t} : pc'[u] = pc[u] /\ loc'[u] = loc[u]
    BY <1>1 DEF Call, Goto, Shape, TaskShape
  <2>3. Empty' = Empty
    BY <2>1 DEF Empty
  <2> QED
    BY <2>1, <2>2, <2>3, TakenAndPutBack
<1>2. ASSUME NEW t \in Tasks, Step(t) \/ Cancel(t) PROVE NothingLeftTaken'
  <2>1. CASE Enqueue(t)
    BY <2>1 DEF Enqueue, NothingLeftTaken, Empty, InHand
  <2> QED
    BY <1>2, <2>1, FirstHand, SecondHand, LastHand DEF Step
<1>3. CASE UNCHANGED vars
  BY <1>3 DEF vars, NothingLeftTaken, Empty, InHand
<1> QED
  BY <1>1, <1>2, <1>3 DEF Next

\* Invariant: an Option of Keyring or Item that is empty is in the hands of a call of
\* lock or unlock, or of one that failed or was dropped; every other way out of these calls
\* puts back what they took.
THEOREM NothingStaysTaken == Spec => []NothingLeftTaken
<1>1. Init => Shape /\ NothingLeftTaken
  BY InitShape DEF Init, NothingLeftTaken, Empty
<1>2. (Shape /\ NothingLeftTaken) /\ [Next]_vars => (Shape /\ NothingLeftTaken)'
  BY NextShape, NextHand
<1> QED
  BY <1>1, <1>2, PTL DEF Spec
-----------------------------------------------------------------------------
(* Lists.  What a recursive function returns is proved by induction on its  *)
(* argument, in the form of sets: the theorem of the least element of a     *)
(* well-founded order, for the intervals 0 .. k ordered by inclusion.       *)

LEMMA UpTo ==
  ASSUME NEW n \in Nat, NEW G, 0 \in G,
         \A k \in 0 .. n : k \in G /\ k < n => k + 1 \in G
  PROVE  n \in G
<1> DEFINE Bad == {k \in 0 .. n : k \notin G}
           T == {0 .. k : k \in Bad}
<1> SUFFICES ASSUME n \notin G PROVE FALSE
  OBVIOUS
<1>1. IsWellFoundedOn(StrictSubsetOrdering(0 .. n), FiniteSubsetsOf(0 .. n))
  BY FS_StrictSubsetOrderingWellFounded
<1>2. T \subseteq FiniteSubsetsOf(0 .. n)
  <2>1. IsFiniteSet(0 .. n)
    BY FS_Interval
  <2> QED BY <2>1, FS_Subset DEF FiniteSubsetsOf
<1>3. T # {}
  OBVIOUS
<1>4. PICK x \in T : \A y \in T : ~(<<y, x>> \in StrictSubsetOrdering(0 .. n))
  <2> HIDE DEF T
  <2> QED BY <1>1, <1>2, <1>3, WFMin
<1>5. PICK k \in Bad : x = 0 .. k
  BY <1>4
<1>6. k # 0 /\ k - 1 \in Bad
  BY <1>5
<1>7. <<0 .. k - 1, 0 .. k>> \in StrictSubsetOrdering(0 .. n)
  <2>1. 0 .. (k - 1) \in SUBSET (0 .. n) /\ 0 .. k \in SUBSET (0 .. n)
    BY <1>5, <1>6
  <2>2. 0 .. (k - 1) \subseteq 0 .. k /\ k \in 0 .. k /\ k \notin 0 .. (k - 1)
    BY <1>5, <1>6
  <2> QED BY <2>1, <2>2 DEF StrictSubsetOrdering
<1> QED
  BY <1>4, <1>5, <1>6, <1>7

\* What Kept has after n elements, from what it has after n - 1.
Keeping(s, S, f, n) ==
  IF n = 0 THEN <<>> ELSE IF s[n] \in S THEN Append(f[n - 1], s[n]) ELSE f[n - 1]

LEMMA KeepingExists ==
  ASSUME NEW s, Len(s) \in Nat, NEW S
  PROVE  \E f : f = [n \in 0 .. Len(s) |-> Keeping(s, S, f, n)]
<1> DEFINE N == Len(s)
           G == {m \in 0 .. N : \E f : f = [n \in 0 .. m |-> Keeping(s, S, f, n)]}
<1>1. 0 \in G
  <2> DEFINE f == [n \in 0 .. 0 |-> <<>>]
  <2>1. f = [n \in 0 .. 0 |-> Keeping(s, S, f, n)]
    BY DEF Keeping
  <2> QED BY <2>1
<1>2. ASSUME NEW k \in 0 .. N, k \in G, k < N
      PROVE  k + 1 \in G
  <2>1. PICK f : f = [n \in 0 .. k |-> Keeping(s, S, f, n)]
    BY <1>2
  <2> DEFINE last == IF s[k + 1] \in S THEN Append(f[k], s[k + 1]) ELSE f[k]
             g == [n \in 0 .. k + 1 |-> IF n = k + 1 THEN last ELSE f[n]]
  <2>2. ASSUME NEW n \in 0 .. k + 1 PROVE g[n] = Keeping(s, S, g, n)
    <3>1. CASE n = k + 1
      <4>1. g[n - 1] = f[k] /\ n # 0 /\ g[n] = last
        BY <3>1
      <4> HIDE DEF g
      <4> QED BY <4>1, <3>1 DEF Keeping
    <3>2. CASE n # k + 1
      <4>1. n \in 0 .. k /\ g[n] = f[n] /\ (n # 0 => g[n - 1] = f[n - 1])
        BY <3>2
      <4>2. f[n] = Keeping(s, S, f, n)
        BY <2>1, <4>1
      <4> HIDE DEF g
      <4> QED BY <4>1, <4>2 DEF Keeping
    <3> QED BY <3>1, <3>2
  <2>3. g = [n \in 0 .. k + 1 |-> g[n]] /\ k + 1 \in 0 .. N
    BY <1>2
  <2> HIDE DEF g
  <2> QED BY <2>2, <2>3
<1>3. N \in G
  <2> HIDE DEF G
  <2> QED BY <1>1, <1>2, UpTo
<1> QED
  BY <1>3

LEMMA KeptSteps ==
  ASSUME NEW s, Len(s) \in Nat, NEW S
  PROVE  \E f : /\ f = [n \in 0 .. Len(s) |-> Keeping(s, S, f, n)]
                /\ Kept(s, S) = f[Len(s)]
<1> DEFINE f == CHOOSE f : f = [n \in 0 .. Len(s) |->
                  IF n = 0 THEN <<>>
                  ELSE IF s[n] \in S THEN Append(f[n - 1], s[n]) ELSE f[n - 1]]
<1>1. f = [n \in 0 .. Len(s) |-> Keeping(s, S, f, n)]
  <2> DEFINE step(g) == [n \in 0 .. Len(s) |->
                  IF n = 0 THEN <<>>
                  ELSE IF s[n] \in S THEN Append(g[n - 1], s[n]) ELSE g[n - 1]]
  <2>1. ASSUME NEW g PROVE step(g) = [n \in 0 .. Len(s) |-> Keeping(s, S, g, n)]
    BY ZenonT(30) DEF Keeping
  <2>2. \E g : g = [n \in 0 .. Len(s) |-> Keeping(s, S, g, n)]
    BY KeepingExists
  <2>3. f = CHOOSE g : g = step(g)
    OBVIOUS
  <2> HIDE DEF step, f
  <2>4. f = step(f)
    BY <2>1, <2>2, <2>3
  <2> QED
    BY <2>1, <2>4
<1>2. Kept(s, S) = f[Len(s)]
  BY DEF Kept
<1> QED
  BY <1>1, <1>2

LEMMA AppendElements ==
  ASSUME NEW T, NEW q \in Seq(T), NEW e \in T
  PROVE  Append(q, e) \in Seq(T) /\ ToSet(Append(q, e)) = ToSet(q) \cup {e}
<1> DEFINE r == Append(q, e)
<1>1. r \in Seq(T) /\ DOMAIN r = 1 .. Len(q) + 1 /\ DOMAIN q = 1 .. Len(q) /\ Len(q) \in Nat
  OBVIOUS
<1>2. r[Len(q) + 1] = e /\ \A i \in 1 .. Len(q) : r[i] = q[i]
  OBVIOUS
<1>3. 1 .. Len(q) + 1 = (1 .. Len(q)) \cup {Len(q) + 1}
  BY <1>1
<1> HIDE DEF r
<1>4. ToSet(r) = ToSet(q) \cup {e}
  BY <1>1, <1>2, <1>3 DEF ToSet
<1> QED
  BY <1>1, <1>4 DEF r

\* Retaining: what is left are the elements of the list that are in S.
LEMMA KeptElements ==
  ASSUME NEW T, NEW s \in Seq(T), NEW S
  PROVE  Kept(s, S) \in Seq(T) /\ ToSet(Kept(s, S)) = ToSet(s) \cap S
<1>1. Len(s) \in Nat
  OBVIOUS
<1>2. PICK f : f = [n \in 0 .. Len(s) |-> Keeping(s, S, f, n)] /\ Kept(s, S) = f[Len(s)]
  BY <1>1, KeptSteps
<1> DEFINE G == {m \in 0 .. Len(s) : /\ f[m] \in Seq(T)
                                     /\ ToSet(f[m]) = {s[i] : i \in 1 .. m} \cap S}
<1>3. 0 \in G
  <2>1. f[0] = <<>>
    BY <1>1, <1>2 DEF Keeping
  <2>2. ToSet(<<>>) = {} /\ {s[i] : i \in 1 .. 0} = {}
    BY DEF ToSet
  <2>3. <<>> \in Seq(T) /\ 0 \in 0 .. Len(s)
    OBVIOUS
  <2> QED BY <2>1, <2>2, <2>3
<1>4. ASSUME NEW k \in 0 .. Len(s), k \in G, k < Len(s)
      PROVE  k + 1 \in G
  <2>1. k + 1 \in 0 .. Len(s) /\ k + 1 # 0 /\ (k + 1) - 1 = k /\ s[k + 1] \in T
    BY <1>4
  <2>2. f[k + 1] = IF s[k + 1] \in S THEN Append(f[k], s[k + 1]) ELSE f[k]
    <3>1. f[k + 1] = Keeping(s, S, f, k + 1)
      BY <1>2, <2>1
    <3> QED BY <2>1, <3>1 DEF Keeping
  <2>3. {s[i] : i \in 1 .. k + 1} = {s[i] : i \in 1 .. k} \cup {s[k + 1]}
    BY <2>1
  <2>4. f[k] \in Seq(T) /\ ToSet(f[k]) = {s[i] : i \in 1 .. k} \cap S
    BY <1>4
  <2>5. f[k + 1] \in Seq(T)
    BY <2>1, <2>2, <2>4
  <2>6. ToSet(f[k + 1]) = {s[i] : i \in 1 .. k + 1} \cap S
    BY <2>1, <2>2, <2>3, <2>4, AppendElements
  <2> QED BY <2>1, <2>5, <2>6
<1>5. Len(s) \in G
  <2> HIDE DEF G
  <2> QED BY <1>1, <1>3, <1>4, UpTo
<1> QED
  BY <1>2, <1>5 DEF ToSet

\* A set of numbers that is not empty has a least one.
LEMMA Least ==
  ASSUME NEW S \in SUBSET Nat, S # {}
  PROVE  \E i \in S : \A j \in S : i <= j
<1> SUFFICES ASSUME \A i \in S : \E j \in S : j < i PROVE FALSE
  OBVIOUS
<1> DEFINE G == {k \in Nat : \A j \in 0 .. k : j \notin S}
<1>1. PICK n \in S : TRUE
  OBVIOUS
<1>2. 0 \in G
  OBVIOUS
<1>3. ASSUME NEW k \in 0 .. n, k \in G
      PROVE  k + 1 \in G
  <2>1. \A j \in 0 .. k : j \notin S
    BY <1>3
  <2>2. k + 1 \notin S
    <3> SUFFICES ASSUME k + 1 \in S PROVE FALSE
      OBVIOUS
    <3>1. PICK j \in S : j < k + 1
      OBVIOUS
    <3> QED BY <2>1, <3>1
  <2>3. \A j \in 0 .. k + 1 : j \in 0 .. k \/ j = k + 1
    OBVIOUS
  <2> QED BY <2>1, <2>2, <2>3
<1>4. n \in G
  <2> HIDE DEF G
  <2> QED BY <1>1, <1>2, <1>3, UpTo
<1> QED
  BY <1>1, <1>4

-----------------------------------------------------------------------------
(* Types *)

LEMMA BlankType == Blank \in Local
<1>1. OwnAttributes[1] \in Attributes
  BY ClientKeyringAssumption
<1> QED
  BY <1>1, AnyHandleType, ClientKeyringAssumption DEF Blank, Local

LEMMA GotoType ==
  ASSUME TypeOK, NEW t \in Tasks, NEW label \in Labels, NEW l \in Local, Goto(t, label, l)
  PROVE  pc' \in [Tasks -> Labels] /\ loc' \in [Tasks -> Local]
BY DEF TypeOK, Goto, Labels

LEMMA LeftByType ==
  ASSUME NEW q \in Seq(Tasks), NEW t
  PROVE  LeftBy(q, t) \in Seq(Tasks)
BY KeptElements DEF LeftBy

LEMMA ReturnType ==
  ASSUME TypeOK, NEW t \in Tasks, Return(t)
  PROVE  pc' \in [Tasks -> Labels] /\ loc' \in [Tasks -> Local] /\ lock' \in [Locks -> Lock]
<1>1. ASSUME NEW k \in Locks
      PROVE  [readers |-> lock[k].readers \ {t},
              writer |-> IF lock[k].writer = t THEN NoTask ELSE lock[k].writer,
              queue |-> LeftBy(lock[k].queue, t)] \in Lock
  <2>1. lock[k] \in Lock
    BY DEF TypeOK
  <2>2. LeftBy(lock[k].queue, t) \in Seq(Tasks)
    BY <2>1, LeftByType DEF Lock
  <2> QED BY <2>1, <2>2 DEF Lock
<1>2. lock' \in [Locks -> Lock]
  BY <1>1 DEF Return, Released
<1>3. pc' \in [Tasks -> Labels] /\ loc' \in [Tasks -> Local]
  BY BlankType, GotoType DEF Return, Labels
<1> QED
  BY <1>2, <1>3

LEMMA TakenType ==
  ASSUME TypeOK, NEW t \in Tasks, NEW g, g.on \in Locks, lock' = Taken(t, g)
  PROVE  lock' \in [Locks -> Lock]
<1> DEFINE k == lock[g.on]
           e == [readers |-> IF g.write THEN {} ELSE k.readers \cup {t},
                 writer |-> IF g.write THEN t ELSE NoTask,
                 queue |-> IF k.queue = <<>> THEN <<>> ELSE Tail(k.queue)]
<1>1. k \in Lock
  BY DEF TypeOK
<1>2. e.queue \in Seq(Tasks)
  BY <1>1 DEF Lock
<1>3. e \in Lock
  BY <1>1, <1>2 DEF Lock
<1>4. lock' = [lock EXCEPT ![g.on] = e]
  BY DEF Taken
<1> HIDE DEF e
<1> QED
  BY <1>3, <1>4 DEF TypeOK

LEMMA FirstMatchType ==
  ASSUME TypeOK, NEW a
  PROVE  /\ FirstMatch(a) \in Nat
         /\ FirstMatch(a) # 0 => FirstMatch(a) \in DOMAIN memory /\ Matches(memory[FirstMatch(a)], a)
         /\ FirstMatch(a) = 0 => \A i \in DOMAIN memory : ~Matches(memory[i], a)
<1> DEFINE found == {i \in DOMAIN memory : Matches(memory[i], a)}
<1>1. found \in SUBSET Nat /\ 0 \notin found
  BY DEF TypeOK
<1>2. CASE found = {}
  BY <1>2 DEF FirstMatch
<1>3. CASE found # {}
  <2>1. \E i \in found : \A j \in found : i <= j
    <3> HIDE DEF found
    <3> QED BY <1>1, <1>3, Least
  <2>2. FirstMatch(a) \in found
    BY <1>3, <2>1 DEF FirstMatch
  <2> QED BY <1>1, <2>2
<1> QED
  BY <1>2, <1>3

\* The calls that change the list.
Editing == {"create", "replace", "set", "delete", "deleteItem", "setAttributes"}

\* What an edit leaves in the list, and puts there.
LEMMA EditedType ==
  ASSUME TypeOK, NEW l \in Local, l.op \in Editing, ~(l.index > Len(memory))
  PROVE  Edited(l) \in Seq(Entry)
<1>1. New(l) \in Entry
  BY DEF New, Entry, Local
<1>2. memory \in Seq(Entry)
  BY DEF TypeOK
<1>3. Without(l.attributes) \in Seq(Entry)
  BY <1>2, KeptElements DEF Without
<1>4. Append(memory, New(l)) \in Seq(Entry) /\ Append(Without(l.attributes), New(l)) \in Seq(Entry)
  BY <1>1, <1>2, <1>3, AppendElements
<1>5. l.index # 0 => [memory EXCEPT ![l.index] = New(l)] \in Seq(Entry)
  BY <1>1, <1>2 DEF Local
<1>6. CASE l.op = "create"
  BY <1>4, <1>6 DEF Edited
<1>7. CASE l.op \in {"replace", "set"}
  BY <1>4, <1>7 DEF Edited
<1>8. CASE l.op \in {"delete", "deleteItem"}
  BY <1>3, <1>8 DEF Edited
<1>9. CASE l.op = "setAttributes"
  BY <1>4, <1>5, <1>9 DEF Edited
<1> QED
  BY <1>6, <1>7, <1>8, <1>9 DEF Editing

\* A call is one that its task makes, and where a call is says what it may be.
Calling(t) ==
  /\ pc[t] # "idle" => loc[t].op \in OpsOf[t]
  /\ pc[t] \in {"edit", "write"} => loc[t].op \in Editing
  /\ pc[t] = "lookup" => loc[t].op = "setAttributes"

TypeInv == TypeOK /\ \A t \in Tasks : Calling(t)

LEMMA CallingKept ==
  ASSUME TypeInv, NEW t \in Tasks,
         \A u \in Tasks \ {t} : pc'[u] = pc[u] /\ loc'[u] = loc[u],
         pc'[t] = "idle" \/ Calling(t)'
  PROVE  \A u \in Tasks : Calling(u)'
<1>1. ASSUME NEW u \in Tasks \ {t} PROVE Calling(u)'
  BY DEF TypeInv, Calling
<1>2. Calling(t)'
  BY DEF Calling
<1> QED
  BY <1>1, <1>2

LEMMA ReturnTypes ==
  ASSUME Shape, TypeInv, NEW t \in Tasks, Return(t),
         keyring' \in {"locked", "unlocked", "none"},
         item' \in [Handles -> [state : {"unused", "locked", "unlocked", "none"},
                                attributes : Attributes, value : Values]],
         memory' \in Seq(Entry), file' \in Seq(Entry),
         acked' \subseteq Entry, broken' \subseteq Locks,
         budget' \in [{"call", "fault"} -> Nat]
  PROVE  TypeInv'
<1>1. \A u \in Tasks : Calling(u)'
  BY OnlyOwn, CallingKept DEF Return
<1>2. TypeOK'
  BY ReturnType DEF TypeInv, TypeOK, Labels
<1> QED
  BY <1>1, <1>2 DEF TypeInv

LEMMA GotoTypes ==
  ASSUME Shape, TypeInv, NEW t \in Tasks, NEW label \in Labels, NEW l \in Local, Goto(t, label, l),
         label # "idle" => l.op \in OpsOf[t],
         label \in {"edit", "write"} => l.op \in Editing,
         label = "lookup" => l.op = "setAttributes",
         keyring' \in {"locked", "unlocked", "none"},
         item' \in [Handles -> [state : {"unused", "locked", "unlocked", "none"},
                                attributes : Attributes, value : Values]],
         lock' \in [Locks -> Lock],
         memory' \in Seq(Entry), file' \in Seq(Entry),
         acked' \subseteq Entry, broken' \subseteq Locks,
         budget' \in [{"call", "fault"} -> Nat]
  PROVE  TypeInv'
<1>1. \A u \in Tasks : Calling(u)'
  BY OnlyOwn, CallingKept DEF Calling
<1>2. TypeOK'
  BY GotoType DEF TypeInv, TypeOK, Labels
<1> QED
  BY <1>1, <1>2 DEF TypeInv

LEMMA SpendType ==
  ASSUME TypeOK, NEW k \in {"call", "fault"}, Spend(k)
  PROVE  budget' \in [{"call", "fault"} -> Nat]
BY DEF Spend, TypeOK

LEMMA InitTypes == Init => TypeInv
<1> SUFFICES ASSUME Init PROVE TypeInv
  OBVIOUS
<1>1. memory \in Seq(Entry)
  <2>1. OwnAttributes \in Seq(Attributes) /\ FirstValue \in Values
    BY ClientKeyringAssumption
  <2>2. \A i \in DOMAIN OwnAttributes :
          [attributes |-> OwnAttributes[i], value |-> FirstValue] \in Entry
    BY <2>1 DEF Entry
  <2>3. DOMAIN OwnAttributes = 1 .. Len(OwnAttributes) /\ Len(OwnAttributes) \in Nat
    BY <2>1
  <2> QED
    BY <2>2, <2>3 DEF Init
<1>2. ToSet(memory) \subseteq Entry
  BY <1>1 DEF ToSet
<1>3. OwnAttributes[1] \in Attributes /\ FirstValue \in Values
  BY ClientKeyringAssumption
<1>4. [readers |-> {}, writer |-> NoTask, queue |-> <<>>] \in Lock
  BY DEF Lock
<1>5. item \in [Handles -> [state : {"unused", "locked", "unlocked", "none"},
                            attributes : Attributes, value : Values]]
  BY <1>3 DEF Init
<1>6. budget \in [{"call", "fault"} -> Nat]
  BY ClientKeyringAssumption DEF Init
<1>7. TypeOK
  BY <1>1, <1>2, <1>4, <1>5, <1>6, BlankType DEF Init, TypeOK
<1> QED
  BY <1>7 DEF Init, TypeInv, Calling

LEMMA CallTypes ==
  ASSUME Shape, TypeInv, NEW t \in Tasks, NEW op \in OpsOf[t], Call(t, op)
  PROVE  TypeInv'
<1>1. PICK h \in Handles, a \in Attributes, v \in Values :
        Goto(t, "first", [Blank EXCEPT !.op = op, !.handle = h, !.attributes = a, !.value = v])
  BY DEF Call
<1> DEFINE l == [Blank EXCEPT !.op = op, !.handle = h, !.attributes = a, !.value = v]
<1>2. op \in KeyringOp \cup ItemOp
  BY ClientKeyringAssumption
<1>3. l \in Local /\ l.op = op
  BY <1>2, BlankType DEF Local
<1>4. budget' \in [{"call", "fault"} -> Nat]
  BY SpendType DEF Call, TypeInv
<1> HIDE DEF l
<1>5. Goto(t, "first", l)
  BY <1>1 DEF l
<1> QED
  BY <1>3, <1>4, <1>5, GotoTypes DEF Call, TypeInv, TypeOK, Labels

LEMMA FirstTypes ==
  ASSUME Shape, TypeInv, NEW t \in Tasks, First(t)
  PROVE  TypeInv'
<1> DEFINE Items == [Handles -> [state : {"unused", "locked", "unlocked", "none"},
                                 attributes : Attributes, value : Values]]
<1>0. /\ loc[t] \in Local /\ loc[t].op \in OpsOf[t] /\ pc[t] = "first"
      /\ loc[t].op \in KeyringOp \cup ItemOp /\ IsLocal(loc[t])
      /\ item \in Items /\ loc[t].handle \in Handles
  BY DEF First, TypeInv, TypeOK, Calling, Shape, TaskShape, Suits, Local
<1>1. /\ memory' \in Seq(Entry) /\ file' \in Seq(Entry) /\ acked' \subseteq Entry
      /\ broken' \subseteq Locks /\ budget' \in [{"call", "fault"} -> Nat]
      /\ keyring \in {"locked", "unlocked", "none"}
  BY DEF First, TypeInv, TypeOK
<1>2. ASSUME NEW label \in Labels, NEW l \in Local, Goto(t, label, l),
             lock' = Taken(t, FirstGuard(loc[t])), l.op = loc[t].op,
             label = "edit" => l.op \in Editing, label \notin {"write", "lookup"},
             keyring' \in {"locked", "unlocked", "none"}, item' \in Items
      PROVE  TypeInv'
  <2>1. lock' \in [Locks -> Lock]
    BY <1>0, <1>2, FirstGuardType, TakenType DEF TypeInv
  <2> QED
    BY <1>0, <1>1, <1>2, <2>1, GotoTypes
<1>3. ASSUME Return(t), keyring' \in {"locked", "unlocked", "none"}, item' \in Items
      PROVE  TypeInv'
  BY <1>1, <1>3, ReturnTypes
<1>4. CASE LockKeyring(t)
  BY <1>0, <1>1, <1>3, <1>4 DEF LockKeyring
<1>5. CASE UnlockKeyring(t)
  BY <1>0, <1>1, <1>2, <1>3, <1>5 DEF UnlockKeyring, Labels
<1>6. CASE WithKeyring(t)
  BY <1>0, <1>1, <1>2, <1>3, <1>6 DEF WithKeyring, Labels, Editing
<1>7. CASE Search(t)
  <2>1. item' \in Items
    <3> DEFINE i == FirstMatch(loc[t].attributes)
    <3>1. i # 0 => memory[i] \in Entry
      BY FirstMatchType DEF TypeInv, TypeOK
    <3> DEFINE e == [state |-> "unlocked", attributes |-> memory[i].attributes,
                     value |-> memory[i].value]
    <3>2. i # 0 => e \in [state : {"unused", "locked", "unlocked", "none"},
                          attributes : Attributes, value : Values]
      BY <3>1 DEF Entry
    <3>3. item' = item \/ (i # 0 /\ item' = [item EXCEPT ![loc[t].handle] = e])
      BY <1>7 DEF Search
    <3> HIDE DEF e, i
    <3> QED
      BY <1>0, <3>2, <3>3
  <2> QED
    BY <1>0, <1>1, <1>3, <1>7, <2>1 DEF Search
<1>8. CASE Set(t)
  <2> DEFINE own == item[loc[t].handle].attributes
             l == [loc[t] EXCEPT !.attributes = own, !.own = own]
  <2>1. own \in Attributes
    BY <1>0
  <2>2. l \in Local /\ l.op = loc[t].op
    BY <1>0, <2>1 DEF Local
  <2>3. item' \in Items
    BY <1>0, <1>8 DEF Set, Local
  <2>4. CASE Return(t)
    BY <1>1, <1>3, <1>8, <2>3, <2>4 DEF Set
  <2>5. CASE Goto(t, "second", l) /\ lock' = Taken(t, FirstGuard(loc[t]))
    <3> HIDE DEF l
    <3> QED
      BY <1>1, <1>2, <1>8, <2>2, <2>3, <2>5 DEF Set, Labels
  <2> QED
    BY <1>8, <2>4, <2>5 DEF Set
<1>9. CASE Turn(t)
  <2>1. item' \in Items
    BY <1>0, <1>9 DEF Turn
  <2> QED
    BY <1>0, <1>1, <1>2, <1>3, <1>9, <2>1 DEF Turn, Labels
<1>10. CASE DeleteItem(t)
  <2> DEFINE l == [loc[t] EXCEPT !.attributes = item[loc[t].handle].attributes]
  <2>1. l \in Local /\ l.op = loc[t].op
    BY <1>0 DEF Local
  <2>2. CASE Return(t)
    BY <1>0, <1>1, <1>3, <1>10, <2>2 DEF DeleteItem
  <2>3. CASE Goto(t, "second", l) /\ lock' = Taken(t, FirstGuard(loc[t]))
    <3> HIDE DEF l
    <3> QED
      BY <1>0, <1>1, <1>2, <1>10, <2>1, <2>3 DEF DeleteItem, Labels
  <2> QED
    BY <1>10, <2>2, <2>3 DEF DeleteItem
<1>11. CASE Look(t) \/ ReadItem(t)
  BY <1>0, <1>1, <1>3, <1>11 DEF Look, ReadItem
<1> QED
  BY <1>4, <1>5, <1>6, <1>7, <1>8, <1>9, <1>10, <1>11 DEF First

LEMMA SecondTypes ==
  ASSUME Shape, TypeInv, NEW t \in Tasks, Second(t)
  PROVE  TypeInv'
<1> DEFINE Items == [Handles -> [state : {"unused", "locked", "unlocked", "none"},
                                 attributes : Attributes, value : Values]]
<1>0. /\ loc[t] \in Local /\ loc[t].op \in OpsOf[t] /\ pc[t] = "second"
      /\ loc[t].op \in OwnOp /\ IsLocal(loc[t])
      /\ item \in Items /\ loc[t].handle \in Handles
  BY DEF Second, TypeInv, TypeOK, Calling, Shape, TaskShape, Suits, Local
<1>1. /\ memory' \in Seq(Entry) /\ file' \in Seq(Entry) /\ acked' \subseteq Entry
      /\ budget' \in [{"call", "fault"} -> Nat]
      /\ keyring' \in {"locked", "unlocked", "none"}
  BY DEF Second, TypeInv, TypeOK
<1>2. item' \in Items
  BY <1>0 DEF Second, PutBack, Is
<1>3. broken' \subseteq Locks
  BY <1>0, SharedIsLock DEF Second, InHand, TypeInv, TypeOK
<1>4. CASE Return(t)
  BY <1>1, <1>2, <1>3, <1>4, ReturnTypes
<1>5. ASSUME NEW label \in {"crypt", "edit", "lookup"}, Goto(t, label, loc[t]),
             lock' = Taken(t, SecondGuard(loc[t])),
             label = "edit" => loc[t].op \in Editing,
             label = "lookup" => loc[t].op = "setAttributes"
      PROVE  TypeInv'
  <2>1. lock' \in [Locks -> Lock]
    BY <1>0, <1>5, SecondGuardType, TakenType DEF TypeInv
  <2>2. label \in Labels
    BY DEF Labels
  <2> QED
    BY <1>0, <1>1, <1>2, <1>3, <1>5, <2>1, <2>2, GotoTypes
<1>6. CASE /\ Goto(t, IF loc[t].op \in {"lockItem", "unlockItem"} THEN "crypt" ELSE "edit", loc[t])
           /\ lock' = Taken(t, SecondGuard(loc[t]))
  BY <1>0, <1>5, <1>6 DEF OwnOp, Editing
<1>7. CASE /\ Goto(t, "lookup", loc[t]) /\ lock' = Taken(t, SecondGuard(loc[t]))
           /\ loc[t].op = "setAttributes"
  BY <1>5, <1>7
<1> QED
  BY <1>4, <1>6, <1>7 DEF Second

LEMMA LastTypes ==
  ASSUME Shape, TypeInv, NEW t \in Tasks,
         Unlocked(t) \/ Crypt(t) \/ Lookup(t) \/ Edit(t) \/ Write(t) \/ Cancel(t)
  PROVE  TypeInv'
<1> DEFINE Items == [Handles -> [state : {"unused", "locked", "unlocked", "none"},
                                 attributes : Attributes, value : Values]]
<1>0. /\ loc[t] \in Local /\ Calling(t) /\ item \in Items /\ loc[t].handle \in Handles
      /\ memory \in Seq(Entry) /\ file \in Seq(Entry) /\ acked \subseteq Entry
      /\ broken \subseteq Locks /\ budget \in [{"call", "fault"} -> Nat]
      /\ keyring \in {"locked", "unlocked", "none"} /\ lock \in [Locks -> Lock]
  BY DEF TypeInv, TypeOK, Local
<1>1. CASE Unlocked(t)
  <2>1. budget' \in [{"call", "fault"} -> Nat] /\ broken' \subseteq Locks
    BY <1>0, <1>1, SpendType, SharedIsLock DEF Unlocked, TypeInv
  <2> QED
    BY <1>0, <1>1, <2>1, ReturnTypes DEF Unlocked
<1>2. CASE Crypt(t)
  <2>1. budget' \in [{"call", "fault"} -> Nat] /\ broken' \subseteq Locks
    BY <1>0, <1>2, SpendType, SharedIsLock DEF Crypt, TypeInv
  <2>2. item' \in Items
    BY <1>0, <1>2 DEF Crypt
  <2> QED
    BY <1>0, <1>2, <2>1, <2>2, ReturnTypes DEF Crypt
<1>3. CASE Lookup(t)
  <2> DEFINE own == item[loc[t].handle].attributes
             l == [loc[t] EXCEPT !.own = own, !.index = FirstMatch(own),
                                 !.value = item[loc[t].handle].value]
  <2>1. own \in Attributes /\ item[loc[t].handle].value \in Values
    BY <1>0
  <2>2. FirstMatch(own) \in Nat
    BY FirstMatchType DEF TypeInv
  <2>3. l \in Local /\ l.op = loc[t].op
    BY <1>0, <2>1, <2>2 DEF Local
  <2>4. item' \in Items
    BY <1>0, <1>3 DEF Lookup, Local
  <2>5. Goto(t, "edit", l)
    BY <1>3 DEF Lookup
  <2>6. loc[t].op \in OpsOf[t] /\ loc[t].op \in Editing
    BY <1>0, <1>3 DEF Lookup, Calling, Editing
  <2> HIDE DEF l
  <2> QED
    BY <1>0, <1>3, <2>3, <2>4, <2>5, <2>6, GotoTypes DEF Lookup, Labels
<1>4. CASE Edit(t)
  <2>1. CASE Return(t) /\ UNCHANGED <<memory, acked>>
    BY <1>0, <1>4, <2>1, ReturnTypes DEF Edit
  <2>2. CASE /\ ~(loc[t].index > Len(memory)) /\ memory' = Edited(loc[t])
             /\ acked' = acked \ Meant(loc[t]) /\ Goto(t, "write", loc[t]) /\ UNCHANGED lock
    <3>1. loc[t].op \in Editing /\ loc[t].op \in OpsOf[t]
      BY <1>0, <1>4 DEF Edit, Calling
    <3>2. memory' \in Seq(Entry)
      BY <1>0, <2>2, <3>1, EditedType DEF TypeInv
    <3> QED
      BY <1>0, <1>4, <2>2, <3>1, <3>2, GotoTypes DEF Edit, Labels
  <2> QED
    BY <1>4, <2>1, <2>2 DEF Edit
<1>5. CASE Write(t)
  <2>1. budget' \in [{"call", "fault"} -> Nat]
    BY <1>0, <1>5, SpendType DEF Write, TypeInv
  <2>2. file' \in Seq(Entry) /\ acked' \subseteq Entry
    BY <1>0, <1>5 DEF Write, Written, ToSet
  <2> QED
    BY <1>0, <1>5, <2>1, <2>2, ReturnTypes DEF Write
<1>6. CASE Cancel(t)
  <2>1. budget' \in [{"call", "fault"} -> Nat]
    BY <1>6, SpendType DEF Cancel, TypeInv
  <2>2. broken' \subseteq Locks
    BY <1>0, <1>6, SharedIsLock DEF Cancel, InHand
  <2> QED
    BY <1>0, <1>6, <2>1, <2>2, ReturnTypes DEF Cancel
<1> QED
  BY <1>1, <1>2, <1>3, <1>4, <1>5, <1>6

LEMMA EnqueueTypes ==
  ASSUME Shape, TypeInv, NEW t \in Tasks, Enqueue(t)
  PROVE  TypeInv'
<1>1. lock' \in [Locks -> Lock]
  <2> DEFINE on == Wanted(t).on
  <2>1. lock' = [lock EXCEPT ![on].queue = Append(@, t)]
    BY DEF Enqueue
  <2>2. on \in Locks
    BY FirstGuardType, SecondGuardType DEF Enqueue, Wanted, Shape, TaskShape, Suits
  <2>3. lock[on] \in Lock
    BY <2>2 DEF TypeInv, TypeOK
  <2>4. [lock[on] EXCEPT !.queue = Append(@, t)] \in Lock
    BY <2>3 DEF Lock
  <2> HIDE DEF on
  <2> QED
    BY <2>1, <2>2, <2>4 DEF TypeInv, TypeOK
<1> QED
  BY <1>1 DEF Enqueue, TypeInv, TypeOK, Calling

LEMMA NextTypes == Shape /\ TypeInv /\ [Next]_vars => TypeInv'
<1> SUFFICES ASSUME Shape, TypeInv, [Next]_vars PROVE TypeInv'
  OBVIOUS
<1>1. ASSUME NEW t \in Tasks, NEW op \in OpsOf[t], Call(t, op) PROVE TypeInv'
  BY <1>1, CallTypes
<1>2. ASSUME NEW t \in Tasks, Step(t) \/ Cancel(t) PROVE TypeInv'
  BY <1>2, EnqueueTypes, FirstTypes, SecondTypes, LastTypes DEF Step
<1>3. CASE UNCHANGED vars
  BY <1>3 DEF vars, TypeInv, TypeOK, Calling
<1> QED
  BY <1>1, <1>2, <1>3 DEF Next

LEMMA TypeInvariant == Spec => []TypeInv
<1>1. Init => Shape /\ TypeInv
  BY InitShape, InitTypes
<1>2. (Shape /\ TypeInv) /\ [Next]_vars => (Shape /\ TypeInv)'
  BY NextShape, NextTypes
<1> QED
  BY <1>1, <1>2, PTL DEF Spec

\* Invariant: the types of the application's keyring, its items, locks and calls, and that
\* what lock and unlock take out of an Option is put back unless the call failed.
THEOREM KeyringWellFormed == Spec => []WellFormed
<1>1. TypeInv /\ NothingLeftTaken => WellFormed
  BY DEF TypeInv, WellFormed
<1> QED
  BY <1>1, TypeInvariant, NothingStaysTaken, PTL


-----------------------------------------------------------------------------
(* Entries that were acknowledged *)

AckInv == acked \subseteq ToSet(memory) /\ acked \subseteq ToSet(file)

LEMMA InitAcked == Init => AckInv
BY DEF Init, AckInv

\* An edit takes from the list no more than its caller means to be gone, if set_attributes has
\* the index of its own item.
LEMMA EditKeeps ==
  ASSUME TypeInv, AckInv, EditsOwnItem, NEW t \in Tasks, pc[t] = "edit", loc[t].op \in Editing,
         ~(loc[t].index > Len(memory))
  PROVE  acked \ Meant(loc[t]) \subseteq ToSet(Edited(loc[t]))
<1> DEFINE l == loc[t]
<1>0. l \in Local /\ memory \in Seq(Entry) /\ New(l) \in Entry
  BY DEF TypeInv, TypeOK, New, Entry, Local
<1>1. /\ Without(l.attributes) \in Seq(Entry)
      /\ ToSet(Without(l.attributes)) = {e \in ToSet(memory) : ~Matches(e, l.attributes)}
  <2>1. {e \in ToSet(memory) : ~Matches(e, l.attributes)} =
          ToSet(memory) \cap {e \in ToSet(memory) : ~Matches(e, l.attributes)}
    OBVIOUS
  <2> QED
    BY <1>0, <2>1, KeptElements DEF Without
<1>2. /\ ToSet(Append(memory, New(l))) = ToSet(memory) \cup {New(l)}
      /\ ToSet(Append(Without(l.attributes), New(l))) =
           ToSet(Without(l.attributes)) \cup {New(l)}
  BY <1>0, <1>1, AppendElements
<1> HIDE DEF l
<1>3. ASSUME NEW e \in acked, e \notin Meant(l)
      PROVE  e \in ToSet(Edited(l))
  <2>1. e \in ToSet(memory)
    BY <1>3 DEF AckInv
  <2>2. CASE l.op = "create"
    BY <1>2, <2>1, <2>2 DEF Edited
  <2>3. CASE l.op \in {"replace", "set", "delete", "deleteItem"}
    <3>1. ~Matches(e, l.attributes)
      BY <1>3, <2>3 DEF Meant
    <3> QED
      BY <1>1, <1>2, <2>1, <2>3, <3>1 DEF Edited
  <2>4. CASE l.op = "setAttributes" /\ l.index = 0
    <3>1. ~Matches(e, l.attributes)
      BY <1>3, <2>4 DEF Meant
    <3> QED
      BY <1>1, <1>2, <2>1, <2>4, <3>1 DEF Edited
  <2>5. CASE l.op = "setAttributes" /\ l.index # 0
    <3>1. e.attributes # l.own
      BY <1>3, <2>5 DEF Meant
    <3>2. l.index \in DOMAIN memory /\ memory[l.index].attributes = l.own
      BY <2>5 DEF EditsOwnItem, l
    <3>3. PICK j \in DOMAIN memory : memory[j] = e
      BY <2>1 DEF ToSet
    <3>4. Edited(l) = [memory EXCEPT ![l.index] = New(l)]
      BY <2>5 DEF Edited
    <3>5. j \in DOMAIN Edited(l) /\ Edited(l)[j] = e
      BY <3>1, <3>2, <3>3, <3>4
    <3> QED
      BY <3>5 DEF ToSet
  <2> QED
    BY <2>2, <2>3, <2>4, <2>5 DEF Editing, l
<1> QED
  BY <1>3 DEF l

LEMMA EditAcked ==
  ASSUME TypeInv, AckInv, EditsOwnItem, NEW t \in Tasks, Edit(t)
  PROVE  AckInv'
<1>0. pc[t] = "edit" /\ loc[t].op \in Editing /\ UNCHANGED file
  BY DEF Edit, TypeInv, Calling
<1>1. CASE UNCHANGED <<memory, acked>>
  BY <1>0, <1>1 DEF AckInv
<1>2. CASE /\ ~(loc[t].index > Len(memory)) /\ memory' = Edited(loc[t])
           /\ acked' = acked \ Meant(loc[t])
  BY <1>0, <1>2, EditKeeps DEF AckInv
<1> QED
  BY <1>1, <1>2 DEF Edit

LEMMA NextAcked ==
  TypeInv /\ EditsOwnItem /\ AckInv /\ [Next]_vars => AckInv'
<1> SUFFICES ASSUME TypeInv, EditsOwnItem, AckInv, [Next]_vars PROVE AckInv'
  OBVIOUS
<1>1. CASE \E t \in Tasks : Write(t)
  BY <1>1 DEF Write, Written, AckInv
<1>2. ASSUME NEW t \in Tasks,
             \/ Enqueue(t) \/ First(t) \/ Second(t) \/ Unlocked(t) \/ Crypt(t) \/ Lookup(t)
             \/ Cancel(t) \/ \E op \in OpsOf[t] : Call(t, op)
      PROVE  AckInv'
  BY <1>2 DEF Enqueue, First, Second, Unlocked, Crypt, Lookup, Cancel, Call, AckInv
<1>3. CASE UNCHANGED vars
  BY <1>3 DEF vars, AckInv
<1> QED
  BY <1>1, <1>2, <1>3, EditAcked DEF Next, Step

\* Whatever tasks call at the same time, fails or is dropped: an entry whose call answered Ok
\* is lost in one way only.  As long as set_attributes replaces the entry that its Item stands
\* for (keyring.rs:496), the entry stays in the file until a call is made that is about it.
THEOREM AcknowledgedStays == Spec /\ []EditsOwnItem => []AckedStay
<1>1. Init => Shape /\ TypeInv /\ AckInv
  BY InitShape, InitTypes, InitAcked
<1>2. (Shape /\ TypeInv /\ AckInv) /\ EditsOwnItem /\ [Next]_vars => (Shape /\ TypeInv /\ AckInv)'
  BY NextShape, NextTypes, NextAcked
<1>3. AckInv => AckedStay
  BY DEF AckInv, AckedStay
<1> QED
  BY <1>1, <1>2, <1>3, PTL DEF Spec

=============================================================================
