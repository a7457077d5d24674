---------------------------- MODULE SessionsProofs ----------------------------
(***************************************************************************)
(* What holds of Sessions for all values of its constants.                 *)
(***************************************************************************)
EXTENDS Sessions, FiniteSetTheorems, SequenceTheorems, TLAPS

-----------------------------------------------------------------------------
(* The inductive invariant *)

\* The tasks there are.
TaskType ==
  {NoTask, Asked}
    \cup [op : {"open"}, at : {"numbered", "inserted"}, path : Paths, looks : {0}]
    \cup [op : {"use"}, at : {"sent"}, path : Paths, looks : Looks]
    \cup [op : {"close"}, at : {"sent", "removed"}, path : Paths, looks : {0}]

\* A handle asks for a session before it has one, and closes it after it went.
Shape(h) ==
  /\ handle[h].phase = "none" => task[h] = NoTask
  /\ handle[h].phase = "opening" => task[h].op = "open"
  /\ task[h].op = "open" => handle[h].phase \in {"opening", "gone"}
  /\ task[h].op = "close" => handle[h].phase = "gone"
  /\ handle[h].phase \in {"open", "kept"} => handle[h].path \in Paths
  /\ handle[h].epoch <= epoch
  /\ handle[h].phase \in {"opening", "open", "kept"} => handle[h].connection \in online

Shapes ==
  /\ task \in [Handles -> TaskType]
  /\ \A h \in Handles : Shape(h)
  /\ sweep.removed => sweep.path \in Paths

\* Every call that may still take a number will find one.
Waits(h) == handle[h].phase = "none" \/ task[h].at = "asked"
Waiting == {h \in Handles : Waits(h)}

Counted == index + Cardinality(Waiting) <= Cardinality(Handles)

Opens(h, s)  == task[h].at \in {"numbered", "inserted"} /\ task[h].path = s
Closes(h, s) == task[h].at = "removed" /\ task[h].path = s
SweepCloses(s) == sweep.removed /\ sweep.path = s

\* The daemon gave s to the handle, since it was started.
Owns(h, s) ==
  \/ Opens(h, s)
  \/ Holds(h) /\ handle[h].path = s
  \/ task[h].op = "close" /\ handle[h].epoch = epoch /\ task[h].path = s

Unique ==
  /\ \A h \in Handles, s \in Paths : Owns(h, s) => s <= index
  /\ \A g, h \in Handles, s \in Paths : Owns(g, s) /\ Owns(h, s) => g = h

\* What is not in the list yet, and what is not on the bus yet.
NotListed(s)   == s > index \/ \E h \in Handles : task[h].at = "numbered" /\ task[h].path = s
NotExported(s) == s > index \/ \E h \in Handles : Opens(h, s)

\* Nobody marks or closes a session before it is there.
Ahead ==
  \A s \in Paths :
    /\ NotExported(s) =>
         /\ s \notin exported /\ s \notin sweep.due /\ sweep.path # s /\ left[s] # "long"
         /\ \A h \in Handles : ~Closes(h, s)
    /\ NotListed(s) => s \notin known /\ seen # s /\ left[s] = "no"

\* A session waits in the list until it is on the bus.
Inserted ==
  \A h \in Handles :
    task[h].at = "inserted" => /\ task[h].path \in known
                               /\ key[task[h].path] = ClientKey(h)
                               /\ owner[task[h].path] = handle[h].connection

\* Only the sessions of connections that are gone are marked and swept.
Left ==
  /\ \A i \in DOMAIN queue : queue[i] \notin online
  /\ \A s \in Paths :
       s = seen \/ s \in sweep.due \/ s = sweep.path \/ left[s] # "no" => owner[s] \notin online

\* The list and the object server differ by what is under way.
Tables ==
  \A s \in Paths :
    /\ s \in known => \/ s \in exported
                      \/ \E h \in Handles : task[h].at = "inserted" /\ task[h].path = s
    /\ s \in exported => s \in known \/ SweepCloses(s) \/ \E h \in Handles : Closes(h, s)
    /\ SweepCloses(s) \/ (\E h \in Handles : Closes(h, s)) => s \notin known

Typed == TypeOK /\ Shapes

IInv ==
  /\ Typed /\ Counted /\ Unique /\ Ahead /\ Inserted /\ Left /\ Tables
  /\ HeldSessionsAnswer

-----------------------------------------------------------------------------
(* Types *)

LEMMA PathsType == Cardinality(Handles) \in Nat /\ Paths \subseteq Nat /\ NoSession \notin Paths
BY SessionsAssumption, FS_CardinalityType DEF Paths

LEMMA TaskTypes == TaskType \subseteq Task
<1> SUFFICES ASSUME NEW t \in TaskType PROVE t \in Task
  OBVIOUS
<1>1. CASE t \in {NoTask, Asked}
  BY <1>1 DEF Task, NoTask, Asked
<1>2. CASE t \in [op : {"open"}, at : {"numbered", "inserted"}, path : Paths, looks : {0}]
  BY <1>2 DEF Task
<1>3. CASE t \in [op : {"use"}, at : {"sent"}, path : Paths, looks : Looks]
  BY <1>3 DEF Task, Looks
<1>4. CASE t \in [op : {"close"}, at : {"sent", "removed"}, path : Paths, looks : {0}]
  BY <1>4 DEF Task
<1> QED
  BY <1>1, <1>2, <1>3, <1>4 DEF TaskType

\* A step of one handle, or of its call.
LEMMA OneHandle ==
  ASSUME Typed, NEW h \in Handles,
         handle' \in [Handles -> Handle], task' \in [Handles -> TaskType],
         \A g \in Handles \ {h} : handle'[g] = handle[g] /\ task'[g] = task[g],
         Shape(h)', UNCHANGED <<sweep, online, epoch>>
  PROVE  Shapes' /\ handle' \in [Handles -> Handle] /\ task' \in [Handles -> Task]
<1>1. ASSUME NEW g \in Handles PROVE Shape(g)'
  BY <1>1 DEF Typed, Shapes, Shape
<1> QED
  BY <1>1, TaskTypes DEF Typed, Shapes

LEMMA InitTyped == Init => Typed
<1> SUFFICES ASSUME Init PROVE Typed
  OBVIOUS
<1>1. (CHOOSE k \in Connections : TRUE) \in Connections
  BY SessionsAssumption
<1>2. task \in [Handles -> TaskType]
  BY DEF Init, TaskType
<1>3. handle \in [Handles -> Handle] /\ epoch \in 0 .. Restarts
  BY <1>1, SessionsAssumption DEF Init, Handle
<1>4. TypeOK
  <2>1. /\ task \in [Handles -> Task]
        /\ sweep \in [due : SUBSET Paths, path : Paths \cup {NoSession}, removed : BOOLEAN]
    BY <1>2, TaskTypes DEF Init, NoSweep
  <2>2. queue \in Seq(Connections) /\ index \in 0 .. Cardinality(Handles)
    BY PathsType DEF Init
  <2>3. key \in [Paths -> Keys] /\ owner \in [Paths -> Connections]
        /\ left \in [Paths -> {"no", "recent", "long"}]
    BY <1>1 DEF Init, Keys
  <2> QED
    BY <1>3, <2>1, <2>2, <2>3 DEF Init, TypeOK
<1>5. Shapes
  BY <1>2, SessionsAssumption DEF Init, Shapes, Shape, NoTask, NoSweep
<1> QED
  BY <1>4, <1>5 DEF Typed

\* What the fields of a task say of each other.
LEMMA TaskKinds ==
  ASSUME Typed, NEW h \in Handles
  PROVE  /\ handle[h] \in Handle
         /\ task[h].at = "asked" => task[h] = Asked
         /\ task[h].at \in {"asked", "numbered", "inserted"} => task[h].op = "open"
         /\ task[h].at = "removed" => task[h].op = "close"
         /\ task[h].at \in {"numbered", "inserted"} =>
              task[h] = [op |-> "open", at |-> task[h].at, path |-> task[h].path, looks |-> 0]
         /\ task[h].op \in {"use", "close"} => task[h].at \in {"sent", "removed"}
         /\ task[h].op = "open" => task[h].at \in {"asked", "numbered", "inserted"}
         /\ task[h].op = "use" => task[h].at = "sent"
         /\ task[h].at = "removed" =>
              task[h] = [op |-> "close", at |-> "removed", path |-> task[h].path, looks |-> 0]
         /\ task[h].op \in {"use", "close"} => task[h].path \in Paths
         /\ task[h].at \in {"numbered", "inserted", "sent", "removed"} => task[h].path \in Paths
<1>1. task[h] \in TaskType /\ handle[h] \in Handle
  BY DEF Typed, TypeOK, Shapes
<1> QED
  BY <1>1 DEF TaskType, NoTask, Asked

LEMMA TaskMembers ==
  ASSUME NEW s \in Paths
  PROVE  /\ NoTask \in TaskType /\ Asked \in TaskType
         /\ \A at \in {"numbered", "inserted"} :
              [op |-> "open", at |-> at, path |-> s, looks |-> 0] \in TaskType
         /\ \A n \in Looks : [op |-> "use", at |-> "sent", path |-> s, looks |-> n] \in TaskType
         /\ \A at \in {"sent", "removed"} :
              [op |-> "close", at |-> at, path |-> s, looks |-> 0] \in TaskType
BY DEF TaskType

\* Every step of a handle leaves the type of the others' calls alone.
LEMMA NowType ==
  ASSUME Typed, NEW h \in Handles, NEW t \in TaskType, Now(h, t)
  PROVE  task' \in [Handles -> TaskType] /\ task'[h] = t
         /\ \A g \in Handles \ {h} : task'[g] = task[g]
BY DEF Now, Typed, Shapes

-----------------------------------------------------------------------------
(* Steps that open and close no session *)

\* The handle gets no session, and its call comes no closer to one.
Still(h) ==
  /\ task[h].at \in {"numbered", "inserted", "removed"}
       \/ task'[h].at \in {"numbered", "inserted", "removed"} =>
       /\ task'[h] = task[h]
       /\ handle'[h].connection = handle[h].connection
       /\ handle'[h].encrypted = handle[h].encrypted
  /\ \A s \in Paths : Owns(h, s)' => Owns(h, s)
  /\ Holds(h)' => /\ Holds(h)
                  /\ handle'[h].path = handle[h].path
                  /\ handle'[h].connection = handle[h].connection
                  /\ handle'[h].encrypted = handle[h].encrypted
  /\ Waits(h)' => Waits(h)

\* What may become of the marks, of what the watch has seen and of what the sweep has.
Marks ==
  \A s \in Paths :
    /\ seen' = s => seen = s \/ (s \in known /\ owner[s] \notin online)
    /\ left'[s] # "no" => left[s] # "no" \/ seen = s
    /\ left'[s] = "long" =>
         \/ left[s] = "long"
         \/ left[s] = "recent" /\ \A h \in Handles : task[h].op # "open"
    /\ s \in sweep'.due => s \in sweep.due \/ left[s] = "long"
    /\ sweep'.path = s => sweep.path = s \/ s \in sweep.due

Quiet ==
  /\ UNCHANGED <<known, exported, index, key, owner, epoch, robbed>>
  /\ online' \subseteq online
  /\ \A i \in DOMAIN queue' : queue'[i] \notin online'
  /\ \A s \in Paths : /\ SweepCloses(s)' => SweepCloses(s)
                      /\ SweepCloses(s) => SweepCloses(s)'
  /\ Marks
  /\ \A h \in Handles : Still(h)

\* A step of one handle or of its call that leaves the tables and the watch alone.
Local(h) ==
  /\ UNCHANGED <<known, exported, index, key, owner, tasks, online, epoch, robbed>>
  /\ handle' \in [Handles -> Handle] /\ task' \in [Handles -> TaskType]
  /\ \A g \in Handles \ {h} : handle'[g] = handle[g] /\ task'[g] = task[g]
  /\ Shape(h)' /\ Still(h)
  /\ left' \in [Paths -> {"no", "recent", "long"}]
  /\ \A s \in Paths : left'[s] \in {left[s], "no"}
  /\ excused' \subseteq Paths

LEMMA LocalStep ==
  ASSUME Typed, Left, NEW h \in Handles, Local(h)
  PROVE  Typed' /\ Quiet
<1>1. Typed'
  BY OneHandle DEF Local, Typed, TypeOK, tasks
<1>2. ASSUME NEW g \in Handles PROVE Still(g)
  <2>1. CASE g = h
    BY <2>1 DEF Local
  <2>2. CASE g # h
    BY <2>2 DEF Local, Still, Owns, Opens, Holds, Waits
  <2> QED
    BY <2>1, <2>2
<1>3. Marks
  BY DEF Local, Marks, tasks
<1> QED
  BY <1>1, <1>2, <1>3 DEF Local, Quiet, Left, tasks, SweepCloses

\* The same when nothing happens to the marks.
LEMMA LocalSame ==
  ASSUME Typed, Left, NEW h \in Handles,
         UNCHANGED <<daemon, tasks, online, epoch, excused, robbed>>,
         handle' \in [Handles -> Handle], task' \in [Handles -> TaskType],
         \A g \in Handles \ {h} : handle'[g] = handle[g] /\ task'[g] = task[g],
         Shape(h)', Still(h)
  PROVE  Typed' /\ Quiet
<1>1. Local(h)
  BY DEF Local, Typed, TypeOK, daemon
<1> QED
  BY <1>1, LocalStep

LEMMA NewStep ==
  ASSUME Typed, Left, NEW h \in Handles, NEW k \in Connections, New(h, k)
  PROVE  Typed' /\ Quiet
<1>1. [handle[h] EXCEPT !.phase = "opening", !.connection = k] \in Handle
  BY TaskKinds DEF Handle
<1>2. /\ handle' \in [Handles -> Handle]
      /\ handle'[h] = [handle[h] EXCEPT !.phase = "opening", !.connection = k]
      /\ \A g \in Handles \ {h} : handle'[g] = handle[g]
  BY <1>1 DEF New, Typed, TypeOK
<1>3. /\ task' \in [Handles -> TaskType] /\ task'[h] = Asked
      /\ \A g \in Handles \ {h} : task'[g] = task[g]
  BY NowType DEF New, TaskType
<1>4. Shape(h) /\ handle[h].phase = "none" /\ k \in online
  BY DEF New, Typed, Shapes
<1>5. Shape(h)'
  BY <1>2, <1>3, <1>4, TaskKinds DEF New, Shape, NoTask, Asked, Handle
<1>6. Still(h)
  BY <1>2, <1>3, <1>4, TaskKinds
     DEF New, Shape, NoTask, Asked, Handle, Still, Owns, Opens, Holds, Waits
<1> QED
  BY <1>2, <1>3, <1>5, <1>6, LocalSame DEF New

LEMMA KeysFailStep ==
  ASSUME Typed, Left, NEW h \in Handles, KeysFail(h)
  PROVE  Typed' /\ Quiet
<1>0. Shape(h) /\ task[h].op = "open" /\ task[h].at = "asked" /\ handle[h] \in Handle
  BY TaskKinds DEF KeysFail, Typed, Shapes
<1>1. CASE handle[h].phase = "opening" /\ Fallback(h)
  <2>1. [handle[h] EXCEPT !.encrypted = FALSE] \in Handle
    BY <1>0 DEF Handle
  <2>2. /\ handle' \in [Handles -> Handle] /\ handle'[h] = [handle[h] EXCEPT !.encrypted = FALSE]
        /\ \A g \in Handles \ {h} : handle'[g] = handle[g]
    BY <1>1, <2>1 DEF Fallback, Typed, TypeOK
  <2>3. /\ task' \in [Handles -> TaskType] /\ task'[h] = Asked
        /\ \A g \in Handles \ {h} : task'[g] = task[g]
    BY <1>1, NowType DEF Fallback, TaskType
  <2>4. Shape(h)'
    BY <1>0, <1>1, <2>2, <2>3 DEF KeysFail, Shape, NoTask, Asked, Handle
  <2>5. Still(h)
    BY <1>0, <1>1, <2>2, <2>3 DEF KeysFail, Asked, Handle, Still, Owns, Opens, Holds, Waits
  <2> QED
    BY <2>2, <2>3, <2>4, <2>5, LocalSame DEF KeysFail
<1>2. CASE handle[h].phase = "gone" /\ Done(h) /\ UNCHANGED handle
  <2>1. /\ task' \in [Handles -> TaskType] /\ task'[h] = NoTask
        /\ \A g \in Handles \ {h} : task'[g] = task[g]
    BY <1>2, NowType DEF Done, TaskType
  <2>2. Shape(h)'
    BY <1>0, <1>2, <2>1 DEF KeysFail, Shape, NoTask
  <2>3. Still(h)
    BY <1>0, <1>2, <2>1 DEF KeysFail, NoTask, Still, Owns, Opens, Holds, Waits
  <2> QED
    BY <1>2, <2>1, <2>2, <2>3, LocalSame DEF KeysFail, Typed, TypeOK
<1> QED
  BY <1>1, <1>2 DEF KeysFail

\* The handle keeps what it has of a session; it may go.
KeepsSession(h) ==
  /\ handle' \in [Handles -> Handle]
  /\ \A g \in Handles \ {h} : handle'[g] = handle[g]
  /\ \/ handle'[h].phase = handle[h].phase
     \/ handle'[h].phase = "gone" /\ handle[h].phase # "none"
     \/ handle'[h].phase = "kept" /\ handle[h].phase = "open"
  /\ handle'[h].connection = handle[h].connection
  /\ handle'[h].encrypted = handle[h].encrypted
  /\ handle'[h].path = handle[h].path
  /\ handle'[h].epoch = handle[h].epoch

LEMMA PhaseKeeps ==
  ASSUME Typed, NEW h \in Handles, NEW p \in {"gone", "kept"},
         handle' = [handle EXCEPT ![h].phase = p],
         handle[h].phase # "none", p = "kept" => handle[h].phase = "open"
  PROVE  KeepsSession(h) /\ handle'[h].phase = p
<1>1. handle[h] \in Handle /\ [handle[h] EXCEPT !.phase = p] \in Handle
  BY TaskKinds DEF Handle
<1>2. handle' \in [Handles -> Handle] /\ handle'[h] = [handle[h] EXCEPT !.phase = p]
      /\ \A g \in Handles \ {h} : handle'[g] = handle[g]
  BY <1>1 DEF Typed, TypeOK
<1> QED
  BY <1>1, <1>2 DEF KeepsSession, Handle

\* The handle changes its phase, or what it keeps, and its call stays as it is.
LEMMA PhaseStep ==
  ASSUME Typed, Left, NEW h \in Handles, KeepsSession(h),
         UNCHANGED <<daemon, task, tasks, online, epoch, excused, robbed>>,
         handle'[h].phase = "kept" => task[h] = NoTask
  PROVE  Typed' /\ Quiet
<1>1. Shape(h) /\ handle[h] \in Handle /\ handle'[h] \in Handle
  BY TaskKinds DEF KeepsSession, Typed, Shapes
<1>2. Shape(h)'
  BY <1>1 DEF KeepsSession, Shape, NoTask
<1>3. Still(h)
  BY <1>1 DEF KeepsSession, Still, Owns, Opens, Holds, Waits
<1>4. task' \in [Handles -> TaskType] /\ \A g \in Handles \ {h} : task'[g] = task[g]
  BY DEF Typed, Shapes
<1> QED
  BY <1>2, <1>3, <1>4, LocalSame DEF KeepsSession

LEMMA GiveUpStep ==
  ASSUME Typed, Left, NEW h \in Handles, GiveUp(h)
  PROVE  Typed' /\ Quiet
<1>1. KeepsSession(h) /\ handle'[h].phase = "gone"
  BY PhaseKeeps DEF GiveUp
<1> QED
  BY <1>1, PhaseStep DEF GiveUp

LEMMA KeepStep ==
  ASSUME Typed, Left, NEW h \in Handles, Keep(h) \/ Release(h)
  PROVE  Typed' /\ Quiet
<1>0. handle[h] \in Handle /\ task[h] = NoTask
  BY TaskKinds DEF Keep, Release
<1>1. ASSUME NEW b \in BOOLEAN, handle' = [handle EXCEPT ![h].kept = b]
      PROVE  KeepsSession(h)
  <2>1. [handle[h] EXCEPT !.kept = b] \in Handle
    BY <1>0 DEF Handle
  <2>2. handle' \in [Handles -> Handle] /\ handle'[h] = [handle[h] EXCEPT !.kept = b]
        /\ \A g \in Handles \ {h} : handle'[g] = handle[g]
    BY <1>1, <2>1 DEF Typed, TypeOK
  <2> QED
    BY <1>0, <2>1, <2>2 DEF KeepsSession, Handle
<1>2. ASSUME handle' = [handle EXCEPT ![h].phase = "gone", ![h].kept = FALSE],
             handle[h].phase = "kept"
      PROVE  KeepsSession(h)
  <2>1. [handle[h] EXCEPT !.phase = "gone", !.kept = FALSE] \in Handle
    BY <1>0 DEF Handle
  <2>2. /\ handle' \in [Handles -> Handle]
        /\ handle'[h] = [handle[h] EXCEPT !.phase = "gone", !.kept = FALSE]
        /\ \A g \in Handles \ {h} : handle'[g] = handle[g]
    BY <1>2, <2>1 DEF Typed, TypeOK
  <2> QED
    BY <1>0, <1>2, <2>1, <2>2 DEF KeepsSession, Handle
<1>3. KeepsSession(h)
  BY <1>1, <1>2 DEF Keep, Release
<1> QED
  BY <1>0, <1>3, PhaseStep DEF Keep, Release

LEMMA DropStep ==
  ASSUME Typed, Left, NEW h \in Handles, Drop(h)
  PROVE  Typed' /\ Quiet
<1>0. /\ Shape(h) /\ handle[h] \in Handle /\ task[h] = NoTask /\ handle[h].phase = "open"
      /\ handle[h].path \in Paths
  BY TaskKinds DEF Drop, Typed, Shapes, Shape
<1>1. CASE handle[h].kept
  <2>1. KeepsSession(h)
    BY <1>0, <1>1, PhaseKeeps DEF Drop
  <2> QED
    BY <1>0, <1>1, <2>1, PhaseStep DEF Drop
<1>2. CASE ~handle[h].kept
  <2>0. /\ handle' = [handle EXCEPT ![h].phase = "gone"]
        /\ Now(h, [op |-> "close", at |-> "sent", path |-> handle[h].path, looks |-> 0])
        /\ UNCHANGED <<daemon, tasks, online, epoch, excused, robbed>>
    BY <1>2 DEF Drop
  <2>1. KeepsSession(h) /\ handle'[h].phase = "gone"
    BY <1>0, <2>0, PhaseKeeps
  <2>2. /\ task' \in [Handles -> TaskType]
        /\ task'[h] = [op |-> "close", at |-> "sent", path |-> handle[h].path, looks |-> 0]
        /\ \A g \in Handles \ {h} : task'[g] = task[g]
    BY <1>0, <2>0, NowType, TaskMembers
  <2>3. Shape(h)'
    BY <1>0, <2>0, <2>1, <2>2 DEF KeepsSession, Shape, NoTask
  <2>4. Still(h)
    BY <1>0, <2>0, <2>1, <2>2 DEF KeepsSession, Still, Owns, Opens, Holds, Waits, NoTask
  <2> QED
    BY <2>0, <2>1, <2>2, <2>3, <2>4, LocalSame DEF KeepsSession
<1> QED
  BY <1>1, <1>2

LEMMA UseStep ==
  ASSUME Typed, Left, NEW h \in Handles, Use(h)
  PROVE  Typed' /\ Quiet
<1>0. /\ Shape(h) /\ handle[h] \in Handle /\ task[h] = NoTask /\ handle[h].path \in Paths
      /\ handle[h].phase \in {"open", "kept"}
  BY TaskKinds DEF Use, Typed, Shapes, Shape
<1>1. PICK n \in Looks : Now(h, [op |-> "use", at |-> "sent", path |-> handle[h].path, looks |-> n])
  BY DEF Use
<1>2. /\ task' \in [Handles -> TaskType]
      /\ task'[h] = [op |-> "use", at |-> "sent", path |-> handle[h].path, looks |-> n]
      /\ \A g \in Handles \ {h} : task'[g] = task[g]
  BY <1>0, <1>1, NowType, TaskMembers
<1>3. Shape(h)'
  BY <1>0, <1>2 DEF Use, Shape, NoTask
<1>4. Still(h)
  BY <1>0, <1>2 DEF Use, Still, Owns, Opens, Holds, Waits, NoTask
<1> QED
  BY <1>2, <1>3, <1>4, LocalSame DEF Use, Typed, TypeOK

LEMMA LookupStep ==
  ASSUME Typed, Left, NEW h \in Handles, Lookup(h)
  PROVE  Typed' /\ Quiet
<1>0. /\ Shape(h) /\ handle[h] \in Handle /\ task[h].op = "use" /\ task[h].path \in Paths
      /\ task[h].at = "sent"
  BY TaskKinds DEF Lookup, Typed, Shapes
<1>1. /\ task' \in [Handles -> TaskType] /\ task'[h].op \in {"none", "use"}
      /\ task'[h].at \in {"none", "sent"}
      /\ task'[h].op = "use" => task'[h].path = task[h].path
      /\ \A g \in Handles \ {h} : task'[g] = task[g]
  <2>1. CASE Done(h)
    BY <2>1, NowType DEF Done, NoTask, TaskType
  <2>2. CASE Now(h, [task[h] EXCEPT !.looks = 1])
    <3>1. task[h] \in [op : {"use"}, at : {"sent"}, path : Paths, looks : Looks]
      BY <1>0 DEF Typed, Shapes, TaskType, NoTask, Asked
    <3>2. [task[h] EXCEPT !.looks = 1] \in
            [op : {"use"}, at : {"sent"}, path : Paths, looks : Looks]
      BY <3>1 DEF Looks
    <3>3. [task[h] EXCEPT !.looks = 1] \in TaskType
      BY <3>2 DEF TaskType
    <3> QED
      BY <2>2, <3>1, <3>3, NowType
  <2> QED
    BY <2>1, <2>2 DEF Lookup
<1>2. /\ left' \in [Paths -> {"no", "recent", "long"}]
      /\ \A s \in Paths : left'[s] \in {left[s], "no"}
      /\ excused' \subseteq Paths
  BY <1>0 DEF Lookup, Unmark, Typed, TypeOK
<1>3. Shape(h)'
  BY <1>0, <1>1, TaskKinds DEF Lookup, Shape, Typed, Shapes, TaskType, NoTask, Asked
<1>4. Still(h)
  BY <1>0, <1>1 DEF Lookup, Still, Owns, Opens, Holds, Waits
<1>5. Local(h)
  BY <1>1, <1>2, <1>3, <1>4 DEF Local, Lookup, Typed, TypeOK, tasks
<1> QED
  BY <1>5, LocalStep

LEMMA DisconnectStep ==
  ASSUME Typed, Left, NEW k \in Connections, Disconnect(k)
  PROVE  Typed' /\ Quiet
<1>0. ASSUME NEW h \in Handles
      PROVE  Shape(h) /\ handle[h] \in Handle /\ task[h] \in TaskType
  BY TaskKinds DEF Typed, Shapes
<1>1. ASSUME NEW h \in Handles
      PROVE  /\ handle'[h] \in Handle
             /\ handle'[h].phase = IF handle[h].connection = k /\ handle[h].phase # "none"
                                     THEN "gone" ELSE handle[h].phase
             /\ handle'[h].connection = handle[h].connection
             /\ handle'[h].encrypted = handle[h].encrypted
             /\ handle'[h].path = handle[h].path
             /\ handle'[h].epoch = handle[h].epoch
  <2>1. [handle[h] EXCEPT !.phase = "gone"] \in Handle
    BY <1>0 DEF Handle
  <2>2. handle'[h] = IF handle[h].connection = k /\ handle[h].phase # "none"
                       THEN [handle[h] EXCEPT !.phase = "gone"] ELSE handle[h]
    BY DEF Disconnect
  <2> QED
    BY <1>0, <2>1, <2>2 DEF Handle
<1>2. handle' \in [Handles -> Handle]
  BY <1>1 DEF Disconnect
<1>3. ASSUME NEW h \in Handles
      PROVE  \/ task'[h] = task[h]
             \/ task'[h] = NoTask /\ task[h].op = "close" /\ task[h].at = "sent"
  BY DEF Disconnect
<1>4. task' \in [Handles -> TaskType]
  BY <1>0, <1>3 DEF Disconnect, TaskType
<1>5. ASSUME NEW h \in Handles PROVE Shape(h)' /\ Still(h)
  <2>1. Shape(h)'
    BY <1>0, <1>1, <1>3 DEF Disconnect, Shape, NoTask, Handle
  <2>2. Still(h)
    BY <1>0, <1>1, <1>3 DEF Disconnect, Still, Owns, Opens, Holds, Waits, NoTask, Shape
  <2> QED
    BY <2>1, <2>2
<1>6. online' = online \ {k} /\ UNCHANGED <<daemon, watching, seen, sweep, epoch, robbed>>
  BY DEF Disconnect
<1>7. Of(k) \subseteq Paths /\ queue \in Seq(Connections) /\ excused \subseteq Paths
  BY DEF Of, Typed, TypeOK
<1>8. /\ queue' \in Seq(Connections)
      /\ \A i \in DOMAIN queue' : queue'[i] \notin online'
      /\ excused' \subseteq Paths
  <2>1. CASE watching
    BY <1>6, <1>7, <2>1 DEF Disconnect, Left
  <2>2. CASE ~watching
    BY <1>6, <1>7, <2>2 DEF Disconnect, Left
  <2> QED
    BY <2>1, <2>2
<1>9. Typed'
  <2>1. Shapes'
    BY <1>4, <1>5, <1>6 DEF Shapes, Typed
  <2>2. task' \in [Handles -> Task] /\ online' \subseteq Connections
    BY <1>4, <1>6, TaskTypes DEF Typed, TypeOK
  <2> QED
    BY <1>2, <1>6, <1>8, <2>1, <2>2 DEF Typed, TypeOK, daemon
<1>10. Marks
  BY <1>6 DEF Marks, daemon
<1> QED
  BY <1>5, <1>6, <1>8, <1>9, <1>10 DEF Quiet, daemon, SweepCloses

\* The handles and their calls do nothing.
LEMMA StillSame ==
  ASSUME UNCHANGED <<task, handle, epoch>>, NEW h \in Handles
  PROVE  Still(h)
BY DEF Still, Owns, Opens, Holds, Waits

LEMMA WatchStep ==
  ASSUME Typed, Left, Watch \/ See \/ MarkSeen
  PROVE  Typed' /\ Quiet
<1>0. /\ UNCHANGED <<known, exported, index, key, owner, task, sweep, handle, online, epoch, robbed>>
      /\ \A h \in Handles : Still(h)
  BY StillSame DEF Watch, See, MarkSeen, daemon
<1>1. Shapes'
  BY <1>0 DEF Typed, Shapes, Shape
<1>2. ASSUME left' \in [Paths -> {"no", "recent", "long"}], watching' \in BOOLEAN,
             queue' \in Seq(Connections), seen' \in Paths \cup {NoSession},
             excused' \subseteq Paths
      PROVE  Typed'
  BY <1>0, <1>1, <1>2 DEF Typed, TypeOK
<1>3. ASSUME Marks, \A i \in DOMAIN queue' : queue'[i] \notin online
      PROVE  Quiet
  BY <1>0, <1>3 DEF Quiet, SweepCloses
<1>4. CASE Watch
  BY <1>2, <1>3, <1>4 DEF Watch, Typed, TypeOK, daemon, Marks, Left
<1>5. CASE See
  <2>1. /\ queue \in Seq(Connections) /\ queue # <<>> /\ queue' = Tail(queue)
        /\ UNCHANGED <<left, watching>>
    BY <1>5 DEF See, Typed, TypeOK, daemon
  <2>2. queue' \in Seq(Connections) /\ \A i \in DOMAIN queue' : queue'[i] \notin online
    BY <2>1, HeadTailProperties DEF Left
  <2>3. Head(queue) \notin online
    BY <2>1 DEF Left
  <2>4. \/ UNCHANGED <<seen, excused>>
        \/ /\ seen' \in Of(Head(queue))
           /\ excused' \subseteq excused \cup Of(Head(queue))
    BY <1>5 DEF See
  <2>5. Of(Head(queue)) \subseteq known /\ \A s \in Of(Head(queue)) : owner[s] \notin online
    BY <2>3 DEF Of
  <2>6. Marks
    BY <1>0, <2>1, <2>4, <2>5 DEF Marks
  <2>7. seen' \in Paths \cup {NoSession} /\ excused' \subseteq Paths
    BY <2>4, <2>5 DEF Typed, TypeOK
  <2> QED
    BY <1>2, <1>3, <2>1, <2>2, <2>6, <2>7 DEF Typed, TypeOK
<1>6. CASE MarkSeen
  <2>1. seen \in Paths /\ left' = [left EXCEPT ![seen] = "recent"] /\ seen' = NoSession
        /\ UNCHANGED <<watching, queue, excused>>
    BY <1>6 DEF MarkSeen, Mark, Typed, TypeOK
  <2>2. Marks
    BY <1>0, <2>1, PathsType DEF Marks, Typed, TypeOK
  <2> QED
    BY <1>2, <1>3, <2>1, <2>2 DEF Typed, TypeOK, Left
<1> QED
  BY <1>4, <1>5, <1>6

LEMMA SweepStep ==
  ASSUME Typed, Left, Collect \/ Pick \/ \E s \in Paths : Expire(s)
  PROVE  Typed' /\ Quiet
<1>0. /\ UNCHANGED <<known, exported, index, key, owner, task, watching, queue, seen, handle, online,
                     epoch, excused, robbed>>
      /\ \A h \in Handles : Still(h)
  BY StillSame DEF Collect, Pick, Expire, tasks, daemon
<1>1. ASSUME left' \in [Paths -> {"no", "recent", "long"}],
             sweep' \in [due : SUBSET Paths, path : Paths \cup {NoSession}, removed : BOOLEAN],
             sweep.removed = sweep'.removed, sweep.removed => sweep'.path = sweep.path,
             Marks
      PROVE  Typed' /\ Quiet
  <2>1. Shapes'
    BY <1>0, <1>1 DEF Typed, Shapes, Shape
  <2> QED
    BY <1>0, <1>1, <2>1 DEF Typed, TypeOK, Quiet, Left, SweepCloses
<1>2. CASE Collect
  <2>1. sweep' = [due |-> {s \in known : IsStale(s)}, path |-> NoSession, removed |-> FALSE]
    BY <1>2 DEF Collect, NoSweep
  <2>2. left' = left /\ sweep = NoSweep
    BY <1>2 DEF Collect, daemon
  <2>3. Marks
    BY <1>0, <2>1, <2>2, PathsType DEF Marks, IsStale
  <2> QED
    BY <1>1, <2>1, <2>2, <2>3 DEF NoSweep, Typed, TypeOK
<1>3. CASE Pick
  <2>0. sweep \in [due : SUBSET Paths, path : Paths \cup {NoSession}, removed : BOOLEAN]
    BY DEF Typed, TypeOK
  <2>1. PICK s \in sweep.due :
          \/ /\ s \in known
             /\ left' = [left EXCEPT ![s] = "no"]
             /\ sweep' = [sweep EXCEPT !.due = @ \ {s}, !.path = s]
          \/ sweep' = [sweep EXCEPT !.due = @ \ {s}] /\ UNCHANGED left
    BY <1>3 DEF Pick
  <2>2. sweep.path = NoSession /\ ~sweep.removed /\ s \in Paths
    BY <1>3, <2>0, PathsType DEF Pick, Typed, Shapes
  <2>3. /\ sweep' \in [due : SUBSET Paths, path : Paths \cup {NoSession}, removed : BOOLEAN]
        /\ sweep'.removed = sweep.removed /\ sweep'.due \subseteq sweep.due
        /\ sweep'.path \in {NoSession, s}
    BY <2>0, <2>1, <2>2
  <2>4. /\ left' \in [Paths -> {"no", "recent", "long"}]
        /\ \A r \in Paths : left'[r] \in {"no", left[r]}
    BY <2>1, <2>2 DEF Typed, TypeOK
  <2>5. Marks
    BY <1>0, <2>2, <2>3, <2>4, PathsType DEF Marks
  <2> QED
    BY <1>1, <2>2, <2>3, <2>4, <2>5
<1>4. CASE \E s \in Paths : Expire(s)
  <2>1. PICK s \in Paths : Expire(s)
    BY <1>4
  <2>2. left' \in [Paths -> {"no", "recent", "long"}] /\ sweep' = sweep
    BY <2>1 DEF Expire, Typed, TypeOK, tasks
  <2>3. Marks
    BY <1>0, <2>1 DEF Expire, Marks, Typed, TypeOK, tasks
  <2> QED
    BY <1>1, <2>2, <2>3 DEF Typed, TypeOK
<1> QED
  BY <1>2, <1>3, <1>4

\* Fewer handles wait for a number.
LEMMA CountedKept ==
  ASSUME Typed, Counted, index' = index, \A h \in Handles : Waits(h)' => Waits(h)
  PROVE  Counted'
<1>1. Waiting' \subseteq Waiting /\ IsFiniteSet(Waiting)
  BY SessionsAssumption, FS_Subset DEF Waiting
<1>2. /\ Cardinality(Waiting') <= Cardinality(Waiting)
      /\ Cardinality(Waiting') \in Nat /\ Cardinality(Waiting) \in Nat
  BY <1>1, FS_Subset, FS_CardinalityType
<1> QED
  BY <1>2, PathsType DEF Counted, Typed, TypeOK

\* No handle gets a session that it did not have.
LEMMA UniqueKept ==
  ASSUME Unique, index' = index, \A h \in Handles, s \in Paths : Owns(h, s)' => Owns(h, s)
  PROVE  Unique'
BY DEF Unique

LEMMA QuietKeeps ==
  ASSUME IInv, Typed', Quiet
  PROVE  IInv'
<1>0. /\ UNCHANGED <<known, exported, index, key, owner, epoch, robbed>>
      /\ \A h \in Handles : Still(h)
  BY DEF Quiet
<1>1. Counted'
  BY <1>0, CountedKept DEF Still, IInv
<1>2. Unique'
  BY <1>0, UniqueKept DEF Still, IInv
<1>3. ASSUME NEW h \in Handles, NEW s \in Paths
      PROVE  /\ Opens(h, s)' => Opens(h, s) /\ task'[h] = task[h]
             /\ Opens(h, s) => Opens(h, s)' /\ task'[h] = task[h]
             /\ Closes(h, s)' => Closes(h, s)
             /\ Closes(h, s) => Closes(h, s)'
  BY <1>0 DEF Still, Opens, Closes
<1>4. Ahead'
  <2> SUFFICES ASSUME NEW s \in Paths
               PROVE  /\ NotExported(s)' =>
                           /\ s \notin exported' /\ s \notin sweep'.due /\ sweep'.path # s
                           /\ left'[s] # "long"
                           /\ \A h \in Handles : ~Closes(h, s)'
                      /\ NotListed(s)' => s \notin known' /\ seen' # s /\ left'[s] = "no"
    BY DEF Ahead
  <2>1. NotExported(s)' => NotExported(s)
    BY <1>0, <1>3 DEF NotExported
  <2>2. NotListed(s)' => NotListed(s)
    BY <1>0, <1>3 DEF NotListed, Opens
  <2>3. NotListed(s)' => s \notin known' /\ seen' # s /\ left'[s] = "no"
    BY <1>0, <2>2 DEF IInv, Ahead, Quiet, Marks
  <2>4. ASSUME NotExported(s)' PROVE left'[s] # "long"
    <3>1. CASE s > index
      BY <1>0, <2>3, <3>1 DEF NotListed
    <3>2. CASE \E h \in Handles : Opens(h, s)
      <4>1. PICK h \in Handles : Opens(h, s)
        BY <3>2
      <4>2. task[h].op = "open"
        BY <4>1, TaskKinds DEF Opens, IInv
      <4> QED
        BY <2>1, <2>4, <4>2 DEF IInv, Ahead, Quiet, Marks
    <3> QED
      BY <2>1, <2>4, <3>1, <3>2 DEF NotExported
  <2>5. NotExported(s)' =>
           /\ s \notin exported' /\ s \notin sweep'.due /\ sweep'.path # s
           /\ \A h \in Handles : ~Closes(h, s)'
    BY <1>0, <1>3, <2>1 DEF IInv, Ahead, Quiet, Marks
  <2> QED
    BY <2>3, <2>4, <2>5
<1>5. Inserted'
  <2> SUFFICES ASSUME NEW h \in Handles, task'[h].at = "inserted"
               PROVE  /\ task'[h].path \in known'
                      /\ key'[task'[h].path] = ClientKey(h)'
                      /\ owner'[task'[h].path] = handle'[h].connection
    BY DEF Inserted
  <2> QED
    BY <1>0 DEF IInv, Inserted, Still, ClientKey
<1>6. Left'
  BY <1>0 DEF IInv, Left, Quiet, Marks
<1>7. Tables'
  <2> SUFFICES ASSUME NEW s \in Paths
               PROVE  /\ s \in known' =>
                           \/ s \in exported'
                           \/ \E h \in Handles : task'[h].at = "inserted" /\ task'[h].path = s
                      /\ s \in exported' =>
                           s \in known' \/ SweepCloses(s)' \/ \E h \in Handles : Closes(h, s)'
                      /\ SweepCloses(s)' \/ (\E h \in Handles : Closes(h, s)') => s \notin known'
    BY DEF Tables
  <2>1. SweepCloses(s)' => SweepCloses(s)
    BY DEF Quiet
  <2>2. SweepCloses(s) => SweepCloses(s)'
    BY DEF Quiet
  <2>3. (\E h \in Handles : task[h].at = "inserted" /\ task[h].path = s) =>
           \E h \in Handles : task'[h].at = "inserted" /\ task'[h].path = s
    BY <1>0 DEF Still
  <2> QED
    BY <1>0, <1>3, <2>1, <2>2, <2>3 DEF IInv, Tables
<1>8. HeldSessionsAnswer'
  <2> SUFFICES ASSUME NEW h \in Handles, Holds(h)'
               PROVE  /\ handle'[h].path \in (known' \cap exported') \cup robbed'
                      /\ handle'[h].path \in known' =>
                           /\ key'[handle'[h].path] = ClientKey(h)'
                           /\ owner'[handle'[h].path] = handle'[h].connection
    BY DEF HeldSessionsAnswer
  <2>1. /\ Holds(h) /\ handle'[h].path = handle[h].path
        /\ handle'[h].connection = handle[h].connection
        /\ handle'[h].encrypted = handle[h].encrypted
    BY <1>0 DEF Still
  <2> QED
    BY <1>0, <2>1 DEF IInv, HeldSessionsAnswer, ClientKey
<1> QED
  BY <1>1, <1>2, <1>4, <1>5, <1>6, <1>7, <1>8 DEF IInv

LEMMA StutterStep ==
  ASSUME Typed, Left, UNCHANGED vars
  PROVE  Typed' /\ Quiet
<1>1. Typed'
  BY DEF vars, daemon, tasks, Typed, TypeOK, Shapes, Shape
<1>2. \A h \in Handles : Still(h)
  BY StillSame DEF vars
<1> QED
  BY <1>1, <1>2 DEF vars, daemon, tasks, Quiet, Marks, Left, SweepCloses

-----------------------------------------------------------------------------
(* Opening *)

\* The others have a number each.
LEMMA StillOthers ==
  ASSUME NEW h \in Handles, NEW g \in Handles, task'[g] = task[g], handle'[g] = handle[g],
         epoch' = epoch
  PROVE  Still(g)
BY DEF Still, Owns, Opens, Holds, Waits

LEMMA NumberKeeps ==
  ASSUME IInv, NEW h \in Handles, Opening(h), Number(h)
  PROVE  IInv'
<1>0. /\ Typed /\ Shape(h) /\ task[h] = Asked /\ task[h].op = "open" /\ handle[h] \in Handle
      /\ index \in Nat
  BY TaskKinds, PathsType DEF Number, IInv, Typed, Shapes, TypeOK
<1>1. UNCHANGED <<known, exported, key, owner, left, tasks, handle, online, epoch, excused, robbed>>
      /\ index' = index + 1
  BY DEF Opening, OpenSession, Number, Insert, Export, Asked
<1>2. index + 1 \in Paths /\ index' + Cardinality(Waiting \ {h}) <= Cardinality(Handles)
  <2>1. IsFiniteSet(Waiting) /\ h \in Waiting
    BY <1>0, SessionsAssumption, FS_Subset DEF Waiting, Waits, Asked
  <2>2. /\ Cardinality(Waiting \ {h}) = Cardinality(Waiting) - 1 /\ Cardinality(Waiting) \in Nat
        /\ Cardinality(Waiting \ {h}) \in Nat
    BY <2>1, FS_RemoveElement, FS_CardinalityType
  <2> QED
    BY <1>0, <1>1, <2>2, PathsType DEF IInv, Counted, Paths
<1>3. [task[h] EXCEPT !.at = "numbered", !.path = index + 1]
         \in [op : {"open"}, at : {"numbered"}, path : {index + 1}, looks : {0}]
  <2>1. task[h] \in [op : {"open"}, at : {"asked"}, path : {NoSession}, looks : {0}]
    BY <1>0 DEF Asked
  <2> QED
    BY <2>1
<1>4. /\ task' \in [Handles -> TaskType]
      /\ task'[h] \in [op : {"open"}, at : {"numbered"}, path : {index + 1}, looks : {0}]
      /\ \A g \in Handles \ {h} : task'[g] = task[g]
  <2>1. PICK t \in [op : {"open"}, at : {"numbered"}, path : {index + 1}, looks : {0}] : Now(h, t)
    BY <1>3 DEF Number
  <2>2. t \in TaskType
    BY <1>2 DEF TaskType
  <2> QED
    BY <1>0, <2>1, <2>2, NowType
<1>5. task'[h].op = "open" /\ task'[h].at = "numbered" /\ task'[h].path = index + 1
  BY <1>4
<1>6. Typed'
  <2>1. Shape(h)'
    BY <1>0, <1>1, <1>5 DEF Shape, NoTask
  <2>2. Shapes'
    BY <1>0, <1>1, <1>4, <2>1, OneHandle DEF Typed, TypeOK, tasks
  <2>3. index' \in 0 .. Cardinality(Handles)
    BY <1>0, <1>1, <1>2, PathsType DEF Paths
  <2>4. task' \in [Handles -> Task]
    BY <1>4, TaskTypes
  <2> QED
    BY <1>1, <2>2, <2>3, <2>4 DEF IInv, Typed, TypeOK, tasks
<1>7. \A g \in Handles \ {h} : Still(g)
  BY <1>1, <1>4, StillOthers
<1>8. Counted'
  <2>1. Waiting' \subseteq Waiting \ {h}
    BY <1>0, <1>1, <1>5, <1>7 DEF Still, Waiting, Waits, Shape
  <2>2. IsFiniteSet(Waiting \ {h})
    BY SessionsAssumption, FS_Subset DEF Waiting
  <2>3. /\ Cardinality(Waiting') <= Cardinality(Waiting \ {h}) /\ Cardinality(Waiting') \in Nat
        /\ Cardinality(Waiting \ {h}) \in Nat
    BY <2>1, <2>2, FS_Subset, FS_CardinalityType
  <2> QED
    BY <1>0, <1>1, <1>2, <2>3, PathsType DEF Counted
<1>9. /\ \A s \in Paths : Owns(h, s)' => s = index + 1
      /\ \A g \in Handles \ {h}, s \in Paths : Owns(g, s)' => Owns(g, s)
  BY <1>0, <1>1, <1>5, <1>7 DEF Still, Owns, Opens, Holds, Shape
<1>10. Unique'
  <2>1. \A g \in Handles, s \in Paths : Owns(g, s) => s <= index
    BY DEF IInv, Unique
  <2> QED
    BY <1>0, <1>1, <1>9, <2>1, PathsType DEF IInv, Unique
<1>11. ASSUME NEW s \in Paths
       PROVE  (NotExported(s)' => NotExported(s)) /\ (NotListed(s)' => NotListed(s))
  <2>1. s \in Nat
    BY PathsType
  <2>2. s > index + 1 \/ s = index + 1 => s > index
    BY <1>0, <2>1
  <2> QED
    BY <1>1, <1>4, <1>5, <2>2 DEF NotExported, NotListed, Opens
<1>12. ASSUME NEW g \in Handles, NEW s \in Paths
       PROVE  /\ Closes(g, s)' => Closes(g, s)
              /\ Closes(g, s) => Closes(g, s)'
  BY <1>0, <1>4, <1>5 DEF Closes, Asked
<1>13. Ahead'
  <2> SUFFICES ASSUME NEW s \in Paths
               PROVE  /\ NotExported(s)' =>
                           /\ s \notin exported /\ s \notin sweep.due /\ sweep.path # s
                           /\ left[s] # "long"
                           /\ \A g \in Handles : ~Closes(g, s)'
                      /\ NotListed(s)' => s \notin known /\ seen # s /\ left[s] = "no"
    BY <1>1 DEF Ahead, tasks
  <2> QED
    BY <1>11, <1>12 DEF IInv, Ahead
<1>14. \A g \in Handles : /\ task'[g].at = "inserted" => task'[g] = task[g]
                          /\ task[g].at = "inserted" => task'[g] = task[g]
  BY <1>0, <1>4, <1>5 DEF Asked
<1>15. Inserted'
  BY <1>1, <1>14 DEF IInv, Inserted, ClientKey
<1>18. Tables'
  <2> SUFFICES ASSUME NEW s \in Paths
               PROVE  /\ s \in known =>
                           \/ s \in exported
                           \/ \E g \in Handles : task'[g].at = "inserted" /\ task'[g].path = s
                      /\ s \in exported =>
                           s \in known \/ SweepCloses(s) \/ \E g \in Handles : Closes(g, s)'
                      /\ SweepCloses(s) \/ (\E g \in Handles : Closes(g, s)') => s \notin known
    BY <1>1 DEF Tables, SweepCloses, tasks
  <2> QED
    BY <1>12, <1>14 DEF IInv, Tables
<1>16. Left'
  BY <1>1 DEF IInv, Left, tasks
<1>17. HeldSessionsAnswer'
  BY <1>1 DEF IInv, HeldSessionsAnswer, Holds, ClientKey
<1> QED
  BY <1>6, <1>8, <1>10, <1>13, <1>15, <1>16, <1>17, <1>18 DEF IInv

LEMMA InsertKeeps ==
  ASSUME IInv, NEW h \in Handles, Opening(h), Insert(h)
  PROVE  IInv'
<1> PICK s0 : s0 = task[h].path
  OBVIOUS
<1>0. /\ Typed /\ Shape(h) /\ task[h].op = "open" /\ task[h].at = "numbered" /\ handle[h] \in Handle
      /\ task[h] = [op |-> "open", at |-> "numbered", path |-> s0, looks |-> 0] /\ s0 \in Paths
  BY TaskKinds DEF Insert, IInv, Typed, Shapes
<1>1. /\ UNCHANGED <<exported, index, tasks, handle, online, epoch, robbed>>
      /\ known' = known \cup {s0}
      /\ key' = [key EXCEPT ![s0] = ClientKey(h)]
      /\ owner' = [owner EXCEPT ![s0] = handle[h].connection]
      /\ left' = [left EXCEPT ![s0] = "no"]
      /\ excused' \subseteq excused \cup {s0}
  BY <1>0 DEF Opening, OpenSession, Number, Insert, Export, Asked
<1>2. [task[h] EXCEPT !.at = "inserted"]
         = [op |-> "open", at |-> "inserted", path |-> s0, looks |-> 0]
  BY <1>0
<1>3. /\ task' \in [Handles -> TaskType]
      /\ task'[h] = [op |-> "open", at |-> "inserted", path |-> s0, looks |-> 0]
      /\ \A g \in Handles \ {h} : task'[g] = task[g]
  <2>1. [op |-> "open", at |-> "inserted", path |-> s0, looks |-> 0] \in TaskType
    BY <1>0, TaskMembers
  <2>2. Now(h, [op |-> "open", at |-> "inserted", path |-> s0, looks |-> 0])
    BY <1>2 DEF Insert
  <2> QED
    BY <1>0, <2>1, <2>2, NowType
<1>4. Typed'
  <2>1. Shape(h)'
    BY <1>0, <1>1, <1>3 DEF Shape, NoTask
  <2>2. Shapes'
    BY <1>0, <1>1, <1>3, <2>1, OneHandle DEF Typed, TypeOK, tasks
  <2>3. task' \in [Handles -> Task]
    BY <1>3, TaskTypes
  <2>4. ClientKey(h) \in Keys /\ handle[h].connection \in Connections
    BY <1>0 DEF ClientKey, Keys, Handle
  <2>5. /\ known' \subseteq Paths /\ key' \in [Paths -> Keys] /\ owner' \in [Paths -> Connections]
        /\ left' \in [Paths -> {"no", "recent", "long"}] /\ excused' \subseteq Paths
    BY <1>0, <1>1, <2>4 DEF Typed, TypeOK
  <2> QED
    BY <1>1, <2>2, <2>3, <2>5 DEF IInv, Typed, TypeOK, tasks
<1>5. \A g \in Handles \ {h} : Still(g)
  BY <1>1, <1>3, StillOthers
<1>6. ASSUME NEW g \in Handles, NEW s \in Paths
      PROVE  /\ Opens(g, s)' => Opens(g, s)
             /\ Opens(g, s) => Opens(g, s)'
             /\ Owns(g, s)' => Owns(g, s)
             /\ Closes(g, s)' => Closes(g, s)
             /\ Closes(g, s) => Closes(g, s)'
  <2>1. CASE g = h
    <3>1. task'[h].op = "open" /\ task'[h].at = "inserted" /\ task'[h].path = s0
      BY <1>3
    <3>2. handle' = handle /\ epoch' = epoch
      BY <1>1
    <3> QED
      BY <1>0, <2>1, <3>1, <3>2 DEF Opens, Owns, Closes, Holds
  <2>2. CASE g # h
    BY <1>1, <1>3, <2>2 DEF Opens, Owns, Closes, Holds
  <2> QED
    BY <2>1, <2>2
<1>7. Counted' /\ Unique'
  <2>1. \A g \in Handles : Waits(g)' => Waits(g)
    BY <1>0, <1>1, <1>3 DEF Waits
  <2> QED
    BY <1>0, <1>1, <1>6, <2>1, CountedKept, UniqueKept DEF IInv
\* It was not listed, so nobody else has it.
<1>8. /\ s0 \notin known /\ seen # s0 /\ s0 \notin exported /\ s0 \notin sweep.due /\ sweep.path # s0
      /\ \A g \in Handles : ~Closes(g, s0)
  BY <1>0 DEF IInv, Ahead, NotListed, NotExported, Opens
<1>9. \A g \in Handles \ {h} : ~Owns(g, s0)
  BY <1>0 DEF IInv, Unique, Owns, Opens
<1>10. Ahead'
  <2>1. ASSUME NEW s \in Paths
        PROVE  /\ NotExported(s)' => NotExported(s)
               /\ NotListed(s)' => NotListed(s) /\ s # s0
    <3>1. s0 <= index /\ index \in Nat /\ s0 \in Nat
      <4>1. Owns(h, s0)
        BY <1>0 DEF Owns, Opens
      <4>2. s0 <= index
        BY <1>0, <4>1 DEF IInv, Unique
      <4>3. index \in Nat /\ s0 \in Nat
        BY <1>0, PathsType DEF Typed, TypeOK
      <4> QED
        BY <4>2, <4>3
    <3>2. \A g \in Handles \ {h} : ~(task[g].at = "numbered" /\ task[g].path = s0)
      BY <1>9 DEF Owns, Opens
    <3>3. NotListed(s)' => NotListed(s)
      BY <1>1, <1>3 DEF NotListed
    <3>4. ~NotListed(s0)'
      BY <1>1, <1>3, <3>1, <3>2 DEF NotListed
    <3>5. s # s0 \/ ~NotListed(s)'
      BY <3>4
    <3>6. NotExported(s)' => NotExported(s)
      BY <1>1, <1>6 DEF NotExported
    <3> QED
      BY <3>3, <3>5, <3>6
  <2> SUFFICES ASSUME NEW s \in Paths
               PROVE  /\ NotExported(s)' =>
                           /\ s \notin exported /\ s \notin sweep.due /\ sweep.path # s
                           /\ left'[s] # "long"
                           /\ \A g \in Handles : ~Closes(g, s)'
                      /\ NotListed(s)' => s \notin known' /\ seen # s /\ left'[s] = "no"
    BY <1>1 DEF Ahead, tasks
  <2>2. left'[s] \in {left[s], "no"} /\ (s # s0 => left'[s] = left[s])
    BY <1>1 DEF Typed, TypeOK, IInv
  <2> QED
    BY <1>0, <1>1, <1>6, <2>1, <2>2 DEF IInv, Ahead
<1>11. Inserted'
  <2>1. ASSUME NEW g \in Handles \ {h}, task[g].at = "inserted"
        PROVE  task[g].path # s0 /\ task[g].path \in Paths
    BY <1>0, <1>9, <2>1, TaskKinds DEF Owns, Opens
  <2> QED
    BY <1>0, <1>1, <1>3, <2>1 DEF IInv, Inserted, ClientKey, Typed, TypeOK
<1>12. Left'
  BY <1>0, <1>1, <1>8 DEF IInv, Left, tasks, Typed, TypeOK
<1>13. Tables'
  <2>1. \A s \in Paths : (\E g \in Handles : task[g].at = "inserted" /\ task[g].path = s) =>
                          \E g \in Handles : task'[g].at = "inserted" /\ task'[g].path = s
    BY <1>0, <1>3
  <2>2. \A s \in Paths : /\ SweepCloses(s)' => SweepCloses(s) /\ s # s0
                         /\ SweepCloses(s) => SweepCloses(s)'
    BY <1>1, <1>8 DEF SweepCloses, tasks
  <2> QED
    BY <1>0, <1>1, <1>3, <1>6, <1>8, <2>1, <2>2 DEF IInv, Tables
<1>14. HeldSessionsAnswer'
  <2> SUFFICES ASSUME NEW g \in Handles, Holds(g)
               PROVE  /\ handle[g].path \in (known' \cap exported) \cup robbed
                      /\ handle[g].path \in known' =>
                           /\ key'[handle[g].path] = ClientKey(g)
                           /\ owner'[handle[g].path] = handle[g].connection
    BY <1>1 DEF HeldSessionsAnswer, Holds, ClientKey
  <2>1. handle[g].path # s0 /\ handle[g].path \in Paths
    BY <1>0, <1>9 DEF Owns, Holds, Shape, IInv, Typed, Shapes
  <2> QED
    BY <1>0, <1>1, <2>1 DEF IInv, HeldSessionsAnswer, Typed, TypeOK
<1> QED
  BY <1>4, <1>7, <1>10, <1>11, <1>12, <1>13, <1>14 DEF IInv

LEMMA ExportKeeps ==
  ASSUME IInv, NEW h \in Handles, Opening(h), Export(h)
  PROVE  IInv'
<1> PICK s0 : s0 = task[h].path
  OBVIOUS
<1>0. /\ Typed /\ Shape(h) /\ task[h].op = "open" /\ task[h].at = "inserted" /\ handle[h] \in Handle
      /\ s0 \in Paths /\ handle[h].phase \in {"opening", "gone"} /\ s0 \in known
      /\ key[s0] = ClientKey(h) /\ owner[s0] = handle[h].connection
  BY TaskKinds DEF Export, IInv, Typed, Shapes, Shape, Inserted
<1>1. /\ UNCHANGED <<known, index, key, owner, left, tasks, online, epoch, excused, robbed>>
      /\ exported' = exported \cup {s0}
  BY <1>0 DEF Opening, OpenSession, Number, Insert, Export, Asked
<1>2. /\ task' \in [Handles -> TaskType] /\ task'[h] = NoTask
      /\ \A g \in Handles \ {h} : task'[g] = task[g]
  <2>1. NoTask \in TaskType /\ Now(h, NoTask)
    BY DEF Export, Done, TaskType
  <2> QED
    BY <1>0, <2>1, NowType
<1>3. /\ handle' \in [Handles -> Handle]
      /\ \A g \in Handles \ {h} : handle'[g] = handle[g]
      /\ handle'[h].connection = handle[h].connection
      /\ handle'[h].encrypted = handle[h].encrypted
      /\ \/ handle'[h].phase = "gone"
         \/ handle'[h].phase = "open" /\ handle'[h].path = s0 /\ handle[h].phase = "opening"
      /\ handle'[h].epoch <= epoch
  <2>1. CASE handle[h].phase = "opening"
    <3>1. handle' = [handle EXCEPT ![h].phase = "open", ![h].path = s0, ![h].epoch = epoch]
      BY <2>1 DEF Export
    <3>2. epoch \in 0 .. Restarts
      BY <1>0 DEF Typed, TypeOK
    <3>3. handle \in [Handles -> Handle]
      BY <1>0 DEF Typed, TypeOK
    <3>4. [handle[h] EXCEPT !.phase = "open", !.path = s0, !.epoch = epoch] \in Handle
      BY <1>0, <3>2 DEF Handle
    <3>5. /\ handle' \in [Handles -> Handle] /\ \A g \in Handles \ {h} : handle'[g] = handle[g]
          /\ handle'[h] = [handle[h] EXCEPT !.phase = "open", !.path = s0, !.epoch = epoch]
      BY <3>1, <3>3, <3>4
    <3>6. /\ handle'[h].connection = handle[h].connection
          /\ handle'[h].encrypted = handle[h].encrypted
          /\ handle'[h].phase = "open" /\ handle'[h].path = s0 /\ handle'[h].epoch = epoch
      BY <1>0, <3>5 DEF Handle
    <3> QED
      BY <2>1, <3>2, <3>5, <3>6, SessionsAssumption
  <2>2. CASE handle[h].phase = "gone"
    BY <1>0, <2>2 DEF Export, Shape, Typed, TypeOK
  <2> QED
    BY <1>0, <2>1, <2>2
<1>4. Typed'
  <2>1. Shape(h)'
    BY <1>0, <1>1, <1>2, <1>3 DEF Shape, NoTask
  <2>2. Shapes'
    BY <1>0, <1>1, <1>2, <1>3, <2>1, OneHandle DEF tasks
  <2>3. task' \in [Handles -> Task]
    BY <1>2, TaskTypes
  <2> QED
    BY <1>0, <1>1, <1>3, <2>2, <2>3 DEF Typed, TypeOK, tasks
<1>5. \A g \in Handles \ {h} : Still(g)
  BY <1>1, <1>2, <1>3, StillOthers
<1>6. ASSUME NEW g \in Handles, NEW s \in Paths
      PROVE  /\ Opens(g, s)' => Opens(g, s)
             /\ Opens(g, s) => Opens(g, s)' \/ s = s0
             /\ Owns(g, s)' => Owns(g, s)
             /\ Closes(g, s)' => Closes(g, s)
             /\ Closes(g, s) => Closes(g, s)'
  <2>1. CASE g = h
    BY <1>0, <1>1, <1>2, <1>3, <2>1 DEF Opens, Owns, Closes, Holds, NoTask
  <2>2. CASE g # h
    BY <1>1, <1>2, <1>3, <2>2 DEF Opens, Owns, Closes, Holds
  <2> QED
    BY <2>1, <2>2
<1>7. Counted' /\ Unique'
  <2>1. \A g \in Handles : Waits(g)' => Waits(g)
    BY <1>0, <1>1, <1>2, <1>3 DEF Waits, NoTask
  <2> QED
    BY <1>0, <1>1, <1>6, <2>1, CountedKept, UniqueKept DEF IInv
<1>8. \A g \in Handles : g # h => ~Owns(g, s0)
  BY <1>0 DEF IInv, Unique, Owns, Opens
<1>9. s0 <= index /\ index \in Nat /\ s0 \in Nat
  <2>1. s0 <= index
    BY <1>0 DEF IInv, Unique, Owns, Opens
  <2> QED
    BY <1>0, <2>1, PathsType DEF Typed, TypeOK
<1>10. Ahead'
  <2>1. ASSUME NEW s \in Paths
        PROVE  (NotExported(s)' => NotExported(s)) /\ (NotListed(s)' => NotListed(s))
    BY <1>1, <1>2, <1>6 DEF NotExported, NotListed, NoTask
  <2>2. ~NotExported(s0)'
    <3>1. \A g \in Handles : ~Opens(g, s0)'
      BY <1>2, <1>8 DEF Owns, Opens, NoTask
    <3> QED
      BY <1>1, <1>9, <3>1 DEF NotExported
  <2> SUFFICES ASSUME NEW s \in Paths
               PROVE  /\ NotExported(s)' =>
                           /\ s \notin exported' /\ s \notin sweep.due /\ sweep.path # s
                           /\ left[s] # "long"
                           /\ \A g \in Handles : ~Closes(g, s)'
                      /\ NotListed(s)' => s \notin known /\ seen # s /\ left[s] = "no"
    BY <1>1 DEF Ahead, tasks
  <2>3. NotExported(s)' => s # s0
    BY <2>2
  <2> QED
    BY <1>1, <1>6, <2>1, <2>3 DEF IInv, Ahead
<1>11. Inserted'
  BY <1>0, <1>1, <1>2, <1>3 DEF IInv, Inserted, ClientKey, NoTask
<1>12. Left'
  BY <1>1 DEF IInv, Left, tasks
<1>13. Tables'
  <2> SUFFICES ASSUME NEW s \in Paths
               PROVE  /\ s \in known =>
                           \/ s \in exported'
                           \/ \E g \in Handles : task'[g].at = "inserted" /\ task'[g].path = s
                      /\ s \in exported' =>
                           s \in known \/ SweepCloses(s) \/ \E g \in Handles : Closes(g, s)'
                      /\ SweepCloses(s) \/ (\E g \in Handles : Closes(g, s)') => s \notin known
    BY <1>1 DEF Tables, SweepCloses, tasks
  <2> QED
    BY <1>0, <1>1, <1>2, <1>6 DEF IInv, Tables
<1>14. HeldSessionsAnswer'
  <2> SUFFICES ASSUME NEW g \in Handles, Holds(g)'
               PROVE  /\ handle'[g].path \in (known \cap exported') \cup robbed
                      /\ handle'[g].path \in known =>
                           /\ key[handle'[g].path] = ClientKey(g)'
                           /\ owner[handle'[g].path] = handle'[g].connection
    BY <1>1 DEF HeldSessionsAnswer
  <2>1. CASE g = h
    BY <1>0, <1>1, <1>3, <2>1 DEF Holds, ClientKey
  <2>2. CASE g # h
    <3>1. Holds(g) /\ handle'[g] = handle[g]
      BY <1>1, <1>3, <2>2 DEF Holds
    <3> QED
      BY <1>1, <3>1 DEF IInv, HeldSessionsAnswer, ClientKey
  <2> QED
    BY <2>1, <2>2
<1> QED
  BY <1>4, <1>7, <1>10, <1>11, <1>12, <1>13, <1>14 DEF IInv

-----------------------------------------------------------------------------
(* Closing *)

Closing(s) == SweepCloses(s) \/ \E h \in Handles : Closes(h, s)

\* The list or the bus loses a session, and nothing else happens.
Removes(s0) ==
  /\ UNCHANGED <<index, key, owner, left, watching, queue, seen, handle, online, epoch, excused>>
  /\ ~NotExported(s0)
  /\ sweep'.due = sweep.due /\ sweep'.path \in {sweep.path, NoSession}
  /\ robbed \subseteq robbed'
  /\ \A h \in Handles :
       /\ task[h].at \in {"numbered", "inserted"} \/ task'[h].at \in {"numbered", "inserted"} =>
            task'[h] = task[h]
       /\ \A s \in Paths : /\ Owns(h, s)' => Owns(h, s)
                           /\ s # s0 /\ Closes(h, s)' => Closes(h, s)
       /\ Waits(h)' => Waits(h)
  /\ \A s \in Paths \ {s0} : (Closing(s)' => Closing(s)) /\ (Closing(s) => Closing(s)')
  /\ \/ /\ known' = known \ {s0} /\ exported' = exported /\ Closing(s0)'
        /\ \A h \in Handles : Holds(h) /\ handle[h].path = s0 => s0 \in robbed'
     \/ known' = known /\ exported' = exported \ {s0} /\ Closing(s0)

LEMMA RemovesKeeps ==
  ASSUME IInv, Typed', NEW s0 \in Paths, Removes(s0)
  PROVE  IInv'
<1>1. UNCHANGED <<index, key, owner, left, watching, queue, seen, handle, online, epoch, excused>>
  BY DEF Removes
<1>2. Counted'
  BY <1>1, CountedKept DEF IInv, Removes
<1>3. Unique'
  BY <1>1, UniqueKept DEF IInv, Removes
<1>4. ASSUME NEW h \in Handles, NEW s \in Paths
      PROVE  /\ Opens(h, s)' => Opens(h, s)
             /\ Opens(h, s) => Opens(h, s)'
             /\ Closes(h, s)' /\ s # s0 => Closes(h, s)
  BY DEF Removes, Opens
<1>5. Ahead'
  <2> SUFFICES ASSUME NEW s \in Paths
               PROVE  /\ NotExported(s)' =>
                           /\ s \notin exported' /\ s \notin sweep'.due /\ sweep'.path # s
                           /\ left'[s] # "long"
                           /\ \A h \in Handles : ~Closes(h, s)'
                      /\ NotListed(s)' => s \notin known' /\ seen' # s /\ left'[s] = "no"
    BY DEF Ahead
  <2>1. NotExported(s)' => NotExported(s) /\ s # s0
    <3>1. NotExported(s)' => NotExported(s)
      BY <1>1, <1>4 DEF NotExported
    <3> QED
      BY <3>1 DEF Removes
  <2>2. NotListed(s)' => NotListed(s)
    BY <1>1 DEF NotListed, Removes
  <2>3. known' \subseteq known /\ exported' \subseteq exported
    BY DEF Removes
  <2>4. sweep'.due = sweep.due /\ (sweep'.path = s => sweep.path = s)
    BY PathsType DEF Removes
  <2> QED
    BY <1>1, <1>4, <2>1, <2>2, <2>3, <2>4 DEF IInv, Ahead
<1>6. Inserted'
  <2> SUFFICES ASSUME NEW h \in Handles, task'[h].at = "inserted"
               PROVE  /\ task'[h].path \in known'
                      /\ key[task'[h].path] = ClientKey(h)
                      /\ owner[task'[h].path] = handle[h].connection
    BY <1>1 DEF Inserted, ClientKey
  <2>1. task'[h] = task[h]
    BY DEF Removes
  <2>2. task[h].path \in Paths
    BY <2>1, TaskKinds DEF IInv
  <2>3. task[h].path # s0
    BY <2>1 DEF Removes, NotExported, Opens
  <2> QED
    BY <1>1, <2>1, <2>2, <2>3 DEF IInv, Inserted, Removes
<1>7. Left'
  <2>1. ASSUME NEW s \in Paths
        PROVE  sweep'.due = sweep.due /\ (sweep'.path = s => sweep.path = s)
    BY PathsType DEF Removes
  <2> QED
    BY <1>1, <2>1 DEF IInv, Left
<1>8. Tables'
  <2> SUFFICES ASSUME NEW s \in Paths
               PROVE  /\ s \in known' =>
                           \/ s \in exported'
                           \/ \E h \in Handles : task'[h].at = "inserted" /\ task'[h].path = s
                      /\ s \in exported' => s \in known' \/ Closing(s)'
                      /\ Closing(s)' => s \notin known'
    BY DEF Tables, Closing
  <2>1. (\E h \in Handles : task[h].at = "inserted" /\ task[h].path = s) =>
           \E h \in Handles : task'[h].at = "inserted" /\ task'[h].path = s
    BY DEF Removes
  <2>2. /\ s \in known => \/ s \in exported
                          \/ \E h \in Handles : task[h].at = "inserted" /\ task[h].path = s
        /\ s \in exported => s \in known \/ Closing(s)
        /\ Closing(s) => s \notin known
    BY DEF IInv, Tables, Closing
  <2>3. CASE s # s0
    <3>1. (Closing(s)' => Closing(s)) /\ (Closing(s) => Closing(s)')
      BY <2>3 DEF Removes
    <3> QED
      BY <2>1, <2>2, <2>3, <3>1 DEF Removes
  <2>4. CASE s = s0
    <3>1. s \notin known'
      BY <2>2, <2>4 DEF Removes
    <3>2. s \in exported' => Closing(s)'
      BY <2>4 DEF Removes
    <3> QED
      BY <3>1, <3>2
  <2> QED
    BY <2>3, <2>4
<1>9. HeldSessionsAnswer'
  <2> SUFFICES ASSUME NEW h \in Handles, Holds(h)
               PROVE  /\ handle[h].path \in (known' \cap exported') \cup robbed'
                      /\ handle[h].path \in known' =>
                           /\ key[handle[h].path] = ClientKey(h)
                           /\ owner[handle[h].path] = handle[h].connection
    BY <1>1 DEF HeldSessionsAnswer, Holds, ClientKey
  <2>1. /\ handle[h].path \in (known \cap exported) \cup robbed
        /\ handle[h].path \in known =>
             /\ key[handle[h].path] = ClientKey(h)
             /\ owner[handle[h].path] = handle[h].connection
    BY DEF IInv, HeldSessionsAnswer
  <2>2. Closing(s0) => s0 \notin known
    BY DEF IInv, Tables, Closing
  <2> QED
    BY <2>1, <2>2 DEF Removes
<1> QED
  BY <1>2, <1>3, <1>5, <1>6, <1>7, <1>8, <1>9 DEF IInv

LEMMA CloseKeeps ==
  ASSUME IInv, NEW h \in Handles, Close(h)
  PROVE  IInv'
<1> PICK s0 : s0 = task[h].path
  OBVIOUS
<1>0. /\ Typed /\ Left /\ Shape(h) /\ task[h].op = "close" /\ task[h].at \in {"sent", "removed"}
      /\ handle[h] \in Handle /\ s0 \in Paths /\ handle[h].phase = "gone"
  BY TaskKinds DEF Close, IInv, Typed, Shapes, Shape
<1>1. UNCHANGED <<index, key, owner, left, tasks, handle, online, epoch, excused>>
  BY DEF Close
<1>2. /\ task' \in [Handles -> TaskType]
      /\ \A g \in Handles \ {h} : task'[g] = task[g]
      /\ \/ task'[h] = NoTask
         \/ /\ task'[h].op = "close" /\ task'[h].at = "removed" /\ task'[h].path = s0
            /\ task[h].at = "sent"
  <2>1. CASE Done(h)
    <3>1. NoTask \in TaskType /\ Now(h, NoTask)
      BY <2>1 DEF Done, TaskType
    <3> QED
      BY <1>0, <3>1, NowType
  <2>2. CASE Now(h, [task[h] EXCEPT !.at = "removed"]) /\ task[h].at = "sent"
    <3>1. task[h] \in [op : {"close"}, at : {"sent", "removed"}, path : Paths, looks : {0}]
      BY <1>0 DEF Typed, Shapes, TaskType, NoTask, Asked
    <3>2. [task[h] EXCEPT !.at = "removed"] \in
            [op : {"close"}, at : {"sent", "removed"}, path : Paths, looks : {0}]
      BY <3>1
    <3>3. [task[h] EXCEPT !.at = "removed"] \in TaskType
      BY <3>2 DEF TaskType
    <3> QED
      BY <1>0, <2>2, <3>1, <3>3, NowType
  <2> QED
    BY <2>1, <2>2 DEF Close
<1>3. Shape(h)' /\ handle' \in [Handles -> Handle]
  BY <1>0, <1>1, <1>2 DEF Shape, NoTask, Typed, TypeOK
<1>4. \A g \in Handles \ {h} : handle'[g] = handle[g] /\ task'[g] = task[g]
  BY <1>1, <1>2
<1>5. ASSUME known' \subseteq Paths, exported' \subseteq Paths, robbed' \subseteq Paths PROVE Typed'
  <2>1. Shapes' /\ task' \in [Handles -> Task]
    BY <1>0, <1>1, <1>2, <1>3, <1>4, OneHandle DEF tasks
  <2> QED
    BY <1>0, <1>1, <1>3, <1>5, <2>1 DEF Typed, TypeOK, tasks
<1>6. ASSUME NEW g \in Handles
      PROVE  /\ task[g].at \in {"numbered", "inserted"} \/ task'[g].at \in {"numbered", "inserted"} =>
                  task'[g] = task[g]
             /\ \A s \in Paths : /\ Owns(g, s)' => Owns(g, s)
                                 /\ s # s0 /\ Closes(g, s)' => Closes(g, s)
             /\ Waits(g)' => Waits(g)
  <2>1. CASE g = h
    BY <1>0, <1>1, <1>2, <2>1 DEF Opens, Owns, Closes, Holds, Waits, NoTask
  <2>2. CASE g # h
    BY <1>1, <1>2, <2>2 DEF Opens, Owns, Closes, Holds, Waits
  <2> QED
    BY <2>1, <2>2
<1>7. ASSUME NEW s \in Paths \ {s0}
      PROVE  (Closing(s)' => Closing(s)) /\ (Closing(s) => Closing(s)')
  <2>1. \A g \in Handles : /\ Closes(g, s)' => Closes(g, s)
                           /\ Closes(g, s) => Closes(g, s)'
    BY <1>0, <1>2 DEF Closes, NoTask
  <2>2. (SweepCloses(s)' => SweepCloses(s)) /\ (SweepCloses(s) => SweepCloses(s)')
    BY <1>1 DEF SweepCloses, tasks
  <2>3. Closing(s) => Closing(s)'
    BY <2>1, <2>2 DEF Closing
  <2>4. Closing(s)' => Closing(s)
    BY <2>1, <2>2 DEF Closing
  <2> QED
    BY <2>3, <2>4
<1>8. CASE task[h].at = "sent" /\ s0 \notin exported
  <2>1. task'[h] = NoTask /\ UNCHANGED <<known, exported, robbed>>
    <3>1. Done(h) /\ UNCHANGED <<known, exported, robbed>>
      BY <1>8 DEF Close
    <3>2. Now(h, NoTask) /\ NoTask \in TaskType
      BY <3>1 DEF Done, TaskType
    <3> QED
      BY <1>0, <3>1, <3>2, NowType
  <2>2. Still(h)
    BY <1>0, <1>1, <1>8, <2>1 DEF Still, Owns, Opens, Holds, Waits, NoTask
  <2>3. Typed' /\ Quiet
    BY <1>0, <1>1, <1>2, <1>3, <1>4, <2>1, <2>2, LocalSame DEF daemon
  <2> QED
    BY <2>3, QuietKeeps
<1>9. CASE task[h].at = "sent" /\ s0 \in exported
  <2>1. /\ known' = known \ {s0} /\ exported' = exported
        /\ robbed' = IF handle[h].epoch = epoch THEN robbed ELSE robbed \cup {s0}
        /\ Now(h, [task[h] EXCEPT !.at = "removed"])
    BY <1>9 DEF Close
  <2>2. Closes(h, s0)'
    <3>1. task'[h].at = "removed" /\ task'[h].path = task[h].path
      BY <1>0, <2>1 DEF Now, Typed, TypeOK, Task
    <3> QED
      BY <3>1 DEF Closes
  <2>3. ~NotExported(s0)
    BY <1>0, <1>9 DEF IInv, Ahead
  <2>4. ASSUME NEW g \in Handles, Holds(g), handle[g].path = s0 PROVE s0 \in robbed'
    <3>1. CASE handle[h].epoch = epoch
      <4>1. Owns(g, s0) /\ Owns(h, s0)
        BY <1>0, <2>4, <3>1 DEF Owns
      <4>2. g = h
        BY <1>0, <4>1 DEF IInv, Unique
      <4> QED
        BY <1>0, <2>4, <4>2 DEF Holds
    <3>2. CASE handle[h].epoch # epoch
      BY <2>1, <3>2
    <3> QED
      BY <3>1, <3>2
  <2>5. Removes(s0)
    BY <1>1, <1>6, <1>7, <2>1, <2>2, <2>3, <2>4 DEF Removes, Closing, tasks
  <2>6. Typed'
    BY <1>0, <1>5, <2>1 DEF Typed, TypeOK
  <2> QED
    BY <1>0, <2>5, <2>6, RemovesKeeps
<1>10. CASE task[h].at = "removed"
  <2>1. known' = known /\ exported' = exported \ {s0} /\ robbed' = robbed
    BY <1>10 DEF Close
  <2>2. Closes(h, s0)
    BY <1>10 DEF Closes
  <2>3. ~NotExported(s0)
    BY <1>0, <2>2 DEF IInv, Ahead
  <2>4. Removes(s0)
    BY <1>1, <1>6, <1>7, <2>1, <2>2, <2>3 DEF Removes, Closing, tasks
  <2>5. Typed'
    BY <1>0, <1>5, <2>1 DEF Typed, TypeOK
  <2> QED
    BY <1>0, <2>4, <2>5, RemovesKeeps
<1> QED
  BY <1>0, <1>8, <1>9, <1>10

LEMMA CloseStaleKeeps ==
  ASSUME IInv, CloseStale,
         UNCHANGED <<index, key, owner, left, task, watching, queue, seen, handle, online, epoch,
                     excused, robbed>>
  PROVE  IInv'
<1> PICK s0 : s0 = sweep.path
  OBVIOUS
<1>0. /\ Typed /\ s0 \in Paths
      /\ sweep \in [due : SUBSET Paths, path : Paths \cup {NoSession}, removed : BOOLEAN]
  BY DEF CloseStale, IInv, Typed, TypeOK
<1>1. ASSUME NEW h \in Handles
      PROVE  Still(h) /\ \A s \in Paths : Closes(h, s)' => Closes(h, s)
  BY StillSame DEF Closes
<1>2. ~NotExported(s0)
  BY <1>0 DEF IInv, Ahead
<1>3. ASSUME known' \subseteq Paths, exported' \subseteq Paths,
             sweep' \in [due : SUBSET Paths, path : Paths \cup {NoSession}, removed : BOOLEAN],
             sweep'.removed => sweep'.path \in Paths
      PROVE  Typed'
  BY <1>0, <1>3 DEF Typed, TypeOK, Shapes, Shape
<1>4. ASSUME NEW h \in Handles
      PROVE  /\ task[h].at \in {"numbered", "inserted"} \/ task'[h].at \in {"numbered", "inserted"} =>
                  task'[h] = task[h]
             /\ \A s \in Paths : /\ Owns(h, s)' => Owns(h, s)
                                 /\ s # s0 /\ Closes(h, s)' => Closes(h, s)
             /\ Waits(h)' => Waits(h)
  BY <1>1 DEF Still
<1>5. ASSUME NEW s \in Paths \ {s0}, sweep'.path \in {s0, NoSession}
      PROVE  (Closing(s)' => Closing(s)) /\ (Closing(s) => Closing(s)')
  <2>1. ~SweepCloses(s) /\ ~SweepCloses(s)'
    BY <1>5, PathsType DEF SweepCloses
  <2>2. \A h \in Handles : (Closes(h, s)' => Closes(h, s)) /\ (Closes(h, s) => Closes(h, s)')
    BY DEF Closes
  <2>3. Closing(s) => Closing(s)'
    BY <2>1, <2>2 DEF Closing
  <2>4. Closing(s)' => Closing(s)
    BY <2>1, <2>2 DEF Closing
  <2> QED
    BY <2>3, <2>4
<1>6. CASE sweep.removed
  <2>1. /\ exported' = exported \ {s0} /\ known' = known
        /\ sweep' = [sweep EXCEPT !.path = NoSession, !.removed = FALSE]
    BY <1>6 DEF CloseStale
  <2>2. /\ sweep' \in [due : SUBSET Paths, path : Paths \cup {NoSession}, removed : BOOLEAN]
        /\ sweep'.path = NoSession /\ ~sweep'.removed /\ sweep'.due = sweep.due
    BY <1>0, <2>1
  <2>3. Closing(s0)
    BY <1>6 DEF Closing, SweepCloses
  <2>4. Removes(s0)
    BY <1>2, <1>4, <1>5, <2>1, <2>2, <2>3 DEF Removes
  <2>5. Typed'
    BY <1>0, <1>3, <2>1, <2>2 DEF Typed, TypeOK
  <2> QED
    BY <1>0, <2>4, <2>5, RemovesKeeps
<1>7. CASE ~sweep.removed
  <2>1. /\ known' = known \ {s0} /\ exported' = exported
        /\ sweep' = [sweep EXCEPT !.removed = TRUE]
    BY <1>7 DEF CloseStale
  <2>2. /\ sweep' \in [due : SUBSET Paths, path : Paths \cup {NoSession}, removed : BOOLEAN]
        /\ sweep'.path = s0 /\ sweep'.removed /\ sweep'.due = sweep.due
    BY <1>0, <2>1
  <2>3. Closing(s0)'
    BY <2>2 DEF Closing, SweepCloses
  <2>4. ASSUME NEW h \in Handles, Holds(h), handle[h].path = s0 PROVE s0 \in robbed'
    <3>1. handle[h].connection \in online
      BY <1>0, <2>4 DEF Typed, Shapes, Shape, Holds
    <3>2. owner[s0] \notin online
      BY <1>0 DEF IInv, Left
    <3>3. s0 \notin known
      BY <2>4, <3>1, <3>2 DEF IInv, HeldSessionsAnswer
    <3> QED
      BY <2>4, <3>3 DEF IInv, HeldSessionsAnswer
  <2>5. Removes(s0)
    BY <1>2, <1>4, <1>5, <2>1, <2>2, <2>3, <2>4 DEF Removes
  <2>6. Typed'
    BY <1>0, <1>3, <2>1, <2>2 DEF Typed, TypeOK
  <2> QED
    BY <1>0, <2>5, <2>6, RemovesKeeps
<1> QED
  BY <1>6, <1>7

-----------------------------------------------------------------------------
(* The daemon is started *)

LEMMA RestartKeeps ==
  ASSUME IInv, Restart
  PROVE  IInv'
<1>0. Typed /\ epoch \in 0 .. Restarts /\ Restarts \in Nat
  BY SessionsAssumption DEF IInv, Typed, TypeOK
<1>1. /\ epoch' = epoch + 1 /\ known' = {} /\ exported' = {} /\ index' = 0
      /\ left' = [s \in Paths |-> "no"] /\ excused' = {} /\ robbed' = {}
      /\ watching' = FALSE /\ queue' = <<>> /\ seen' = NoSession
      /\ sweep' = [due |-> {}, path |-> NoSession, removed |-> FALSE]
      /\ UNCHANGED <<key, owner, online>>
  BY DEF Restart, NoSweep
<1>2. epoch' \in 0 .. Restarts
  BY <1>0, <1>1 DEF Restart
<1>3. ASSUME NEW h \in Handles
      PROVE  /\ task'[h] \in {Asked, NoTask} /\ handle'[h] \in Handle
             /\ task'[h] = Asked => handle'[h].phase = "opening"
             /\ handle'[h].phase = "opening" => task'[h] = Asked /\ handle[h].phase = "opening"
             /\ handle'[h].phase \in {handle[h].phase, "gone"}
             /\ handle'[h].path = handle[h].path /\ handle'[h].epoch = handle[h].epoch
             /\ handle'[h].connection = handle[h].connection
  <2>0. handle[h] \in Handle
    BY <1>0, TaskKinds
  <2>1. CASE handle[h].phase = "opening" /\ handle[h].encrypted
    <3>1. task'[h] = Asked /\ handle'[h] = [handle[h] EXCEPT !.encrypted = FALSE]
      BY <2>1 DEF Restart
    <3> QED
      BY <2>0, <2>1, <3>1 DEF Handle
  <2>2. CASE handle[h].phase = "opening" /\ ~handle[h].encrypted
    <3>1. task'[h] = NoTask /\ handle'[h] = [handle[h] EXCEPT !.phase = "gone"]
      BY <2>2 DEF Restart
    <3> QED
      BY <2>0, <2>2, <3>1 DEF Handle, NoTask, Asked
  <2>3. CASE handle[h].phase # "opening"
    <3>1. task'[h] = NoTask /\ handle'[h] = handle[h]
      BY <2>3 DEF Restart
    <3> QED
      BY <2>0, <2>3, <3>1 DEF Handle, NoTask, Asked
  <2> QED
    BY <2>1, <2>2, <2>3
<1>4. /\ task' \in [Handles -> TaskType] /\ handle' \in [Handles -> Handle]
      /\ task' \in [Handles -> Task]
  <2>1. task' \in [Handles -> TaskType] /\ handle' \in [Handles -> Handle]
    BY <1>3 DEF Restart, TaskType
  <2> QED
    BY <2>1, TaskTypes
<1>5. ASSUME NEW h \in Handles
      PROVE  /\ task'[h].op \in {"open", "none"} /\ task'[h].at \in {"asked", "none"}
             /\ handle'[h].epoch < epoch'
  <2>1. Shape(h) /\ handle[h].epoch \in 0 .. Restarts
    BY <1>0, TaskKinds DEF Typed, Shapes, Handle
  <2>2. handle'[h].epoch < epoch'
    BY <1>0, <1>1, <1>3, <2>1 DEF Shape
  <2> QED
    BY <1>3, <2>2 DEF NoTask, Asked
<1>6. ASSUME NEW h \in Handles PROVE Shape(h)'
  <2>1. Shape(h) /\ handle'[h].epoch \in Nat /\ epoch' \in Nat
    BY <1>0, <1>2, <1>3 DEF Typed, Shapes, Handle
  <2> QED
    BY <1>1, <1>3, <1>5, <2>1 DEF Shape, NoTask, Asked
<1>7. Typed'
  <2>1. Shapes'
    BY <1>1, <1>4, <1>6 DEF Shapes
  <2>2. queue' \in Seq(Connections) /\ index' \in 0 .. Cardinality(Handles)
    BY <1>1, PathsType
  <2> QED
    BY <1>0, <1>1, <1>2, <1>4, <2>1, <2>2 DEF Typed, TypeOK
<1>8. Counted'
  <2>1. Waiting' \subseteq Handles
    BY DEF Waiting
  <2>2. Cardinality(Waiting') <= Cardinality(Handles) /\ Cardinality(Waiting') \in Nat
    BY <2>1, SessionsAssumption, FS_Subset, FS_CardinalityType
  <2> QED
    BY <1>1, <2>2, PathsType DEF Counted
<1>9. ASSUME NEW h \in Handles, NEW s \in Paths
      PROVE  ~Opens(h, s)' /\ ~Closes(h, s)' /\ ~Owns(h, s)' /\ ~Holds(h)'
  <2>1. handle'[h].epoch # epoch'
    BY <1>2, <1>4, <1>5 DEF Handle
  <2> QED
    BY <1>5, <2>1 DEF Opens, Closes, Owns, Holds
<1>10. Unique'
  BY <1>9 DEF Unique
<1>11. Ahead'
  <2>1. \A s \in Paths : s # NoSession
    BY PathsType
  <2> QED
    BY <1>1, <1>9, <2>1 DEF Ahead
<1>12. Inserted' /\ HeldSessionsAnswer'
  <2>1. \A h \in Handles : handle'[h].epoch # epoch'
    BY <1>2, <1>4, <1>5 DEF Handle
  <2> QED
    BY <1>5, <2>1 DEF Inserted, HeldSessionsAnswer, Holds
<1>13. Left'
  <2>1. \A s \in Paths : s # NoSession
    BY PathsType
  <2> QED
    BY <1>1, <2>1 DEF Left
<1>14. Tables'
  BY <1>1, <1>9 DEF Tables, SweepCloses
<1> QED
  BY <1>7, <1>8, <1>10, <1>11, <1>12, <1>13, <1>14 DEF IInv

-----------------------------------------------------------------------------
(* The theorems *)

LEMMA InitIInv == Init => IInv
<1> SUFFICES ASSUME Init PROVE IInv
  OBVIOUS
<1>1. \A s \in Paths : s # NoSession /\ s \in Nat
  BY PathsType
<1>2. Typed
  BY InitTyped
<1>3. Counted
  <2>1. Waiting \subseteq Handles
    BY DEF Waiting
  <2>2. Cardinality(Waiting) <= Cardinality(Handles) /\ Cardinality(Waiting) \in Nat
    BY <2>1, SessionsAssumption, FS_Subset, FS_CardinalityType
  <2> QED
    BY <2>2, PathsType DEF Init, Counted
<1>4. \A h \in Handles, s \in Paths : ~Opens(h, s) /\ ~Closes(h, s) /\ ~Owns(h, s) /\ ~Holds(h)
  BY DEF Init, NoTask, Opens, Closes, Owns, Holds
<1>5. Unique /\ Ahead /\ Tables
  BY <1>1, <1>4 DEF Init, Unique, Ahead, Tables, SweepCloses, NoSweep
<1>6. Inserted /\ Left /\ HeldSessionsAnswer
  BY <1>1 DEF Init, Inserted, Left, HeldSessionsAnswer, Holds, NoSweep, NoTask
<1> QED
  BY <1>2, <1>3, <1>5, <1>6 DEF IInv

LEMMA NextIInv == IInv /\ [Next]_vars => IInv'
<1> SUFFICES ASSUME IInv, [Next]_vars PROVE IInv'
  OBVIOUS
<1>0. Typed /\ Left
  BY DEF IInv
<1>1. ASSUME NEW h \in Handles, Client(h) \/ Lookup(h) PROVE IInv'
  BY <1>0, <1>1, QuietKeeps, NewStep, KeysFailStep, GiveUpStep, KeepStep, DropStep, UseStep,
     LookupStep DEF Client
<1>2. ASSUME NEW h \in Handles, Opening(h) PROVE IInv'
  BY <1>2, NumberKeeps, InsertKeeps, ExportKeeps DEF Opening, OpenSession
<1>3. ASSUME NEW h \in Handles, Close(h) PROVE IInv'
  BY <1>3, CloseKeeps
<1>4. ASSUME NEW k \in Connections, Disconnect(k) PROVE IInv'
  BY <1>0, <1>4, QuietKeeps, DisconnectStep
<1>5. CASE Watch \/ See \/ MarkSeen
  BY <1>0, <1>5, QuietKeeps, WatchStep
<1>6. CASE Sweep
  BY <1>0, <1>6, QuietKeeps, SweepStep, CloseStaleKeeps DEF Sweep
<1>7. CASE \E s \in Paths : Expire(s)
  BY <1>0, <1>7, QuietKeeps, SweepStep
<1>8. CASE Restart
  BY <1>8, RestartKeeps
<1>9. CASE UNCHANGED vars
  BY <1>0, <1>9, QuietKeeps, StutterStep
<1> QED
  BY <1>1, <1>2, <1>3, <1>4, <1>5, <1>6, <1>7, <1>8, <1>9 DEF Next, Serving

LEMMA IInvAlways == Spec => []IInv
BY InitIInv, NextIInv, PTL DEF Spec

LEMMA TablesAgree == IInv => WellFormed
<1> SUFFICES ASSUME IInv, NEW s \in Paths
             PROVE  \/ (s \in known /\ s \in exported) \/ (s \notin known /\ s \notin exported)
                    \/ sweep.path = s
                    \/ \E h \in Handles : task[h].path = s /\ task[h].op \in {"open", "close"}
  BY DEF WellFormed, KnownAreExported, IInv, Typed
<1>1. CASE \E h \in Handles : task[h].at = "inserted" /\ task[h].path = s
  BY <1>1, TaskKinds DEF IInv
<1>2. CASE \E h \in Handles : Closes(h, s)
  BY <1>2, TaskKinds DEF IInv, Closes
<1> QED
  BY <1>1, <1>2 DEF IInv, Tables, SweepCloses

\* The types, and that the list of sessions and the object server have the same ones but
\* for those that are being opened or closed (Service::open_session, Session::close,
\* Service::cleanup_stale_sessions).
THEOREM SessionsWellFormed == Spec => []WellFormed
BY IInvAlways, TablesAgree, PTL

\* A client that has a session of this daemon's finds it, with its own key, until it
\* closes it itself; only a handle that kept the same path from an earlier daemon may take
\* it away (Session::new, mark_stale, cleanup_stale_sessions, Session::close).
THEOREM HeldSessionsAnswered == Spec => []HeldSessionsAnswer
<1>1. IInv => HeldSessionsAnswer
  BY DEF IInv
<1> QED
  BY <1>1, IInvAlways, PTL
=============================================================================
