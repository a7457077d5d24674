------------------------------- MODULE Sessions -------------------------------
(***************************************************************************)
(* The sessions under which secrets travel (server/src/session.rs and the  *)
(* parts of service/mod.rs that keep them): how clients open them through  *)
(* client/src/dbus, use them and close them, and how the daemon closes     *)
(* those of clients that left the bus.                                     *)
(*                                                                         *)
(* A step is the code between two points where a task can be suspended.    *)
(* Three things run in the daemon: one task for each call, the watch over  *)
(* disconnecting clients, and the sweep that comes every 30 seconds.       *)
(***************************************************************************)
EXTENDS Naturals, Sequences, FiniteSets

CONSTANTS
  Handles,     \* the oo7::dbus::Service objects of all clients
  Connections, \* their connections to the bus; a unique name never comes back
  MayUse,      \* the connections that each may be made with, those of its process
  Plain,       \* the key of a session without encryption
  NoSession,
  Restarts     \* how often the daemon may be started again

ASSUME SessionsAssumption ==
  /\ IsFiniteSet(Handles) /\ Connections # {}
  /\ MayUse \in [Handles -> SUBSET Connections]
  /\ Plain \notin Handles
  /\ NoSession \notin Nat
  /\ Restarts \in Nat

\* /org/freedesktop/secrets/session/s1 and so on
Paths == 1 .. Cardinality(Handles)
\* Keys are agreed between one handle and the daemon.
Keys == Handles \cup {Plain}

VARIABLES
  known,    \* Service::sessions, by path
  exported, \* the sessions on the object server
  index,    \* Service::session_index
  key,      \* Session::aes_key
  owner,    \* Session::sender
  left,     \* Session::disconnected_at: none, less than a minute ago, or more
  task,     \* the call that the daemon runs for each handle
  watching, \* whether on_client_disconnect has its message stream
  queue,    \* what is in the stream: connections that are gone
  seen,     \* the session that it is about to mark
  sweep,    \* cleanup_stale_sessions: what it collected, and what it is closing
  handle,   \* the client's side
  online,   \* connections that are on the bus
  epoch,    \* how often the daemon was started again
  excused,  \* history: sessions whose client is gone and that nobody will mark
  robbed    \* history: sessions closed by a handle that had the path from an earlier daemon

daemon == <<known, exported, index, key, owner, left>>
tasks  == <<watching, queue, seen, sweep>>
vars   == <<daemon, task, tasks, handle, online, epoch, excused, robbed>>

Task == [op : {"none", "open", "use", "close"},
         at : {"none", "asked", "numbered", "inserted", "sent", "removed"},
         path : Paths \cup {NoSession}, looks : 0 .. 2]

\* kept: a Collection or an Item made from the Service is alive; it has the session too.
Handle == [phase : {"none", "opening", "open", "kept", "gone"},
           connection : Connections, encrypted : BOOLEAN, path : Paths \cup {NoSession},
           kept : BOOLEAN, epoch : 0 .. Restarts]

TypeOK ==
  /\ known \subseteq Paths /\ exported \subseteq Paths
  /\ index \in 0 .. Cardinality(Handles)
  /\ key \in [Paths -> Keys] /\ owner \in [Paths -> Connections]
  /\ left \in [Paths -> {"no", "recent", "long"}]
  /\ task \in [Handles -> Task]
  /\ watching \in BOOLEAN /\ queue \in Seq(Connections)
  /\ seen \in Paths \cup {NoSession}
  /\ sweep \in [due : SUBSET Paths, path : Paths \cup {NoSession}, removed : BOOLEAN]
  /\ handle \in [Handles -> Handle]
  /\ online \subseteq Connections
  /\ epoch \in 0 .. Restarts
  /\ excused \subseteq Paths /\ robbed \subseteq Paths

NoTask == [op |-> "none", at |-> "none", path |-> NoSession, looks |-> 0]
Asked  == [op |-> "open", at |-> "asked", path |-> NoSession, looks |-> 0]
NoSweep == [due |-> {}, path |-> NoSession, removed |-> FALSE]

Now(h, t) == task' = [task EXCEPT ![h] = t]
Done(h) == Now(h, NoTask)

\* The key that the client took from OpenSession.
ClientKey(h) == IF handle[h].encrypted THEN h ELSE Plain

\* The handle has a session of this daemon's.
Holds(h) == handle[h].phase \in {"open", "kept"} /\ handle[h].epoch = epoch

-----------------------------------------------------------------------------
(* Opening *)

\* Service::new tries an encrypted session first.
New(h, k) ==
  /\ handle[h].phase = "none"
  /\ k \in online \cap MayUse[h]
  /\ handle' = [handle EXCEPT ![h].phase = "opening", ![h].connection = k]
  /\ Now(h, Asked)
  /\ UNCHANGED <<daemon, tasks, online, epoch, excused, robbed>>

\* A method error makes it try a plain one.
Fallback(h) ==
  /\ handle' = [handle EXCEPT ![h].encrypted = FALSE]
  /\ Now(h, Asked)

\* The daemon cannot make the keys.
KeysFail(h) ==
  /\ task[h].op = "open" /\ task[h].at = "asked" /\ handle[h].encrypted
  /\ \/ handle[h].phase = "opening" /\ Fallback(h)
     \/ handle[h].phase = "gone" /\ Done(h) /\ UNCHANGED handle
  /\ UNCHANGED <<daemon, tasks, online, epoch, excused, robbed>>

\* Session::new, after the bus was asked for the client's process.
Number(h) ==
  /\ task[h].at = "asked"
  /\ index' = index + 1
  /\ Now(h, [task[h] EXCEPT !.at = "numbered", !.path = index + 1])

\* Its sender may be gone: the watch only sees it if it is still to come to that.
Insert(h) ==
  LET s == task[h].path
      k == handle[h].connection
  IN /\ task[h].at = "numbered"
     /\ known' = known \cup {s}
     /\ key' = [key EXCEPT ![s] = ClientKey(h)]
     /\ owner' = [owner EXCEPT ![s] = k]
     /\ left' = [left EXCEPT ![s] = "no"]
     /\ excused' = IF k \in online \/ \E i \in DOMAIN queue : queue[i] = k
                     THEN excused ELSE excused \cup {s}
     /\ Now(h, [task[h] EXCEPT !.at = "inserted"])
     /\ UNCHANGED <<exported, index>>

\* The client gets the path, unless it waits no more.
Export(h) ==
  /\ task[h].at = "inserted"
  /\ exported' = exported \cup {task[h].path}
  /\ handle' = IF handle[h].phase = "opening"
                 THEN [handle EXCEPT ![h].phase = "open", ![h].path = task[h].path,
                                     ![h].epoch = epoch]
                 ELSE handle
  /\ Done(h)

OpenSession(h) ==
  \/ Number(h) /\ UNCHANGED <<known, exported, key, owner, left, handle, excused>>
  \/ Insert(h) /\ UNCHANGED handle
  \/ Export(h) /\ UNCHANGED <<known, index, key, owner, left, excused>>

\* The client waits 30 seconds at most, and its future may be dropped: the session that
\* it asked for is then nobody's.
GiveUp(h) ==
  /\ handle[h].phase = "opening"
  /\ handle' = [handle EXCEPT ![h].phase = "gone"]
  /\ UNCHANGED <<daemon, task, tasks, online, epoch, excused, robbed>>

-----------------------------------------------------------------------------
(* Using *)

\* GetSecrets looks for the session of each item, ChangeWithMasterPassword for those of
\* both passwords.
Looks == 1 .. 2

\* Whatever carries a secret, of the Service or of an Item or a Collection.
Use(h) ==
  /\ handle[h].phase \in {"open", "kept"}
  /\ task[h] = NoTask
  /\ \E n \in Looks : Now(h, [op |-> "use", at |-> "sent", path |-> handle[h].path, looks |-> n])
  /\ UNCHANGED <<daemon, tasks, handle, online, epoch, excused, robbed>>

\* The session is marked no more, when it is found.
Unmark(s) ==
  /\ left' = [left EXCEPT ![s] = "no"]
  /\ excused' = IF owner[s] \notin online /\ left[s] # "no" THEN excused \cup {s} ELSE excused

Lookup(h) ==
  LET s == task[h].path
  IN /\ task[h].op = "use"
     /\ IF s \in known
          THEN /\ Unmark(s)
               /\ IF task[h].looks = 1 THEN Done(h) ELSE Now(h, [task[h] EXCEPT !.looks = 1])
          ELSE Done(h) /\ UNCHANGED <<left, excused>>
     /\ UNCHANGED <<known, exported, index, key, owner, tasks, handle, online, epoch, robbed>>

-----------------------------------------------------------------------------
(* Closing *)

\* Service::collections and the like.
Keep(h) ==
  /\ handle[h].phase = "open" /\ task[h] = NoTask
  /\ handle' = [handle EXCEPT ![h].kept = TRUE]
  /\ UNCHANGED <<daemon, task, tasks, online, epoch, excused, robbed>>

\* Mutant: dropping the Service closes its session in any case.
MutDrop(h) ==
  /\ handle[h].phase = "open" /\ task[h] = NoTask
  /\ handle' = [handle EXCEPT ![h].phase = IF handle[h].kept THEN "kept" ELSE "gone"]
  /\ Now(h, [op |-> "close", at |-> "sent", path |-> handle[h].path, looks |-> 0])
  /\ UNCHANGED <<daemon, tasks, online, epoch, excused, robbed>>

\* Service::drop closes the session if nothing else has it.
Drop(h) ==
  /\ handle[h].phase = "open" /\ task[h] = NoTask
  /\ IF handle[h].kept
       THEN handle' = [handle EXCEPT ![h].phase = "kept"] /\ UNCHANGED task
       ELSE /\ handle' = [handle EXCEPT ![h].phase = "gone"]
            /\ Now(h, [op |-> "close", at |-> "sent", path |-> handle[h].path, looks |-> 0])
  /\ UNCHANGED <<daemon, tasks, online, epoch, excused, robbed>>

\* The Collections and Items go; they close nothing.
Release(h) ==
  /\ handle[h].kept /\ task[h] = NoTask
  /\ \/ handle[h].phase = "open" /\ handle' = [handle EXCEPT ![h].kept = FALSE]
     \/ handle[h].phase = "kept" /\ handle' = [handle EXCEPT ![h].phase = "gone", ![h].kept = FALSE]
  /\ UNCHANGED <<daemon, task, tasks, online, epoch, excused, robbed>>

\* Session::close, for the client.  The call goes by the path.
Close(h) ==
  LET s == task[h].path
  IN /\ task[h].op = "close"
     /\ \/ /\ task[h].at = "sent" /\ s \notin exported
           /\ Done(h)
           /\ UNCHANGED <<known, exported, robbed>>
        \/ /\ task[h].at = "sent" /\ s \in exported
           /\ known' = known \ {s}
           /\ robbed' = IF handle[h].epoch = epoch THEN robbed ELSE robbed \cup {s}
           /\ Now(h, [task[h] EXCEPT !.at = "removed"])
           /\ UNCHANGED exported
        \/ /\ task[h].at = "removed"
           /\ exported' = exported \ {s}
           /\ Done(h)
           /\ UNCHANGED <<known, robbed>>
     /\ UNCHANGED <<index, key, owner, left, tasks, handle, online, epoch, excused>>

-----------------------------------------------------------------------------
(* Clients leave: on_client_disconnect *)

Of(k) == {s \in known : owner[s] = k}

\* Calls that were sent are run all the same; a Close that Drop spawned may not be sent.
Disconnect(k) ==
  /\ k \in online
  /\ online' = online \ {k}
  /\ handle' = [h \in Handles |->
       IF handle[h].connection = k /\ handle[h].phase # "none"
         THEN [handle[h] EXCEPT !.phase = "gone"] ELSE handle[h]]
  /\ \E lost \in SUBSET {h \in Handles : /\ handle[h].connection = k
                                         /\ task[h].op = "close" /\ task[h].at = "sent"} :
       task' = [h \in Handles |-> IF h \in lost THEN NoTask ELSE task[h]]
  /\ IF watching
       THEN queue' = Append(queue, k) /\ UNCHANGED excused
       ELSE excused' = excused \cup Of(k) /\ UNCHANGED queue
  /\ UNCHANGED <<daemon, watching, seen, sweep, epoch, robbed>>

\* initialize has spawned it, and it has its stream.
Watch ==
  /\ ~watching
  /\ watching' = TRUE
  /\ UNCHANGED <<daemon, task, queue, seen, sweep, handle, online, epoch, excused, robbed>>

\* session_from_sender finds one of them.
See ==
  /\ seen = NoSession /\ queue # <<>>
  /\ queue' = Tail(queue)
  /\ LET mine == Of(Head(queue))
     IN IF mine = {} THEN UNCHANGED <<seen, excused>>
        ELSE \E s \in mine : seen' = s /\ excused' = excused \cup (mine \ {s})
  /\ UNCHANGED <<daemon, task, watching, sweep, handle, online, epoch, robbed>>

\* Mutant: the mark goes to a copy of the session.
MutMark == left' = left

\* mark_stale
Mark == left' = [left EXCEPT ![seen] = "recent"]

MarkSeen ==
  /\ seen # NoSession
  /\ Mark
  /\ seen' = NoSession
  /\ UNCHANGED <<known, exported, index, key, owner, task, watching, queue, sweep, handle, online,
                 epoch, excused, robbed>>

-----------------------------------------------------------------------------
(* The sweep: cleanup_stale_sessions *)

\* A minute passes.  No step of the daemon takes that long.
Expire(s) ==
  /\ left[s] = "recent"
  /\ \A h \in Handles : task[h].op # "open"
  /\ left' = [left EXCEPT ![s] = "long"]
  /\ UNCHANGED <<known, exported, index, key, owner, task, tasks, handle, online, epoch, excused,
                 robbed>>

IsStale(s) == left[s] = "long"

Collect ==
  /\ sweep = NoSweep
  /\ \E s \in known : IsStale(s)
  /\ sweep' = [NoSweep EXCEPT !.due = {s \in known : IsStale(s)}]
  /\ UNCHANGED <<daemon, task, watching, queue, seen, handle, online, epoch, excused, robbed>>

\* Service::session takes the mark off, also here.
Pick ==
  /\ sweep.path = NoSession
  /\ \E s \in sweep.due :
       IF s \in known
         THEN /\ left' = [left EXCEPT ![s] = "no"]
              /\ sweep' = [sweep EXCEPT !.due = @ \ {s}, !.path = s]
         ELSE sweep' = [sweep EXCEPT !.due = @ \ {s}] /\ UNCHANGED left
  /\ UNCHANGED <<known, exported, index, key, owner, task, watching, queue, seen, handle, online,
                 epoch, excused, robbed>>

\* Mutant: the session is taken from the bus and stays in the list.
MutCloseStale ==
  /\ sweep.path # NoSession
  /\ exported' = exported \ {sweep.path}
  /\ sweep' = [sweep EXCEPT !.path = NoSession, !.removed = FALSE]
  /\ UNCHANGED known

\* Session::close; that the object server does not have it is only logged.
CloseStale ==
  /\ sweep.path # NoSession
  /\ IF sweep.removed
       THEN /\ exported' = exported \ {sweep.path}
            /\ sweep' = [sweep EXCEPT !.path = NoSession, !.removed = FALSE]
            /\ UNCHANGED known
       ELSE /\ known' = known \ {sweep.path}
            /\ sweep' = [sweep EXCEPT !.removed = TRUE]
            /\ UNCHANGED exported

Sweep ==
  \/ Collect
  \/ Pick
  \/ /\ CloseStale
     /\ UNCHANGED <<index, key, owner, left, task, watching, queue, seen, handle, online, epoch,
                    excused, robbed>>

-----------------------------------------------------------------------------
(* The daemon *)

\* Another process takes over, and counts from 1 again.  Calls that were under way get a
\* method error; clients keep the path that they have.
Restart ==
  /\ epoch < Restarts
  /\ epoch' = epoch + 1
  /\ known' = {} /\ exported' = {} /\ index' = 0
  /\ left' = [s \in Paths |-> "no"]
  /\ watching' = FALSE /\ queue' = <<>> /\ seen' = NoSession /\ sweep' = NoSweep
  /\ LET retries == {h \in Handles : handle[h].phase = "opening" /\ handle[h].encrypted}
     IN /\ task' = [h \in Handles |->
             IF h \in retries THEN Asked ELSE NoTask]
        /\ handle' = [h \in Handles |->
             IF handle[h].phase # "opening" THEN handle[h]
             ELSE IF h \in retries THEN [handle[h] EXCEPT !.encrypted = FALSE]
             ELSE [handle[h] EXCEPT !.phase = "gone"]]
  /\ excused' = {} /\ robbed' = {}
  /\ UNCHANGED <<key, owner, online>>

Init ==
  /\ known = {} /\ exported = {} /\ index = 0
  /\ key = [s \in Paths |-> Plain]
  /\ owner = [s \in Paths |-> CHOOSE k \in Connections : TRUE]
  /\ left = [s \in Paths |-> "no"]
  /\ task = [h \in Handles |-> NoTask]
  /\ watching = FALSE /\ queue = <<>> /\ seen = NoSession /\ sweep = NoSweep
  /\ handle = [h \in Handles |->
       [phase |-> "none", connection |-> CHOOSE k \in Connections : TRUE, encrypted |-> TRUE,
        path |-> NoSession, kept |-> FALSE, epoch |-> 0]]
  /\ online = Connections
  /\ epoch = 0
  /\ excused = {} /\ robbed = {}

Opening(h) == OpenSession(h) /\ UNCHANGED <<tasks, online, epoch, robbed>>
Serving(h) == Opening(h) \/ Lookup(h) \/ Close(h)

Client(h) ==
  \/ \E k \in Connections : New(h, k)
  \/ KeysFail(h) \/ GiveUp(h) \/ Use(h) \/ Keep(h) \/ Drop(h) \/ Release(h)

Next ==
  \/ \E h \in Handles : Client(h) \/ Serving(h)
  \/ \E k \in Connections : Disconnect(k)
  \/ Watch \/ See \/ MarkSeen \/ Sweep
  \/ \E s \in Paths : Expire(s)
  \/ Restart

Spec == Init /\ [][Next]_vars

\* The tasks of the daemon go on, and so does the clock.
Fairness ==
  /\ \A h \in Handles : WF_vars(Serving(h))
  /\ WF_vars(Watch) /\ WF_vars(See) /\ WF_vars(MarkSeen) /\ WF_vars(Sweep)
  /\ \A s \in Paths : WF_vars(Expire(s))

FairSpec == Spec /\ Fairness

-----------------------------------------------------------------------------
(* Properties *)

\* A client that has a session of this daemon's finds it, on the bus and in the list: no
\* sweep, no other handle and no late call closes it.  Only a handle that kept the same
\* path from an earlier daemon may.  What the client encrypts is decrypted with the key
\* that it agreed upon.
HeldSessionsAnswer ==
  \A h \in Handles :
    Holds(h) =>
      /\ handle[h].path \in (known \cap exported) \cup robbed
      /\ handle[h].path \in known =>
           /\ key[handle[h].path] = ClientKey(h)
           /\ owner[handle[h].path] = handle[h].connection

\* The list and the object server have the same sessions, but for those that a task is
\* opening or closing.
KnownAreExported ==
  \A s \in Paths :
    \/ (s \in known) = (s \in exported)
    \/ sweep.path = s
    \/ \E h \in Handles : task[h].path = s /\ task[h].op \in {"open", "close"}

\* The types, and what ties the list and the object server together.
WellFormed == TypeOK /\ KnownAreExported

\* A session whose client left the bus is closed, except: one that is opened when the
\* watch has already seen its client go, that a call of its client uses after it was
\* marked, that is the second of its connection, or whose client left before the watch.
GoneSessionsClosed ==
  \A s \in Paths :
    s \in known /\ owner[s] \notin online ~> s \notin known \/ s \in excused

\* Without the exceptions.
EverySessionCloses ==
  \A s \in Paths : s \in known /\ owner[s] \notin online ~> s \notin known

\* A handle only closes what it opened.
NoneRobbed == robbed = {}

\* A call finds the key of the client that makes it, or no session.
CallsUseOwnKey ==
  \A h \in Handles :
    task[h].op = "use" /\ task[h].path \in known => key[task[h].path] = ClientKey(h)
===============================================================================
