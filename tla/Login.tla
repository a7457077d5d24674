-------------------------------- MODULE Login --------------------------------
(***************************************************************************)
(* How the password of a login reaches the daemon: the PAM module in the   *)
(* processes that log in and change passwords (pam/src/lib.rs, socket.rs), *)
(* the oo7-daemon-login helper that holds it until a daemon starts         *)
(* (server/src/login.rs), the start of the daemon (server/src/main.rs,     *)
(* Service::run) and the connections of its PAM listener (pam_listener).   *)
(*                                                                         *)
(* The user has one persistent collection. What is done with a password is *)
(* taken as one step: Collection and Service have it in detail.            *)
(***************************************************************************)
EXTENDS Naturals, Sequences, FiniteSets

CONSTANTS
  Hosts,         \* processes that use PAM
  CallsOf,       \* the calls that each of them makes of the module, in their order
  AutoStart,     \* those whose session stack has the argument auto_start
  SameUser,      \* those that run as the user
  Daemons,       \* the instances of oo7-daemon that may be started
  Overlap,       \* whether one may be started while another one runs,
  Replace,       \* and with --replace
  Helpers,       \* the instances of oo7-daemon-login
  OldPassword, NewPassword, NoPassword,
  Credential,    \* what the credentials directory has
  Nobody,
  Budget         \* how many crashes and failures there may be

PamCall == {"authenticate", "chauthtok", "open_session"}
Passwords == {OldPassword, NewPassword}
Maybe == Passwords \cup {NoPassword}

ASSUME LoginAssumption ==
  /\ CallsOf \in [Hosts -> Seq(PamCall)]
  /\ \A h \in Hosts : \A i, j \in DOMAIN CallsOf[h] : CallsOf[h][i] = CallsOf[h][j] => i = j
  /\ AutoStart \subseteq Hosts /\ SameUser \subseteq Hosts
  /\ Overlap \in BOOLEAN /\ Replace \in BOOLEAN
  /\ NoPassword \notin Passwords /\ Credential \in Maybe
  /\ Nobody \notin Daemons \cup Helpers
  /\ Budget \in [{"crash", "fault"} -> Nat]

\* The messages: at most one unlock and one change of each process.
Senders == Hosts \X {"unlock", "change"}

VARIABLES
  account,    \* the user's password
  keyring,    \* the password of the collection's file
  host,       \* of each process: the calls to come, the stashed password, its signal handlers
  sender,     \* of each message: the thread that sends it, or its child
  task,       \* and the daemon's task for the connection
  pamSocket,  \* who bound the socket at the path of the listener
  helper, helperSocket,   \* the helpers, and who bound the socket at their path
  daemon,
  busName,    \* who has the name on the bus
  due,        \* history: passwords that a daemon received and did not try on collections
  arrived, excused,       \* history: messages that reached a daemon, and that could not
  budget

vars == <<account, keyring, host, sender, task, pamSocket, helper, helperSocket, daemon,
          busName, due, arrived, excused, budget>>

Host == [calls : Seq(PamCall), stash : Maybe, signals : {"own", "pam"}, running : BOOLEAN]
Sender == [pc : {"none", "spawned", "fork", "look", "connect", "helper", "sent", "end", "done"},
           old : Maybe, new : Maybe, saved : {"nothing", "own", "pam"}]
Task == [pc : {"none", "got", "try", "insert", "answer", "over"}, daemon : Daemons \cup {Nobody}]
Helper == [pc : {"none", "remove", "bind", "waiting", "serving", "served", "gone"},
           secret : Maybe, from : Senders \cup {Nobody}]
Daemon == [pc : {"off", "look", "receive", "run", "initialize", "replay", "ready", "dead"},
           listener : {"none", "remove", "bind", "on", "failed"},
           helper : Helpers \cup {Nobody},
           secret : Maybe,          \* what it was started with
           user : Maybe,            \* user_secrets
           unlocked : BOOLEAN]

TypeOK ==
  /\ account \in Passwords /\ keyring \in Passwords
  /\ host \in [Hosts -> Host]
  /\ sender \in [Senders -> Sender] /\ task \in [Senders -> Task]
  /\ pamSocket \in Daemons \cup {Nobody} /\ busName \in Daemons \cup {Nobody}
  /\ helper \in [Helpers -> Helper] /\ helperSocket \in Helpers \cup {Nobody}
  /\ daemon \in [Daemons -> Daemon]
  /\ due \in [Daemons -> SUBSET Passwords]
  /\ arrived \subseteq Senders /\ excused \subseteq Senders
  /\ budget \in [{"crash", "fault"} -> Nat]

Spend(k) == budget[k] > 0 /\ budget' = [budget EXCEPT ![k] = @ - 1]
Alive(d) == daemon[d].pc \notin {"off", "dead"}
\* Past its one look for a helper.
Started(d) == daemon[d].pc \in {"run", "initialize", "replay", "ready"}
Registered(d) == daemon[d].pc \in {"replay", "ready"}

daemons == <<pamSocket, daemon, busName>>
helpers == <<helper, helperSocket>>
ghosts == <<due, arrived, excused>>

-----------------------------------------------------------------------------
(* The PAM module *)

Calls(h, call) == host[h].running /\ host[h].calls # <<>> /\ Head(host[h].calls) = call

\* The token of the user may not be available.
Authenticate(h) ==
  /\ Calls(h, "authenticate")
  /\ \E password \in {account, NoPassword} :
       host' = [host EXCEPT ![h].calls = Tail(@), ![h].stash = password]
  /\ UNCHANGED <<account, keyring, sender, task, daemons, helpers, ghosts, budget>>

Spawn(h, op, old, new) ==
  sender' = [sender EXCEPT ![<<h, op>>].pc = "spawned", ![<<h, op>>].old = old,
                           ![<<h, op>>].new = new]

\* The modules before this one have changed the account.
Chauthtok(h) ==
  /\ Calls(h, "chauthtok") /\ account # NewPassword
  /\ account' = NewPassword
  /\ Spawn(h, "change", account, NewPassword)
  /\ host' = [host EXCEPT ![h].calls = Tail(@)]
  /\ UNCHANGED <<keyring, task, daemons, helpers, ghosts, budget>>

OpenSession(h) ==
  /\ Calls(h, "open_session")
  /\ IF host[h].stash = NoPassword THEN UNCHANGED sender
     ELSE Spawn(h, "unlock", NoPassword, host[h].stash)
  /\ host' = [host EXCEPT ![h].calls = Tail(@)]
  /\ UNCHANGED <<account, keyring, task, daemons, helpers, ghosts, budget>>

\* The process ends, and its threads with it; not their children.
HostExit(h) ==
  LET inThread == IF h \in SameUser THEN {"spawned", "look", "connect", "helper", "sent", "end"}
                  ELSE {"spawned", "fork"}
      threads == {s \in Senders : s[1] = h /\ sender[s].pc \in inThread}
  IN /\ host[h].running /\ host[h].calls = <<>> /\ Spend("fault")
     /\ host' = [host EXCEPT ![h].running = FALSE]
     /\ sender' = [s \in Senders |->
                     IF s \in threads THEN [sender[s] EXCEPT !.pc = "done"] ELSE sender[s]]
     /\ excused' = excused \cup {s \in threads : sender[s].pc \notin {"sent", "end"}}
     /\ UNCHANGED <<account, keyring, task, daemons, helpers, due, arrived>>

-----------------------------------------------------------------------------
(* send_secret_to_daemon *)

Move(s, label) == sender' = [sender EXCEPT ![s].pc = label]

\* SavedSignals::new
Save(s, label) ==
  /\ sender' = [sender EXCEPT ![s].pc = label, ![s].saved = host[s[1]].signals]
  /\ host' = [host EXCEPT ![s[1]].signals = "pam"]

\* Mutant: a thread whose message reached no daemon leaves the signals as they are.
MutRestored(s) ==
  IF task[s].pc = "none" THEN host ELSE [host EXCEPT ![s[1]].signals = sender[s].saved]

\* SavedSignals::drop
Restored(s) ==
  IF sender[s].saved = "nothing" THEN host
  ELSE [host EXCEPT ![s[1]].signals = sender[s].saved]

\* Another user's process forks a child to be the user, and waits for it.
Begin(s) ==
  /\ sender[s].pc = "spawned"
  /\ IF s[1] \in SameUser THEN Move(s, "look") /\ UNCHANGED host ELSE Save(s, "fork")
  /\ UNCHANGED <<account, keyring, task, daemons, helpers, ghosts, budget>>

Fork(s) ==
  /\ sender[s].pc = "fork"
  /\ \/ Move(s, "look") /\ UNCHANGED <<excused, budget>>
     \/ Move(s, "end") /\ excused' = excused \cup {s} /\ Spend("fault")
  /\ UNCHANGED <<account, keyring, host, task, daemons, helpers, due, arrived>>

\* symlink_metadata; only a message of open_session may start the helper.
MayStart(s) == s[1] \in AutoStart /\ s[2] = "unlock"

Look(s) ==
  /\ sender[s].pc = "look"
  /\ Move(s, IF pamSocket # Nobody THEN "connect"
             ELSE IF MayStart(s) THEN "helper" ELSE "end")
  /\ UNCHANGED <<account, keyring, host, task, daemons, helpers, ghosts, budget>>

\* Mutant: a daemon that is not there any more is an error.
MutRefused(s) == "end"

Refused(s) == IF MayStart(s) THEN "helper" ELSE "end"

\* The socket may be one that a daemon left behind.
Connect(s) ==
  /\ sender[s].pc = "connect"
  /\ IF pamSocket # Nobody /\ Alive(pamSocket)
       THEN /\ Move(s, "sent")
            /\ task' = [task EXCEPT ![s] = [pc |-> "got", daemon |-> pamSocket]]
       ELSE Move(s, Refused(s)) /\ UNCHANGED task
  /\ UNCHANGED <<account, keyring, host, daemons, helpers, ghosts, budget>>

\* In the child the signals are its own.
StartHelper(s) ==
  /\ sender[s].pc = "helper"
  /\ \E h \in Helpers :
       /\ helper[h].pc = "none"
       /\ helper' = [helper EXCEPT ![h] = [pc |-> "remove", secret |-> sender[s].new, from |-> s]]
  /\ Move(s, "end")
  /\ UNCHANGED <<account, keyring, host, task, daemons, helperSocket, ghosts, budget>>

\* An answer, a connection that ends, or five seconds without either.
Answered(s) ==
  /\ sender[s].pc = "sent"
  /\ Move(s, "end")
  /\ UNCHANGED <<account, keyring, host, task, daemons, helpers, ghosts, budget>>

Finish(s) ==
  /\ sender[s].pc = "end"
  /\ Move(s, "done")
  /\ host' = Restored(s)
  /\ UNCHANGED <<account, keyring, task, daemons, helpers, ghosts, budget>>

SenderStep(s) ==
  Begin(s) \/ Fork(s) \/ Look(s) \/ Connect(s) \/ StartHelper(s) \/ Answered(s) \/ Finish(s)

-----------------------------------------------------------------------------
(* oo7-daemon-login *)

HelperRemove(h) ==
  /\ helper[h].pc = "remove"
  /\ helper' = [helper EXCEPT ![h].pc = "bind"]
  /\ helperSocket' = Nobody
  /\ UNCHANGED <<account, keyring, host, sender, task, daemons, ghosts, budget>>

\* A daemon that has looked already does not look again.
HelperBind(h) ==
  LET bound == helperSocket = Nobody
  IN /\ helper[h].pc = "bind"
     /\ helper' = [helper EXCEPT ![h].pc = IF bound THEN "waiting" ELSE "gone"]
     /\ helperSocket' = IF bound THEN h ELSE helperSocket
     /\ excused' = IF bound /\ ~\E d \in Daemons : Started(d) THEN excused
                   ELSE excused \cup {helper[h].from}
     /\ UNCHANGED <<account, keyring, host, sender, task, daemons, due, arrived, budget>>

\* Two minutes; a daemon that is to start for the session has started by then.
HelperTimeout(h) ==
  /\ helper[h].pc = "waiting"
  /\ \/ \E d \in Daemons : Started(d)
     \/ \A d \in Daemons : daemon[d].pc = "dead"
  /\ helper' = [helper EXCEPT ![h].pc = "gone"]
  /\ helperSocket' = Nobody
  /\ excused' = excused \cup {helper[h].from}
  /\ UNCHANGED <<account, keyring, host, sender, task, daemons, due, arrived, budget>>

\* The secret goes over in a sealed memfd.
Serve(h) ==
  /\ helper[h].pc = "serving"
  /\ helper' = [helper EXCEPT ![h].pc = "served"]
  /\ daemon' = [d \in Daemons |->
       IF daemon[d].pc = "receive" /\ daemon[d].helper = h
         THEN [daemon[d] EXCEPT !.pc = "run", !.secret = helper[h].secret] ELSE daemon[d]]
  /\ arrived' = arrived \cup {helper[h].from}
  /\ UNCHANGED <<account, keyring, host, sender, task, pamSocket, busName, helperSocket, due,
                 excused, budget>>

\* remove_file removes what is at the path then.
HelperEnd(h) ==
  /\ helper[h].pc = "served"
  /\ helper' = [helper EXCEPT ![h].pc = "gone"]
  /\ helperSocket' = Nobody
  /\ UNCHANGED <<account, keyring, host, sender, task, daemons, ghosts, budget>>

HelperStep(h) ==
  HelperRemove(h) \/ HelperBind(h) \/ HelperTimeout(h) \/ Serve(h) \/ HelperEnd(h)

-----------------------------------------------------------------------------
(* oo7-daemon *)

Start(d) ==
  /\ daemon[d].pc = "off"
  /\ Overlap \/ ~\E e \in Daemons : Alive(e)
  /\ daemon' = [daemon EXCEPT ![d].pc = "look"]
  /\ UNCHANGED <<account, keyring, host, sender, task, pamSocket, busName, helpers, ghosts,
                 budget>>

\* read_secret_from_login_helper, or else read_secret_from_credentials_directory
LookForHelper(d) ==
  LET h == helperSocket
  IN /\ daemon[d].pc = "look"
     /\ IF h = Nobody \/ (h \in Helpers /\ helper[h].pc # "waiting")
          THEN /\ daemon' = [daemon EXCEPT ![d].pc = "run", ![d].secret = Credential]
               /\ UNCHANGED helper
          ELSE /\ daemon' = [daemon EXCEPT ![d].pc = "receive", ![d].helper = h]
               /\ helper' = [helper EXCEPT ![h].pc = "serving"]
     /\ UNCHANGED <<account, keyring, host, sender, task, pamSocket, busName, helperSocket,
                    ghosts, budget>>

\* Service::run starts the listener and asks for the name.
Run(d) ==
  /\ daemon[d].pc = "run" /\ daemon[d].listener = "none"
  /\ daemon' = [daemon EXCEPT ![d].listener = "remove"]
  /\ UNCHANGED <<account, keyring, host, sender, task, pamSocket, busName, helpers, ghosts,
                 budget>>

TakeName(d) ==
  LET free == busName = Nobody \/ Replace
  IN /\ daemon[d].pc = "run" /\ daemon[d].listener # "none"
     /\ daemon' = [daemon EXCEPT ![d].pc = IF free THEN "initialize" ELSE "dead"]
     /\ busName' = IF free THEN d ELSE busName
     /\ UNCHANGED <<account, keyring, host, sender, task, pamSocket, helpers, ghosts, budget>>

\* discover_keyrings and initialize: the collection is there, and open if the secret is right.
Initialize(d) ==
  /\ daemon[d].pc = "initialize"
  /\ daemon' = [daemon EXCEPT ![d].pc = "replay", ![d].unlocked = daemon[d].secret = keyring]
  /\ UNCHANGED <<account, keyring, host, sender, task, pamSocket, busName, helpers, ghosts,
                 budget>>

\* Mutant: the daemon does not replay.
MutReplay(d) ==
  /\ daemon[d].pc = "replay"
  /\ daemon' = [daemon EXCEPT ![d].pc = "ready"]
  /\ UNCHANGED <<account, keyring, host, sender, task, pamSocket, busName, helpers, ghosts,
                 budget>>

Replay(d) ==
  /\ daemon[d].pc = "replay"
  /\ daemon' = [daemon EXCEPT ![d].pc = "ready", ![d].unlocked = @ \/ daemon[d].user = keyring]
  /\ due' = [due EXCEPT ![d] = @ \ {daemon[d].user}]
  /\ UNCHANGED <<account, keyring, host, sender, task, pamSocket, busName, helpers, arrived,
                 excused, budget>>

\* Mutant: the socket of an earlier daemon stays.
MutRemoved(d) == pamSocket

Removed(d) == Nobody

\* PamListener::start
RemoveSocket(d) ==
  /\ Alive(d) /\ daemon[d].listener = "remove"
  /\ pamSocket' = Removed(d)
  /\ daemon' = [daemon EXCEPT ![d].listener = "bind"]
  /\ UNCHANGED <<account, keyring, host, sender, task, busName, helpers, ghosts, budget>>

Bind(d) ==
  LET free == pamSocket = Nobody
  IN /\ Alive(d) /\ daemon[d].listener = "bind"
     /\ pamSocket' = IF free THEN d ELSE pamSocket
     /\ daemon' = [daemon EXCEPT ![d].listener = IF free THEN "on" ELSE "failed"]
     /\ UNCHANGED <<account, keyring, host, sender, task, busName, helpers, ghosts, budget>>

Lost(d) ==
  {s \in Senders : task[s].daemon = d /\ task[s].pc = "got"}
    \cup {helper[h].from : h \in {x \in Helpers : helper[x].pc = "serving" /\ daemon[d].helper = x}}

\* The daemon dies; its socket stays where it is.
Crash(d) ==
  /\ Alive(d) /\ Spend("crash")
  /\ daemon' = [daemon EXCEPT ![d].pc = "dead"]
  /\ busName' = IF busName = d THEN Nobody ELSE busName
  /\ task' = [s \in Senders |->
                IF task[s].daemon = d THEN [task[s] EXCEPT !.pc = "over"] ELSE task[s]]
  /\ excused' = excused \cup Lost(d)
  /\ UNCHANGED <<account, keyring, host, sender, pamSocket, helpers, due, arrived>>

DaemonStep(d) ==
  Start(d) \/ LookForHelper(d) \/ Run(d) \/ TakeName(d) \/ Initialize(d) \/ Replay(d)
  \/ RemoveSocket(d) \/ Bind(d)

-----------------------------------------------------------------------------
(* PamListener::handle_connection *)

At(s, op, label) == s[2] = op /\ task[s].pc = label /\ Alive(task[s].daemon)
TaskAt(s, label) == task' = [task EXCEPT ![s].pc = label]

Buffer(s) ==
  LET d == task[s].daemon
  IN /\ At(s, "unlock", "got")
     /\ TaskAt(s, "try")
     /\ daemon' = [daemon EXCEPT ![d].user = sender[s].new]
     /\ due' = [due EXCEPT ![d] = @ \cup {sender[s].new}]
     /\ arrived' = arrived \cup {s}
     /\ UNCHANGED <<account, keyring, host, sender, pamSocket, busName, helpers, excused, budget>>

\* try_unlock_collections: before initialize there are none.
Try(s) ==
  LET d == task[s].daemon
  IN /\ At(s, "unlock", "try")
     /\ TaskAt(s, "answer")
     /\ daemon' = [daemon EXCEPT ![d].unlocked =
                     @ \/ (Registered(d) /\ sender[s].new = keyring)]
     /\ due' = [due EXCEPT ![d] = IF Registered(d) THEN @ \ {sender[s].new} ELSE @]
     /\ UNCHANGED <<account, keyring, host, sender, pamSocket, busName, helpers, arrived,
                    excused, budget>>

\* change_collection_passwords: a collection that was locked is locked again.
Change(s) ==
  /\ At(s, "change", "got")
  /\ TaskAt(s, "insert")
  /\ keyring' = IF Registered(task[s].daemon) /\ keyring = sender[s].old THEN sender[s].new
                ELSE keyring
  /\ arrived' = arrived \cup {s}
  /\ UNCHANGED <<account, host, sender, daemons, helpers, due, excused, budget>>

\* The new password takes the place of what is buffered.
Update(s) ==
  LET d == task[s].daemon
  IN /\ At(s, "change", "insert")
     /\ TaskAt(s, "answer")
     /\ daemon' = [daemon EXCEPT ![d].user = sender[s].new]
     /\ due' = [due EXCEPT ![d] = @ \ {daemon[d].user}]
     /\ UNCHANGED <<account, keyring, host, sender, pamSocket, busName, helpers, arrived,
                    excused, budget>>

Answer(s) ==
  /\ task[s].pc = "answer" /\ Alive(task[s].daemon)
  /\ TaskAt(s, "over")
  /\ UNCHANGED <<account, keyring, host, sender, daemons, helpers, ghosts, budget>>

TaskStep(s) == Buffer(s) \/ Try(s) \/ Change(s) \/ Update(s) \/ Answer(s)

-----------------------------------------------------------------------------
(* Specification *)

Init ==
  /\ account = OldPassword /\ keyring = OldPassword
  /\ host = [h \in Hosts |-> [calls |-> CallsOf[h], stash |-> NoPassword, signals |-> "own",
                              running |-> TRUE]]
  /\ sender = [s \in Senders |-> [pc |-> "none", old |-> NoPassword, new |-> NoPassword,
                                  saved |-> "nothing"]]
  /\ task = [s \in Senders |-> [pc |-> "none", daemon |-> Nobody]]
  /\ pamSocket = Nobody /\ busName = Nobody /\ helperSocket = Nobody
  /\ helper = [h \in Helpers |-> [pc |-> "none", secret |-> NoPassword, from |-> Nobody]]
  /\ daemon = [d \in Daemons |-> [pc |-> "off", listener |-> "none", helper |-> Nobody,
                                  secret |-> NoPassword, user |-> NoPassword, unlocked |-> FALSE]]
  /\ due = [d \in Daemons |-> {}] /\ arrived = {} /\ excused = {}
  /\ budget = Budget

Next ==
  \/ \E h \in Hosts : Authenticate(h) \/ Chauthtok(h) \/ OpenSession(h) \/ HostExit(h)
  \/ \E s \in Senders : SenderStep(s) \/ TaskStep(s)
  \/ \E h \in Helpers : HelperStep(h)
  \/ \E d \in Daemons : DaemonStep(d) \/ Crash(d)

Spec == Init /\ [][Next]_vars

\* Threads, children, helpers and tasks go on; the session starts its daemon, and starts
\* it again when it fails.
Fairness ==
  /\ \A s \in Senders : WF_vars(SenderStep(s)) /\ WF_vars(TaskStep(s))
  /\ \A h \in Helpers : WF_vars(HelperStep(h))
  /\ \A d \in Daemons : WF_vars(DaemonStep(d))
                        /\ WF_vars(RemoveSocket(d) \/ Bind(d))

FairSpec == Spec /\ Fairness

-----------------------------------------------------------------------------
(* Properties *)

\* A password that the listener received is tried on the collections, also when it came
\* before they were there, unless a change of the password took its place.
ReceivedIsTried ==
  \A d \in Daemons :
    daemon[d].pc = "ready" /\ (\A s \in Senders : task[s].daemon = d => task[s].pc # "try")
      => due[d] = {}

\* While a thread of the PAM module waits for its child, the signal handlers are the
\* module's; when none does, they are those that the process had.
SignalsRestored ==
  \A h \in Hosts :
    LET atWork == \E op \in {"unlock", "change"} :
                    sender[<<h, op>>].pc \notin {"none", "spawned", "done"}
    IN host[h].running /\ h \notin SameUser => host[h].signals = IF atWork THEN "pam" ELSE "own"

\* The types, and what ties the threads and their process together.
WellFormed == TypeOK /\ SignalsRestored

\* The daemon that serves clients listens at the path where the PAM module looks.
ListenerReachable ==
  \A d \in Daemons :
    busName = d /\ Alive(d) /\ daemon[d].listener \notin {"remove", "bind"} => pamSocket = d

\* The password of a login with auto_start reaches a daemon, unless a process ends that has
\* it in hand or the helper comes too late for the daemon's look at it.
SecretArrives ==
  \A s \in Senders : MayStart(s) =>
    (sender[s].pc = "spawned" ~> s \in arrived \cup excused)

\* A helper does not wait for a daemon that will not come.
HelperIsMet ==
  \A h \in Helpers, d \in Daemons :
    helper[h].pc = "waiting" => ~(busName = d /\ Started(d))

\* A change that is answered has been made, "This ensures your keyrings remain accessible".
ChangeIsMade ==
  \A s \in Senders :
    s[2] = "change" /\ task[s].pc = "answer" => keyring = sender[s].new

\* What is sent when a session opens is the user's password.
StashIsCurrent ==
  \A h \in Hosts : sender[<<h, "unlock">>].pc = "spawned" => sender[<<h, "unlock">>].new = account
===============================================================================
