----------------------------- MODULE LoginProofs -----------------------------
(***************************************************************************)
(* What holds of Login for all values of its constants, and what holds     *)
(* when the constants exclude what its runs show to go wrong.              *)
(***************************************************************************)
EXTENDS Login, SequenceTheorems, TLAPS

Names(h, call) == \E i \in DOMAIN CallsOf[h] : CallsOf[h][i] = call

\* One process opens a session with a password.
OneLogin ==
  \A g, h \in Hosts : Names(g, "open_session") /\ Names(h, "open_session") => g = h

-----------------------------------------------------------------------------
(* The inductive invariant *)

\* What is sent has a password, what is served has a daemon, and a helper has its caller.
Shapes ==
  /\ \A s \in Senders :
       /\ sender[s].pc # "none" => sender[s].new \in Passwords
       /\ task[s].pc \notin {"none", "over"} => task[s].daemon \in Daemons
       /\ task[s].pc = "none" => task[s].daemon = Nobody
       /\ task[s].pc # "none" => sender[s].pc \in {"sent", "end", "done"}
  /\ \A h \in Helpers : helper[h].pc # "none" => helper[h].from \in Senders

Typed == TypeOK /\ Shapes

Pending(h, call) == \E i \in DOMAIN host[h].calls : host[h].calls[i] = call

\* Each call is made once.
Planned ==
  \A h \in Hosts :
    /\ \A call \in PamCall : Pending(h, call) => Names(h, call)
    /\ \A i, j \in DOMAIN host[h].calls : host[h].calls[i] = host[h].calls[j] => i = j
    /\ sender[<<h, "unlock">>].pc # "none" =>
         Names(h, "open_session") /\ ~Pending(h, "open_session")
    /\ sender[<<h, "change">>].pc # "none" => Names(h, "chauthtok") /\ account = NewPassword

Works(s) == sender[s].pc \notin {"none", "spawned", "done"}

Ops == {"unlock", "change"}

\* Of two threads of a process that wait for their children at a time, the one that found the
\* handlers of the other ends first. Nothing in the PAM module sees to it.
InnerEndsFirst ==
  \A h \in Hosts \ SameUser, op \in Ops : \A o \in Ops \ {op} :
    host[h].running /\ Works(<<h, op>>) /\ sender[<<h, op>>].saved = "pam" => Works(<<h, o>>)

\* Of the threads at work, one has saved the handlers of its process.
Signals ==
  \A h \in Hosts \ SameUser : host[h].running =>
    /\ \A op \in Ops : Works(<<h, op>>) =>
         /\ host[h].signals = "pam"
         /\ \A o \in Ops \ {op} :
              sender[<<h, op>>].saved = IF Works(<<h, o>>) /\ sender[<<h, o>>].saved = "own"
                                        THEN "pam" ELSE "own"
    /\ (\A op \in Ops : ~Works(<<h, op>>)) => host[h].signals = "own"

Named(d) == daemon[d].pc \in {"initialize", "replay", "ready"}

\* The only daemon has the socket from bind on.
Listening ==
  /\ \A d, e \in Daemons : Alive(d) /\ Alive(e) => d = e
  /\ \A d \in Daemons :
       /\ busName = d => Named(d)
       /\ Named(d) => daemon[d].listener # "none"
       /\ daemon[d].pc \in {"off", "look", "receive"} => daemon[d].listener = "none"
       /\ Alive(d) => /\ daemon[d].listener # "failed"
                      /\ daemon[d].listener = "bind" => pamSocket = Nobody
                      /\ daemon[d].listener = "on" => pamSocket = d

Tries(s, d, p) == task[s].pc = "try" /\ task[s].daemon = d /\ sender[s].new = p

\* What was received is buffered until the replay, and in hand after it.
Buffered ==
  /\ \A d \in Daemons :
       /\ daemon[d].pc \notin {"ready", "dead"} => due[d] \subseteq {daemon[d].user}
       /\ daemon[d].pc = "ready" => \A p \in due[d] : \E s \in Senders : Tries(s, d, p)
  /\ \A d \in Daemons : due[d] # {} =>
       \E s \in Senders : s[2] = "unlock" /\ task[s].pc \notin {"none", "got"}

-----------------------------------------------------------------------------
(* Types *)

LEMMA SpendType ==
  ASSUME TypeOK, NEW k \in {"crash", "fault"}, Spend(k)
  PROVE  budget' \in [{"crash", "fault"} -> Nat]
BY DEF TypeOK, Spend

LEMMA InitTyped == Init => Typed
<1> SUFFICES ASSUME Init PROVE Typed
  OBVIOUS
<1>1. host \in [Hosts -> Host]
  BY LoginAssumption DEF Init, Host, Maybe
<1>2. /\ sender \in [Senders -> Sender] /\ task \in [Senders -> Task]
      /\ helper \in [Helpers -> Helper] /\ daemon \in [Daemons -> Daemon]
  BY DEF Init, Sender, Task, Helper, Daemon, Maybe
<1>3. TypeOK
  BY <1>1, <1>2, LoginAssumption DEF Init, TypeOK, Passwords
<1>4. Shapes
  BY DEF Init, Shapes
<1> QED
  BY <1>3, <1>4 DEF Typed

\* The parts of the state whose types an action may disturb.
LEMMA Elements ==
  ASSUME Typed
  PROVE  /\ host \in [Hosts -> Host] /\ sender \in [Senders -> Sender]
         /\ task \in [Senders -> Task] /\ helper \in [Helpers -> Helper]
         /\ daemon \in [Daemons -> Daemon]
         /\ \A h \in Hosts : <<h, "unlock">> \in Senders /\ <<h, "change">> \in Senders
         /\ \A s \in Senders : s[1] \in Hosts /\ s[2] \in {"unlock", "change"} /\ s = <<s[1], s[2]>>
BY DEF Typed, TypeOK, Senders

-----------------------------------------------------------------------------
(* What a step may leave as it is *)

PlanKept ==
  /\ account' = account
  /\ \A h \in Hosts : host'[h].calls = host[h].calls
  /\ \A s \in Senders : sender'[s].pc # "none" => sender[s].pc # "none"

SignalsKept ==
  \A h \in Hosts \ SameUser : host'[h].running =>
    /\ host[h].running /\ host'[h].signals = host[h].signals
    /\ \A op \in {"unlock", "change"} :
         /\ Works(<<h, op>>)' => Works(<<h, op>>)
         /\ Works(<<h, op>>) => Works(<<h, op>>)'
         /\ sender'[<<h, op>>].saved = sender[<<h, op>>].saved

ListeningKept ==
  /\ UNCHANGED <<busName, pamSocket>>
  /\ \A d \in Daemons :
       /\ daemon'[d].listener = daemon[d].listener
       /\ Alive(d)' => Alive(d)
       /\ Named(d)' => Named(d)
       /\ Named(d) => Named(d)'
       /\ daemon'[d].pc \in {"off", "look", "receive"} =>
            daemon[d].pc \in {"off", "look", "receive"}

BufferKept ==
  /\ due' = due
  /\ \A d \in Daemons : daemon'[d].pc # "dead" =>
       /\ daemon[d].pc # "dead" /\ daemon'[d].user = daemon[d].user
       /\ daemon'[d].pc = "ready" => daemon[d].pc = "ready"
       /\ daemon[d].pc = "ready" => daemon'[d].pc = "ready"
       /\ \A s \in Senders, p \in Passwords : Tries(s, d, p) => Tries(s, d, p)'
  /\ \A s \in Senders : task[s].pc \notin {"none", "got"} => task'[s].pc \notin {"none", "got"}

LEMMA KeepsPlan == Planned /\ PlanKept => Planned'
<1> SUFFICES ASSUME Planned, PlanKept, NEW h \in Hosts
             PROVE  /\ \A call \in PamCall : Pending(h, call)' => Names(h, call)
                    /\ \A i, j \in DOMAIN host'[h].calls :
                         host'[h].calls[i] = host'[h].calls[j] => i = j
                    /\ sender'[<<h, "unlock">>].pc # "none" =>
                         Names(h, "open_session") /\ ~Pending(h, "open_session")'
                    /\ sender'[<<h, "change">>].pc # "none" =>
                         Names(h, "chauthtok") /\ account' = NewPassword
  BY DEF Planned
<1>1. \A call \in PamCall : Pending(h, call)' => Pending(h, call)
  BY DEF PlanKept, Pending
<1>2. <<h, "unlock">> \in Senders /\ <<h, "change">> \in Senders
  BY DEF Senders
<1>3. "open_session" \in PamCall
  BY DEF PamCall
<1> QED
  BY <1>1, <1>2, <1>3 DEF Planned, PlanKept

LEMMA KeepsSignals == Signals /\ SignalsKept => Signals'
<1> SUFFICES ASSUME Signals, SignalsKept, NEW h \in Hosts \ SameUser, host'[h].running
             PROVE  /\ \A op \in Ops : Works(<<h, op>>)' =>
                         /\ host'[h].signals = "pam"
                         /\ \A o \in Ops \ {op} :
                              sender'[<<h, op>>].saved =
                                IF Works(<<h, o>>)' /\ sender'[<<h, o>>].saved = "own"
                                THEN "pam" ELSE "own"
                    /\ (\A op \in Ops : ~Works(<<h, op>>)') => host'[h].signals = "own"
  BY DEF Signals
<1>1. /\ host[h].running /\ host'[h].signals = host[h].signals
      /\ \A op \in Ops : /\ Works(<<h, op>>)' <=> Works(<<h, op>>)
                         /\ sender'[<<h, op>>].saved = sender[<<h, op>>].saved
  BY DEF SignalsKept, Ops
<1> QED
  BY <1>1 DEF Signals

LEMMA KeepsListening == Listening /\ ListeningKept => Listening'
<1> SUFFICES ASSUME Listening, ListeningKept PROVE Listening'
  OBVIOUS
<1>1. \A d, e \in Daemons : Alive(d)' /\ Alive(e)' => d = e
  BY DEF Listening, ListeningKept
<1>2. ASSUME NEW d \in Daemons
      PROVE  /\ busName' = d => Named(d)'
             /\ Named(d)' => daemon'[d].listener # "none"
             /\ daemon'[d].pc \in {"off", "look", "receive"} => daemon'[d].listener = "none"
             /\ Alive(d)' => /\ daemon'[d].listener # "failed"
                             /\ daemon'[d].listener = "bind" => pamSocket' = Nobody
                             /\ daemon'[d].listener = "on" => pamSocket' = d
  BY DEF Listening, ListeningKept
<1> QED
  BY <1>1, <1>2 DEF Listening

LEMMA KeepsBuffer == Typed /\ Buffered /\ BufferKept => Buffered'
<1> SUFFICES ASSUME Typed, Buffered, BufferKept PROVE Buffered'
  OBVIOUS
<1>1. ASSUME NEW d \in Daemons
      PROVE  /\ daemon'[d].pc \notin {"ready", "dead"} => due'[d] \subseteq {daemon'[d].user}
             /\ daemon'[d].pc = "ready" =>
                  \A p \in due'[d] : \E s \in Senders : Tries(s, d, p)'
  <2>1. due[d] \subseteq Passwords
    BY DEF Typed, TypeOK
  <2> QED
    BY <2>1 DEF Buffered, BufferKept
<1>2. \A d \in Daemons : due'[d] # {} =>
        \E s \in Senders : s[2] = "unlock" /\ task'[s].pc \notin {"none", "got"}
  BY DEF Buffered, BufferKept
<1> QED
  BY <1>1, <1>2 DEF Buffered

-----------------------------------------------------------------------------
(* The PAM module *)

\* The calls that are left after one.
LEMMA CallMade ==
  ASSUME Typed, NEW h \in Hosts, NEW call \in PamCall, Calls(h, call)
  PROVE  /\ Tail(host[h].calls) \in Seq(PamCall) /\ host[h].calls \in Seq(PamCall)
         /\ host[h].calls # <<>> /\ Head(host[h].calls) = call
         /\ DOMAIN Tail(host[h].calls) = 1 .. (Len(host[h].calls) - 1)
         /\ DOMAIN host[h].calls = 1 .. Len(host[h].calls)
         /\ Len(host[h].calls) \in Nat /\ Len(host[h].calls) > 0
         /\ \A i \in 1 .. (Len(host[h].calls) - 1) : Tail(host[h].calls)[i] = host[h].calls[i + 1]
         /\ host[h].calls[1] = call
<1>1. host[h].calls \in Seq(PamCall) /\ host[h].calls # <<>> /\ Head(host[h].calls) = call
  BY Elements DEF Calls, Host
<1> QED
  BY <1>1, HeadTailProperties

\* What a call of the module does to the plan of its process.
LEMMA CallPlanned ==
  ASSUME Typed, Planned, NEW h \in Hosts, NEW call \in PamCall, Calls(h, call),
         host'[h].calls = Tail(host[h].calls),
         \A g \in Hosts \ {h} : host'[g].calls = host[g].calls,
         account' \in {account, NewPassword},
         \A s \in Senders : /\ sender'[s].pc # "none" =>
                                 sender[s].pc # "none" \/ (s[1] = h /\ sender'[s].pc = "spawned")
                            /\ s = <<h, "unlock">> /\ sender'[s].pc # "none" =>
                                 sender[s].pc # "none" \/ call = "open_session"
                            /\ s = <<h, "change">> /\ sender'[s].pc # "none" =>
                                 \/ sender[s].pc # "none"
                                 \/ call = "chauthtok" /\ account' = NewPassword
  PROVE  Planned' /\ Pending(h, call)
<1> PICK n : n = Len(host[h].calls)
  OBVIOUS
<1>1. /\ n \in Nat /\ n > 0 /\ DOMAIN host[h].calls = 1 .. n /\ host[h].calls[1] = call
      /\ DOMAIN host'[h].calls = 1 .. (n - 1)
      /\ \A i \in 1 .. (n - 1) : host'[h].calls[i] = host[h].calls[i + 1]
  BY CallMade
<1>2. Pending(h, call)
  BY <1>1 DEF Pending
<1>3. \A i, j \in 1 .. n : host[h].calls[i] = host[h].calls[j] => i = j
  BY <1>1 DEF Planned
<1>4. ~Pending(h, call)'
  <2> SUFFICES ASSUME NEW i \in 1 .. (n - 1), host'[h].calls[i] = call PROVE FALSE
    BY <1>1 DEF Pending
  <2>1. host[h].calls[i + 1] = host[h].calls[1] /\ i + 1 \in 1 .. n /\ 1 \in 1 .. n /\ i + 1 # 1
    BY <1>1
  <2> QED
    BY <1>3, <2>1
<1>5. ASSUME NEW c, Pending(h, c)' PROVE Pending(h, c)
  <2>1. PICK i \in 1 .. (n - 1) : host'[h].calls[i] = c
    BY <1>1, <1>5 DEF Pending
  <2>2. i + 1 \in 1 .. n /\ host[h].calls[i + 1] = c
    BY <1>1, <2>1
  <2> QED
    BY <1>1, <2>2 DEF Pending
<1>6. \A i, j \in DOMAIN host'[h].calls : host'[h].calls[i] = host'[h].calls[j] => i = j
  <2> SUFFICES ASSUME NEW i \in 1 .. (n - 1), NEW j \in 1 .. (n - 1),
                      host'[h].calls[i] = host'[h].calls[j]
               PROVE  i = j
    BY <1>1
  <2>1. i + 1 \in 1 .. n /\ j + 1 \in 1 .. n /\ host[h].calls[i + 1] = host[h].calls[j + 1]
    BY <1>1
  <2> QED
    BY <1>3, <2>1
<1>7. Names(h, call)
  BY <1>2 DEF Planned
<1>8. <<h, "unlock">> \in Senders /\ <<h, "change">> \in Senders
  BY DEF Senders
<1>9. ASSUME NEW g \in Hosts
      PROVE  /\ \A c \in PamCall : Pending(g, c)' => Names(g, c)
             /\ \A i, j \in DOMAIN host'[g].calls : host'[g].calls[i] = host'[g].calls[j] => i = j
             /\ sender'[<<g, "unlock">>].pc # "none" =>
                  Names(g, "open_session") /\ ~Pending(g, "open_session")'
             /\ sender'[<<g, "change">>].pc # "none" =>
                  Names(g, "chauthtok") /\ account' = NewPassword
  <2>1. CASE g = h
    <3>1. sender'[<<h, "unlock">>].pc # "none" =>
            Names(h, "open_session") /\ ~Pending(h, "open_session")'
      BY <1>4, <1>5, <1>7, <1>8 DEF Planned
    <3>2. sender'[<<h, "change">>].pc # "none" => Names(h, "chauthtok") /\ account' = NewPassword
      BY <1>7, <1>8 DEF Planned
    <3>3. \A c \in PamCall : Pending(h, c)' => Names(h, c)
      BY <1>5 DEF Planned
    <3> QED
      BY <1>6, <2>1, <3>1, <3>2, <3>3
  <2>2. CASE g # h
    <3>1. <<g, "unlock">> \in Senders /\ <<g, "change">> \in Senders
      BY DEF Senders
    <3>2. /\ sender'[<<g, "unlock">>].pc # "none" => sender[<<g, "unlock">>].pc # "none"
          /\ sender'[<<g, "change">>].pc # "none" => sender[<<g, "change">>].pc # "none"
      BY <2>2, <3>1
    <3>3. \A c : Pending(g, c)' => Pending(g, c)
      BY <2>2 DEF Pending
    <3>4. \A c : Pending(g, c) => Pending(g, c)'
      BY <2>2 DEF Pending
    <3> QED
      BY <2>2, <3>2, <3>3, <3>4 DEF Planned
  <2> QED
    BY <2>1, <2>2
<1>10. Planned'
  BY <1>9 DEF Planned
<1> QED
  BY <1>2, <1>10

LEMMA AuthenticateStep ==
  ASSUME Typed, Planned, NEW h \in Hosts, Authenticate(h)
  PROVE  Typed' /\ Planned' /\ SignalsKept /\ ListeningKept /\ BufferKept
<1>1. /\ host[h] \in Host /\ Tail(host[h].calls) \in Seq(PamCall) /\ account \in Maybe
      /\ "authenticate" \in PamCall /\ Calls(h, "authenticate")
  BY Elements, CallMade DEF Authenticate, PamCall, Typed, TypeOK, Maybe
<1>2. PICK password \in {account, NoPassword} :
        host' = [host EXCEPT ![h].calls = Tail(@), ![h].stash = password]
  BY DEF Authenticate
<1>3. [host[h] EXCEPT !.calls = Tail(@), !.stash = password] \in Host
  BY <1>1 DEF Host, Maybe
<1>4. /\ host' \in [Hosts -> Host] /\ \A g \in Hosts \ {h} : host'[g] = host[g]
      /\ host'[h] = [host[h] EXCEPT !.calls = Tail(@), !.stash = password]
  BY <1>2, <1>3, Elements
<1>5. /\ host'[h].calls = Tail(host[h].calls) /\ host'[h].running = host[h].running
      /\ host'[h].signals = host[h].signals
  BY <1>1, <1>4 DEF Host
<1>6. UNCHANGED <<account, keyring, sender, task, pamSocket, daemon, busName, helper, helperSocket,
                  due, arrived, excused, budget>>
  BY DEF Authenticate, daemons, helpers, ghosts
<1>7. Typed'
  BY <1>4, <1>6 DEF Typed, TypeOK, Shapes
<1>8. Planned'
  BY <1>1, <1>4, <1>5, <1>6, CallPlanned
<1> QED
  BY <1>4, <1>5, <1>6, <1>7, <1>8
     DEF SignalsKept, Works, ListeningKept, Alive, Named, BufferKept, Tries

\* A thread is spawned for a message that was not sent before.
LEMMA SpawnStep ==
  ASSUME Typed, Planned, NEW h \in Hosts, NEW op \in {"unlock", "change"}, NEW call \in PamCall,
         Calls(h, call), NEW old \in Maybe, NEW new \in Passwords, Spawn(h, op, old, new),
         host' = [host EXCEPT ![h].calls = Tail(@)],
         account' \in {account, NewPassword},
         sender[<<h, op>>].pc = "none",
         \/ op = "unlock" /\ call = "open_session" /\ account' = account
         \/ op = "change" /\ call = "chauthtok" /\ account' = NewPassword,
         UNCHANGED <<keyring, task, daemons, helpers, ghosts, budget>>
  PROVE  Typed' /\ Planned' /\ SignalsKept /\ ListeningKept /\ BufferKept
<1>1. host[h] \in Host /\ Tail(host[h].calls) \in Seq(PamCall) /\ <<h, op>> \in Senders
  BY Elements, CallMade
<1>2. [host[h] EXCEPT !.calls = Tail(@)] \in Host
  BY <1>1 DEF Host
<1>3. /\ host' \in [Hosts -> Host] /\ \A g \in Hosts \ {h} : host'[g] = host[g]
      /\ host'[h] = [host[h] EXCEPT !.calls = Tail(@)]
  BY <1>2, Elements
<1>4. /\ host'[h].calls = Tail(host[h].calls) /\ host'[h].running = host[h].running
      /\ host'[h].signals = host[h].signals
  BY <1>1, <1>3 DEF Host
<1>5. /\ sender' \in [Senders -> Sender]
      /\ \A s \in Senders \ {<<h, op>>} : sender'[s] = sender[s]
      /\ sender'[<<h, op>>].pc = "spawned" /\ sender'[<<h, op>>].new = new
      /\ sender'[<<h, op>>].saved = sender[<<h, op>>].saved
  <2>1. sender[<<h, op>>] \in Sender
    BY <1>1, Elements
  <2>2. PICK r : r = [sender[<<h, op>>] EXCEPT !.pc = "spawned", !.old = old, !.new = new]
    OBVIOUS
  <2>3. /\ r \in Sender /\ r.pc = "spawned" /\ r.new = new
        /\ r.saved = sender[<<h, op>>].saved
    BY <2>1, <2>2 DEF Sender, Maybe
  <2>4. sender' = [sender EXCEPT ![<<h, op>>] = r]
    BY <1>1, <2>1, <2>2 DEF Spawn
  <2> QED
    BY <1>1, <2>3, <2>4, Elements
<1>6. UNCHANGED <<keyring, task, pamSocket, daemon, busName, helper, helperSocket,
                  due, arrived, excused, budget>>
  BY DEF daemons, helpers, ghosts
<1>7. task[<<h, op>>].pc = "none"
  BY <1>1 DEF Typed, Shapes
<1>8. Typed'
  <2>1. account' \in Passwords
    BY DEF Typed, TypeOK, Passwords
  <2>2. Shapes'
    BY <1>5, <1>6, <1>7 DEF Typed, Shapes
  <2> QED
    BY <1>3, <1>5, <1>6, <2>1, <2>2 DEF Typed, TypeOK
<1>9. Planned'
  <2>1. \A s \in Senders : /\ s = <<h, "unlock">> /\ op = "change" => s # <<h, op>>
                           /\ s = <<h, "change">> /\ op = "unlock" => s # <<h, op>>
                           /\ s = <<h, op>> => s[1] = h
    OBVIOUS
  <2> QED
    BY <1>3, <1>4, <1>5, <2>1, CallPlanned
<1>10. SignalsKept
  <2> SUFFICES ASSUME NEW g \in Hosts \ SameUser, host'[g].running, NEW o \in {"unlock", "change"}
               PROVE  /\ host[g].running /\ host'[g].signals = host[g].signals
                      /\ Works(<<g, o>>)' => Works(<<g, o>>)
                      /\ Works(<<g, o>>) => Works(<<g, o>>)'
                      /\ sender'[<<g, o>>].saved = sender[<<g, o>>].saved
    BY DEF SignalsKept
  <2>1. <<g, o>> \in Senders
    BY DEF Senders
  <2> QED
    BY <1>3, <1>4, <1>5, <2>1 DEF Works
<1>11. BufferKept
  <2>1. ASSUME NEW d \in Daemons, NEW s \in Senders, NEW p \in Passwords, Tries(s, d, p)
        PROVE  Tries(s, d, p)'
    BY <1>5, <1>6, <1>7, <2>1 DEF Tries
  <2> QED
    BY <1>6, <2>1 DEF BufferKept
<1> QED
  BY <1>6, <1>8, <1>9, <1>10, <1>11 DEF ListeningKept, Alive, Named

LEMMA CallStep ==
  ASSUME Typed, Planned, NEW h \in Hosts, Chauthtok(h) \/ OpenSession(h)
  PROVE  Typed' /\ Planned' /\ SignalsKept /\ ListeningKept /\ BufferKept
<1>0. /\ "chauthtok" \in PamCall /\ "open_session" \in PamCall /\ account \in Passwords
      /\ host[h] \in Host /\ NewPassword \in Passwords /\ Passwords \subseteq Maybe
  BY Elements DEF PamCall, Typed, TypeOK, Passwords, Maybe
<1>1. CASE Chauthtok(h)
  <2>1. sender[<<h, "change">>].pc = "none"
    BY <1>1 DEF Chauthtok, Planned
  <2> QED
    BY <1>0, <1>1, <2>1, SpawnStep DEF Chauthtok
<1>2. CASE OpenSession(h) /\ host[h].stash # NoPassword
  <2>1. Pending(h, "open_session")
    <3>1. Calls(h, "open_session")
      BY <1>2 DEF OpenSession
    <3> QED
      BY <1>0, <3>1, CallMade DEF Pending
  <2>2. sender[<<h, "unlock">>].pc = "none"
    BY <2>1 DEF Planned
  <2>3. host[h].stash \in Passwords /\ NoPassword \in Maybe
    BY <1>0, <1>2 DEF Host, Maybe
  <2> QED
    BY <1>0, <1>2, <2>2, <2>3, SpawnStep DEF OpenSession
<1>3. CASE OpenSession(h) /\ host[h].stash = NoPassword
  <2>1. /\ UNCHANGED <<sender, account, keyring, task, pamSocket, daemon, busName, helper,
                       helperSocket, due, arrived, excused, budget>>
        /\ host' = [host EXCEPT ![h].calls = Tail(@)]
        /\ Calls(h, "open_session")
    BY <1>3 DEF OpenSession, daemons, helpers, ghosts
  <2>2. Tail(host[h].calls) \in Seq(PamCall)
    BY <1>0, <2>1, CallMade
  <2>3. [host[h] EXCEPT !.calls = Tail(@)] \in Host
    BY <1>0, <2>2 DEF Host
  <2>4. /\ host' \in [Hosts -> Host] /\ \A g \in Hosts \ {h} : host'[g] = host[g]
        /\ host'[h] = [host[h] EXCEPT !.calls = Tail(@)]
    BY <2>1, <2>3, Elements
  <2>5. /\ host'[h].calls = Tail(host[h].calls) /\ host'[h].running = host[h].running
        /\ host'[h].signals = host[h].signals
    BY <1>0, <2>4 DEF Host
  <2>6. Planned'
    BY <1>0, <2>1, <2>4, <2>5, CallPlanned
  <2>7. Typed'
    BY <2>1, <2>4 DEF Typed, TypeOK, Shapes
  <2> QED
    BY <2>1, <2>4, <2>5, <2>6, <2>7
       DEF SignalsKept, Works, ListeningKept, Alive, Named, BufferKept, Tries
<1> QED
  BY <1>1, <1>2, <1>3 DEF OpenSession

LEMMA HostExitStep ==
  ASSUME Typed, NEW h \in Hosts, HostExit(h)
  PROVE  Typed' /\ PlanKept /\ SignalsKept /\ ListeningKept /\ BufferKept
<1>0. UNCHANGED <<account, keyring, task, pamSocket, daemon, busName, helper, helperSocket, due,
                  arrived>>
  BY DEF HostExit, daemons, helpers
<1>1. budget' \in [{"crash", "fault"} -> Nat]
  BY SpendType DEF HostExit, Typed
<1>2. /\ host' \in [Hosts -> Host] /\ \A g \in Hosts \ {h} : host'[g] = host[g]
      /\ ~host'[h].running /\ host'[h].calls = host[h].calls
  <2>1. host[h] \in Host /\ [host[h] EXCEPT !.running = FALSE] \in Host
    BY Elements DEF Host
  <2>2. /\ host' \in [Hosts -> Host] /\ \A g \in Hosts \ {h} : host'[g] = host[g]
        /\ host'[h] = [host[h] EXCEPT !.running = FALSE]
    BY <2>1, Elements DEF HostExit
  <2> QED
    BY <2>1, <2>2 DEF Host
<1>3. ASSUME NEW s \in Senders
      PROVE  /\ sender'[s] \in Sender /\ sender'[s].new = sender[s].new
             /\ sender'[s].saved = sender[s].saved
             /\ \/ sender'[s] = sender[s]
                \/ s[1] = h /\ sender'[s].pc = "done" /\ sender[s].pc # "none"
  <2>1. sender[s] \in Sender /\ [sender[s] EXCEPT !.pc = "done"] \in Sender
    BY Elements, ZenonT(30) DEF Sender
  <2>2. \/ sender'[s] = sender[s]
        \/ s[1] = h /\ sender'[s] = [sender[s] EXCEPT !.pc = "done"] /\ sender[s].pc # "none"
    BY DEF HostExit
  <2> QED
    BY <2>1, <2>2 DEF Sender
<1>4. sender' \in [Senders -> Sender] /\ excused' \subseteq Senders
  BY <1>3 DEF HostExit, Typed, TypeOK
<1>5. Typed'
  <2>1. Shapes'
    BY <1>0, <1>3 DEF Typed, Shapes
  <2> QED
    BY <1>0, <1>1, <1>2, <1>4, <2>1 DEF Typed, TypeOK
<1>6. PlanKept
  BY <1>0, <1>2, <1>3 DEF PlanKept
<1>7. SignalsKept
  <2> SUFFICES ASSUME NEW g \in Hosts \ SameUser, host'[g].running, NEW o \in {"unlock", "change"}
               PROVE  /\ host[g].running /\ host'[g].signals = host[g].signals
                      /\ Works(<<g, o>>)' => Works(<<g, o>>)
                      /\ Works(<<g, o>>) => Works(<<g, o>>)'
                      /\ sender'[<<g, o>>].saved = sender[<<g, o>>].saved
    BY DEF SignalsKept
  <2>1. <<g, o>> \in Senders /\ g # h
    BY <1>2 DEF Senders
  <2>2. sender'[<<g, o>>] = sender[<<g, o>>]
    BY <1>3, <2>1
  <2> QED
    BY <1>2, <2>1, <2>2 DEF Works
<1>8. BufferKept
  BY <1>0, <1>3 DEF BufferKept, Tries
<1> QED
  BY <1>0, <1>5, <1>6, <1>7, <1>8 DEF ListeningKept, Alive, Named

-----------------------------------------------------------------------------
(* send_secret_to_daemon *)
SenderPc == {"none", "spawned", "fork", "look", "connect", "helper", "sent", "end", "done"}

LEMMA MoveType ==
  ASSUME Typed, NEW s \in Senders, NEW label \in SenderPc, Move(s, label)
  PROVE  /\ sender' \in [Senders -> Sender] /\ \A r \in Senders \ {s} : sender'[r] = sender[r]
         /\ sender'[s].pc = label /\ sender'[s].new = sender[s].new
         /\ sender'[s].saved = sender[s].saved
<1>1. sender[s] \in Sender /\ [sender[s] EXCEPT !.pc = label] \in Sender
  BY Elements, ZenonT(30) DEF Sender, SenderPc
<1>2. /\ sender' \in [Senders -> Sender] /\ \A r \in Senders \ {s} : sender'[r] = sender[r]
      /\ sender'[s] = [sender[s] EXCEPT !.pc = label]
  BY <1>1, Elements DEF Move
<1> QED
  BY <1>1, <1>2 DEF Sender

\* What follows when one sender moves on at its work, or begins it.
LEMMA MoveKeeps ==
  ASSUME Typed, NEW s \in Senders, NEW label \in SenderPc, Move(s, label),
         sender[s].pc # "none", UNCHANGED <<account, host, daemons, due>>,
         s[1] \in SameUser \/ (Works(s) /\ label \notin {"none", "spawned", "done"}),
         \A r \in Senders \ {s} : task'[r] = task[r],
         task[s].pc \notin {"none", "got"} => task'[s] = task[s]
  PROVE  PlanKept /\ SignalsKept /\ ListeningKept /\ BufferKept
<1>1. /\ sender' \in [Senders -> Sender] /\ \A r \in Senders \ {s} : sender'[r] = sender[r]
      /\ sender'[s].pc = label /\ sender'[s].new = sender[s].new
      /\ sender'[s].saved = sender[s].saved
  BY MoveType
<1>2. UNCHANGED <<account, host, pamSocket, daemon, busName, due>>
  BY DEF daemons
<1>3. PlanKept
  BY <1>1, <1>2 DEF PlanKept
<1>4. SignalsKept
  <2> SUFFICES ASSUME NEW g \in Hosts \ SameUser, host'[g].running, NEW o \in {"unlock", "change"}
               PROVE  /\ host[g].running /\ host'[g].signals = host[g].signals
                      /\ Works(<<g, o>>)' => Works(<<g, o>>)
                      /\ Works(<<g, o>>) => Works(<<g, o>>)'
                      /\ sender'[<<g, o>>].saved = sender[<<g, o>>].saved
    BY DEF SignalsKept
  <2>1. <<g, o>> \in Senders
    BY DEF Senders
  <2>2. CASE <<g, o>> = s
    <3>1. Works(s) /\ label \notin {"none", "spawned", "done"}
      BY <2>2
    <3> QED
      BY <1>1, <1>2, <2>2, <3>1 DEF Works
  <2>3. CASE <<g, o>> # s
    BY <1>1, <1>2, <2>1, <2>3 DEF Works
  <2> QED
    BY <2>2, <2>3
<1>5. ASSUME NEW d \in Daemons, NEW r \in Senders, NEW p \in Passwords, Tries(r, d, p)
      PROVE  Tries(r, d, p)'
  BY <1>1, <1>5 DEF Tries
<1>6. \A r \in Senders : task[r].pc \notin {"none", "got"} => task'[r].pc \notin {"none", "got"}
  OBVIOUS
<1>7. BufferKept
  BY <1>2, <1>5, <1>6 DEF BufferKept
<1> QED
  BY <1>2, <1>3, <1>4, <1>7 DEF ListeningKept, Alive, Named

\* The types, when only a sender moves, and what it does to its task or to a helper.
LEMMA MoveTyped ==
  ASSUME Typed, NEW s \in Senders, NEW label \in SenderPc, Move(s, label),
         sender[s].pc # "none",
         UNCHANGED <<account, keyring, host, daemons, helperSocket, due, arrived>>,
         task' \in [Senders -> Task], helper' \in [Helpers -> Helper], excused' \subseteq Senders,
         budget' \in [{"crash", "fault"} -> Nat],
         \A r \in Senders : task'[r].pc \notin {"none", "over"} => task'[r].daemon \in Daemons,
         \A r \in Senders \ {s} : task'[r] = task[r],
         task'[s].pc # "none" => label \in {"sent", "end", "done"},
         task'[s].pc = "none" => task'[s].daemon = Nobody,
         \A h \in Helpers : helper'[h].pc # "none" => helper'[h].from \in Senders
  PROVE  Typed'
<1>1. /\ sender' \in [Senders -> Sender] /\ \A r \in Senders \ {s} : sender'[r] = sender[r]
      /\ sender'[s].pc = label /\ sender'[s].new = sender[s].new
  BY MoveType
<1>2. Shapes'
  BY <1>1 DEF Typed, Shapes
<1> QED
  BY <1>1, <1>2 DEF Typed, TypeOK, daemons

LEMMA SendStep ==
  ASSUME Typed, NEW s \in Senders, Fork(s) \/ Look(s) \/ Connect(s) \/ StartHelper(s) \/ Answered(s)
  PROVE  Typed' /\ PlanKept /\ SignalsKept /\ ListeningKept /\ BufferKept
<1>0. /\ task \in [Senders -> Task] /\ helper \in [Helpers -> Helper]
      /\ budget \in [{"crash", "fault"} -> Nat] /\ excused \subseteq Senders
      /\ \A r \in Senders : task[r].pc \notin {"none", "over"} => task[r].daemon \in Daemons
      /\ \A h \in Helpers : helper[h].pc # "none" => helper[h].from \in Senders
      /\ task[s].pc # "none" => sender[s].pc \in {"sent", "end", "done"}
      /\ task[s].pc = "none" => task[s].daemon = Nobody
      /\ sender[s].pc # "none" => sender[s].new \in Passwords
      /\ sender[s] \in Sender
  BY Elements DEF Typed, TypeOK, Shapes
<1>1. CASE Fork(s)
  <2>1. PICK label \in {"look", "end"} : Move(s, label)
    BY <1>1 DEF Fork
  <2>2. excused' \subseteq Senders /\ budget' \in [{"crash", "fault"} -> Nat]
    BY <1>0, <1>1, SpendType DEF Fork, Typed
  <2>3. /\ sender[s].pc = "fork" /\ label \in SenderPc
        /\ UNCHANGED <<account, keyring, host, task, daemons, helper, helperSocket, due, arrived>>
    BY <1>1 DEF Fork, helpers, SenderPc
  <2>4. Works(s)
    BY <2>3 DEF Works
  <2> QED
    BY <1>0, <2>1, <2>2, <2>3, <2>4, MoveKeeps, MoveTyped
<1>2. CASE Look(s)
  <2>1. PICK label \in {"connect", "helper", "end"} : Move(s, label)
    BY <1>2 DEF Look
  <2>2. /\ sender[s].pc = "look" /\ label \in SenderPc
        /\ UNCHANGED <<account, keyring, host, task, daemons, helper, helperSocket, due, arrived,
                       excused, budget>>
    BY <1>2 DEF Look, helpers, ghosts, SenderPc
  <2>3. Works(s)
    BY <2>2 DEF Works
  <2> QED
    BY <1>0, <2>1, <2>2, <2>3, MoveKeeps, MoveTyped
<1>3. CASE Connect(s)
  <2>1. PICK label \in {"sent", "helper", "end"} :
          /\ Move(s, label)
          /\ \/ UNCHANGED task
             \/ /\ label = "sent" /\ pamSocket # Nobody
                /\ task' = [task EXCEPT ![s] = [pc |-> "got", daemon |-> pamSocket]]
    BY <1>3 DEF Connect, Refused
  <2>2. /\ sender[s].pc = "connect" /\ label \in SenderPc /\ pamSocket \in Daemons \cup {Nobody}
        /\ UNCHANGED <<account, keyring, host, daemons, helper, helperSocket, due, arrived,
                       excused, budget>>
    BY <1>3 DEF Connect, helpers, ghosts, SenderPc, Typed, TypeOK
  <2>3. task[s].pc = "none" /\ Works(s)
    BY <1>0, <2>2 DEF Works
  <2>4. CASE UNCHANGED task
    BY <1>0, <2>1, <2>2, <2>3, <2>4, MoveKeeps, MoveTyped
  <2>5. CASE task' = [task EXCEPT ![s] = [pc |-> "got", daemon |-> pamSocket]] /\ label = "sent"
             /\ pamSocket # Nobody
    <3>1. [pc |-> "got", daemon |-> pamSocket] \in Task
      BY <2>2 DEF Task
    <3>2. /\ task' \in [Senders -> Task] /\ \A r \in Senders \ {s} : task'[r] = task[r]
          /\ task'[s] = [pc |-> "got", daemon |-> pamSocket]
      BY <1>0, <2>5, <3>1
    <3>3. \A r \in Senders : task'[r].pc \notin {"none", "over"} => task'[r].daemon \in Daemons
      BY <1>0, <2>2, <2>5, <3>2
    <3> QED
      BY <1>0, <2>1, <2>2, <2>3, <2>5, <3>2, <3>3, MoveKeeps, MoveTyped
  <2> QED
    BY <2>1, <2>4, <2>5
<1>4. CASE StartHelper(s)
  <2>1. PICK h \in Helpers :
          helper' = [helper EXCEPT ![h] = [pc |-> "remove", secret |-> sender[s].new, from |-> s]]
    BY <1>4 DEF StartHelper
  <2>2. /\ sender[s].pc = "helper" /\ Move(s, "end") /\ "end" \in SenderPc
        /\ UNCHANGED <<account, keyring, host, task, daemons, helperSocket, due, arrived,
                       excused, budget>>
    BY <1>4 DEF StartHelper, ghosts, SenderPc
  <2>3. Works(s)
    BY <2>2 DEF Works
  <2>4. [pc |-> "remove", secret |-> sender[s].new, from |-> s] \in Helper
    BY <1>0, <2>2 DEF Helper, Maybe
  <2>5. /\ helper' \in [Helpers -> Helper]
        /\ \A x \in Helpers : helper'[x].pc # "none" => helper'[x].from \in Senders
    BY <1>0, <2>1, <2>4
  <2> QED
    BY <1>0, <2>2, <2>3, <2>5, MoveKeeps, MoveTyped
<1>5. CASE Answered(s)
  <2>1. /\ sender[s].pc = "sent" /\ Move(s, "end") /\ "end" \in SenderPc
        /\ UNCHANGED <<account, keyring, host, task, daemons, helper, helperSocket, due, arrived,
                       excused, budget>>
    BY <1>5 DEF Answered, helpers, ghosts, SenderPc
  <2>2. Works(s)
    BY <2>1 DEF Works
  <2> QED
    BY <1>0, <2>1, <2>2, MoveKeeps, MoveTyped
<1> QED
  BY <1>1, <1>2, <1>3, <1>4, <1>5
\* A thread takes the signal handlers of its process or gives them back.
Signalled(s, label) ==
  /\ UNCHANGED <<account, keyring, task, daemons, helpers, ghosts, budget>>
  /\ host' \in [Hosts -> Host] /\ sender' \in [Senders -> Sender]
  /\ \A h \in Hosts : /\ host'[h].calls = host[h].calls /\ host'[h].running = host[h].running
                      /\ h # s[1] => host'[h] = host[h]
  /\ \A r \in Senders \ {s} : sender'[r] = sender[r]
  /\ sender'[s].pc = label /\ sender'[s].new = sender[s].new

LEMMA SignalledKeeps ==
  ASSUME Typed, NEW s \in Senders, NEW label \in {"look", "fork", "done"}, Signalled(s, label),
         sender[s].pc # "none", task[s].pc # "none" => label = "done"
  PROVE  Typed' /\ PlanKept /\ ListeningKept /\ BufferKept
<1>1. UNCHANGED <<account, keyring, task, pamSocket, daemon, busName, helper, helperSocket, due,
                  arrived, excused, budget>>
  BY DEF Signalled, daemons, helpers, ghosts
<1>2. Shapes'
  BY <1>1 DEF Typed, Shapes, Signalled
<1>3. Typed'
  BY <1>1, <1>2 DEF Typed, TypeOK, Signalled
<1>4. PlanKept
  BY <1>1 DEF PlanKept, Signalled
<1>5. ASSUME NEW d \in Daemons, NEW r \in Senders, NEW p \in Passwords, Tries(r, d, p)
      PROVE  Tries(r, d, p)'
  BY <1>1, <1>5 DEF Tries, Signalled
<1>6. BufferKept
  BY <1>1, <1>5 DEF BufferKept
<1> QED
  BY <1>1, <1>3, <1>4, <1>6 DEF ListeningKept, Alive, Named

LEMMA BeginStep ==
  ASSUME Typed, NEW s \in Senders, Begin(s)
  PROVE  /\ Typed' /\ PlanKept /\ ListeningKept /\ BufferKept
         /\ InnerEndsFirst' /\ Signals => Signals'
<1>0. /\ s[1] \in Hosts /\ s[2] \in {"unlock", "change"} /\ s = <<s[1], s[2]>>
      /\ sender[s].pc = "spawned" /\ task[s].pc = "none" /\ host[s[1]] \in Host
      /\ sender[s] \in Sender
      /\ UNCHANGED <<account, keyring, task, daemons, helpers, ghosts, budget>>
  BY Elements DEF Begin, Typed, Shapes
<1>1. CASE s[1] \in SameUser
  <2>1. Move(s, "look") /\ host' = host /\ "look" \in SenderPc
    BY <1>1 DEF Begin, SenderPc
  <2>2. Typed' /\ PlanKept /\ ListeningKept /\ BufferKept /\ SignalsKept
    BY <1>0, <1>1, <2>1, MoveKeeps, MoveTyped DEF Typed, TypeOK, Shapes, helpers, ghosts
  <2> QED
    BY <2>2, KeepsSignals
<1>2. CASE s[1] \notin SameUser
  <2>1. Save(s, "fork")
    BY <1>2 DEF Begin
  <2>2. PICK r : r = [sender[s] EXCEPT !.pc = "fork", !.saved = host[s[1]].signals]
    OBVIOUS
  <2>3. /\ r \in Sender /\ r.pc = "fork" /\ r.new = sender[s].new
        /\ r.saved = host[s[1]].signals
    BY <1>0, <2>2 DEF Sender, Host
  <2>4. sender' = [sender EXCEPT ![s] = r]
    BY <1>0, <2>1, <2>2, Elements DEF Save
  <2>5. /\ sender' \in [Senders -> Sender] /\ \A q \in Senders \ {s} : sender'[q] = sender[q]
        /\ sender'[s] = r
    BY <2>3, <2>4, Elements
  <2>6. [host[s[1]] EXCEPT !.signals = "pam"] \in Host
    BY <1>0 DEF Host
  <2>7. /\ host' \in [Hosts -> Host] /\ \A h \in Hosts \ {s[1]} : host'[h] = host[h]
        /\ host'[s[1]] = [host[s[1]] EXCEPT !.signals = "pam"]
    BY <1>0, <2>1, <2>6, Elements DEF Save
  <2>8. /\ host'[s[1]].calls = host[s[1]].calls /\ host'[s[1]].running = host[s[1]].running
        /\ host'[s[1]].signals = "pam"
    BY <1>0, <2>7 DEF Host
  <2>9. Signalled(s, "fork")
    BY <1>0, <2>3, <2>5, <2>7, <2>8 DEF Signalled
  <2>10. ASSUME InnerEndsFirst', Signals PROVE Signals'
    <3> SUFFICES ASSUME NEW h \in Hosts \ SameUser, host'[h].running
                 PROVE  /\ \A op \in Ops : Works(<<h, op>>)' =>
                             /\ host'[h].signals = "pam"
                             /\ \A o \in Ops \ {op} :
                                  sender'[<<h, op>>].saved =
                                    IF Works(<<h, o>>)' /\ sender'[<<h, o>>].saved = "own"
                                    THEN "pam" ELSE "own"
                        /\ (\A op \in Ops : ~Works(<<h, op>>)') => host'[h].signals = "own"
      BY DEF Signals
    <3>1. CASE h = s[1]
      <4>1. PICK o \in Ops : o # s[2] /\ Ops = {s[2], o}
        BY <1>0 DEF Ops
      <4>2. PICK q \in Senders : q = <<h, o>> /\ q # s
        <5>1. <<h, o>> \in Senders /\ <<h, o>> # s
          BY <1>0, <3>1, <4>1 DEF Senders, Ops
        <5> QED
          BY <5>1
      <4>3. /\ host[h].running /\ ~Works(s) /\ Works(s)' /\ s = <<h, s[2]>>
            /\ sender'[q] = sender[q] /\ (Works(q)' <=> Works(q))
            /\ sender'[s].saved = host[h].signals /\ host'[h].signals = "pam"
        BY <1>0, <2>3, <2>5, <2>8, <3>1, <4>2 DEF Works
      <4>4. /\ Works(q) => host[h].signals = "pam" /\ sender[q].saved = "own"
            /\ ~Works(q) => host[h].signals = "own"
        BY <1>0, <2>10, <4>1, <4>2, <4>3 DEF Signals, Ops
      <4> QED
        BY <4>1, <4>2, <4>3, <4>4
    <3>2. CASE h # s[1]
      <4>1. \A o \in Ops : <<h, o>> \in Senders /\ <<h, o>> # s
        BY <1>0, <3>2 DEF Senders, Ops
      <4> QED
        BY <2>5, <2>7, <2>10, <3>2, <4>1 DEF Signals, Works
    <3> QED
      BY <3>1, <3>2
  <2> QED
    BY <1>0, <2>9, <2>10, SignalledKeeps
<1> QED
  BY <1>1, <1>2

LEMMA FinishStep ==
  ASSUME Typed, NEW s \in Senders, Finish(s)
  PROVE  /\ Typed' /\ PlanKept /\ ListeningKept /\ BufferKept
         /\ InnerEndsFirst' /\ Signals => Signals'
<1>0. /\ s[1] \in Hosts /\ s[2] \in {"unlock", "change"} /\ s = <<s[1], s[2]>>
      /\ sender[s].pc = "end" /\ host[s[1]] \in Host /\ sender[s] \in Sender
      /\ UNCHANGED <<account, keyring, task, daemons, helpers, ghosts, budget>>
      /\ Move(s, "done") /\ "done" \in SenderPc
  BY Elements DEF Finish, SenderPc
<1>1. /\ sender' \in [Senders -> Sender] /\ \A r \in Senders \ {s} : sender'[r] = sender[r]
      /\ sender'[s].pc = "done" /\ sender'[s].new = sender[s].new
  BY <1>0, MoveType
<1>2. /\ host' \in [Hosts -> Host] /\ \A h \in Hosts \ {s[1]} : host'[h] = host[h]
      /\ host'[s[1]].calls = host[s[1]].calls /\ host'[s[1]].running = host[s[1]].running
      /\ host'[s[1]].signals = IF sender[s].saved = "nothing" THEN host[s[1]].signals
                               ELSE sender[s].saved
  <2>1. CASE sender[s].saved = "nothing"
    BY <2>1, Elements DEF Finish, Restored
  <2>2. CASE sender[s].saved # "nothing"
    <3>1. [host[s[1]] EXCEPT !.signals = sender[s].saved] \in Host
      BY <1>0, <2>2 DEF Host, Sender
    <3>2. /\ host' \in [Hosts -> Host] /\ \A h \in Hosts \ {s[1]} : host'[h] = host[h]
          /\ host'[s[1]] = [host[s[1]] EXCEPT !.signals = sender[s].saved]
      BY <1>0, <2>2, <3>1, Elements DEF Finish, Restored
    <3> QED
      BY <1>0, <2>2, <3>2 DEF Host
  <2> QED
    BY <2>1, <2>2
<1>3. Signalled(s, "done")
  BY <1>0, <1>1, <1>2 DEF Signalled
<1>4. ASSUME InnerEndsFirst', Signals PROVE Signals'
  <2> SUFFICES ASSUME NEW h \in Hosts \ SameUser, host'[h].running
               PROVE  /\ \A op \in Ops : Works(<<h, op>>)' =>
                           /\ host'[h].signals = "pam"
                           /\ \A o \in Ops \ {op} :
                                sender'[<<h, op>>].saved =
                                  IF Works(<<h, o>>)' /\ sender'[<<h, o>>].saved = "own"
                                  THEN "pam" ELSE "own"
                      /\ (\A op \in Ops : ~Works(<<h, op>>)') => host'[h].signals = "own"
    BY DEF Signals
  <2>1. CASE h = s[1]
    <3>1. PICK o \in Ops : o # s[2] /\ Ops = {s[2], o}
      BY <1>0 DEF Ops
    <3>2. PICK q \in Senders : q = <<h, o>> /\ q # s
      <4>1. <<h, o>> \in Senders /\ <<h, o>> # s
        BY <1>0, <2>1, <3>1 DEF Senders, Ops
      <4> QED
        BY <4>1
    <3>3. /\ host[h].running /\ Works(s) /\ ~Works(s)' /\ s = <<h, s[2]>>
          /\ sender'[q] = sender[q] /\ (Works(q)' <=> Works(q))
      BY <1>0, <1>1, <1>2, <2>1, <3>2 DEF Works
    <3>4. /\ host[h].signals = "pam"
          /\ sender[s].saved = IF Works(q) /\ sender[q].saved = "own" THEN "pam" ELSE "own"
          /\ Works(q) => sender[q].saved = IF sender[s].saved = "own" THEN "pam" ELSE "own"
      BY <1>0, <1>4, <3>1, <3>2, <3>3 DEF Signals, Ops
    <3>5. Works(q) => sender[q].saved # "pam"
      <4> SUFFICES ASSUME Works(q), sender[q].saved = "pam" PROVE FALSE
        OBVIOUS
      <4>1. Works(<<h, o>>)' /\ sender'[<<h, o>>].saved = "pam" /\ s[2] \in Ops \ {o}
        BY <3>1, <3>2, <3>3
      <4>2. Works(<<h, s[2]>>)'
        BY <1>4, <4>1 DEF InnerEndsFirst
      <4> QED
        BY <3>3, <4>2
    <3>6. host'[h].signals = IF Works(q) THEN "pam" ELSE "own"
      BY <1>2, <2>1, <3>4, <3>5
    <3> QED
      BY <3>1, <3>2, <3>3, <3>4, <3>5, <3>6
  <2>2. CASE h # s[1]
    <3>1. \A o \in Ops : <<h, o>> \in Senders /\ <<h, o>> # s
      BY <1>0, <2>2 DEF Senders, Ops
    <3> QED
      BY <1>1, <1>2, <1>4, <2>2, <3>1 DEF Signals, Works
  <2> QED
    BY <2>1, <2>2
<1> QED
  BY <1>0, <1>3, <1>4, SignalledKeeps

-----------------------------------------------------------------------------
(* oo7-daemon-login *)

LEMMA HelperStepKeeps ==
  ASSUME Typed, NEW h \in Helpers, HelperStep(h)
  PROVE  Typed' /\ PlanKept /\ SignalsKept /\ ListeningKept /\ BufferKept
<1>0. /\ helper[h].pc # "none" /\ helper[h] \in Helper /\ helper[h].from \in Senders
      /\ UNCHANGED <<account, keyring, host, sender, task, pamSocket, busName, due, budget>>
  BY Elements
     DEF HelperStep, HelperRemove, HelperBind, HelperTimeout, Serve, HelperEnd, Typed, Shapes,
         daemons, ghosts
<1>1. PICK label \in {"bind", "waiting", "gone", "served"} :
        helper' = [helper EXCEPT ![h].pc = label]
  BY DEF HelperStep, HelperRemove, HelperBind, HelperTimeout, Serve, HelperEnd
<1>2. /\ helper' \in [Helpers -> Helper] /\ \A x \in Helpers : helper'[x].from = helper[x].from
      /\ \A x \in Helpers : helper'[x].pc # "none" => helper[x].pc # "none"
  <2>1. [helper[h] EXCEPT !.pc = label] \in Helper
    BY <1>0 DEF Helper
  <2>2. /\ helper' \in [Helpers -> Helper] /\ \A x \in Helpers \ {h} : helper'[x] = helper[x]
        /\ helper'[h] = [helper[h] EXCEPT !.pc = label]
    BY <1>1, <2>1, Elements
  <2> QED
    BY <1>0, <2>1, <2>2 DEF Helper
<1>3. /\ helperSocket' \in Helpers \cup {Nobody} /\ excused' \subseteq Senders
      /\ arrived' \subseteq Senders
  BY <1>0 DEF HelperStep, HelperRemove, HelperBind, HelperTimeout, Serve, HelperEnd, ghosts,
              Typed, TypeOK
<1>4. ASSUME NEW d \in Daemons
      PROVE  /\ daemon'[d] \in Daemon /\ daemon'[d].listener = daemon[d].listener
             /\ daemon'[d].user = daemon[d].user
             /\ daemon'[d].pc = daemon[d].pc \/ (daemon[d].pc = "receive" /\ daemon'[d].pc = "run")
  <2>1. daemon[d] \in Daemon
    BY Elements
  <2>2. CASE daemon'[d] = daemon[d]
    BY <2>1, <2>2
  <2>3. CASE Serve(h) /\ daemon[d].pc = "receive"
             /\ daemon'[d] = [daemon[d] EXCEPT !.pc = "run", !.secret = helper[h].secret]
    <3>1. [daemon[d] EXCEPT !.pc = "run", !.secret = helper[h].secret] \in Daemon
      BY <1>0, <2>1 DEF Daemon, Helper
    <3> QED
      BY <2>1, <2>3, <3>1 DEF Daemon
  <2> QED
    BY <2>2, <2>3
       DEF HelperStep, HelperRemove, HelperBind, HelperTimeout, Serve, HelperEnd, daemons
<1>5. daemon' \in [Daemons -> Daemon]
  BY <1>4, Elements
     DEF HelperStep, HelperRemove, HelperBind, HelperTimeout, Serve, HelperEnd, daemons
<1>6. Typed'
  BY <1>0, <1>2, <1>3, <1>5 DEF Typed, TypeOK, Shapes
<1>7. ListeningKept
  BY <1>0, <1>4 DEF ListeningKept, Alive, Named
<1>8. BufferKept
  BY <1>0, <1>4 DEF BufferKept, Tries
<1> QED
  BY <1>0, <1>6, <1>7, <1>8 DEF PlanKept, SignalsKept, Works

-----------------------------------------------------------------------------
(* oo7-daemon *)

\* What a step of one daemon leaves as it is.
LEMMA DaemonKeeps ==
  ASSUME Typed, NEW d \in Daemons, NEW r \in Daemon, daemon' = [daemon EXCEPT ![d] = r],
         UNCHANGED <<account, keyring, host, sender, task, helperSocket, arrived, excused, budget>>,
         helper' \in [Helpers -> Helper],
         \A h \in Helpers : helper'[h].pc # "none" => helper'[h].from \in Senders,
         pamSocket' \in Daemons \cup {Nobody}, busName' \in Daemons \cup {Nobody},
         due' \in [Daemons -> SUBSET Passwords]
  PROVE  /\ Typed' /\ PlanKept /\ SignalsKept
         /\ daemon'[d] = r /\ \A e \in Daemons \ {d} : daemon'[e] = daemon[e]
         /\ /\ due' = due /\ r.user = daemon[d].user
            /\ r.pc # "dead" => daemon[d].pc # "dead"
            /\ (r.pc # "ready" /\ daemon[d].pc # "ready") \/ r.pc = daemon[d].pc
            => BufferKept
<1>1. /\ daemon' \in [Daemons -> Daemon] /\ daemon'[d] = r
      /\ \A e \in Daemons \ {d} : daemon'[e] = daemon[e]
  BY Elements
<1>2. Typed'
  BY <1>1 DEF Typed, TypeOK, Shapes
<1>3. PlanKept /\ SignalsKept
  BY DEF PlanKept, SignalsKept, Works
<1>4. ASSUME due' = due, r.user = daemon[d].user,
             r.pc # "dead" => daemon[d].pc # "dead",
             (r.pc # "ready" /\ daemon[d].pc # "ready") \/ r.pc = daemon[d].pc
      PROVE  BufferKept
  BY <1>1, <1>4 DEF BufferKept, Tries
<1> QED
  BY <1>1, <1>2, <1>3, <1>4

\* The step of the only daemon.
LEMMA OnlyDaemon ==
  ASSUME Listening, NEW d \in Daemons, \A e \in Daemons : Alive(e) => e = d,
         \A e \in Daemons \ {d} : daemon'[e] = daemon[e],
         busName' \in {busName, d} \/ (busName = d /\ busName' = Nobody),
         Nobody \notin Daemons,
         busName' = d => Named(d)',
         Named(d)' => daemon'[d].listener # "none",
         daemon'[d].pc \in {"off", "look", "receive"} => daemon'[d].listener = "none",
         Alive(d)' => /\ daemon'[d].listener # "failed"
                      /\ daemon'[d].listener = "bind" => pamSocket' = Nobody
                      /\ daemon'[d].listener = "on" => pamSocket' = d
  PROVE  Listening'
<1>1. \A e \in Daemons \ {d} : ~Alive(e)' /\ ~Alive(e) /\ ~Named(e)
  BY DEF Alive, Named
<1>2. \A e, f \in Daemons : Alive(e)' /\ Alive(f)' => e = f
  BY <1>1
<1>3. ASSUME NEW e \in Daemons \ {d}
      PROVE  /\ busName' # e
             /\ Named(e)' => daemon'[e].listener # "none"
             /\ daemon'[e].pc \in {"off", "look", "receive"} => daemon'[e].listener = "none"
             /\ ~Alive(e)'
  <2>1. busName # e
    BY <1>1 DEF Listening
  <2>2. daemon'[e] = daemon[e]
    OBVIOUS
  <2> QED
    BY <1>1, <2>1, <2>2 DEF Listening, Named
<1> QED
  BY <1>2, <1>3 DEF Listening

LEMMA StartStep ==
  ASSUME Typed, NEW d \in Daemons, Start(d)
  PROVE  Typed' /\ PlanKept /\ SignalsKept /\ BufferKept /\ (~Overlap /\ Listening => Listening')
<1>0. /\ daemon[d] \in Daemon /\ daemon[d].pc = "off"
      /\ UNCHANGED <<account, keyring, host, sender, task, pamSocket, busName, helper, helperSocket,
                     due, arrived, excused, budget>>
      /\ pamSocket \in Daemons \cup {Nobody} /\ busName \in Daemons \cup {Nobody}
      /\ due \in [Daemons -> SUBSET Passwords] /\ helper \in [Helpers -> Helper]
      /\ \A h \in Helpers : helper[h].pc # "none" => helper[h].from \in Senders
  BY DEF Start, Typed, TypeOK, Shapes, helpers, ghosts
<1>1. PICK r : r = [daemon[d] EXCEPT !.pc = "look"]
  OBVIOUS
<1>2. /\ r \in Daemon /\ r.pc = "look" /\ r.listener = daemon[d].listener
      /\ r.user = daemon[d].user
  BY <1>0, <1>1 DEF Daemon
<1>3. daemon' = [daemon EXCEPT ![d] = r]
  BY <1>1 DEF Start
<1>4. /\ Typed' /\ PlanKept /\ SignalsKept /\ BufferKept
      /\ daemon'[d] = r /\ \A e \in Daemons \ {d} : daemon'[e] = daemon[e]
  BY <1>0, <1>2, <1>3, DaemonKeeps
<1>5. ASSUME ~Overlap, Listening PROVE Listening'
  <2>1. \A e \in Daemons : ~Alive(e)
    BY <1>5 DEF Start
  <2>2. r.listener = "none" /\ busName # d
    BY <1>0, <1>2, <1>5 DEF Listening, Named
  <2>3. daemon'[d].pc = "look" /\ daemon'[d].listener = "none" /\ ~Named(d)' /\ busName' # d
    BY <1>0, <1>2, <1>4, <2>2 DEF Named
  <2> QED
    BY <1>0, <1>4, <1>5, <2>1, <2>3, OnlyDaemon, LoginAssumption
<1> QED
  BY <1>4, <1>5

LEMMA LookForHelperStep ==
  ASSUME Typed, NEW d \in Daemons, LookForHelper(d)
  PROVE  Typed' /\ PlanKept /\ SignalsKept /\ BufferKept /\ ListeningKept
<1>0. /\ daemon[d] \in Daemon /\ daemon[d].pc = "look"
      /\ UNCHANGED <<account, keyring, host, sender, task, pamSocket, busName, helperSocket,
                     due, arrived, excused, budget>>
      /\ pamSocket \in Daemons \cup {Nobody} /\ busName \in Daemons \cup {Nobody}
      /\ due \in [Daemons -> SUBSET Passwords] /\ helper \in [Helpers -> Helper]
      /\ \A h \in Helpers : helper[h].pc # "none" => helper[h].from \in Senders
      /\ helperSocket \in Helpers \cup {Nobody} /\ Credential \in Maybe
  BY LoginAssumption DEF LookForHelper, Typed, TypeOK, Shapes, ghosts
<1>1. /\ helper' \in [Helpers -> Helper]
      /\ \A h \in Helpers : helper'[h].pc # "none" => helper'[h].from \in Senders
  <2>1. CASE helper' = helper
    BY <1>0, <2>1
  <2>2. CASE helper' # helper
    <3>1. /\ helperSocket \in Helpers /\ helper[helperSocket].pc = "waiting"
          /\ helper' = [helper EXCEPT ![helperSocket].pc = "serving"]
      BY <1>0, <2>2 DEF LookForHelper
    <3>2. /\ [helper[helperSocket] EXCEPT !.pc = "serving"] \in Helper
          /\ [helper[helperSocket] EXCEPT !.pc = "serving"].from = helper[helperSocket].from
      BY <1>0, <3>1 DEF Helper
    <3> QED
      BY <1>0, <3>1, <3>2
  <2> QED
    BY <2>1, <2>2
<1>2. PICK r \in Daemon : /\ daemon' = [daemon EXCEPT ![d] = r] /\ r.pc \in {"run", "receive"}
                          /\ r.listener = daemon[d].listener /\ r.user = daemon[d].user
  <2>1. CASE daemon' = [daemon EXCEPT ![d].pc = "run", ![d].secret = Credential]
    <3>1. PICK r : r = [daemon[d] EXCEPT !.pc = "run", !.secret = Credential]
      OBVIOUS
    <3>2. r \in Daemon /\ r.pc = "run" /\ r.listener = daemon[d].listener /\ r.user = daemon[d].user
      BY <1>0, <3>1 DEF Daemon
    <3> QED
      BY <2>1, <3>1, <3>2, Elements
  <2>2. CASE /\ daemon' = [daemon EXCEPT ![d].pc = "receive", ![d].helper = helperSocket]
             /\ helperSocket \in Helpers
    <3>1. PICK r : r = [daemon[d] EXCEPT !.pc = "receive", !.helper = helperSocket]
      OBVIOUS
    <3>2. /\ r \in Daemon /\ r.pc = "receive" /\ r.listener = daemon[d].listener
          /\ r.user = daemon[d].user
      BY <1>0, <2>2, <3>1 DEF Daemon
    <3> QED
      BY <2>2, <3>1, <3>2, Elements
  <2> QED
    BY <1>0, <2>1, <2>2 DEF LookForHelper
<1>3. /\ Typed' /\ PlanKept /\ SignalsKept /\ BufferKept
      /\ daemon'[d] = r /\ \A e \in Daemons \ {d} : daemon'[e] = daemon[e]
  BY <1>0, <1>1, <1>2, DaemonKeeps
<1> QED
  BY <1>0, <1>2, <1>3 DEF ListeningKept, Alive, Named

LEMMA RunStep ==
  ASSUME Typed, NEW d \in Daemons, Run(d)
  PROVE  Typed' /\ PlanKept /\ SignalsKept /\ BufferKept /\ (Listening => Listening')
<1>0. /\ daemon[d] \in Daemon /\ daemon[d].pc = "run" /\ daemon[d].listener = "none"
      /\ UNCHANGED <<account, keyring, host, sender, task, pamSocket, busName, helper, helperSocket,
                     due, arrived, excused, budget>>
      /\ pamSocket \in Daemons \cup {Nobody} /\ busName \in Daemons \cup {Nobody}
      /\ due \in [Daemons -> SUBSET Passwords] /\ helper \in [Helpers -> Helper]
      /\ \A h \in Helpers : helper[h].pc # "none" => helper[h].from \in Senders
  BY DEF Run, Typed, TypeOK, Shapes, helpers, ghosts
<1>1. PICK r : r = [daemon[d] EXCEPT !.listener = "remove"]
  OBVIOUS
<1>2. r \in Daemon /\ r.pc = "run" /\ r.listener = "remove" /\ r.user = daemon[d].user
  BY <1>0, <1>1 DEF Daemon
<1>3. daemon' = [daemon EXCEPT ![d] = r]
  BY <1>1 DEF Run
<1>4. /\ Typed' /\ PlanKept /\ SignalsKept /\ BufferKept
      /\ daemon'[d] = r /\ \A e \in Daemons \ {d} : daemon'[e] = daemon[e]
  BY <1>0, <1>2, <1>3, DaemonKeeps
<1>5. ASSUME Listening PROVE Listening'
  <2>1. Alive(d) /\ \A e \in Daemons : Alive(e) => e = d
    BY <1>0, <1>5 DEF Listening, Alive
  <2>2. busName # d
    BY <1>0, <1>5 DEF Listening, Named
  <2>3. daemon'[d].pc = "run" /\ daemon'[d].listener = "remove" /\ ~Named(d)' /\ busName' # d
    BY <1>0, <1>2, <1>4, <2>2 DEF Named
  <2> QED
    BY <1>0, <1>4, <1>5, <2>1, <2>3, OnlyDaemon, LoginAssumption
<1> QED
  BY <1>4, <1>5

LEMMA TakeNameStep ==
  ASSUME Typed, NEW d \in Daemons, TakeName(d)
  PROVE  Typed' /\ PlanKept /\ SignalsKept /\ BufferKept /\ (Listening => Listening')
<1>0. /\ daemon[d] \in Daemon /\ daemon[d].pc = "run" /\ daemon[d].listener # "none"
      /\ UNCHANGED <<account, keyring, host, sender, task, pamSocket, helper, helperSocket,
                     due, arrived, excused, budget>>
      /\ pamSocket \in Daemons \cup {Nobody} /\ busName \in Daemons \cup {Nobody}
      /\ due \in [Daemons -> SUBSET Passwords] /\ helper \in [Helpers -> Helper]
      /\ \A h \in Helpers : helper[h].pc # "none" => helper[h].from \in Senders
  BY DEF TakeName, Typed, TypeOK, Shapes, helpers, ghosts
<1>1. PICK label \in {"initialize", "dead"} :
        /\ daemon' = [daemon EXCEPT ![d].pc = label]
        /\ \/ label = "initialize" /\ busName' = d
           \/ label = "dead" /\ busName' = busName
  BY DEF TakeName
<1>2. PICK r : r = [daemon[d] EXCEPT !.pc = label]
  OBVIOUS
<1>3. r \in Daemon /\ r.pc = label /\ r.listener = daemon[d].listener /\ r.user = daemon[d].user
  BY <1>0, <1>2 DEF Daemon
<1>4. daemon' = [daemon EXCEPT ![d] = r]
  BY <1>1, <1>2
<1>5. /\ Typed' /\ PlanKept /\ SignalsKept /\ BufferKept
      /\ daemon'[d] = r /\ \A e \in Daemons \ {d} : daemon'[e] = daemon[e]
  <2>1. busName' \in Daemons \cup {Nobody} /\ r.pc # "ready" /\ daemon[d].pc # "ready"
    BY <1>0, <1>1, <1>3
  <2> QED
    BY <1>0, <1>3, <1>4, <2>1, DaemonKeeps
<1>6. ASSUME Listening PROVE Listening'
  <2>1. Alive(d) /\ \A e \in Daemons : Alive(e) => e = d
    BY <1>0, <1>6 DEF Listening, Alive
  <2>2. busName # d
    BY <1>0, <1>6 DEF Listening, Named
  <2>3. /\ daemon[d].listener # "failed"
        /\ daemon[d].listener = "bind" => pamSocket = Nobody
        /\ daemon[d].listener = "on" => pamSocket = d
    BY <1>6, <2>1 DEF Listening
  <2>4. /\ daemon'[d].pc = label /\ daemon'[d].listener = daemon[d].listener
        /\ busName' = d => Named(d)'
    BY <1>1, <1>3, <1>5, <2>2 DEF Named
  <2>5. busName' \in {busName, d}
    BY <1>1
  <2> QED
    BY <1>0, <1>1, <1>5, <1>6, <2>1, <2>3, <2>4, <2>5, OnlyDaemon, LoginAssumption
<1> QED
  BY <1>5, <1>6

LEMMA InitializeStep ==
  ASSUME Typed, NEW d \in Daemons, Initialize(d)
  PROVE  Typed' /\ PlanKept /\ SignalsKept /\ BufferKept /\ ListeningKept
<1>0. /\ daemon[d] \in Daemon /\ daemon[d].pc = "initialize"
      /\ UNCHANGED <<account, keyring, host, sender, task, pamSocket, busName, helper, helperSocket,
                     due, arrived, excused, budget>>
      /\ pamSocket \in Daemons \cup {Nobody} /\ busName \in Daemons \cup {Nobody}
      /\ due \in [Daemons -> SUBSET Passwords] /\ helper \in [Helpers -> Helper]
      /\ \A h \in Helpers : helper[h].pc # "none" => helper[h].from \in Senders
  BY DEF Initialize, Typed, TypeOK, Shapes, helpers, ghosts
<1>1. PICK b \in BOOLEAN : daemon' = [daemon EXCEPT ![d].pc = "replay", ![d].unlocked = b]
  <2>1. (daemon[d].secret = keyring) \in BOOLEAN
    OBVIOUS
  <2> QED
    BY <2>1 DEF Initialize
<1>2. PICK r : r = [daemon[d] EXCEPT !.pc = "replay", !.unlocked = b]
  OBVIOUS
<1>3. r \in Daemon /\ r.pc = "replay" /\ r.listener = daemon[d].listener /\ r.user = daemon[d].user
  BY <1>0, <1>2 DEF Daemon
<1>4. daemon' = [daemon EXCEPT ![d] = r]
  BY <1>1, <1>2, Elements
<1>5. /\ Typed' /\ PlanKept /\ SignalsKept /\ BufferKept
      /\ daemon'[d] = r /\ \A e \in Daemons \ {d} : daemon'[e] = daemon[e]
  BY <1>0, <1>3, <1>4, DaemonKeeps
<1> QED
  BY <1>0, <1>3, <1>5 DEF ListeningKept, Alive, Named

LEMMA ReplayStep ==
  ASSUME Typed, NEW d \in Daemons, Replay(d)
  PROVE  Typed' /\ PlanKept /\ SignalsKept /\ ListeningKept /\ (Buffered => Buffered')
<1>0. /\ daemon[d] \in Daemon /\ daemon[d].pc = "replay"
      /\ UNCHANGED <<account, keyring, host, sender, task, pamSocket, busName, helper, helperSocket,
                     arrived, excused, budget>>
      /\ pamSocket \in Daemons \cup {Nobody} /\ busName \in Daemons \cup {Nobody}
      /\ due \in [Daemons -> SUBSET Passwords] /\ helper \in [Helpers -> Helper]
      /\ \A h \in Helpers : helper[h].pc # "none" => helper[h].from \in Senders
      /\ due' = [due EXCEPT ![d] = @ \ {daemon[d].user}]
  BY DEF Replay, Typed, TypeOK, Shapes, helpers
<1>1. PICK b \in BOOLEAN : daemon' = [daemon EXCEPT ![d].pc = "ready", ![d].unlocked = b]
  <2>1. (daemon[d].unlocked \/ daemon[d].user = keyring) \in BOOLEAN
    OBVIOUS
  <2> QED
    BY <2>1, Elements DEF Replay
<1>2. PICK r : r = [daemon[d] EXCEPT !.pc = "ready", !.unlocked = b]
  OBVIOUS
<1>3. r \in Daemon /\ r.pc = "ready" /\ r.listener = daemon[d].listener /\ r.user = daemon[d].user
  BY <1>0, <1>2 DEF Daemon
<1>4. daemon' = [daemon EXCEPT ![d] = r]
  BY <1>1, <1>2, Elements
<1>5. /\ due' \in [Daemons -> SUBSET Passwords] /\ due'[d] = due[d] \ {daemon[d].user}
      /\ \A e \in Daemons \ {d} : due'[e] = due[e]
  BY <1>0
<1>6. /\ Typed' /\ PlanKept /\ SignalsKept
      /\ daemon'[d] = r /\ \A e \in Daemons \ {d} : daemon'[e] = daemon[e]
  BY <1>0, <1>3, <1>4, <1>5, DaemonKeeps
<1>7. ASSUME Buffered PROVE Buffered'
  <2>1. due'[d] = {}
    BY <1>0, <1>5, <1>7 DEF Buffered
  <2>2. \A e \in Daemons \ {d}, s \in Senders, p \in Passwords : Tries(s, e, p) => Tries(s, e, p)'
    BY <1>0 DEF Tries
  <2> QED
    BY <1>0, <1>3, <1>5, <1>6, <1>7, <2>1, <2>2 DEF Buffered
<1> QED
  BY <1>0, <1>3, <1>6, <1>7 DEF ListeningKept, Alive, Named

LEMMA RemoveSocketStep ==
  ASSUME Typed, NEW d \in Daemons, RemoveSocket(d)
  PROVE  Typed' /\ PlanKept /\ SignalsKept /\ BufferKept /\ (Listening => Listening')
<1>0. /\ daemon[d] \in Daemon /\ Alive(d) /\ daemon[d].listener = "remove" /\ pamSocket' = Nobody
      /\ UNCHANGED <<account, keyring, host, sender, task, busName, helper, helperSocket,
                     due, arrived, excused, budget>>
      /\ busName \in Daemons \cup {Nobody}
      /\ due \in [Daemons -> SUBSET Passwords] /\ helper \in [Helpers -> Helper]
      /\ \A h \in Helpers : helper[h].pc # "none" => helper[h].from \in Senders
  BY DEF RemoveSocket, Removed, Typed, TypeOK, Shapes, helpers, ghosts
<1>1. PICK r : r = [daemon[d] EXCEPT !.listener = "bind"]
  OBVIOUS
<1>2. r \in Daemon /\ r.pc = daemon[d].pc /\ r.listener = "bind" /\ r.user = daemon[d].user
  BY <1>0, <1>1 DEF Daemon
<1>3. daemon' = [daemon EXCEPT ![d] = r]
  BY <1>1 DEF RemoveSocket
<1>4. /\ Typed' /\ PlanKept /\ SignalsKept /\ BufferKept
      /\ daemon'[d] = r /\ \A e \in Daemons \ {d} : daemon'[e] = daemon[e]
  BY <1>0, <1>2, <1>3, DaemonKeeps
<1>5. ASSUME Listening PROVE Listening'
  <2>1. \A e \in Daemons : Alive(e) => e = d
    BY <1>0, <1>5 DEF Listening
  <2>2. daemon[d].pc \notin {"off", "look", "receive"} /\ (busName = d => Named(d))
    BY <1>0, <1>5 DEF Listening
  <2>3. daemon'[d].pc = daemon[d].pc /\ daemon'[d].listener = "bind" /\ (busName' = d => Named(d)')
    BY <1>0, <1>2, <1>4, <2>2 DEF Named
  <2> QED
    BY <1>0, <1>4, <1>5, <2>1, <2>2, <2>3, OnlyDaemon, LoginAssumption
<1> QED
  BY <1>4, <1>5

LEMMA BindStep ==
  ASSUME Typed, NEW d \in Daemons, Bind(d)
  PROVE  Typed' /\ PlanKept /\ SignalsKept /\ BufferKept /\ (Listening => Listening')
<1>0. /\ daemon[d] \in Daemon /\ Alive(d) /\ daemon[d].listener = "bind"
      /\ UNCHANGED <<account, keyring, host, sender, task, busName, helper, helperSocket,
                     due, arrived, excused, budget>>
      /\ pamSocket \in Daemons \cup {Nobody} /\ busName \in Daemons \cup {Nobody}
      /\ due \in [Daemons -> SUBSET Passwords] /\ helper \in [Helpers -> Helper]
      /\ \A h \in Helpers : helper[h].pc # "none" => helper[h].from \in Senders
  BY DEF Bind, Typed, TypeOK, Shapes, helpers, ghosts
<1>1. PICK label \in {"on", "failed"} :
        /\ daemon' = [daemon EXCEPT ![d].listener = label]
        /\ pamSocket = Nobody => label = "on" /\ pamSocket' = d
        /\ pamSocket # Nobody => pamSocket' = pamSocket
  BY DEF Bind
<1>2. PICK r : r = [daemon[d] EXCEPT !.listener = label]
  OBVIOUS
<1>3. r \in Daemon /\ r.pc = daemon[d].pc /\ r.listener = label /\ r.user = daemon[d].user
  BY <1>0, <1>2 DEF Daemon
<1>4. daemon' = [daemon EXCEPT ![d] = r]
  BY <1>1, <1>2
<1>5. pamSocket' \in Daemons \cup {Nobody}
  BY <1>0, <1>1
<1>6. /\ Typed' /\ PlanKept /\ SignalsKept /\ BufferKept
      /\ daemon'[d] = r /\ \A e \in Daemons \ {d} : daemon'[e] = daemon[e]
  BY <1>0, <1>3, <1>4, <1>5, DaemonKeeps
<1>7. ASSUME Listening PROVE Listening'
  <2>1. (\A e \in Daemons : Alive(e) => e = d) /\ pamSocket = Nobody
    BY <1>0, <1>7 DEF Listening
  <2>2. daemon[d].pc \notin {"off", "look", "receive"} /\ (busName = d => Named(d))
    BY <1>0, <1>7 DEF Listening
  <2>3. /\ daemon'[d].pc = daemon[d].pc /\ daemon'[d].listener = "on" /\ pamSocket' = d
        /\ busName' = d => Named(d)'
    BY <1>0, <1>1, <1>3, <1>6, <2>1, <2>2 DEF Named
  <2> QED
    BY <1>0, <1>6, <1>7, <2>1, <2>2, <2>3, OnlyDaemon, LoginAssumption
<1> QED
  BY <1>6, <1>7

LEMMA CrashStep ==
  ASSUME Typed, NEW d \in Daemons, Crash(d)
  PROVE  Typed' /\ PlanKept /\ SignalsKept /\ BufferKept /\ (Listening => Listening')
<1>0. /\ daemon[d] \in Daemon /\ Alive(d) /\ daemon' = [daemon EXCEPT ![d].pc = "dead"]
      /\ UNCHANGED <<account, keyring, host, sender, pamSocket, helper, helperSocket, due, arrived>>
      /\ pamSocket \in Daemons \cup {Nobody} /\ busName \in Daemons \cup {Nobody}
      /\ busName' = IF busName = d THEN Nobody ELSE busName
      /\ task' = [s \in Senders |->
                    IF task[s].daemon = d THEN [task[s] EXCEPT !.pc = "over"] ELSE task[s]]
      /\ budget' \in [{"crash", "fault"} -> Nat]
      /\ task \in [Senders -> Task] /\ helper \in [Helpers -> Helper]
      /\ daemon \in [Daemons -> Daemon]
  BY SpendType DEF Crash, Typed, TypeOK, helpers
<1>1. PICK r : r = [daemon[d] EXCEPT !.pc = "dead"]
  OBVIOUS
<1>2. r \in Daemon /\ r.pc = "dead" /\ r.listener = daemon[d].listener
  BY <1>0, <1>1 DEF Daemon
<1>3. /\ daemon' \in [Daemons -> Daemon] /\ daemon'[d] = r
      /\ \A e \in Daemons \ {d} : daemon'[e] = daemon[e]
  BY <1>0, <1>1, <1>2
<1>4. ASSUME NEW s \in Senders
      PROVE  /\ task'[s] \in Task /\ task'[s].daemon = task[s].daemon
             /\ task[s].daemon # d => task'[s] = task[s]
             /\ task[s].daemon = d => task'[s].pc = "over"
  BY <1>0 DEF Task
<1>5. task' \in [Senders -> Task]
  BY <1>0, <1>4
<1>6. excused' \subseteq Senders
  <2>1. /\ excused \subseteq Senders /\ excused' = excused \cup Lost(d)
        /\ \A h \in Helpers : helper[h].pc # "none" => helper[h].from \in Senders
    BY DEF Crash, Typed, TypeOK, Shapes
  <2> QED
    BY <2>1 DEF Lost
<1>7. Shapes'
  <2>1. \A s \in Senders : task'[s].pc # "none" => sender[s].pc \in {"sent", "end", "done"}
    <3> TAKE s \in Senders
    <3>1. task[s].pc = "none" => task[s].daemon # d
      BY LoginAssumption DEF Typed, Shapes
    <3> QED
      BY <1>4, <3>1 DEF Typed, Shapes
  <2> QED
    BY <1>0, <1>4, <2>1 DEF Typed, Shapes
<1>8. Typed'
  BY <1>0, <1>3, <1>5, <1>6, <1>7 DEF Typed, TypeOK
<1>9. PlanKept /\ SignalsKept
  BY <1>0 DEF PlanKept, SignalsKept, Works
<1>10. BufferKept
  <2>1. \A e \in Daemons \ {d}, s \in Senders, p \in Passwords : Tries(s, e, p) => Tries(s, e, p)'
    BY <1>0, <1>4 DEF Tries
  <2>2. \A s \in Senders : task[s].pc \notin {"none", "got"} => task'[s].pc \notin {"none", "got"}
    BY <1>4
  <2> QED
    BY <1>0, <1>2, <1>3, <2>1, <2>2 DEF BufferKept
<1>11. ASSUME Listening PROVE Listening'
  <2>1. \A e \in Daemons : Alive(e) => e = d
    BY <1>0, <1>11 DEF Listening
  <2>2. ~Alive(d)' /\ ~Named(d)' /\ daemon'[d].pc = "dead"
    BY <1>2, <1>3 DEF Alive, Named
  <2>3. busName' # d /\ (busName' = busName \/ (busName = d /\ busName' = Nobody))
    BY <1>0, LoginAssumption
  <2> QED
    BY <1>0, <1>3, <1>11, <2>1, <2>2, <2>3, OnlyDaemon, LoginAssumption
<1> QED
  BY <1>8, <1>9, <1>10, <1>11

-----------------------------------------------------------------------------
(* PamListener::handle_connection *)

\* What a step of one task leaves as it is.
LEMMA TaskKeeps ==
  ASSUME Typed, NEW s \in Senders, NEW label \in {"try", "insert", "answer", "over"},
         TaskAt(s, label), task[s].pc \notin {"none", "over"},
         UNCHANGED <<account, host, sender, pamSocket, busName, helpers, excused, budget>>,
         keyring' \in Passwords, arrived' \subseteq Senders,
         due' \in [Daemons -> SUBSET Passwords], daemon' \in [Daemons -> Daemon],
         \A d \in Daemons : /\ daemon'[d].pc = daemon[d].pc
                            /\ daemon'[d].listener = daemon[d].listener
  PROVE  /\ Typed' /\ PlanKept /\ SignalsKept /\ ListeningKept
         /\ task'[s].pc = label /\ task'[s].daemon = task[s].daemon
         /\ \A r \in Senders \ {s} : task'[r] = task[r]
<1>1. [task[s] EXCEPT !.pc = label] \in Task
  <2>1. task[s] \in Task
    BY Elements
  <2> QED
    BY <2>1, ZenonT(30) DEF Task
<1>2. /\ task' \in [Senders -> Task] /\ \A r \in Senders \ {s} : task'[r] = task[r]
      /\ task'[s] = [task[s] EXCEPT !.pc = label]
  BY <1>1, Elements DEF TaskAt
<1>3. task'[s].pc = label /\ task'[s].daemon = task[s].daemon
  BY <1>2, Elements DEF Task
<1>4. UNCHANGED <<helper, helperSocket>>
  BY DEF helpers
<1>5. Shapes'
  BY <1>2, <1>3, <1>4 DEF Typed, Shapes
<1>6. Typed'
  BY <1>2, <1>4, <1>5 DEF Typed, TypeOK
<1> QED
  BY <1>2, <1>3, <1>6 DEF PlanKept, SignalsKept, ListeningKept, Works, Alive, Named

LEMMA BufferStep ==
  ASSUME Typed, NEW s \in Senders, Buffer(s)
  PROVE  /\ Typed' /\ PlanKept /\ SignalsKept /\ ListeningKept
         /\ OneLogin /\ Planned /\ Buffered => Buffered'
<1> PICK d : d = task[s].daemon
  OBVIOUS
<1> PICK p : p = sender[s].new
  OBVIOUS
<1>0. /\ s[2] = "unlock" /\ task[s].pc = "got" /\ TaskAt(s, "try") /\ s = <<s[1], "unlock">>
      /\ s[1] \in Hosts /\ d \in Daemons /\ daemon[d] \in Daemon /\ sender[s].pc # "none"
      /\ p \in Passwords
      /\ daemon' = [daemon EXCEPT ![d].user = p]
      /\ due' = [due EXCEPT ![d] = @ \cup {p}]
      /\ arrived' = arrived \cup {s} /\ arrived \subseteq Senders /\ keyring \in Passwords
      /\ UNCHANGED <<account, keyring, host, sender, pamSocket, busName, helpers, excused, budget>>
      /\ due \in [Daemons -> SUBSET Passwords]
  BY Elements DEF Buffer, At, Typed, TypeOK, Shapes
<1>1. /\ [daemon[d] EXCEPT !.user = p] \in Daemon
      /\ [daemon[d] EXCEPT !.user = p].pc = daemon[d].pc
      /\ [daemon[d] EXCEPT !.user = p].listener = daemon[d].listener
      /\ [daemon[d] EXCEPT !.user = p].user = p
  BY <1>0 DEF Daemon, Maybe
<1>2. /\ daemon' \in [Daemons -> Daemon] /\ \A e \in Daemons \ {d} : daemon'[e] = daemon[e]
      /\ daemon'[d] = [daemon[d] EXCEPT !.user = p]
  BY <1>0, <1>1, Elements
<1>3. /\ due' \in [Daemons -> SUBSET Passwords] /\ due'[d] = due[d] \cup {p}
      /\ \A e \in Daemons \ {d} : due'[e] = due[e]
  BY <1>0
<1>4. arrived' \subseteq Senders
  BY <1>0
<1>5. /\ Typed' /\ PlanKept /\ SignalsKept /\ ListeningKept
      /\ task'[s].pc = "try" /\ task'[s].daemon = d
      /\ \A r \in Senders \ {s} : task'[r] = task[r]
  BY <1>0, <1>1, <1>2, <1>3, <1>4, TaskKeeps, ZenonT(30)
<1>6. ASSUME OneLogin, Planned, Buffered PROVE Buffered'
  <2>1. due[d] # {} => FALSE
    <3> SUFFICES ASSUME due[d] # {} PROVE FALSE
      OBVIOUS
    <3>1. PICK r \in Senders : r[2] = "unlock" /\ task[r].pc \notin {"none", "got"}
      BY <1>0, <1>6 DEF Buffered
    <3>2. sender[r].pc # "none" /\ r = <<r[1], "unlock">> /\ r[1] \in Hosts
      BY <3>1, Elements DEF Typed, Shapes
    <3>3. Names(r[1], "open_session") /\ Names(s[1], "open_session")
      BY <1>0, <1>6, <3>2 DEF Planned
    <3>4. r = s
      BY <1>0, <1>6, <3>2, <3>3 DEF OneLogin
    <3> QED
      BY <1>0, <3>1, <3>4
  <2>2. Tries(s, d, p)'
    BY <1>0, <1>5 DEF Tries
  <2>3. \A e \in Daemons, r \in Senders, q \in Passwords : Tries(r, e, q) => Tries(r, e, q)'
    <3> TAKE e \in Daemons, r \in Senders, q \in Passwords
    <3> QED
      BY <1>0, <1>5 DEF Tries
  <2>4. \A r \in Senders : task[r].pc \notin {"none", "got"} => task'[r].pc \notin {"none", "got"}
    BY <1>0, <1>5
  <2>5. ASSUME NEW e \in Daemons
        PROVE  /\ daemon'[e].pc \notin {"ready", "dead"} => due'[e] \subseteq {daemon'[e].user}
               /\ daemon'[e].pc = "ready" => \A q \in due'[e] : \E r \in Senders : Tries(r, e, q)'
               /\ due'[e] # {} =>
                    \E r \in Senders : r[2] = "unlock" /\ task'[r].pc \notin {"none", "got"}
    <3>1. CASE e = d
      BY <1>0, <1>1, <1>2, <1>3, <1>5, <2>1, <2>2, <3>1
    <3>2. CASE e # d
      <4>1. daemon'[e] = daemon[e] /\ due'[e] = due[e] /\ due[e] \subseteq Passwords
        BY <1>0, <1>2, <1>3, <3>2
      <4> QED
        BY <1>6, <2>3, <2>4, <4>1 DEF Buffered
    <3> QED
      BY <3>1, <3>2
  <2> QED
    BY <2>5 DEF Buffered
<1> QED
  BY <1>5, <1>6

LEMMA TryStep ==
  ASSUME Typed, NEW s \in Senders, Try(s)
  PROVE  /\ Typed' /\ PlanKept /\ SignalsKept /\ ListeningKept
         /\ Buffered => Buffered'
<1> PICK d : d = task[s].daemon
  OBVIOUS
<1> PICK p : p = sender[s].new
  OBVIOUS
<1>0. /\ task[s].pc = "try" /\ TaskAt(s, "answer")
      /\ d \in Daemons /\ daemon[d] \in Daemon
      /\ due' = [due EXCEPT ![d] = IF Registered(d) THEN @ \ {p} ELSE @]
      /\ arrived' = arrived /\ arrived \subseteq Senders /\ keyring \in Passwords
      /\ UNCHANGED <<account, keyring, host, sender, pamSocket, busName, helpers, excused, budget>>
      /\ due \in [Daemons -> SUBSET Passwords]
  BY Elements DEF Try, At, Typed, TypeOK, Shapes
<1>1. PICK b \in BOOLEAN : daemon' = [daemon EXCEPT ![d].unlocked = b]
  <2>1. (daemon[d].unlocked \/ (Registered(d) /\ p = keyring)) \in BOOLEAN
    OBVIOUS
  <2> QED
    BY <1>0, <2>1, Elements DEF Try
<1> PICK r : r = [daemon[d] EXCEPT !.unlocked = b]
  OBVIOUS
<1>2. /\ r \in Daemon /\ r.pc = daemon[d].pc /\ r.listener = daemon[d].listener
      /\ r.user = daemon[d].user
  BY <1>0 DEF Daemon
<1>3. /\ daemon' \in [Daemons -> Daemon] /\ \A e \in Daemons \ {d} : daemon'[e] = daemon[e]
      /\ daemon'[d] = r
  <2>1. daemon' = [daemon EXCEPT ![d] = r]
    BY <1>1, Elements
  <2> QED
    BY <1>0, <1>2, <2>1, Elements
<1>4. /\ due' \in [Daemons -> SUBSET Passwords]
      /\ due'[d] = IF Registered(d) THEN due[d] \ {p} ELSE due[d]
      /\ \A e \in Daemons \ {d} : due'[e] = due[e]
  BY <1>0
<1>5. /\ Typed' /\ PlanKept /\ SignalsKept /\ ListeningKept
      /\ task'[s].pc = "answer" /\ \A x \in Senders \ {s} : task'[x] = task[x]
  <2>1. \A e \in Daemons : /\ daemon'[e].pc = daemon[e].pc
                           /\ daemon'[e].listener = daemon[e].listener
    BY <1>2, <1>3
  <2> QED
    BY <1>0, <1>3, <1>4, <2>1, TaskKeeps
<1>6. ASSUME Buffered PROVE Buffered'
  <2>1. \A e \in Daemons, x \in Senders, q \in Passwords :
          Tries(x, e, q) /\ (e # d \/ q # p) => Tries(x, e, q)'
    <3> TAKE e \in Daemons, x \in Senders, q \in Passwords
    <3> QED
      BY <1>0, <1>5 DEF Tries
  <2>2. \A x \in Senders : task[x].pc \notin {"none", "got"} => task'[x].pc \notin {"none", "got"}
    BY <1>5
  <2>3. ASSUME NEW e \in Daemons
        PROVE  /\ daemon'[e].pc \notin {"ready", "dead"} => due'[e] \subseteq {daemon'[e].user}
               /\ daemon'[e].pc = "ready" => \A q \in due'[e] : \E x \in Senders : Tries(x, e, q)'
               /\ due'[e] # {} =>
                    \E x \in Senders : x[2] = "unlock" /\ task'[x].pc \notin {"none", "got"}
    <3>0. /\ daemon'[e].pc = daemon[e].pc /\ daemon'[e].user = daemon[e].user
          /\ due'[e] \subseteq due[e] /\ due[e] \subseteq Passwords
          /\ e = d /\ daemon[e].pc = "ready" => p \notin due'[e]
      BY <1>0, <1>2, <1>3, <1>4 DEF Registered
    <3> QED
      BY <1>6, <2>1, <2>2, <3>0 DEF Buffered
  <2> QED
    BY <2>3 DEF Buffered
<1> QED
  BY <1>5, <1>6

LEMMA ChangeStep ==
  ASSUME Typed, NEW s \in Senders, Change(s) \/ Answer(s)
  PROVE  Typed' /\ PlanKept /\ SignalsKept /\ ListeningKept /\ BufferKept
<1>0. PICK label \in {"insert", "over"} :
        /\ TaskAt(s, label) /\ task[s].pc \in {"got", "answer"}
        /\ UNCHANGED <<account, host, sender, pamSocket, busName, daemon, helpers, due, excused,
                       budget>>
  BY DEF Change, Answer, At, daemons, ghosts
<1>1. /\ keyring' \in Passwords /\ arrived' \subseteq Senders /\ daemon \in [Daemons -> Daemon]
      /\ due \in [Daemons -> SUBSET Passwords]
  BY DEF Change, Answer, At, ghosts, Typed, TypeOK, Shapes
<1>2. /\ Typed' /\ PlanKept /\ SignalsKept /\ ListeningKept
      /\ task'[s].pc = label /\ \A r \in Senders \ {s} : task'[r] = task[r]
  BY <1>0, <1>1, TaskKeeps
<1>3. \A d \in Daemons, r \in Senders, p \in Passwords : Tries(r, d, p) => Tries(r, d, p)'
  <2> TAKE d \in Daemons, r \in Senders, p \in Passwords
  <2> QED
    BY <1>0, <1>2 DEF Tries
<1>4. BufferKept
  BY <1>0, <1>2, <1>3 DEF BufferKept
<1> QED
  BY <1>2, <1>4

LEMMA UpdateStep ==
  ASSUME Typed, NEW s \in Senders, Update(s)
  PROVE  /\ Typed' /\ PlanKept /\ SignalsKept /\ ListeningKept
         /\ Buffered => Buffered'
<1> PICK d : d = task[s].daemon
  OBVIOUS
<1> PICK p : p = sender[s].new
  OBVIOUS
<1>0. /\ task[s].pc = "insert" /\ TaskAt(s, "answer")
      /\ d \in Daemons /\ daemon[d] \in Daemon /\ p \in Passwords
      /\ daemon' = [daemon EXCEPT ![d].user = p]
      /\ due' = [due EXCEPT ![d] = @ \ {daemon[d].user}]
      /\ arrived' = arrived /\ arrived \subseteq Senders /\ keyring \in Passwords
      /\ UNCHANGED <<account, keyring, host, sender, pamSocket, busName, helpers, excused, budget>>
      /\ due \in [Daemons -> SUBSET Passwords]
  BY Elements DEF Update, At, Typed, TypeOK, Shapes
<1>1. /\ [daemon[d] EXCEPT !.user = p] \in Daemon
      /\ [daemon[d] EXCEPT !.user = p].pc = daemon[d].pc
      /\ [daemon[d] EXCEPT !.user = p].listener = daemon[d].listener
  BY <1>0 DEF Daemon, Maybe
<1>2. /\ daemon' \in [Daemons -> Daemon] /\ \A e \in Daemons \ {d} : daemon'[e] = daemon[e]
      /\ daemon'[d] = [daemon[d] EXCEPT !.user = p]
  BY <1>0, <1>1, Elements
<1>3. /\ due' \in [Daemons -> SUBSET Passwords] /\ due'[d] = due[d] \ {daemon[d].user}
      /\ \A e \in Daemons \ {d} : due'[e] = due[e]
  BY <1>0
<1>4. /\ Typed' /\ PlanKept /\ SignalsKept /\ ListeningKept
      /\ task'[s].pc = "answer" /\ \A r \in Senders \ {s} : task'[r] = task[r]
  BY <1>0, <1>1, <1>2, <1>3, TaskKeeps
<1>5. ASSUME Buffered PROVE Buffered'
  <2>1. \A e \in Daemons, r \in Senders, q \in Passwords : Tries(r, e, q) => Tries(r, e, q)'
    <3> TAKE e \in Daemons, r \in Senders, q \in Passwords
    <3> QED
      BY <1>0, <1>4 DEF Tries
  <2>2. \A r \in Senders : task[r].pc \notin {"none", "got"} => task'[r].pc \notin {"none", "got"}
    BY <1>4
  <2>3. ASSUME NEW e \in Daemons
        PROVE  /\ daemon'[e].pc \notin {"ready", "dead"} => due'[e] \subseteq {daemon'[e].user}
               /\ daemon'[e].pc = "ready" => \A q \in due'[e] : \E r \in Senders : Tries(r, e, q)'
               /\ due'[e] # {} =>
                    \E r \in Senders : r[2] = "unlock" /\ task'[r].pc \notin {"none", "got"}
    <3>0. due'[e] \subseteq due[e] /\ due[e] \subseteq Passwords /\ daemon'[e].pc = daemon[e].pc
      BY <1>0, <1>1, <1>2, <1>3
    <3>1. daemon[e].pc \notin {"ready", "dead"} => due'[e] \subseteq {daemon'[e].user}
      BY <1>0, <1>2, <1>3, <1>5 DEF Buffered
    <3> QED
      BY <1>5, <2>1, <2>2, <3>0, <3>1 DEF Buffered
  <2> QED
    BY <2>3 DEF Buffered
<1> QED
  BY <1>4, <1>5

-----------------------------------------------------------------------------
(* Every step *)

LEMMA Stutter ==
  ASSUME Typed, UNCHANGED vars
  PROVE  Typed' /\ PlanKept /\ SignalsKept /\ ListeningKept /\ BufferKept
<1>1. UNCHANGED <<account, keyring, host, sender, task, pamSocket, helper, helperSocket, daemon,
                  busName, due, arrived, excused, budget>>
  BY DEF vars
<1> QED
  BY <1>1 DEF Typed, TypeOK, Shapes, PlanKept, SignalsKept, ListeningKept, BufferKept, Works, Alive,
              Named, Tries

LEMMA StepTyped ==
  ASSUME Typed, Planned, [Next]_vars
  PROVE  Typed' /\ Planned'
<1>1. CASE UNCHANGED vars
  BY <1>1, Stutter, KeepsPlan
<1>2. ASSUME NEW h \in Hosts, Authenticate(h) \/ Chauthtok(h) \/ OpenSession(h) \/ HostExit(h)
      PROVE  Typed' /\ Planned'
  BY <1>2, AuthenticateStep, CallStep, HostExitStep, KeepsPlan
<1>3. ASSUME NEW s \in Senders, SenderStep(s)
      PROVE  Typed' /\ Planned'
  BY <1>3, BeginStep, SendStep, FinishStep, KeepsPlan DEF SenderStep
<1>4. ASSUME NEW s \in Senders, TaskStep(s)
      PROVE  Typed' /\ Planned'
  BY <1>4, BufferStep, TryStep, ChangeStep, UpdateStep, KeepsPlan DEF TaskStep
<1>5. ASSUME NEW h \in Helpers, HelperStep(h)
      PROVE  Typed' /\ Planned'
  BY <1>5, HelperStepKeeps, KeepsPlan
<1>6. ASSUME NEW d \in Daemons, DaemonStep(d) \/ Crash(d)
      PROVE  Typed' /\ Planned'
  BY <1>6, StartStep, LookForHelperStep, RunStep, TakeNameStep, InitializeStep, ReplayStep,
     RemoveSocketStep, BindStep, CrashStep, KeepsPlan DEF DaemonStep
<1> QED
  BY <1>1, <1>2, <1>3, <1>4, <1>5, <1>6 DEF Next

LEMMA StepSignals ==
  ASSUME Typed, Planned, Signals, InnerEndsFirst', [Next]_vars
  PROVE  Signals'
<1>1. CASE UNCHANGED vars
  BY <1>1, Stutter, KeepsSignals
<1>2. ASSUME NEW h \in Hosts, Authenticate(h) \/ Chauthtok(h) \/ OpenSession(h) \/ HostExit(h)
      PROVE  Signals'
  BY <1>2, AuthenticateStep, CallStep, HostExitStep, KeepsSignals
<1>3. ASSUME NEW s \in Senders, SenderStep(s)
      PROVE  Signals'
  BY <1>3, BeginStep, SendStep, FinishStep, KeepsSignals DEF SenderStep
<1>4. ASSUME NEW s \in Senders, TaskStep(s)
      PROVE  Signals'
  BY <1>4, BufferStep, TryStep, ChangeStep, UpdateStep, KeepsSignals DEF TaskStep
<1>5. ASSUME NEW h \in Helpers, HelperStep(h)
      PROVE  Signals'
  BY <1>5, HelperStepKeeps, KeepsSignals
<1>6. ASSUME NEW d \in Daemons, DaemonStep(d) \/ Crash(d)
      PROVE  Signals'
  BY <1>6, StartStep, LookForHelperStep, RunStep, TakeNameStep, InitializeStep, ReplayStep,
     RemoveSocketStep, BindStep, CrashStep, KeepsSignals DEF DaemonStep
<1> QED
  BY <1>1, <1>2, <1>3, <1>4, <1>5, <1>6 DEF Next

LEMMA StepListening ==
  ASSUME ~Overlap, Typed, Planned, Listening, [Next]_vars
  PROVE  Listening'
<1>1. CASE UNCHANGED vars
  BY <1>1, Stutter, KeepsListening
<1>2. ASSUME NEW h \in Hosts, Authenticate(h) \/ Chauthtok(h) \/ OpenSession(h) \/ HostExit(h)
      PROVE  Listening'
  BY <1>2, AuthenticateStep, CallStep, HostExitStep, KeepsListening
<1>3. ASSUME NEW s \in Senders, SenderStep(s)
      PROVE  Listening'
  BY <1>3, BeginStep, SendStep, FinishStep, KeepsListening DEF SenderStep
<1>4. ASSUME NEW s \in Senders, TaskStep(s)
      PROVE  Listening'
  BY <1>4, BufferStep, TryStep, ChangeStep, UpdateStep, KeepsListening DEF TaskStep
<1>5. ASSUME NEW h \in Helpers, HelperStep(h)
      PROVE  Listening'
  BY <1>5, HelperStepKeeps, KeepsListening
<1>6. ASSUME NEW d \in Daemons, DaemonStep(d) \/ Crash(d)
      PROVE  Listening'
  BY <1>6, StartStep, LookForHelperStep, RunStep, TakeNameStep, InitializeStep, ReplayStep,
     RemoveSocketStep, BindStep, CrashStep, KeepsListening DEF DaemonStep
<1> QED
  BY <1>1, <1>2, <1>3, <1>4, <1>5, <1>6 DEF Next

LEMMA StepBuffered ==
  ASSUME OneLogin, Typed, Planned, Buffered, [Next]_vars
  PROVE  Buffered'
<1>1. CASE UNCHANGED vars
  BY <1>1, Stutter, KeepsBuffer
<1>2. ASSUME NEW h \in Hosts, Authenticate(h) \/ Chauthtok(h) \/ OpenSession(h) \/ HostExit(h)
      PROVE  Buffered'
  BY <1>2, AuthenticateStep, CallStep, HostExitStep, KeepsBuffer
<1>3. ASSUME NEW s \in Senders, SenderStep(s)
      PROVE  Buffered'
  BY <1>3, BeginStep, SendStep, FinishStep, KeepsBuffer DEF SenderStep
<1>4. ASSUME NEW s \in Senders, TaskStep(s)
      PROVE  Buffered'
  BY <1>4, BufferStep, TryStep, ChangeStep, UpdateStep, KeepsBuffer DEF TaskStep
<1>5. ASSUME NEW h \in Helpers, HelperStep(h)
      PROVE  Buffered'
  BY <1>5, HelperStepKeeps, KeepsBuffer
<1>6. ASSUME NEW d \in Daemons, DaemonStep(d) \/ Crash(d)
      PROVE  Buffered'
  BY <1>6, StartStep, LookForHelperStep, RunStep, TakeNameStep, InitializeStep, ReplayStep,
     RemoveSocketStep, BindStep, CrashStep, KeepsBuffer DEF DaemonStep
<1> QED
  BY <1>1, <1>2, <1>3, <1>4, <1>5, <1>6 DEF Next

LEMMA InitHolds == Init => Planned /\ Signals /\ Listening /\ Buffered
<1> SUFFICES ASSUME Init PROVE Planned /\ Signals /\ Listening /\ Buffered
  OBVIOUS
<1>1. \A h \in Hosts : host[h].calls = CallsOf[h] /\ host[h].signals = "own"
  BY DEF Init
<1>2. \A h \in Hosts : <<h, "unlock">> \in Senders /\ <<h, "change">> \in Senders
  BY DEF Senders
<1>3. \A s \in Senders : sender[s].pc = "none"
  BY DEF Init
<1>4. Planned
  <2> SUFFICES ASSUME NEW h \in Hosts
               PROVE  /\ \A call \in PamCall : Pending(h, call) => Names(h, call)
                      /\ \A i, j \in DOMAIN host[h].calls :
                           host[h].calls[i] = host[h].calls[j] => i = j
                      /\ sender[<<h, "unlock">>].pc = "none" /\ sender[<<h, "change">>].pc = "none"
    BY DEF Planned
  <2>1. \A call \in PamCall : Pending(h, call) => Names(h, call)
    BY <1>1 DEF Pending, Names
  <2>2. \A i, j \in DOMAIN host[h].calls : host[h].calls[i] = host[h].calls[j] => i = j
    BY <1>1, LoginAssumption
  <2> QED
    BY <1>2, <1>3, <2>1, <2>2
<1>5. Signals
  BY <1>1, <1>2, <1>3 DEF Signals, Works, Ops
<1>6. Listening
  BY LoginAssumption DEF Init, Listening, Alive, Named
<1>7. Buffered
  BY DEF Init, Buffered
<1> QED
  BY <1>4, <1>5, <1>6, <1>7

-----------------------------------------------------------------------------
(* Theorems *)

LEMMA PlanHolds == Spec => [](Typed /\ Planned)
<1>1. Init => Typed /\ Planned
  BY InitTyped, InitHolds
<1>2. Typed /\ Planned /\ [Next]_vars => (Typed /\ Planned)'
  BY StepTyped
<1> QED
  BY <1>1, <1>2, PTL DEF Spec

\* The state has its types, whatever processes, daemons and helpers there are.
THEOREM LoginTypes == Spec => []TypeOK
BY PlanHolds, PTL DEF Typed

\* While a thread of a process of another user waits for its child, the signal handlers are the
\* module's, and when none does they are those that the process had, also when the messages of
\* open_session and chauthtok are under way together, as long as the thread that found the
\* handlers of the other one ends first: SavedSignals::new and its drop.
THEOREM SignalHandlersRestored == Spec /\ []InnerEndsFirst => []WellFormed
<1>1. Typed /\ Signals => WellFormed
  <2> SUFFICES ASSUME Typed, Signals PROVE SignalsRestored
    BY DEF Typed, WellFormed
  <2>1. ASSUME NEW h \in Hosts, host[h].running, h \notin SameUser
        PROVE  host[h].signals = IF \E op \in {"unlock", "change"} :
                                      sender[<<h, op>>].pc \notin {"none", "spawned", "done"}
                                 THEN "pam" ELSE "own"
    BY <2>1 DEF Signals, Works, Ops
  <2> QED
    BY <2>1 DEF SignalsRestored
<1>2. Init => Signals
  BY InitHolds
<1>3. Typed /\ Planned /\ Signals /\ InnerEndsFirst' /\ [Next]_vars => Signals'
  BY StepSignals
<1> QED
  BY <1>1, <1>2, <1>3, PlanHolds, PTL DEF Spec

\* A daemon that serves clients listens where the PAM module looks, if no second daemon is
\* started while it runs: PamListener::start.
THEOREM ServingDaemonListens == ASSUME ~Overlap PROVE Spec => []ListenerReachable
<1>1. Typed /\ Listening => ListenerReachable
  <2> SUFFICES ASSUME Typed, Listening, NEW d \in Daemons, busName = d, Alive(d),
                      daemon[d].listener \notin {"remove", "bind"}
               PROVE  pamSocket = d
    BY DEF ListenerReachable
  <2>1. daemon[d].listener \in {"none", "remove", "bind", "on", "failed"}
    BY Elements DEF Daemon
  <2>2. daemon[d].listener # "none" /\ daemon[d].listener # "failed"
    BY DEF Listening
  <2> QED
    BY <2>1, <2>2 DEF Listening
<1>2. Init => Listening
  BY InitHolds
<1>3. Typed /\ Planned /\ Listening /\ [Next]_vars => Listening'
  BY StepListening
<1> QED
  BY <1>1, <1>2, <1>3, PlanHolds, PTL DEF Spec

\* A password that came before the collections were there is tried on them, if one process
\* opens a session: the buffer of handle_unlock and its replay.
THEOREM BufferedIsTried == ASSUME OneLogin PROVE Spec => []ReceivedIsTried
<1>1. Typed /\ Buffered => ReceivedIsTried
  <2> SUFFICES ASSUME Typed, Buffered, NEW d \in Daemons, daemon[d].pc = "ready",
                      \A s \in Senders : task[s].daemon = d => task[s].pc # "try"
               PROVE  due[d] = {}
    BY DEF ReceivedIsTried
  <2>1. \A p \in due[d] : \E s \in Senders : Tries(s, d, p)
    BY DEF Buffered
  <2> QED
    BY <2>1 DEF Tries
<1>2. Init => Buffered
  BY InitHolds
<1>3. Typed /\ Planned /\ Buffered /\ [Next]_vars => Buffered'
  BY StepBuffered
<1> QED
  BY <1>1, <1>2, <1>3, PlanHolds, PTL DEF Spec

=============================================================================
