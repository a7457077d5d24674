----------------------------- MODULE KeyringStore -----------------------------
(***************************************************************************)
(* What a file-backed keyring promises its callers, without its locks, its *)
(* keys and the steps of a dump: a set of items in memory, a set of items  *)
(* in the file, and for every caller how far its call has come.            *)
(*                                                                         *)
(*   - only a call that edits changes the items in memory, once; changing  *)
(*     the secret does not;                                                *)
(*   - the file goes from one complete state of the memory to another;     *)
(*   - a call that answers Ok has saved the memory after its own edit;     *)
(*   - a crash leaves what was saved, a power loss at worst what had       *)
(*     reached the disk before.                                            *)
(***************************************************************************)
EXTENDS Naturals

CONSTANTS Tasks, Items, LegacyItems

VARIABLES
  mem,      \* the items in memory
  saved,    \* the items in the file
  flushed,  \* the items in the file after a power loss, at the latest
  kept,     \* whether there is a file to save to
  phase,    \* how far each call has come
  answer    \* how the last call of each task ended

vars == <<mem, saved, flushed, kept, phase, answer>>

Phase == {"idle", "reading", "editing", "keeping", "unsaved", "saved"}

Idle == \A t \in Tasks : phase[t] = "idle"

Init ==
  /\ saved \in SUBSET Items /\ mem = saved /\ flushed = saved
  /\ kept = FALSE
  /\ phase = [t \in Tasks |-> "idle"]
  /\ answer = [t \in Tasks |-> "none"]

Begin(t) ==
  /\ phase[t] = "idle"
  /\ \E p \in {"reading", "editing", "keeping"} : phase' = [phase EXCEPT ![t] = p]
  /\ answer' = [answer EXCEPT ![t] = "none"]
  /\ UNCHANGED <<mem, saved, flushed, kept>>

Edit(t) ==
  /\ phase[t] = "editing"
  /\ mem' \in SUBSET Items
  /\ phase' = [phase EXCEPT ![t] = "unsaved"]
  /\ UNCHANGED <<saved, flushed, kept, answer>>

Save(t) ==
  /\ kept
  /\ phase[t] \in {"unsaved", "keeping"}
  /\ saved' = mem
  /\ phase' = [phase EXCEPT ![t] = "saved"]
  /\ UNCHANGED <<mem, flushed, kept, answer>>

End(t, r) ==
  /\ phase' = [phase EXCEPT ![t] = "idle"]
  /\ answer' = [answer EXCEPT ![t] = r]
  /\ UNCHANGED <<saved, flushed, kept>>

\* Without a file there is nothing to save.
Succeed(t) ==
  /\ \/ phase[t] \in {"reading", "saved"} /\ UNCHANGED mem
     \/ ~kept /\ phase[t] \in {"unsaved", "keeping"} /\ UNCHANGED mem
     \/ ~kept /\ phase[t] = "editing" /\ mem' \in SUBSET Items
  /\ End(t, "ok")

\* An edit that fails half way may leave the memory changed.
Fail(t) ==
  /\ \/ phase[t] # "idle" /\ UNCHANGED mem
     \/ phase[t] = "editing" /\ mem' \in SUBSET Items
  /\ \E r \in {"err", "TargetFileChanged"} : End(t, r)

\* The keyring is opened, or given up, while nobody uses it.
Reopen ==
  /\ Idle
  /\ kept' \in BOOLEAN
  /\ \/ mem' = saved
     \/ saved = {} /\ mem' = LegacyItems
     \/ ~kept' /\ mem' = {}
  /\ UNCHANGED <<saved, flushed, phase, answer>>

Flush ==
  /\ flushed' = saved
  /\ UNCHANGED <<mem, saved, kept, phase, answer>>

Stop ==
  /\ saved' \in {saved, flushed}
  /\ flushed' \in {flushed, saved'}
  /\ mem' = saved' /\ kept' = FALSE
  /\ phase' = [t \in Tasks |-> "idle"]
  /\ answer' = [t \in Tasks |-> "none"]

Next ==
  \/ \E t \in Tasks : Begin(t) \/ Edit(t) \/ Save(t) \/ Succeed(t) \/ Fail(t)
  \/ Reopen \/ Flush \/ Stop

Spec == Init /\ [][Next]_vars
===============================================================================
