---------------------------- MODULE PromptContract ----------------------------
(* What a prompt promises its client: its action runs at most once, and at most *)
(* one Completed follows.  It tells of a result only after the action has       *)
(* succeeded and of a dismissal only if the action does not run; nothing is     *)
(* said of an action that fails.                                                *)

CONSTANT Prompts

VARIABLES state, told

Open(p) ==
  /\ state[p] = "none"
  /\ state' = [state EXCEPT ![p] = "open"]
  /\ UNCHANGED told

Run(p) ==
  /\ state[p] = "open" /\ told[p] = "none"
  /\ state' = [state EXCEPT ![p] = "running"]
  /\ UNCHANGED told

Finish(p) ==
  /\ state[p] = "running"
  /\ \E s \in {"done", "failed"} : state' = [state EXCEPT ![p] = s]
  /\ UNCHANGED told

TellResult(p) ==
  /\ state[p] = "done" /\ told[p] = "none"
  /\ told' = [told EXCEPT ![p] = "result"]
  /\ UNCHANGED state

TellDismissed(p) ==
  /\ state[p] = "open" /\ told[p] = "none"
  /\ told' = [told EXCEPT ![p] = "dismissed"]
  /\ UNCHANGED state

Init ==
  /\ state = [p \in Prompts |-> "none"]
  /\ told = [p \in Prompts |-> "none"]

Next ==
  \E p \in Prompts : Open(p) \/ Run(p) \/ Finish(p) \/ TellResult(p) \/ TellDismissed(p)

Spec == Init /\ [][Next]_<<state, told>>
===============================================================================
