---------------------------- MODULE PromptsProofs ----------------------------
(***************************************************************************)
(* What holds of Prompts for all values of its constants.                  *)
(***************************************************************************)
EXTENDS Prompts, TLAPS

DialogType == [at : DialogState, prompt : Prompts \cup {NoPrompt}, secret : Answers,
               caller : Clients]
ClientType == [at : ClientState, prompt : Prompts \cup {NoPrompt},
               reply : {"none", "ok", "wrong", "error"}, heard : {"none", "result", "dismissed"}]
CollectionType == [state : {"locked", "unlocked", "none"}, password : Answers,
                   broken : {"none", "some", "most"}]

\* Every dialog shows a prompt, and every call is of one.
Called ==
  \A c \in Clients : client[c].at \in {"check", "install"} => client[c].prompt \in Prompts

Shows == \A d \in Dialogs : dialog[d].at # "unused" => dialog[d].prompt \in Prompts

Prompted == Called /\ Shows

-----------------------------------------------------------------------------
(* Types *)

LEMMA SpendType ==
  ASSUME TypeOK, NEW k \in BudgetKeys, Spend(k)
  PROVE  budget' \in [BudgetKeys -> Nat]
BY DEF TypeOK, Spend

LEMMA MovesType ==
  ASSUME TypeOK, NEW d \in Dialogs, NEW at \in DialogState, DialogMoves(d, at)
  PROVE  dialog' \in [Dialogs -> DialogType]
<1>1. dialog \in [Dialogs -> DialogType]
  BY DEF TypeOK, DialogType
<1>2. [dialog[d] EXCEPT !.at = at] \in DialogType
  BY <1>1 DEF DialogType
<1> QED
  BY <1>1, <1>2 DEF DialogMoves

LEMMA ReplyType ==
  ASSUME TypeOK, NEW d \in Dialogs, NEW r \in {"ok", "wrong", "error"}, Reply(d, r)
  PROVE  client' \in [Clients -> ClientType]
<1>1. client \in [Clients -> ClientType] /\ dialog[d].caller \in Clients
  BY DEF TypeOK, ClientType
<1>2. \A c \in Clients : [client[c] EXCEPT !.at = "replied", !.reply = r] \in ClientType
  BY <1>1, ZenonT(30) DEF ClientType, ClientState
<1> QED
  BY <1>1, <1>2 DEF Reply

LEMMA FailType ==
  ASSUME TypeOK, NEW d \in Dialogs, Fail(d)
  PROVE  dialog' \in [Dialogs -> DialogType] /\ client' \in [Clients -> ClientType]
BY MovesType, ReplyType DEF Fail, DialogState

LEMMA InitType == Init => TypeOK
BY PromptsAssumption DEF Init, TypeOK, DialogState, ClientState, Answers

LEMMA RequestType ==
  ASSUME TypeOK, Lock \/ \E p \in Prompts : Request(p)
  PROVE  TypeOK'
<1>1. CASE Lock
  BY <1>1, SpendType DEF Lock, TypeOK, serviceVars, ghosts, BudgetKeys
<1>2. CASE \E p \in Prompts : Request(p)
  BY <1>2 DEF Request, RequestUnlock, RequestCreate, RequestChange, TypeOK, ghosts
<1> QED
  BY <1>1, <1>2

LEMMA WaitType ==
  ASSUME TypeOK, NEW c \in Clients,
         Return(c) \/ GiveUp(c) \/ RemovePrompt(c) \/ \E p \in Prompts : CallPrompt(c, p)
  PROVE  TypeOK'
<1>0. /\ client \in [Clients -> ClientType]
      /\ \A label \in ClientState : [client[c] EXCEPT !.at = label] \in ClientType
  <2>1. client \in [Clients -> ClientType]
    BY DEF TypeOK, ClientType
  <2> QED
    BY <2>1 DEF ClientType
<1>2. CASE \E p \in Prompts : CallPrompt(c, p)
  BY <1>2 DEF CallPrompt, TypeOK, ClientState, serviceVars, ghosts
<1>3. ASSUME NEW label \in ClientState, client' = [client EXCEPT ![c].at = label]
      PROVE  client' \in [Clients -> ClientType]
  BY <1>0, <1>3
<1>4. CASE Return(c)
  <2>1. client' \in [Clients -> ClientType]
    BY <1>3, <1>4 DEF Return, ClientState
  <2> QED
    BY <1>4, <2>1 DEF Return, TypeOK, ClientType, serviceVars, ghosts
<1>5. CASE GiveUp(c)
  <2>1. client' \in [Clients -> ClientType]
    BY <1>3, <1>5 DEF GiveUp, ClientState
  <2> QED
    BY <1>5, <2>1, SpendType DEF GiveUp, TypeOK, ClientType, serviceVars, ghosts, BudgetKeys
<1>6. CASE RemovePrompt(c)
  <2>1. client' \in [Clients -> ClientType]
    BY <1>3, <1>6 DEF RemovePrompt, ClientState
  <2> QED
    BY <1>6, <2>1 DEF RemovePrompt, TypeOK, ClientType, serviceVars, ghosts
<1> QED
  BY <1>2, <1>4, <1>5, <1>6

LEMMA CallType ==
  ASSUME TypeOK, NEW c \in Clients,
         \/ \E p \in Prompts : Dismiss(c, p)
         \/ Check(c) \/ \E d \in Dialogs : Install(c, d) \/ PromptCli(c, d)
  PROVE  TypeOK'
<1>0. /\ client \in [Clients -> ClientType] /\ dialog \in [Dialogs -> DialogType]
      /\ client[c].at \in {"check", "install"} =>
           client[c].prompt \in Prompts \cup {NoPrompt}
  BY DEF TypeOK, ClientType, DialogType
<1>1. ASSUME NEW p \in Prompts, Dismiss(c, p) PROVE TypeOK'
  <2>1. client' \in [Clients -> ClientType]
    <3>1. [client[c] EXCEPT !.at = "dismiss", !.prompt = p] \in ClientType
      BY <1>0 DEF ClientType, ClientState
    <3> QED
      BY <1>0, <1>1, <3>1 DEF Dismiss
  <2>2. dialog' \in [Dialogs -> DialogType]
    <3>1. \A e \in Dialogs : [dialog[e] EXCEPT !.at = "stop"] \in DialogType
      BY <1>0 DEF DialogType, DialogState
    <3>2. callback[p] # NoDialog => callback[p] \in Dialogs
      BY DEF TypeOK
    <3> QED
      BY <1>0, <1>1, <3>1, <3>2 DEF Dismiss
  <2>3. /\ exported' \subseteq Prompts /\ dismissed' \subseteq Prompts
        /\ budget' \in [BudgetKeys -> Nat]
    BY <1>1, SpendType DEF Dismiss, TypeOK, BudgetKeys
  <2>4. UNCHANGED <<prompter, registered, pending, action, callback, served, spawned,
                    collection, created, outcome, emitted, executed>>
    BY <1>1 DEF Dismiss
  <2> QED
    BY <2>1, <2>2, <2>3, <2>4 DEF TypeOK, ClientType, DialogType
<1>2. CASE Check(c)
  <2>1. client' \in [Clients -> ClientType]
    <3>1. /\ [client[c] EXCEPT !.at = "replied", !.reply = "error"] \in ClientType
          /\ [client[c] EXCEPT !.at = "install"] \in ClientType
      BY <1>0 DEF ClientType, ClientState
    <3> QED
      BY <1>0, <1>2, <3>1 DEF Check
  <2> QED
    BY <1>2, <2>1 DEF Check, TypeOK, ClientType, serviceVars, ghosts
<1>3. ASSUME NEW d \in Dialogs, NEW at \in DialogState, Shown(c, d, at), client[c].prompt \in Prompts \cup {NoPrompt}
      PROVE  dialog' \in [Dialogs -> DialogType]
  <2>1. [at |-> at, prompt |-> client[c].prompt, secret |-> NoSecret, caller |-> c] \in DialogType
    BY <1>3 DEF DialogType, Answers
  <2> QED
    BY <1>0, <1>3, <2>1 DEF Shown
<1>4. ASSUME NEW d \in Dialogs, Install(c, d) PROVE TypeOK'
  <2>1. client' \in [Clients -> ClientType]
    <3>1. [client[c] EXCEPT !.at = "replied", !.reply = "ok"] \in ClientType
      BY <1>0 DEF ClientType, ClientState
    <3> QED
      BY <1>0, <1>4, <3>1 DEF Install
  <2>2. dialog' \in [Dialogs -> DialogType]
    BY <1>0, <1>3, <1>4 DEF Install, DialogState
  <2> QED
    BY <1>4, <2>1, <2>2, ZenonT(60) DEF Install, TypeOK, ClientType, DialogType, serviceVars, ghosts
<1>5. ASSUME NEW d \in Dialogs, PromptCli(c, d) PROVE TypeOK'
  <2>1. client' \in [Clients -> ClientType]
    <3>1. [client[c] EXCEPT !.at = "cli"] \in ClientType
      BY <1>0 DEF ClientType, ClientState
    <3> QED
      BY <1>0, <1>5, <3>1 DEF PromptCli
  <2>2. dialog' \in [Dialogs -> DialogType]
    BY <1>0, <1>3, <1>5 DEF PromptCli, DialogState
  <2> QED
    BY <1>5, <2>1, <2>2 DEF PromptCli, TypeOK, ClientType, DialogType, serviceVars, ghosts
<1> QED
  BY <1>1, <1>2, <1>4, <1>5

LEMMA AskType ==
  ASSUME TypeOK, NEW d \in Dialogs,
         \/ Begin(d) \/ PrompterFails(d) \/ Reacts(d) \/ Lookup(d) \/ Garbled(d)
         \/ Validate(d) \/ ValidatePanics(d) \/ Take(d)
  PROVE  TypeOK'
<1>0. \A at \in DialogState : DialogMoves(d, at) => dialog' \in [Dialogs -> DialogType]
  BY MovesType
<1>1. ASSUME dialog' \in [Dialogs -> DialogType], client' \in [Clients -> ClientType],
             spawned' \in [Dialogs -> {"none", "result", "dismissed"}],
             action' \in [Prompts -> {"none", "set", "taken"}], budget' \in [BudgetKeys -> Nat],
             UNCHANGED <<prompter, serviceVars, callback, served, collection, ghosts>>
      PROVE  TypeOK'
  BY <1>1 DEF TypeOK, DialogType, ClientType, serviceVars, ghosts
<1>2. /\ client \in [Clients -> ClientType]
      /\ spawned \in [Dialogs -> {"none", "result", "dismissed"}]
      /\ action \in [Prompts -> {"none", "set", "taken"}] /\ budget \in [BudgetKeys -> Nat]
  BY DEF TypeOK, ClientType
<1>3. CASE Begin(d)
  BY <1>0, <1>1, <1>2, <1>3 DEF Begin, Start, PrompterInit, DialogState
<1>4. CASE PrompterFails(d)
  BY <1>1, <1>2, <1>4, FailType, SpendType DEF PrompterFails, BudgetKeys
<1>5. ASSUME NEW s \in Answers, Answer(d, s) PROVE TypeOK'
  <2>1. dialog' \in [Dialogs -> DialogType]
    <3>1. dialog \in [Dialogs -> DialogType]
      BY DEF TypeOK, DialogType
    <3>2. [dialog[d] EXCEPT !.at = "answer", !.secret = s] \in DialogType
      BY <3>1 DEF DialogType, DialogState
    <3> QED
      BY <1>5, <3>1, <3>2 DEF Answer
  <2> QED
    BY <1>1, <1>2, <1>5, <2>1, SpendType DEF Answer, BudgetKeys
<1>6. CASE Refuse(d)
  BY <1>0, <1>1, <1>2, <1>6, FailType DEF Refuse, PrompterDismissed, DialogState
<1>7. CASE Lookup(d)
  BY <1>0, <1>1, <1>2, <1>7, FailType DEF Lookup, DialogState
<1>8. CASE Garbled(d)
  BY <1>1, <1>2, <1>8, FailType, SpendType DEF Garbled, BudgetKeys
<1>9. CASE Validate(d)
  BY <1>0, <1>1, <1>2, <1>9, ReplyType DEF Validate, Retry, DialogState
<1>11. CASE ValidatePanics(d)
  BY <1>0, <1>1, <1>2, <1>11 DEF ValidatePanics, DialogState
<1>10. CASE Take(d)
  <2>1. action' \in [Prompts -> {"none", "set", "taken"}]
    BY <1>2, <1>10 DEF Take
  <2> QED
    BY <1>0, <1>1, <1>2, <1>10, <2>1, FailType DEF Take, DialogState
<1> QED
  BY <1>3, <1>4, <1>5, <1>6, <1>7, <1>8, <1>9, <1>10, <1>11 DEF Reacts

LEMMA RunType ==
  ASSUME TypeOK, Prompted, NEW d \in Dialogs,
         \/ ExecuteUnlock(d) \/ ExecuteChange(d) \/ ExecuteCreate(d) \/ Create(d)
         \/ ExecuteFails(d) \/ Emit(d) \/ PromptDone(d)
  PROVE  TypeOK'
<1>0. /\ \A at \in DialogState : DialogMoves(d, at) => dialog' \in [Dialogs -> DialogType]
      /\ client \in [Clients -> ClientType] /\ dialog \in [Dialogs -> DialogType]
  BY MovesType DEF TypeOK, ClientType, DialogType
<1>1. ASSUME NEW o \in {"done", "unchanged"}, Succeed(d, o)
      PROVE  /\ dialog' \in [Dialogs -> DialogType] /\ client' \in [Clients -> ClientType]
             /\ spawned' \in [Dialogs -> {"none", "result", "dismissed"}]
             /\ outcome' \in [Prompts -> {"none", "done", "unchanged", "failed"}]
             /\ executed' \subseteq Dialogs
  BY <1>0, <1>1, ReplyType DEF Succeed, TypeOK, DialogState
<1>2. ASSUME ActionFails(d)
      PROVE  /\ dialog' \in [Dialogs -> DialogType] /\ client' \in [Clients -> ClientType]
             /\ spawned' = spawned
             /\ outcome' \in [Prompts -> {"none", "done", "unchanged", "failed"}]
             /\ executed' \subseteq Dialogs
  BY <1>2, FailType DEF ActionFails, TypeOK
<1>3. ASSUME dialog' \in [Dialogs -> DialogType], client' \in [Clients -> ClientType],
             spawned' \in [Dialogs -> {"none", "result", "dismissed"}],
             outcome' \in [Prompts -> {"none", "done", "unchanged", "failed"}],
             executed' \subseteq Dialogs, created' \subseteq Prompts, pending' \subseteq Prompts,
             collection' \in CollectionType,
             budget' \in [BudgetKeys -> Nat],
             UNCHANGED <<prompter, registered, exported, action, callback, served, emitted,
                         dismissed>>
      PROVE  TypeOK'
  BY <1>3 DEF TypeOK, DialogType, ClientType, CollectionType
<1>4. CASE ExecuteUnlock(d)
  <2>1. collection' \in CollectionType
    <3>1. collection \in CollectionType
      BY DEF TypeOK, CollectionType
    <3>2. Unlocked(dialog[d].secret) \in {"locked", "unlocked", "none"}
      BY <3>1 DEF Unlocked, CollectionType
    <3> QED
      BY <1>4, <3>1, <3>2 DEF ExecuteUnlock, CollectionType
  <2>2. PICK o \in {"done", "unchanged"} : Succeed(d, o)
    BY <1>4 DEF ExecuteUnlock
  <2>3. UNCHANGED <<pending, created, budget>> /\ TypeOK
    BY <1>4 DEF ExecuteUnlock, serviceVars
  <2> QED
    BY <1>1, <1>3, <1>4, <2>1, <2>2, <2>3 DEF ExecuteUnlock, serviceVars, TypeOK
<1>5. CASE ExecuteChange(d)
  <2>1. collection' \in CollectionType
    BY <1>0, <1>5 DEF ExecuteChange, TypeOK, DialogType, CollectionType
  <2>2. Succeed(d, "done") \/ ActionFails(d)
    BY <1>5 DEF ExecuteChange
  <2> QED
    BY <1>1, <1>2, <1>3, <1>5, <2>1, <2>2 DEF ExecuteChange, serviceVars, TypeOK, CollectionType
<1>6. CASE ExecuteCreate(d)
  <2>1. CASE ActionFails(d)
    BY <1>2, <1>3, <1>6, <2>1 DEF ExecuteCreate, serviceVars, TypeOK, CollectionType
  <2>2. CASE DialogMoves(d, "create") /\ UNCHANGED <<client, spawned, outcome, executed>>
    BY <1>0, <1>3, <1>6, <2>2 DEF ExecuteCreate, serviceVars, TypeOK, CollectionType, DialogState
  <2> QED
    BY <1>6, <2>1, <2>2 DEF ExecuteCreate
<1>7. CASE Create(d)
  <2>1. Succeed(d, "done") /\ created' \subseteq Prompts /\ pending' \subseteq Prompts
    <3>1. dialog[d].prompt \in Prompts
      BY <1>7 DEF Create, Prompted, Shows
    <3> QED
      BY <1>7, <3>1 DEF Create, TypeOK
  <2>2. UNCHANGED <<collection, budget>> /\ TypeOK
    BY <1>7 DEF Create
  <2> QED
    BY <1>1, <1>3, <1>7, <2>1, <2>2 DEF Create, TypeOK, CollectionType
<1>8. CASE ExecuteFails(d)
  <2>1. budget' \in [BudgetKeys -> Nat] /\ ActionFails(d)
    BY <1>8, SpendType DEF ExecuteFails, BudgetKeys
  <2>2. UNCHANGED <<pending, created, collection>> /\ TypeOK
    BY <1>8 DEF ExecuteFails, serviceVars
  <2> QED
    BY <1>2, <1>3, <1>8, <2>1, <2>2 DEF ExecuteFails, TypeOK, CollectionType, serviceVars
<1>9. CASE Emit(d)
  <2>0. spawned[d] \in {"none", "result", "dismissed"}
    BY DEF TypeOK
  <2>1. client' \in [Clients -> ClientType]
    <3>1. \A c \in Clients : [client[c] EXCEPT !.heard = spawned[d]] \in ClientType
      BY <1>0, <2>0 DEF ClientType
    <3> QED
      BY <1>0, <1>9, <3>1 DEF Emit
  <2>2. emitted' \in [Dialogs -> {"none", "result", "dismissed"}]
    BY <1>9, <2>0 DEF Emit, TypeOK
  <2> QED
    BY <1>9, <2>1, <2>2 DEF Emit, TypeOK, ClientType, serviceVars
<1>10. CASE PromptDone(d)
  <2>1. dialog' \in [Dialogs -> DialogType]
    BY <1>0, <1>10 DEF PromptDone, DialogState
  <2>2. /\ registered' \subseteq Prompts /\ exported' \subseteq Prompts /\ pending' \subseteq Prompts
        /\ served' \subseteq Dialogs
    BY <1>10 DEF PromptDone, TypeOK, serviceVars
  <2> QED
    BY <1>10, <2>1, <2>2 DEF PromptDone, TypeOK, DialogType, ghosts
<1> QED
  BY <1>4, <1>5, <1>6, <1>7, <1>8, <1>9, <1>10

LEMMA NextType == TypeOK /\ Prompted /\ [Next]_vars => TypeOK'
<1> SUFFICES ASSUME TypeOK, Prompted, [Next]_vars PROVE TypeOK'
  OBVIOUS
<1>1. CASE Lock \/ \E p \in Prompts : Request(p)
  BY <1>1, RequestType
<1>2. CASE \E c \in Clients, p \in Prompts : CallPrompt(c, p) \/ Dismiss(c, p)
  BY <1>2, WaitType, CallType
<1>3. CASE \E c \in Clients : Return(c) \/ GiveUp(c) \/ Serve(c)
  BY <1>3, WaitType, CallType DEF Serve
<1>4. CASE \E d \in Dialogs : \/ Proceed(d) \/ Reacts(d) \/ Emit(d)
                             \/ PrompterFails(d) \/ Garbled(d) \/ ExecuteFails(d)
  BY <1>4, AskType, RunType DEF Proceed
<1>5. CASE UNCHANGED vars
  BY <1>5 DEF vars, TypeOK
<1> QED
  BY <1>1, <1>2, <1>3, <1>4, <1>5 DEF Next

-----------------------------------------------------------------------------
(* What a step does to the dialogs and to the calls *)

Final == {"stop", "done", "dead"}

Runs(d) == dialog[d].at \in {"execute", "create"}

Ran(d) == Runs(d) \/ d \in executed

\* No call of Prompt is begun, and none advances.
NoCall ==
  \A c \in Clients : client'[c].at \in {"check", "install"} =>
    client'[c].at = client[c].at /\ client'[c].prompt = client[c].prompt

\* No dialog begins or ends, or begins or ends to run an action.
Steady ==
  \A d \in Dialogs :
    /\ dialog'[d].prompt = dialog[d].prompt
    /\ (Runs(d)' => Runs(d)) /\ (Runs(d) => Runs(d)')
    /\ dialog'[d].at = "unused" => dialog[d].at = "unused"
    /\ dialog[d].at = "unused" => dialog'[d].at = "unused"
    /\ dialog[d].at \in Final => dialog'[d].at \in Final

\* Most steps are quiet: no action is run, and no client told.
Quiet ==
  /\ Steady /\ NoCall
  /\ UNCHANGED <<prompter, callback, outcome, executed, emitted>>
  /\ \A p \in Prompts : action'[p] = action[p] \/ (action[p] = "none" /\ action'[p] = "set")
  /\ UNCHANGED action \/ \E p \in Prompts : action' = [action EXCEPT ![p] = "set"]
  /\ \A d \in Dialogs :
       \/ spawned'[d] = spawned[d]
       \/ /\ dialog[d].at = "ask" /\ dialog'[d].at = "stop" /\ prompter # "cli"
          /\ spawned'[d] = "dismissed"

\* The action of a dialog ends, with an outcome.
Ends(d, o) ==
  /\ Runs(d) /\ NoCall
  /\ UNCHANGED <<prompter, callback, action, emitted>>
  /\ dialog'[d].at \in Final /\ dialog'[d].prompt = dialog[d].prompt
  /\ \A e \in Dialogs \ {d} : dialog'[e] = dialog[e]
  /\ outcome' = [outcome EXCEPT ![dialog[d].prompt] = o]
  /\ executed' = executed \cup {d}
  /\ \/ o = "failed" /\ UNCHANGED spawned
     \/ o # "failed" /\ spawned' = [spawned EXCEPT ![d] = "result"]

LEMMA Moved ==
  ASSUME TypeOK, NEW d \in Dialogs, NEW at \in DialogState, DialogMoves(d, at)
  PROVE  /\ dialog'[d].at = at /\ dialog'[d].prompt = dialog[d].prompt
         /\ dialog'[d].secret = dialog[d].secret /\ dialog'[d].caller = dialog[d].caller
         /\ \A e \in Dialogs \ {d} : dialog'[e] = dialog[e]
<1>1. dialog \in [Dialogs -> DialogType]
  BY DEF TypeOK, DialogType
<1>2. dialog'[d] = [dialog[d] EXCEPT !.at = at] /\ dialog[d] \in DialogType
  BY <1>1 DEF DialogMoves
<1>3. /\ dialog'[d].at = at /\ dialog'[d].prompt = dialog[d].prompt
      /\ dialog'[d].secret = dialog[d].secret /\ dialog'[d].caller = dialog[d].caller
  BY <1>2 DEF DialogType
<1> QED
  BY <1>1, <1>3 DEF DialogMoves

LEMMA MovesSteady ==
  ASSUME TypeOK, NEW d \in Dialogs, NEW at \in DialogState \ {"unused"}, DialogMoves(d, at),
         dialog[d].at # "unused", dialog[d].at \in Final => at \in Final,
         Runs(d) => at \in {"execute", "create"}, at \in {"execute", "create"} => Runs(d)
  PROVE  Steady
<1>1. /\ dialog'[d].at = at /\ dialog'[d].prompt = dialog[d].prompt
      /\ \A e \in Dialogs \ {d} : dialog'[e] = dialog[e]
  BY Moved
<1> QED
  BY <1>1 DEF Steady, Runs

LEMMA ReplyNoCall ==
  ASSUME TypeOK, NEW d \in Dialogs, NEW r \in {"ok", "wrong", "error"}, Reply(d, r)
  PROVE  NoCall
<1>1. client \in [Clients -> ClientType] /\ dialog[d].caller \in Clients
  BY DEF TypeOK, ClientType
<1>2. ASSUME NEW c \in Clients
      PROVE  client'[c] = client[c] \/ client'[c].at = "replied"
  <2>1. CASE c = dialog[d].caller /\ prompter = "cli"
    <3>1. client'[c] = [client[c] EXCEPT !.at = "replied", !.reply = r]
      BY <1>1, <2>1 DEF Reply
    <3>2. client[c] \in ClientType
      BY <1>1
    <3> QED
      BY <3>1, <3>2 DEF ClientType
  <2> QED
    BY <1>1, <2>1 DEF Reply
<1> QED
  BY <1>2 DEF NoCall

LEMMA FailNoCall ==
  ASSUME TypeOK, NEW d \in Dialogs, Fail(d)
  PROVE  NoCall
BY ReplyNoCall DEF Fail

LEMMA ServiceQuiet ==
  ASSUME TypeOK, Lock \/ \E p \in Prompts : Request(p)
  PROVE  Quiet
BY DEF Lock, Request, Quiet, Steady, NoCall, Runs, TypeOK, ghosts

LEMMA WaitQuiet ==
  ASSUME TypeOK, NEW c \in Clients,
         Return(c) \/ GiveUp(c) \/ RemovePrompt(c) \/ \E p \in Prompts : Dismiss(c, p)
  PROVE  Quiet
<1>1. client \in [Clients -> ClientType]
  BY DEF TypeOK, ClientType
<1>2. \A e \in Clients \ {c} : client'[e] = client[e]
  BY <1>1 DEF Return, GiveUp, RemovePrompt, Dismiss
<1>3. client'[c].at \in {"idle", "dismiss"}
  <2>1. \/ client'[c] = [client[c] EXCEPT !.at = "idle"]
        \/ \E p \in Prompts : client'[c] = [client[c] EXCEPT !.at = "dismiss", !.prompt = p]
    BY <1>1 DEF Return, GiveUp, RemovePrompt, Dismiss
  <2>2. client[c] \in ClientType
    BY <1>1
  <2> QED
    BY <2>1, <2>2 DEF ClientType
<1>4. NoCall
  BY <1>2, <1>3 DEF NoCall
<1>5. UNCHANGED <<prompter, callback, outcome, executed, emitted, action, spawned>>
  BY DEF Return, GiveUp, RemovePrompt, Dismiss, ghosts
<1>6. Steady
  <2>1. CASE UNCHANGED dialog
    BY <2>1 DEF Steady, Runs
  <2>2. ASSUME NEW p \in Prompts, callback[p] # NoDialog, dialog[callback[p]].at = "ask",
               dialog' = [dialog EXCEPT ![callback[p]].at = "stop"]
        PROVE  Steady
    <3>1. callback[p] \in Dialogs
      BY <2>2 DEF TypeOK
    <3> QED
      BY <2>2, <3>1, MovesSteady DEF DialogMoves, DialogState, Final, Runs
  <2> QED
    BY <2>1, <2>2 DEF Return, GiveUp, RemovePrompt, Dismiss
<1> QED
  BY <1>4, <1>5, <1>6 DEF Quiet

\* The steps of a dialog before its action and after it.
LEMMA DialogQuiet ==
  ASSUME TypeOK, NEW d \in Dialogs,
         \/ Begin(d) \/ PrompterFails(d) \/ Reacts(d) \/ Lookup(d) \/ Garbled(d)
         \/ Validate(d) \/ ValidatePanics(d) \/ PromptDone(d)
  PROVE  Quiet
<1>1. UNCHANGED <<prompter, callback, outcome, executed, emitted, action>>
  BY DEF Begin, PrompterFails, Reacts, Refuse, Answer, Lookup, Garbled, Validate, ValidatePanics, PromptDone,
         ghosts
<1>2. dialog[d].at \in {"begin", "ask", "answer", "validate", "stop"}
  BY DEF Begin, PrompterFails, Reacts, Refuse, Answer, Lookup, Garbled, Validate, ValidatePanics, PromptDone
<1>3. ASSUME NEW at \in DialogState \ {"unused", "execute", "create"}, DialogMoves(d, at),
             dialog[d].at # "stop" \/ at \in Final
      PROVE  Steady
  BY <1>2, <1>3, MovesSteady DEF Runs, Final
<1>4. ASSUME Fail(d) PROVE Steady /\ NoCall
  BY <1>3, <1>4, FailNoCall DEF Fail, DialogState, Final
<1>5. UNCHANGED client => NoCall
  BY DEF NoCall
<1>6. Steady /\ NoCall
  <2>1. CASE Begin(d)
    BY <1>3, <1>5, <2>1 DEF Begin, Start, PrompterInit, DialogState
  <2>2. CASE PrompterFails(d) \/ Garbled(d)
    BY <1>4, <2>2 DEF PrompterFails, Garbled
  <2>3. CASE Refuse(d)
    BY <1>3, <1>4, <1>5, <2>3 DEF Refuse, PrompterDismissed, DialogState
  <2>4. ASSUME NEW s \in Answers, Answer(d, s) PROVE Steady /\ NoCall
    <3>1. dialog \in [Dialogs -> DialogType]
      BY DEF TypeOK, DialogType
    <3>2. dialog'[d] = [dialog[d] EXCEPT !.at = "answer", !.secret = s] /\ dialog[d] \in DialogType
      BY <2>4, <3>1 DEF Answer
    <3>3. dialog'[d].at = "answer" /\ dialog'[d].prompt = dialog[d].prompt
      BY <3>2 DEF DialogType
    <3>4. /\ \A e \in Dialogs \ {d} : dialog'[e] = dialog[e]
          /\ dialog[d].at = "ask" /\ UNCHANGED client
      BY <2>4, <3>1 DEF Answer
    <3> QED
      BY <1>5, <3>3, <3>4 DEF Steady, Runs, Final
  <2>5. CASE Lookup(d)
    BY <1>2, <1>3, <1>4, <1>5, <2>5 DEF Lookup, DialogState
  <2>6. CASE Validate(d)
    BY <1>3, <1>5, <2>6, ReplyNoCall DEF Validate, Retry, DialogState
  <2>8. CASE ValidatePanics(d)
    BY <1>2, <1>3, <1>5, <2>8 DEF ValidatePanics, DialogState
  <2>7. CASE PromptDone(d)
    BY <1>3, <1>5, <2>7 DEF PromptDone, DialogState, Final
  <2> QED
    BY <2>1, <2>2, <2>3, <2>4, <2>5, <2>6, <2>7, <2>8 DEF Reacts
<1>7. \/ UNCHANGED spawned
      \/ /\ dialog[d].at = "ask" /\ dialog'[d].at = "stop" /\ prompter # "cli"
         /\ spawned' = [spawned EXCEPT ![d] = "dismissed"]
  <2>1. CASE PrompterDismissed(d) /\ Refuse(d) /\ prompter # "cli"
    BY <2>1, Moved DEF PrompterDismissed, Refuse, DialogState
  <2> QED
    BY <2>1 DEF Begin, PrompterFails, Reacts, Refuse, Answer, Lookup, Garbled, Validate, ValidatePanics,
                PromptDone
<1> QED
  BY <1>1, <1>6, <1>7 DEF Quiet, TypeOK

LEMMA TakeQuiet ==
  ASSUME TypeOK, NEW d \in Dialogs, Take(d), action[dialog[d].prompt] # "set"
  PROVE  Quiet
<1>1. Fail(d) /\ dialog[d].at = "take"
  BY DEF Take
<1>2. Steady
  BY <1>1, MovesSteady DEF Fail, DialogState, Final, Runs
<1> QED
  BY <1>1, <1>2, FailNoCall DEF Take, Quiet, ghosts

LEMMA TakeEffect ==
  ASSUME TypeOK, NEW d \in Dialogs, Take(d), action[dialog[d].prompt] = "set"
  PROVE  /\ dialog[d].at = "take" /\ dialog'[d].at = "execute"
         /\ dialog'[d].prompt = dialog[d].prompt
         /\ \A e \in Dialogs \ {d} : dialog'[e] = dialog[e]
         /\ NoCall /\ action' = [action EXCEPT ![dialog[d].prompt] = "taken"]
         /\ UNCHANGED <<prompter, callback, outcome, executed, emitted, spawned>>
BY Moved DEF Take, NoCall, DialogState, ghosts

LEMMA ExecuteEffect ==
  ASSUME TypeOK, NEW d \in Dialogs,
         \/ ExecuteUnlock(d) \/ ExecuteChange(d) \/ ExecuteCreate(d) \/ Create(d)
         \/ ExecuteFails(d)
  PROVE  Quiet \/ \E o \in {"done", "unchanged", "failed"} : Ends(d, o)
<1>1. Runs(d) /\ UNCHANGED <<prompter, callback, action, emitted>>
  BY DEF ExecuteUnlock, ExecuteChange, ExecuteCreate, Create, ExecuteFails, Runs
<1>2. ASSUME NEW o \in {"done", "unchanged"}, Succeed(d, o) PROVE Ends(d, o)
  BY <1>1, <1>2, ReplyNoCall, Moved DEF Succeed, Ends, DialogState, Final
<1>3. ASSUME ActionFails(d) PROVE Ends(d, "failed")
  BY <1>1, <1>3, FailNoCall, Moved DEF ActionFails, Fail, Ends, DialogState, Final
<1>4. ASSUME DialogMoves(d, "create"), UNCHANGED <<client, spawned, outcome, executed>>
      PROVE  Quiet
  <2>1. Steady
    BY <1>1, <1>4, MovesSteady DEF Runs, DialogState, Final
  <2> QED
    BY <1>1, <1>4, <2>1 DEF Quiet, NoCall
<1> QED
  BY <1>2, <1>3, <1>4
     DEF ExecuteUnlock, ExecuteChange, ExecuteCreate, Create, ExecuteFails

LEMMA EmitEffect ==
  ASSUME TypeOK, NEW d \in Dialogs, Emit(d)
  PROVE  /\ spawned[d] # "none" /\ emitted[d] = "none"
         /\ emitted' = [emitted EXCEPT ![d] = spawned[d]]
         /\ NoCall
         /\ UNCHANGED <<dialog, prompter, callback, outcome, executed, spawned, action>>
<1>1. client \in [Clients -> ClientType]
  BY DEF TypeOK, ClientType
<1>2. \A c \in Clients : client'[c].at = client[c].at /\ client'[c].prompt = client[c].prompt
  <2> TAKE c \in Clients
  <2>1. client'[c] = client[c] \/ client'[c] = [client[c] EXCEPT !.heard = spawned[d]]
    BY DEF Emit
  <2>2. client[c] \in ClientType
    BY <1>1
  <2> QED
    BY <2>1, <2>2 DEF ClientType
<1> QED
  BY <1>2 DEF Emit, NoCall

\* A call of Prompt begins, or gets past its check.
LEMMA CallEffect ==
  ASSUME TypeOK, NEW c \in Clients, Check(c) \/ \E p \in Prompts : CallPrompt(c, p)
  PROVE  /\ \A e \in Clients \ {c} : client'[e] = client[e]
         /\ client'[c].at \in {"check", "install"} =>
              \/ client[c].at = "check" /\ client'[c].prompt = client[c].prompt
              \/ /\ client'[c].prompt \in Prompts /\ action[client'[c].prompt] # "none"
                 /\ c \in CallersOf[client'[c].prompt]
         /\ client'[c].at = "install" => prompter = "cli" \/ callback[client'[c].prompt] = NoDialog
         /\ UNCHANGED <<dialog, prompter, callback, outcome, executed, emitted, spawned, action>>
<1>1. client \in [Clients -> ClientType]
  BY DEF TypeOK, ClientType
<1>2. CASE Check(c)
  <2>1. IF prompter # "cli" /\ callback[client[c].prompt] # NoDialog
        THEN client'[c] = [client[c] EXCEPT !.at = "replied", !.reply = "error"]
        ELSE client'[c] = [client[c] EXCEPT !.at = "install"]
    BY <1>1, <1>2 DEF Check
  <2>2. client[c] \in ClientType
    BY <1>1
  <2>3. /\ client'[c].prompt = client[c].prompt
        /\ client'[c].at = "install" => prompter = "cli" \/ callback[client'[c].prompt] = NoDialog
    BY <2>1, <2>2 DEF ClientType
  <2> QED
    BY <1>1, <1>2, <2>3 DEF Check, ghosts
<1>3. ASSUME NEW p \in Prompts, CallPrompt(c, p)
      PROVE  /\ client'[c].prompt = p /\ client'[c].at # "install"
             /\ action[p] # "none" /\ c \in CallersOf[p]
             /\ \A e \in Clients \ {c} : client'[e] = client[e]
             /\ UNCHANGED <<dialog, prompter, callback, outcome, executed, emitted, spawned,
                            action>>
  BY <1>1, <1>3 DEF CallPrompt, ghosts
<1> QED
  BY <1>2, <1>3

\* A call shows a new dialog.
LEMMA ShowEffect ==
  ASSUME TypeOK, NEW c \in Clients, NEW d \in Dialogs, Install(c, d) \/ PromptCli(c, d)
  PROVE  /\ client[c].at = "install" /\ dialog[d].at = "unused"
         /\ dialog'[d].at \in {"begin", "ask"} /\ dialog'[d].prompt = client[c].prompt
         /\ \A e \in Dialogs \ {d} : dialog'[e] = dialog[e]
         /\ NoCall /\ client'[c].at \notin {"check", "install"}
         /\ UNCHANGED <<prompter, action, outcome, executed, emitted, spawned>>
         /\ prompter # "cli" =>
              callback' = [callback EXCEPT ![client[c].prompt] = IF @ = NoDialog THEN d ELSE @]
<1>1. client \in [Clients -> ClientType] /\ dialog \in [Dialogs -> DialogType]
  BY DEF TypeOK, ClientType, DialogType
<1>2. PICK at \in {"begin", "ask"} : Shown(c, d, at)
  BY DEF Install, PromptCli
<1>3. /\ dialog'[d] = [at |-> at, prompt |-> client[c].prompt, secret |-> NoSecret, caller |-> c]
      /\ \A e \in Dialogs \ {d} : dialog'[e] = dialog[e]
  BY <1>1, <1>2 DEF Shown
<1>4. \A e \in Clients \ {c} : client'[e] = client[e]
  BY <1>1 DEF Install, PromptCli
<1>5. client'[c].at \in {"replied", "cli"}
  <2>1. \/ client'[c] = [client[c] EXCEPT !.at = "replied", !.reply = "ok"]
        \/ client'[c] = [client[c] EXCEPT !.at = "cli"]
    BY <1>1 DEF Install, PromptCli
  <2>2. client[c] \in ClientType
    BY <1>1
  <2> QED
    BY <2>1, <2>2 DEF ClientType
<1>6. NoCall
  BY <1>4, <1>5 DEF NoCall
<1> QED
  BY <1>2, <1>3, <1>5, <1>6 DEF Install, PromptCli, ghosts

-----------------------------------------------------------------------------
(* Actions run once *)

\* Who runs an action has taken it, and nobody takes what is taken.
Taken ==
  \A d \in Dialogs :
    /\ Ran(d) => action[dialog[d].prompt] = "taken"
    /\ d \in executed => dialog[d].at \in Final

Once ==
  \A d, e \in Dialogs : Ran(d) /\ Ran(e) /\ dialog[d].prompt = dialog[e].prompt => d = e

RanInv == Prompted /\ Taken /\ Once

LEMMA InitRan == Init => TypeOK /\ RanInv
BY InitType, PromptsAssumption DEF Init, RanInv, Prompted, Called, Shows, Taken, Once, Ran, Runs

LEMMA NoCallCalled ==
  ASSUME RanInv, NoCall
  PROVE  Called'
BY DEF NoCall, RanInv, Prompted, Called

LEMMA QuietRan ==
  ASSUME TypeOK, RanInv, Quiet
  PROVE  RanInv'
<1>1. Prompted'
  BY NoCallCalled DEF Quiet, Steady, RanInv, Prompted, Shows
<1>2. \A d \in Dialogs : Ran(d)' => /\ Ran(d) /\ dialog[d].prompt \in Prompts
                                    /\ dialog'[d].prompt = dialog[d].prompt
  BY DEF Quiet, Steady, RanInv, Taken, Prompted, Shows, Ran, Runs, Final
<1>3. Taken'
  BY <1>2 DEF Quiet, Steady, RanInv, Taken
<1>4. Once'
  BY <1>2 DEF RanInv, Once
<1> QED
  BY <1>1, <1>3, <1>4 DEF RanInv

LEMMA SameRan ==
  ASSUME RanInv, Called', UNCHANGED <<dialog, executed, action>>
  PROVE  RanInv'
BY DEF RanInv, Prompted, Shows, Taken, Once, Ran, Runs

LEMMA CallRan ==
  ASSUME TypeOK, RanInv, NEW c \in Clients, Check(c) \/ \E p \in Prompts : CallPrompt(c, p)
  PROVE  RanInv'
<1>1. Called'
  BY CallEffect DEF RanInv, Prompted, Called
<1> QED
  BY <1>1, CallEffect, SameRan

LEMMA ShowRan ==
  ASSUME TypeOK, RanInv, NEW c \in Clients, NEW d \in Dialogs, Install(c, d) \/ PromptCli(c, d)
  PROVE  RanInv'
<1>1. /\ client[c].at = "install" /\ dialog[d].at = "unused"
      /\ dialog'[d].at \in {"begin", "ask"} /\ dialog'[d].prompt = client[c].prompt
      /\ \A e \in Dialogs \ {d} : dialog'[e] = dialog[e]
      /\ NoCall /\ UNCHANGED <<action, executed>>
  BY ShowEffect
<1>2. d \notin executed
  BY <1>1 DEF RanInv, Taken, Final
<1>3. Prompted'
  BY <1>1, NoCallCalled DEF RanInv, Prompted, Shows, Called
<1>4. \A e \in Dialogs : Ran(e)' => Ran(e) /\ e # d
  BY <1>1, <1>2 DEF Ran, Runs
<1>5. Taken'
  BY <1>1, <1>2, <1>4 DEF RanInv, Taken
<1>6. Once'
  BY <1>1, <1>4 DEF RanInv, Once
<1> QED
  BY <1>3, <1>5, <1>6 DEF RanInv

\* Only one dialog finds the action.
LEMMA TakeRan ==
  ASSUME TypeOK, RanInv, NEW d \in Dialogs, Take(d), action[dialog[d].prompt] = "set"
  PROVE  RanInv'
<1> DEFINE p == dialog[d].prompt
<1>1. /\ dialog[d].at = "take" /\ dialog'[d].at = "execute" /\ dialog'[d].prompt = p
      /\ \A e \in Dialogs \ {d} : dialog'[e] = dialog[e]
      /\ NoCall /\ action' = [action EXCEPT ![p] = "taken"] /\ executed' = executed
  BY TakeEffect
<1>2. p \in Prompts
  BY <1>1 DEF RanInv, Prompted, Shows
<1>3. /\ action'[p] = "taken"
      /\ \A q \in Prompts : action[q] = "taken" => action'[q] = "taken"
  BY <1>1, <1>2 DEF TypeOK
<1>4. \A e \in Dialogs : Ran(e) => dialog[e].prompt # p
  BY DEF RanInv, Taken
<1>5. d \notin executed
  BY <1>1 DEF RanInv, Taken, Final
<1>6. \A e \in Dialogs : Ran(e)' => e = d \/ Ran(e)
  BY <1>1 DEF Ran, Runs
<1>7. \A e \in Dialogs : dialog'[e].prompt = dialog[e].prompt
  BY <1>1
<1>8. \A e \in Dialogs : Ran(e) => dialog[e].prompt \in Prompts
  BY DEF RanInv, Prompted, Shows, Taken, Ran, Runs, Final
<1>9. Prompted'
  BY <1>1, <1>2, NoCallCalled DEF RanInv, Prompted, Shows
<1>10. Taken'
  <2>1. \A e \in Dialogs : Ran(e)' => action'[dialog'[e].prompt] = "taken"
    BY <1>3, <1>6, <1>7, <1>8 DEF RanInv, Taken
  <2>2. \A e \in Dialogs : e \in executed' => dialog'[e].at \in Final
    BY <1>1, <1>5 DEF RanInv, Taken
  <2> QED
    BY <2>1, <2>2 DEF Taken
<1>11. Once'
  BY <1>4, <1>6, <1>7 DEF RanInv, Once
<1> QED
  BY <1>9, <1>10, <1>11 DEF RanInv

LEMMA EndsRan ==
  ASSUME TypeOK, RanInv, NEW d \in Dialogs, NEW o \in {"done", "unchanged", "failed"}, Ends(d, o)
  PROVE  RanInv'
<1>1. Prompted'
  BY NoCallCalled DEF Ends, RanInv, Prompted, Shows, Runs
<1>2. \A e \in Dialogs : dialog'[e].prompt = dialog[e].prompt /\ (Ran(e)' => Ran(e))
  BY DEF Ends, Ran, Runs, Final
<1>3. Taken'
  BY <1>2 DEF Ends, RanInv, Taken
<1>4. Once'
  BY <1>2 DEF RanInv, Once
<1> QED
  BY <1>1, <1>3, <1>4 DEF RanInv

LEMMA EmitRan ==
  ASSUME TypeOK, RanInv, NEW d \in Dialogs, Emit(d)
  PROVE  RanInv'
BY EmitEffect, NoCallCalled, SameRan

\* The steps, by what they do.
StepKinds ==
  \/ Quiet
  \/ \E c \in Clients : Check(c) \/ \E p \in Prompts : CallPrompt(c, p)
  \/ \E c \in Clients, d \in Dialogs : Install(c, d) \/ PromptCli(c, d)
  \/ \E d \in Dialogs : Take(d) /\ action[dialog[d].prompt] = "set"
  \/ \E d \in Dialogs, o \in {"done", "unchanged", "failed"} : Ends(d, o)
  \/ \E d \in Dialogs : Emit(d)

LEMMA NextKinds ==
  ASSUME TypeOK, [Next]_vars
  PROVE  StepKinds
<1>1. CASE Lock \/ \E p \in Prompts : Request(p)
  BY <1>1, ServiceQuiet DEF StepKinds
<1>2. CASE \E c \in Clients, p \in Prompts : CallPrompt(c, p) \/ Dismiss(c, p)
  BY <1>2, WaitQuiet DEF StepKinds
<1>3. CASE \E c \in Clients : Return(c) \/ GiveUp(c) \/ Serve(c)
  BY <1>3, WaitQuiet DEF Serve, StepKinds
<1>4. ASSUME NEW d \in Dialogs,
             \/ Proceed(d) \/ Reacts(d) \/ Emit(d)
             \/ PrompterFails(d) \/ Garbled(d) \/ ExecuteFails(d)
      PROVE  StepKinds
  <2>1. CASE \/ ExecuteUnlock(d) \/ ExecuteChange(d) \/ ExecuteCreate(d) \/ Create(d)
             \/ ExecuteFails(d)
    BY <2>1, ExecuteEffect DEF StepKinds
  <2>2. CASE Take(d)
    BY <2>2, TakeQuiet DEF StepKinds
  <2>3. CASE Emit(d)
    BY <2>3 DEF StepKinds
  <2> QED
    BY <1>4, <2>1, <2>2, <2>3, DialogQuiet DEF Proceed, StepKinds
<1>5. CASE UNCHANGED vars
  BY <1>5 DEF vars, StepKinds, Quiet, Steady, NoCall, Runs, ghosts
<1> QED
  BY <1>1, <1>2, <1>3, <1>4, <1>5 DEF Next

LEMMA NextRan == TypeOK /\ RanInv /\ [Next]_vars => RanInv'
BY NextKinds, QuietRan, CallRan, ShowRan, TakeRan, EndsRan, EmitRan DEF StepKinds

LEMMA RanAlways == Spec => [](TypeOK /\ RanInv)
<1>1. TypeOK /\ RanInv /\ [Next]_vars => (TypeOK /\ RanInv)'
  BY NextType, NextRan DEF RanInv
<1> QED
  BY <1>1, InitRan, PTL DEF Spec

\* Types, and that no action runs twice: however many calls of Prompt there are, with
\* whatever prompter, whoever takes the action is the only one to run it.
THEOREM ActionsRunOnce == Spec => []WellFormed
<1>1. TypeOK /\ RanInv => WellFormed
  BY DEF RanInv, Once, Ran, WellFormed, ActionOnce, TypeOK
<1> QED
  BY <1>1, RanAlways, PTL

-----------------------------------------------------------------------------
(* The contract: what clients are told *)

\* Only the client that asked for a prompt calls it.
OwnCalls == \A p \in Prompts : CallersOf[p] \subseteq {OwnerOf[p]}

Outcomes ==
  /\ \A p \in Prompts : action[p] # "taken" => outcome[p] = "none"
  /\ \A p \in Prompts : action[p] = "taken" =>
       \E d \in Dialogs : Ran(d) /\ dialog[d].prompt = p
  /\ \A d \in Dialogs : /\ Runs(d) => outcome[dialog[d].prompt] = "none"
                        /\ d \in executed => outcome[dialog[d].prompt] # "none"

Asked ==
  /\ \A c \in Clients : client[c].at \in {"check", "install"} =>
       action[client[c].prompt] # "none" /\ c \in CallersOf[client[c].prompt]
  /\ \A d \in Dialogs : dialog[d].at # "unused" => action[dialog[d].prompt] # "none"

\* A dialog that ends with a signal has run its action, or was refused.
Spawned ==
  \A d \in Dialogs :
    /\ spawned[d] # "none" => dialog[d].at \in Final
    /\ spawned[d] = "result" =>
         d \in executed /\ outcome[dialog[d].prompt] \in {"done", "unchanged"}
    /\ spawned[d] = "dismissed" => prompter # "cli" /\ d \notin executed
    /\ emitted[d] # "none" => emitted[d] = spawned[d]

TellInv == Outcomes /\ Asked /\ Spawned

IInv == TypeOK /\ RanInv /\ TellInv

LEMMA InitTell == Init => TellInv
BY PromptsAssumption
   DEF Init, TellInv, Outcomes, Asked, Spawned, Ran, Runs, Final

LEMMA QuietTell ==
  ASSUME IInv, Quiet
  PROVE  TellInv'
<1>1. /\ NoCall /\ UNCHANGED <<prompter, callback, outcome, executed, emitted>>
      /\ \A d \in Dialogs : dialog'[d].prompt = dialog[d].prompt
                            /\ (Ran(d)' => Ran(d)) /\ (Ran(d) => Ran(d)')
                            /\ (Runs(d)' => Runs(d))
                            /\ (dialog'[d].at # "unused" => dialog[d].at # "unused")
                            /\ (dialog[d].at \in Final => dialog'[d].at \in Final)
      /\ \A p \in Prompts : action'[p] = action[p] \/ (action[p] = "none" /\ action'[p] = "set")
  BY DEF Quiet, Steady, Ran
<1>2. /\ \A d \in Dialogs : dialog[d].at # "unused" => dialog[d].prompt \in Prompts
      /\ \A c \in Clients : client[c].at \in {"check", "install"} => client[c].prompt \in Prompts
  BY DEF IInv, RanInv, Prompted, Shows, Called
<1>3. Outcomes'
  BY <1>1, <1>2 DEF IInv, TellInv, Outcomes
<1>4. Asked'
  BY <1>1, <1>2 DEF IInv, TellInv, Asked, NoCall
<1>5. Spawned'
  <2> SUFFICES ASSUME NEW d \in Dialogs
               PROVE  /\ spawned'[d] # "none" => dialog'[d].at \in Final
                      /\ spawned'[d] = "result" =>
                           d \in executed /\ outcome[dialog[d].prompt] \in {"done", "unchanged"}
                      /\ spawned'[d] = "dismissed" => prompter # "cli" /\ d \notin executed
                      /\ emitted[d] # "none" => emitted[d] = spawned'[d]
    BY <1>1 DEF Spawned
  <2>1. CASE spawned'[d] = spawned[d]
    BY <1>1, <2>1 DEF IInv, TellInv, Spawned
  <2>2. CASE /\ dialog[d].at = "ask" /\ dialog'[d].at = "stop" /\ prompter # "cli"
             /\ spawned'[d] = "dismissed"
    <3>1. d \notin executed /\ emitted[d] = "none"
      BY <2>2 DEF IInv, RanInv, Taken, TellInv, Spawned, Final
    <3> QED
      BY <2>2, <3>1 DEF Final
  <2> QED
    BY <2>1, <2>2 DEF Quiet
<1> QED
  BY <1>3, <1>4, <1>5 DEF TellInv

LEMMA CallTell ==
  ASSUME IInv, NEW c \in Clients, Check(c) \/ \E p \in Prompts : CallPrompt(c, p)
  PROVE  TellInv'
<1>1. /\ \A e \in Clients \ {c} : client'[e] = client[e]
      /\ client'[c].at \in {"check", "install"} =>
           \/ client[c].at = "check" /\ client'[c].prompt = client[c].prompt
           \/ action[client'[c].prompt] # "none" /\ c \in CallersOf[client'[c].prompt]
      /\ client'[c].at = "install" => prompter = "cli" \/ callback[client'[c].prompt] = NoDialog
      /\ UNCHANGED <<dialog, prompter, callback, outcome, executed, emitted, spawned, action>>
  BY CallEffect DEF IInv
<1>2. Outcomes' /\ Spawned'
  BY <1>1 DEF IInv, TellInv, Outcomes, Spawned, Ran, Runs
<1>3. Asked'
  BY <1>1 DEF IInv, TellInv, Asked
<1> QED
  BY <1>2, <1>3 DEF TellInv

LEMMA ShowTell ==
  ASSUME IInv, NEW c \in Clients, NEW d \in Dialogs, Install(c, d) \/ PromptCli(c, d)
  PROVE  TellInv'
<1> DEFINE p == client[c].prompt
<1>1. /\ client[c].at = "install" /\ dialog[d].at = "unused"
      /\ dialog'[d].at \in {"begin", "ask"} /\ dialog'[d].prompt = p
      /\ \A e \in Dialogs \ {d} : dialog'[e] = dialog[e]
      /\ NoCall /\ client'[c].at \notin {"check", "install"}
      /\ UNCHANGED <<prompter, action, outcome, executed, emitted, spawned>>
      /\ prompter # "cli" => callback' = [callback EXCEPT ![p] = IF @ = NoDialog THEN d ELSE @]
  BY ShowEffect DEF IInv
<1>2. /\ p \in Prompts /\ action[p] # "none"
      /\ \A e \in Dialogs : dialog[e].at # "unused" => dialog[e].prompt \in Prompts
  BY <1>1 DEF IInv, RanInv, Prompted, Called, Shows, TellInv, Asked
<1>3. ~Ran(d) /\ ~Ran(d)' /\ spawned[d] = "none" /\ emitted[d] = "none" /\ d \notin executed
  BY <1>1 DEF Ran, Runs, IInv, RanInv, Taken, TellInv, Spawned, Final
<1>4. \A e \in Dialogs \ {d} : (Ran(e) => Ran(e)') /\ (Runs(e)' => Runs(e))
  BY <1>1 DEF Ran, Runs
<1>5. Outcomes'
  BY <1>1, <1>3, <1>4 DEF IInv, TellInv, Outcomes, Ran
<1>6. Asked'
  BY <1>1, <1>2 DEF IInv, TellInv, Asked, NoCall
<1>7. Spawned'
  BY <1>1, <1>3 DEF IInv, TellInv, Spawned
<1> QED
  BY <1>5, <1>6, <1>7 DEF TellInv

LEMMA TakeTell ==
  ASSUME IInv, NEW d \in Dialogs, Take(d), action[dialog[d].prompt] = "set"
  PROVE  TellInv'
<1> DEFINE p == dialog[d].prompt
<1>1. /\ dialog[d].at = "take" /\ dialog'[d].at = "execute" /\ dialog'[d].prompt = p
      /\ \A e \in Dialogs \ {d} : dialog'[e] = dialog[e]
      /\ NoCall /\ action' = [action EXCEPT ![p] = "taken"]
      /\ UNCHANGED <<prompter, callback, outcome, executed, emitted, spawned>>
  BY TakeEffect DEF IInv
<1>2. /\ p \in Prompts
      /\ \A e \in Dialogs : dialog[e].at # "unused" => dialog[e].prompt \in Prompts
      /\ \A c \in Clients : client[c].at \in {"check", "install"} => client[c].prompt \in Prompts
  BY <1>1 DEF IInv, RanInv, Prompted, Shows, Called
<1>3. action'[p] = "taken" /\ \A q \in Prompts \ {p} : action'[q] = action[q]
  BY <1>1, <1>2 DEF IInv, TypeOK
<1>4. /\ outcome[p] = "none" /\ spawned[d] = "none" /\ emitted[d] = "none" /\ d \notin executed
  BY <1>1, <1>2 DEF IInv, TellInv, Outcomes, Spawned, RanInv, Taken, Final
<1>5. /\ Ran(d)' /\ \A e \in Dialogs : dialog'[e].prompt = dialog[e].prompt
      /\ \A e \in Dialogs : Ran(e) => Ran(e)'
      /\ \A e \in Dialogs \ {d} : Runs(e)' => Runs(e)
  BY <1>1 DEF Ran, Runs
<1>6. Outcomes'
  <2>1. \A q \in Prompts : action'[q] # "taken" => outcome[q] = "none"
    BY <1>3 DEF IInv, TellInv, Outcomes
  <2>2. \A q \in Prompts : action'[q] = "taken" =>
          \E e \in Dialogs : Ran(e)' /\ dialog'[e].prompt = q
    BY <1>3, <1>5 DEF IInv, TellInv, Outcomes
  <2>3. \A e \in Dialogs : /\ Runs(e)' => outcome[dialog'[e].prompt] = "none"
                           /\ e \in executed => outcome[dialog'[e].prompt] # "none"
    BY <1>4, <1>5 DEF IInv, TellInv, Outcomes
  <2> QED
    BY <1>1, <2>1, <2>2, <2>3 DEF Outcomes
<1>7. Asked'
  BY <1>1, <1>2, <1>3 DEF IInv, TellInv, Asked, NoCall
<1>8. Spawned'
  BY <1>1, <1>4 DEF IInv, TellInv, Spawned
<1> QED
  BY <1>6, <1>7, <1>8 DEF TellInv

LEMMA EndsTell ==
  ASSUME IInv, NEW d \in Dialogs, NEW o \in {"done", "unchanged", "failed"}, Ends(d, o)
  PROVE  TellInv'
<1> DEFINE p == dialog[d].prompt
<1>1. /\ Runs(d) /\ ~Runs(d)' /\ Ran(d)' /\ dialog'[d].at \in Final
      /\ \A e \in Dialogs \ {d} : dialog'[e] = dialog[e]
      /\ \A e \in Dialogs : dialog'[e].prompt = dialog[e].prompt
      /\ NoCall /\ outcome' = [outcome EXCEPT ![p] = o] /\ executed' = executed \cup {d}
      /\ UNCHANGED <<prompter, callback, action, emitted>>
  BY DEF Ends, Runs, Ran, Final
<1>2. p \in Prompts /\ action[p] = "taken" /\ outcome[p] = "none" /\ d \notin executed
  BY <1>1 DEF IInv, RanInv, Prompted, Shows, Taken, TellInv, Outcomes, Runs, Ran, Final
<1>3. outcome'[p] = o /\ \A q \in Prompts \ {p} : outcome'[q] = outcome[q]
  BY <1>1, <1>2 DEF IInv, TypeOK
<1>4. /\ \A e \in Dialogs : Ran(e) => Ran(e)'
      /\ \A e \in Dialogs \ {d} : (Runs(e)' => Runs(e)) /\ (e \in executed' => e \in executed)
  BY <1>1 DEF Ran, Runs
<1>5. \A e \in Dialogs \ {d} : Ran(e) => dialog[e].prompt \in Prompts \ {p}
  BY <1>1 DEF IInv, RanInv, Once, Prompted, Shows, Taken, Ran, Runs, Final
<1>6. Outcomes'
  <2>1. \A q \in Prompts : action'[q] # "taken" => outcome'[q] = "none"
    BY <1>1, <1>2, <1>3 DEF IInv, TellInv, Outcomes
  <2>2. \A q \in Prompts : action'[q] = "taken" =>
          \E e \in Dialogs : Ran(e)' /\ dialog'[e].prompt = q
    BY <1>1, <1>4 DEF IInv, TellInv, Outcomes
  <2>3. \A e \in Dialogs : /\ Runs(e)' => outcome'[dialog'[e].prompt] = "none"
                           /\ e \in executed' => outcome'[dialog'[e].prompt] # "none"
    BY <1>1, <1>3, <1>4, <1>5 DEF IInv, TellInv, Outcomes, Ran
  <2> QED
    BY <2>1, <2>2, <2>3 DEF Outcomes
<1>7. Asked'
  BY <1>1 DEF IInv, TellInv, Asked, NoCall, Runs, Final
<1>8. Spawned'
  <2>1. spawned[d] = "none" /\ emitted[d] = "none"
    BY <1>1 DEF IInv, TellInv, Spawned, Runs, Final
  <2>2. \A e \in Dialogs \ {d} : spawned'[e] = spawned[e]
    BY DEF Ends, IInv, TypeOK
  <2>3. spawned'[d] = "none" \/ (spawned'[d] = "result" /\ o # "failed")
    BY <2>1 DEF Ends, IInv, TypeOK
  <2>4. \A e \in Dialogs \ {d} : spawned[e] = "result" =>
          outcome'[dialog[e].prompt] \in {"done", "unchanged"}
    BY <1>3, <1>5 DEF IInv, TellInv, Spawned, Ran
  <2> QED
    BY <1>1, <1>3, <2>1, <2>2, <2>3, <2>4 DEF IInv, TellInv, Spawned
<1> QED
  BY <1>6, <1>7, <1>8 DEF TellInv

LEMMA EmitTell ==
  ASSUME IInv, NEW d \in Dialogs, Emit(d)
  PROVE  TellInv'
<1>1. /\ emitted' = [emitted EXCEPT ![d] = spawned[d]] /\ NoCall
      /\ UNCHANGED <<dialog, prompter, callback, outcome, executed, spawned, action>>
  BY EmitEffect DEF IInv
<1>2. Outcomes' /\ Asked'
  BY <1>1 DEF IInv, TellInv, Outcomes, Asked, NoCall, Ran, Runs
<1>3. Spawned'
  BY <1>1 DEF IInv, TellInv, Spawned, TypeOK
<1> QED
  BY <1>2, <1>3 DEF TellInv

LEMMA NextTell == IInv /\ [Next]_vars => TellInv'
<1> SUFFICES ASSUME IInv, [Next]_vars PROVE TellInv'
  OBVIOUS
<1>1. StepKinds
  BY NextKinds DEF IInv
<1> QED
  BY <1>1, QuietTell, CallTell, ShowTell, TakeTell, EndsTell, EmitTell DEF StepKinds

LEMMA NextIInv == IInv /\ [Next]_vars => IInv'
BY NextType, NextRan, NextTell DEF IInv, RanInv

LEMMA IInvAlways == Spec => []IInv
<1>1. Init => IInv
  BY InitRan, InitTell DEF IInv
<1> QED
  BY <1>1, NextIInv, PTL DEF Spec

\* But for the command line, a prompt that its owner alone calls is shown once.
Alone ==
  prompter # "cli" =>
    /\ \A c \in Clients : client[c].at = "install" => callback[client[c].prompt] = NoDialog
    /\ \A d \in Dialogs : dialog[d].at # "unused" => callback[dialog[d].prompt] # NoDialog
    /\ \A d, e \in Dialogs : dialog[d].at # "unused" /\ dialog[e].at # "unused"
                            /\ dialog[d].prompt = dialog[e].prompt => d = e

LEMMA InitAlone == Init => Alone
BY DEF Init, Alone

LEMMA QuietAlone ==
  ASSUME IInv, Alone, Quiet
  PROVE  Alone'
<1>1. /\ NoCall /\ UNCHANGED <<prompter, callback>>
      /\ \A d \in Dialogs : /\ dialog'[d].prompt = dialog[d].prompt
                            /\ dialog'[d].at # "unused" => dialog[d].at # "unused"
  BY DEF Quiet, Steady
<1> QED
  BY <1>1 DEF Alone, NoCall

LEMMA CallAlone ==
  ASSUME IInv, Alone, NEW c \in Clients, Check(c) \/ \E p \in Prompts : CallPrompt(c, p)
  PROVE  Alone'
<1>1. /\ \A e \in Clients \ {c} : client'[e] = client[e]
      /\ client'[c].at = "install" => prompter = "cli" \/ callback[client'[c].prompt] = NoDialog
      /\ UNCHANGED <<dialog, prompter, callback>>
  BY CallEffect DEF IInv
<1> QED
  BY <1>1 DEF Alone

LEMMA ShowAlone ==
  ASSUME OwnCalls, IInv, Alone, NEW c \in Clients, NEW d \in Dialogs,
         Install(c, d) \/ PromptCli(c, d)
  PROVE  Alone'
<1> DEFINE p == client[c].prompt
<1>1. /\ client[c].at = "install" /\ dialog[d].at = "unused"
      /\ dialog'[d].at \in {"begin", "ask"} /\ dialog'[d].prompt = p
      /\ \A e \in Dialogs \ {d} : dialog'[e] = dialog[e]
      /\ NoCall /\ client'[c].at \notin {"check", "install"}
      /\ UNCHANGED prompter
      /\ prompter # "cli" => callback' = [callback EXCEPT ![p] = IF @ = NoDialog THEN d ELSE @]
  BY ShowEffect DEF IInv
<1>2. /\ p \in Prompts
      /\ \A e \in Dialogs : dialog[e].at # "unused" => dialog[e].prompt \in Prompts
  BY <1>1 DEF IInv, RanInv, Prompted, Called, Shows
<1> SUFFICES ASSUME prompter # "cli" PROVE Alone'
  BY <1>1 DEF Alone
<1>3. callback[p] = NoDialog
  BY <1>1 DEF Alone
<1>4. callback' = [callback EXCEPT ![p] = d] /\ callback \in [Prompts -> Dialogs \cup {NoDialog}]
  BY <1>1, <1>3 DEF IInv, TypeOK
<1>5. callback'[p] # NoDialog /\ \A q \in Prompts \ {p} : callback'[q] = callback[q]
  BY <1>2, <1>4, PromptsAssumption
<1>6. \A e \in Dialogs : dialog[e].at # "unused" => dialog[e].prompt # p
  BY <1>3 DEF Alone
<1>7. \A e \in Clients : client'[e].at = "install" =>
        /\ client[e].at = "install" /\ client'[e].prompt = client[e].prompt /\ e # c
  BY <1>1 DEF NoCall
<1>8. \A e \in Clients : client[e].at = "install" /\ e # c =>
        client[e].prompt \in Prompts /\ client[e].prompt # p
  <2>1. \A e \in Clients : client[e].at = "install" =>
          e = OwnerOf[client[e].prompt] /\ client[e].prompt \in Prompts
    BY DEF IInv, RanInv, Prompted, Called, TellInv, Asked, OwnCalls
  <2> QED
    BY <1>1, <2>1
<1>9. \A e \in Clients : client'[e].at = "install" => callback'[client'[e].prompt] = NoDialog
  BY <1>5, <1>7, <1>8 DEF Alone
<1>10. \A e \in Dialogs : dialog'[e].at # "unused" => callback'[dialog'[e].prompt] # NoDialog
  BY <1>1, <1>2, <1>5, <1>6 DEF Alone
<1>11. \A e, f \in Dialogs : dialog'[e].at # "unused" /\ dialog'[f].at # "unused"
                             /\ dialog'[e].prompt = dialog'[f].prompt => e = f
  BY <1>1, <1>6 DEF Alone
<1> QED
  BY <1>9, <1>10, <1>11 DEF Alone

LEMMA NextAlone == OwnCalls /\ IInv /\ Alone /\ [Next]_vars => Alone'
<1> SUFFICES ASSUME OwnCalls, IInv, Alone, [Next]_vars PROVE Alone'
  OBVIOUS
<1>1. StepKinds
  BY NextKinds DEF IInv
<1>2. ASSUME NEW d \in Dialogs, Take(d), action[dialog[d].prompt] = "set" PROVE Alone'
  BY <1>2, TakeEffect DEF IInv, Alone, NoCall
<1>3. ASSUME NEW d \in Dialogs, NEW o \in {"done", "unchanged", "failed"}, Ends(d, o)
      PROVE  Alone'
  BY <1>3 DEF Ends, Alone, NoCall, Runs, Final
<1>4. ASSUME NEW d \in Dialogs, Emit(d) PROVE Alone'
  BY <1>4, EmitEffect DEF IInv, Alone, NoCall
<1> QED
  BY <1>1, <1>2, <1>3, <1>4, QuietAlone, CallAlone, ShowAlone DEF StepKinds

LEMMA AloneAlways == ASSUME OwnCalls PROVE Spec => [](IInv /\ Alone)
<1>1. IInv /\ Alone /\ [Next]_vars => (IInv /\ Alone)'
  BY NextIInv, NextAlone
<1>2. Init => IInv /\ Alone
  BY InitRan, InitTell, InitAlone DEF IInv
<1> QED
  BY <1>1, <1>2, PTL DEF Spec

Tells(p, r) == \E d \in Dialogs : dialog[d].prompt = p /\ emitted[d] = r

LEMMA ToldIs ==
  \A p \in Prompts :
    /\ ToldOf(p) = IF Tells(p, "result") THEN "result"
                   ELSE IF Tells(p, "dismissed") THEN "dismissed" ELSE "none"
    /\ ToldOf(p)' = IF Tells(p, "result")' THEN "result"
                    ELSE IF Tells(p, "dismissed")' THEN "dismissed" ELSE "none"
BY DEF ToldOf, Tells

LEMMA ToldSame ==
  ASSUME UNCHANGED emitted,
         \A d \in Dialogs : emitted[d] # "none" => dialog'[d].prompt = dialog[d].prompt,
         \A d \in Dialogs : emitted[d] = "none" \/ dialog[d].at # "unused"
  PROVE  \A p \in Prompts : ToldOf(p)' = ToldOf(p)
<1>1. \A p \in Prompts : /\ Tells(p, "result")' => Tells(p, "result")
                         /\ Tells(p, "result") => Tells(p, "result")'
                         /\ Tells(p, "dismissed")' => Tells(p, "dismissed")
                         /\ Tells(p, "dismissed") => Tells(p, "dismissed")'
  BY DEF Tells
<1> QED
  BY <1>1, ToldIs

\* Nobody has been told of a prompt whose action is running or has not run, but for
\* a dismissal in the latter case.
LEMMA NotTold ==
  ASSUME IInv, Alone, NEW d \in Dialogs, dialog[d].at # "unused", emitted[d] = "none",
         (dialog[d].at = "take" /\ action[dialog[d].prompt] = "set") \/ spawned[d] # "none"
  PROVE  ToldOf(dialog[d].prompt) = "none"
<1> DEFINE p == dialog[d].prompt
<1>1. p \in Prompts
  BY DEF IInv, RanInv, Prompted, Shows
<1>2. \A e \in Dialogs : emitted[e] # "none" =>
        /\ emitted[e] = spawned[e] /\ dialog[e].at \in Final
        /\ emitted[e] \in {"result", "dismissed"}
  BY DEF IInv, TellInv, Spawned, TypeOK
<1>3. ASSUME NEW e \in Dialogs, dialog[e].prompt = p, emitted[e] # "none"
      PROVE  FALSE
  <2>1. e # d
    BY <1>3
  <2>2. CASE prompter # "cli"
    <3>1. dialog[e].at # "unused"
      BY <1>2, <1>3 DEF Final
    <3> QED
      BY <1>3, <2>1, <2>2, <3>1 DEF Alone
  <2>3. CASE prompter = "cli"
    <3>1. e \in executed
      BY <1>2, <1>3, <2>3 DEF IInv, TellInv, Spawned
    <3>2. action[p] = "taken"
      BY <1>3, <3>1 DEF IInv, RanInv, Taken, Ran
    <3>3. spawned[d] = "result"
      BY <2>3, <3>2 DEF IInv, TellInv, Spawned, TypeOK
    <3>4. d \in executed
      BY <3>3 DEF IInv, TellInv, Spawned
    <3> QED
      BY <1>3, <2>1, <3>1, <3>4 DEF IInv, RanInv, Once, Ran
  <2> QED
    BY <2>2, <2>3
<1>4. ~Tells(p, "result") /\ ~Tells(p, "dismissed")
  BY <1>3 DEF Tells
<1> QED
  BY <1>1, <1>4, ToldIs

States == [p \in Prompts |-> OutcomeOf(p)]
Tolds == [p \in Prompts |-> ToldOf(p)]

\* A step that changes no prompt, or one.
LEMMA Stutters ==
  ASSUME \A p \in Prompts : OutcomeOf(p)' = OutcomeOf(p) /\ ToldOf(p)' = ToldOf(p)
  PROVE  UNCHANGED <<States, Tolds>>
BY DEF States, Tolds

LEMMA StateMoves ==
  ASSUME NEW p \in Prompts, NEW s, OutcomeOf(p)' = s,
         \A q \in Prompts \ {p} : OutcomeOf(q)' = OutcomeOf(q),
         \A q \in Prompts : ToldOf(q)' = ToldOf(q)
  PROVE  States' = [States EXCEPT ![p] = s] /\ UNCHANGED Tolds
BY DEF States, Tolds

LEMMA TellMoves ==
  ASSUME NEW p \in Prompts, NEW r, ToldOf(p)' = r,
         \A q \in Prompts \ {p} : ToldOf(q)' = ToldOf(q),
         \A q \in Prompts : OutcomeOf(q)' = OutcomeOf(q)
  PROVE  Tolds' = [Tolds EXCEPT ![p] = r] /\ UNCHANGED States
BY DEF States, Tolds

ContractStep == Contract!Next \/ UNCHANGED <<States, Tolds>>

LEMMA QuietContract ==
  ASSUME IInv, Quiet
  PROVE  ContractStep
<1>1. \A d \in Dialogs : emitted[d] = "none" \/ dialog[d].at # "unused"
  BY DEF IInv, TellInv, Spawned, Final
<1>2. \A p \in Prompts : ToldOf(p)' = ToldOf(p)
  BY <1>1, ToldSame DEF Quiet, Steady
<1>3. CASE \A p \in Prompts : action'[p] = action[p]
  <2>1. \A p \in Prompts : OutcomeOf(p)' = OutcomeOf(p)
    BY <1>3 DEF Quiet, OutcomeOf
  <2> QED
    BY <1>2, <2>1, Stutters DEF ContractStep
<1>4. CASE ~ \A p \in Prompts : action'[p] = action[p]
  <2>1. PICK p \in Prompts : action[p] = "none" /\ action' = [action EXCEPT ![p] = "set"]
    BY <1>4 DEF Quiet
  <2>2. action'[p] = "set" /\ \A q \in Prompts \ {p} : action'[q] = action[q]
    BY <2>1 DEF IInv, TypeOK
  <2>3. OutcomeOf(p) = "none" /\ OutcomeOf(p)' = "open"
    BY <2>1, <2>2 DEF OutcomeOf
  <2>4. \A q \in Prompts \ {p} : OutcomeOf(q)' = OutcomeOf(q)
    BY <2>2 DEF Quiet, OutcomeOf
  <2>5. States' = [States EXCEPT ![p] = "open"] /\ UNCHANGED Tolds
    BY <1>2, <2>3, <2>4, StateMoves
  <2>6. Contract!Open(p)
    BY <2>3, <2>5 DEF Contract!Open, States, Tolds
  <2> QED
    BY <2>6 DEF ContractStep, Contract!Next
<1> QED
  BY <1>3, <1>4

LEMMA CallContract ==
  ASSUME IInv, NEW c \in Clients, Check(c) \/ \E p \in Prompts : CallPrompt(c, p)
  PROVE  ContractStep
<1>1. UNCHANGED <<dialog, outcome, emitted, action>>
  BY CallEffect DEF IInv
<1>2. \A p \in Prompts : OutcomeOf(p)' = OutcomeOf(p) /\ ToldOf(p)' = ToldOf(p)
  BY <1>1 DEF OutcomeOf, ToldOf
<1> QED
  BY <1>2, Stutters DEF ContractStep

LEMMA ShowContract ==
  ASSUME IInv, NEW c \in Clients, NEW d \in Dialogs, Install(c, d) \/ PromptCli(c, d)
  PROVE  ContractStep
<1>1. /\ dialog[d].at = "unused" /\ \A e \in Dialogs \ {d} : dialog'[e] = dialog[e]
      /\ UNCHANGED <<action, outcome, emitted>>
  BY ShowEffect DEF IInv
<1>2. \A e \in Dialogs : emitted[e] = "none" \/ dialog[e].at # "unused"
  BY DEF IInv, TellInv, Spawned, Final
<1>3. \A e \in Dialogs : emitted[e] # "none" => dialog'[e].prompt = dialog[e].prompt
  BY <1>1, <1>2
<1>4. \A p \in Prompts : OutcomeOf(p)' = OutcomeOf(p)
  BY <1>1 DEF OutcomeOf
<1> QED
  BY <1>1, <1>2, <1>3, <1>4, ToldSame, Stutters DEF ContractStep

LEMMA TakeContract ==
  ASSUME IInv, Alone, NEW d \in Dialogs, Take(d), action[dialog[d].prompt] = "set"
  PROVE  ContractStep
<1>2. PICK p \in Prompts : p = dialog[d].prompt
  BY TakeEffect DEF IInv, RanInv, Prompted, Shows
<1>1. /\ dialog[d].at = "take" /\ dialog'[d].prompt = p
      /\ \A e \in Dialogs \ {d} : dialog'[e] = dialog[e]
      /\ action' = [action EXCEPT ![p] = "taken"]
      /\ UNCHANGED <<outcome, emitted>>
  BY <1>2, TakeEffect DEF IInv
<1>3. /\ action'[p] = "taken" /\ outcome[p] = "none"
      /\ \A q \in Prompts \ {p} : action'[q] = action[q]
  BY <1>1, <1>2 DEF IInv, TypeOK, TellInv, Outcomes
<1>4. \A e \in Dialogs : emitted[e] = "none" \/ dialog[e].at \in Final
  BY DEF IInv, TellInv, Spawned
<1>5. \A q \in Prompts : ToldOf(q)' = ToldOf(q)
  BY <1>1, <1>4, ToldSame DEF Final
<1>6. ToldOf(p) = "none"
  BY <1>1, <1>2, <1>3, <1>4, NotTold DEF Final
<1>7. OutcomeOf(p) = "open" /\ OutcomeOf(p)' = "running"
  <2>1. action[p] = "set" /\ action'[p] = "taken" /\ outcome'[p] = "none"
    BY <1>1, <1>2, <1>3
  <2> QED
    BY <2>1 DEF OutcomeOf
<1>8. \A q \in Prompts \ {p} : OutcomeOf(q)' = OutcomeOf(q)
  BY <1>1, <1>3 DEF OutcomeOf
<1>9. States' = [States EXCEPT ![p] = "running"] /\ UNCHANGED Tolds
  BY <1>2, <1>5, <1>7, <1>8, StateMoves
<1>10. Contract!Run(p)
  BY <1>2, <1>6, <1>7, <1>9 DEF Contract!Run, States, Tolds
<1> QED
  BY <1>2, <1>10 DEF ContractStep, Contract!Next

LEMMA EndsContract ==
  ASSUME IInv, NEW d \in Dialogs, NEW o \in {"done", "unchanged", "failed"}, Ends(d, o)
  PROVE  ContractStep
<1>0. PICK p \in Prompts : p = dialog[d].prompt
  BY DEF Ends, IInv, RanInv, Prompted, Shows, Runs
<1> DEFINE s == IF o = "failed" THEN "failed" ELSE "done"
<1>1. p \in Prompts /\ action[p] = "taken" /\ outcome[p] = "none"
  BY <1>0 DEF Ends, IInv, RanInv, Taken, TellInv, Outcomes, Runs, Ran
<1>2. outcome'[p] = o /\ \A q \in Prompts \ {p} : outcome'[q] = outcome[q]
  BY <1>0, <1>1 DEF Ends, IInv, TypeOK
<1>3. /\ UNCHANGED <<action, emitted>>
      /\ \A e \in Dialogs : dialog'[e].prompt = dialog[e].prompt
  BY DEF Ends
<1>4. \A e \in Dialogs : emitted[e] = "none" \/ dialog[e].at # "unused"
  BY DEF IInv, TellInv, Spawned, Final
<1>5. \A q \in Prompts : ToldOf(q)' = ToldOf(q)
  BY <1>3, <1>4, ToldSame
<1>6. OutcomeOf(p) = "running" /\ OutcomeOf(p)' = s
  BY <1>1, <1>2, <1>3 DEF OutcomeOf
<1>7. \A q \in Prompts \ {p} : OutcomeOf(q)' = OutcomeOf(q)
  BY <1>2, <1>3 DEF OutcomeOf
<1>8. States' = [States EXCEPT ![p] = s] /\ UNCHANGED Tolds
  BY <1>1, <1>5, <1>6, <1>7, StateMoves
<1>9. Contract!Finish(p)
  BY <1>1, <1>6, <1>8 DEF Contract!Finish, States, Tolds
<1> QED
  BY <1>1, <1>9 DEF ContractStep, Contract!Next

LEMMA EmitContract ==
  ASSUME IInv, Alone, NEW d \in Dialogs, Emit(d)
  PROVE  ContractStep
<1>3. PICK p \in Prompts : p = dialog[d].prompt
  BY EmitEffect DEF IInv, TellInv, Spawned, RanInv, Prompted, Shows, Final
<1>0. PICK r : r = spawned[d]
  OBVIOUS
<1>1. /\ r # "none" /\ emitted[d] = "none" /\ emitted' = [emitted EXCEPT ![d] = r]
      /\ UNCHANGED <<dialog, outcome, action>>
  BY <1>0, EmitEffect DEF IInv
<1>2. dialog[d].at \in Final /\ r \in {"result", "dismissed"}
  BY <1>0, <1>1 DEF IInv, TellInv, Spawned, TypeOK
<1>4. ToldOf(p) = "none"
  BY <1>0, <1>1, <1>2, <1>3, NotTold DEF Final
<1>5. emitted'[d] = r /\ \A e \in Dialogs \ {d} : emitted'[e] = emitted[e]
  BY <1>1 DEF IInv, TypeOK
<1>6. ToldOf(p)' = r
  <2>1. ~Tells(p, "result") /\ ~Tells(p, "dismissed")
    BY <1>3, <1>4, ToldIs
  <2>2. Tells(p, r)' /\ (r = "dismissed" => ~Tells(p, "result")')
    BY <1>1, <1>2, <1>3, <1>5, <2>1 DEF Tells
  <2> QED
    BY <1>2, <1>3, <2>2, ToldIs
<1>7. \A q \in Prompts \ {p} : ToldOf(q)' = ToldOf(q)
  <2>1. \A q \in Prompts \ {p} : /\ Tells(q, "result")' => Tells(q, "result")
                                 /\ Tells(q, "result") => Tells(q, "result")'
                                 /\ Tells(q, "dismissed")' => Tells(q, "dismissed")
                                 /\ Tells(q, "dismissed") => Tells(q, "dismissed")'
    BY <1>1, <1>3, <1>5 DEF Tells
  <2> QED
    BY <2>1, ToldIs
<1>8. \A q \in Prompts : OutcomeOf(q)' = OutcomeOf(q)
  BY <1>1 DEF OutcomeOf
<1>9. Tolds' = [Tolds EXCEPT ![p] = r] /\ UNCHANGED States
  BY <1>3, <1>6, <1>7, <1>8, TellMoves
<1>10. CASE r = "result"
  <2>1. action[p] = "taken" /\ outcome[p] \in {"done", "unchanged"}
    BY <1>0, <1>3, <1>10 DEF IInv, TellInv, Spawned, RanInv, Taken, Ran
  <2>2. OutcomeOf(p) = "done"
    BY <2>1 DEF OutcomeOf
  <2>3. Contract!TellResult(p)
    BY <1>3, <1>4, <1>9, <1>10, <2>2 DEF Contract!TellResult, States, Tolds
  <2> QED
    BY <1>3, <2>3 DEF ContractStep, Contract!Next
<1>11. CASE r = "dismissed"
  <2>1. ~Ran(d) /\ prompter # "cli"
    BY <1>0, <1>2, <1>11 DEF IInv, TellInv, Spawned, Ran, Runs, Final
  <2>2. \A e \in Dialogs : Ran(e) => dialog[e].prompt # p
    <3>1. \A e \in Dialogs : Ran(e) => dialog[e].at # "unused"
      BY DEF IInv, RanInv, Taken, Ran, Runs, Final
    <3> QED
      BY <1>2, <1>3, <2>1, <3>1 DEF Alone, Final
  <2>3. action[p] = "set"
    <3>1. action[p] # "none"
      BY <1>2, <1>3 DEF IInv, TellInv, Asked, Final
    <3>2. action[p] # "taken"
      BY <1>3, <2>2 DEF IInv, TellInv, Outcomes
    <3> QED
      BY <1>3, <3>1, <3>2 DEF IInv, TypeOK
  <2>4. OutcomeOf(p) = "open"
    BY <2>3 DEF OutcomeOf
  <2>5. Contract!TellDismissed(p)
    BY <1>3, <1>4, <1>9, <1>11, <2>4 DEF Contract!TellDismissed, States, Tolds
  <2> QED
    BY <1>3, <2>5 DEF ContractStep, Contract!Next
<1> QED
  BY <1>2, <1>10, <1>11

LEMMA InitContract == Init => Contract!Init
<1> SUFFICES ASSUME Init PROVE Contract!Init
  OBVIOUS
<1>1. \A p \in Prompts : OutcomeOf(p) = "none"
  BY DEF Init, OutcomeOf
<1>2. \A p \in Prompts : ToldOf(p) = "none"
  BY ToldIs DEF Init, Tells
<1> QED
  BY <1>1, <1>2 DEF Contract!Init

\* When only its owner calls a prompt, its action runs at most once, at most one
\* Completed follows, and what it tells is what became of the action
\* (Prompt::take_action, the callbacks' prompter_init, prompter_done and
\* prompter_dismissed).
THEOREM ContractKept == ASSUME OwnCalls PROVE Spec => KeepsContract
<1>1. IInv /\ Alone /\ [Next]_vars => ContractStep
  BY NextKinds, QuietContract, CallContract, ShowContract, TakeContract, EndsContract,
     EmitContract DEF IInv, StepKinds
<1>2. IInv /\ Alone /\ [Next]_vars =>
        [Contract!Next]_<<[p \in Prompts |-> OutcomeOf(p)], [p \in Prompts |-> ToldOf(p)]>>
  BY <1>1 DEF ContractStep, States, Tolds
<1> QED
  BY <1>2, InitContract, AloneAlways, PTL DEF Spec, KeepsContract, Contract!Spec

-----------------------------------------------------------------------------
(* A result is what it says *)

Changed == \E q \in Prompts : RoleOf[q] = "change" /\ outcome[q] = "done"

Truth(d) ==
  /\ Role(d) = "create" => dialog[d].prompt \in created
  /\ \/ outcome[dialog[d].prompt] = "done"
     \/ /\ outcome[dialog[d].prompt] = "unchanged" /\ Role(d) = "unlock"
        /\ Changed \/ collection.broken # "none"

Checks == {"take", "execute"}

\* The secret of an unlock prompt was checked, and only another prompt changes the
\* password after that.  The keyring is lost only where an item does not decrypt.
TruthInv ==
  /\ \A d \in Dialogs : spawned[d] = "result" => Truth(d)
  /\ \A d \in Dialogs :
       /\ dialog[d].at \in Checks /\ Role(d) = "unlock"
            /\ dialog[d].secret # collection.password => Changed
       /\ dialog[d].at = "create" => Role(d) = "create"
  /\ collection.state = "none" => collection.broken # "none"

\* What a step leaves as it was.
SecretKept(d) ==
  /\ dialog'[d].at \in Checks =>
       /\ dialog'[d].prompt = dialog[d].prompt /\ dialog'[d].secret = dialog[d].secret
       /\ \/ dialog[d].at \in Checks \/ Role(d) # "unlock"
          \/ dialog[d].secret = collection.password
  /\ dialog'[d].at = "create" =>
       /\ dialog'[d].prompt = dialog[d].prompt
       /\ dialog[d].at = "create" \/ Role(d) = "create"

OutcomesLast ==
  /\ \A p \in Prompts : outcome[p] # "none" => outcome'[p] = outcome[p]
  /\ created \subseteq created'

TruthKept ==
  /\ OutcomesLast
  /\ collection'.password = collection.password \/ Changed'
  /\ collection'.broken = collection.broken
  /\ collection'.state = "none" => collection.state = "none" \/ collection.broken # "none"
  /\ \A d \in Dialogs :
       /\ SecretKept(d)
       /\ spawned'[d] = "result" =>
            (spawned[d] = "result" /\ dialog'[d].prompt = dialog[d].prompt) \/ Truth(d)'

LEMMA KeptIsTrue ==
  ASSUME IInv, TruthInv, TruthKept
  PROVE  TruthInv'
<1>1. Changed => Changed'
  BY DEF TruthKept, OutcomesLast, Changed
<1>2. ASSUME NEW d \in Dialogs, spawned'[d] = "result" PROVE Truth(d)'
  <2>1. CASE spawned[d] = "result" /\ dialog'[d].prompt = dialog[d].prompt
    <3>1. Truth(d) /\ dialog[d].prompt \in Prompts
      BY <2>1 DEF TruthInv, IInv, TellInv, Spawned, RanInv, Prompted, Shows, Final
    <3> QED
      BY <1>1, <2>1, <3>1 DEF Truth, TruthKept, OutcomesLast, Role
  <2> QED
    BY <1>2, <2>1 DEF TruthKept
<1>3. ASSUME NEW d \in Dialogs, dialog'[d].at \in Checks, Role(d)' = "unlock",
             dialog'[d].secret # collection'.password
      PROVE  Changed'
  BY <1>1, <1>3 DEF TruthInv, TruthKept, SecretKept, Role
<1>4. ASSUME NEW d \in Dialogs, dialog'[d].at = "create" PROVE Role(d)' = "create"
  BY <1>4 DEF TruthInv, TruthKept, SecretKept, Role
<1>5. collection'.state = "none" => collection'.broken # "none"
  BY DEF TruthInv, TruthKept
<1> QED
  BY <1>2, <1>3, <1>4, <1>5 DEF TruthInv, Checks

LEMMA SameDialogsKept ==
  ASSUME UNCHANGED <<dialog, spawned, outcome, created>>,
         collection'.password = collection.password, collection'.broken = collection.broken,
         collection'.state \in {"locked", collection.state}
  PROVE  TruthKept
BY DEF TruthKept, OutcomesLast, SecretKept

LEMMA MovesKept ==
  ASSUME IInv, NEW d \in Dialogs, NEW at \in DialogState, DialogMoves(d, at),
         at \in Checks => \/ dialog[d].at \in Checks \/ Role(d) # "unlock"
                          \/ dialog[d].secret = collection.password,
         at = "create" => Role(d) = "create",
         spawned' = spawned \/ spawned' = [spawned EXCEPT ![d] = "dismissed"],
         OutcomesLast, collection' = collection
  PROVE  TruthKept
<1>1. /\ dialog'[d].at = at /\ dialog'[d].prompt = dialog[d].prompt
      /\ dialog'[d].secret = dialog[d].secret
      /\ \A e \in Dialogs \ {d} : dialog'[e] = dialog[e]
  BY Moved DEF IInv
<1>2. \A e \in Dialogs : SecretKept(e)
  BY <1>1 DEF SecretKept
<1>3. \A e \in Dialogs : spawned'[e] = "result" => spawned[e] = "result"
  BY DEF IInv, TypeOK
<1> QED
  BY <1>1, <1>2, <1>3 DEF TruthKept

LEMMA WaitKept ==
  ASSUME IInv, NEW c \in Clients,
         \/ \E p \in Prompts : CallPrompt(c, p) \/ Dismiss(c, p)
         \/ Return(c) \/ GiveUp(c) \/ Check(c) \/ RemovePrompt(c)
  PROVE  TruthKept
<1>1. /\ UNCHANGED <<spawned, outcome, created, collection>>
      /\ OutcomesLast
  BY DEF CallPrompt, Dismiss, Return, GiveUp, Check, RemovePrompt, ghosts, OutcomesLast
<1>2. CASE UNCHANGED dialog
  BY <1>1, <1>2, SameDialogsKept
<1>3. ASSUME NEW p \in Prompts, callback[p] # NoDialog,
             dialog' = [dialog EXCEPT ![callback[p]].at = "stop"]
      PROVE  TruthKept
  <2>1. callback[p] \in Dialogs
    BY <1>3 DEF IInv, TypeOK
  <2> QED
    BY <1>1, <1>3, <2>1, MovesKept DEF DialogMoves, DialogState, Checks
<1> QED
  BY <1>2, <1>3 DEF CallPrompt, Dismiss, Return, GiveUp, Check, RemovePrompt

LEMMA ShowKept ==
  ASSUME IInv, NEW c \in Clients, NEW d \in Dialogs, Install(c, d) \/ PromptCli(c, d)
  PROVE  TruthKept
<1>1. /\ dialog[d].at = "unused" /\ dialog'[d].at \in {"begin", "ask"}
      /\ \A e \in Dialogs \ {d} : dialog'[e] = dialog[e]
      /\ UNCHANGED <<outcome, spawned>>
  BY ShowEffect DEF IInv
<1>2. UNCHANGED <<created, collection>>
  BY DEF Install, PromptCli, ghosts
<1>3. spawned[d] # "result"
  BY <1>1 DEF IInv, TellInv, Spawned, Final
<1> QED
  BY <1>1, <1>2, <1>3 DEF TruthKept, SecretKept, OutcomesLast, Checks

LEMMA DialogKept ==
  ASSUME IInv, NEW d \in Dialogs,
         \/ Begin(d) \/ PrompterFails(d) \/ Reacts(d) \/ Lookup(d) \/ Garbled(d)
         \/ Validate(d) \/ ValidatePanics(d) \/ Take(d) \/ PromptDone(d)
  PROVE  TruthKept
<1>1. UNCHANGED <<outcome, created, collection>> /\ OutcomesLast
  BY DEF Begin, PrompterFails, Reacts, Refuse, Answer, Lookup, Garbled, Validate, ValidatePanics, Take,
         PromptDone, ghosts, OutcomesLast
<1>2. ASSUME NEW at \in DialogState \ {"create"}, DialogMoves(d, at),
             at \in Checks => \/ dialog[d].at \in Checks \/ Role(d) # "unlock"
                              \/ dialog[d].secret = collection.password,
             spawned' = spawned \/ spawned' = [spawned EXCEPT ![d] = "dismissed"]
      PROVE  TruthKept
  BY <1>1, <1>2, MovesKept
<1>3. ASSUME Fail(d), UNCHANGED spawned PROVE TruthKept
  BY <1>2, <1>3 DEF Fail, DialogState, Checks
<1>4. CASE Begin(d)
  BY <1>2, <1>4 DEF Begin, Start, PrompterInit, DialogState, Checks
<1>5. CASE PrompterFails(d) \/ Garbled(d)
  BY <1>3, <1>5 DEF PrompterFails, Garbled
<1>6. CASE Refuse(d)
  BY <1>2, <1>3, <1>6 DEF Refuse, PrompterDismissed, DialogState, Checks
<1>7. ASSUME NEW s \in Answers, Answer(d, s) PROVE TruthKept
  <2>1. dialog \in [Dialogs -> DialogType]
    BY DEF IInv, TypeOK, DialogType
  <2>2. dialog'[d] = [dialog[d] EXCEPT !.at = "answer", !.secret = s] /\ dialog[d] \in DialogType
    BY <1>7, <2>1 DEF Answer
  <2>3. dialog'[d].at = "answer" /\ dialog'[d].prompt = dialog[d].prompt
    BY <2>2 DEF DialogType
  <2>4. (\A e \in Dialogs \ {d} : dialog'[e] = dialog[e]) /\ UNCHANGED spawned
    BY <1>7, <2>1 DEF Answer
  <2> QED
    BY <1>1, <2>3, <2>4 DEF TruthKept, SecretKept, Checks
<1>8. CASE Lookup(d)
  BY <1>2, <1>3, <1>8 DEF Lookup, DialogState, Checks
<1>9. CASE Validate(d)
  BY <1>2, <1>9 DEF Validate, Retry, DialogState, Checks
<1>12. CASE ValidatePanics(d)
  BY <1>2, <1>12 DEF ValidatePanics, DialogState, Checks
<1>10. CASE Take(d)
  BY <1>2, <1>3, <1>10 DEF Take, DialogState, Checks
<1>11. CASE PromptDone(d)
  BY <1>2, <1>11 DEF PromptDone, DialogState, Checks
<1> QED
  BY <1>4, <1>5, <1>6, <1>7, <1>8, <1>9, <1>10, <1>11, <1>12 DEF Reacts

\* The end of an action does not touch another outcome.
LEMMA EndLasts ==
  ASSUME IInv, NEW d \in Dialogs, NEW o, Runs(d),
         outcome' = [outcome EXCEPT ![dialog[d].prompt] = o], created \subseteq created'
  PROVE  /\ OutcomesLast /\ dialog[d].prompt \in Prompts
         /\ outcome'[dialog[d].prompt] = o
         /\ \A p \in Prompts \ {dialog[d].prompt} : outcome'[p] = outcome[p]
<1>1. outcome[dialog[d].prompt] = "none" /\ dialog[d].prompt \in Prompts
  BY DEF IInv, TellInv, Outcomes, RanInv, Prompted, Shows, Runs
<1> QED
  BY <1>1 DEF OutcomesLast, IInv, TypeOK

LEMMA FailsKept ==
  ASSUME IInv, NEW d \in Dialogs, Runs(d), ActionFails(d), UNCHANGED <<created, collection>>
  PROVE  TruthKept
<1>1. OutcomesLast
  BY EndLasts DEF ActionFails
<1> QED
  BY <1>1, MovesKept DEF ActionFails, Fail, DialogState, Checks

LEMMA SucceedKept ==
  ASSUME IInv, NEW d \in Dialogs, Runs(d), NEW o \in {"done", "unchanged"}, Succeed(d, o),
         created \subseteq created', Role(d) = "create" => dialog[d].prompt \in created',
         o = "done" \/ (Role(d) = "unlock" /\ (Changed' \/ collection.broken # "none")),
         collection'.password = collection.password \/ Changed',
         collection'.broken = collection.broken,
         collection'.state = "none" => collection.state = "none" \/ collection.broken # "none"
  PROVE  TruthKept
<1>1. /\ OutcomesLast /\ outcome'[dialog[d].prompt] = o
  BY EndLasts DEF Succeed
<1>2. /\ dialog'[d].at \in {"done", "stop"} /\ dialog'[d].prompt = dialog[d].prompt
      /\ \A e \in Dialogs \ {d} : dialog'[e] = dialog[e] /\ spawned'[e] = spawned[e]
  <2>1. PICK at \in {"done", "stop"} : DialogMoves(d, at)
    BY DEF Succeed
  <2> QED
    BY <2>1, Moved DEF Succeed, IInv, DialogState, TypeOK
<1>3. Truth(d)'
  BY <1>1, <1>2 DEF Truth, Role
<1> QED
  BY <1>1, <1>2, <1>3 DEF TruthKept, SecretKept, Checks

LEMMA ExecuteKept ==
  ASSUME IInv, TruthInv, NEW d \in Dialogs,
         \/ ExecuteUnlock(d) \/ ExecuteChange(d) \/ ExecuteCreate(d) \/ Create(d)
         \/ ExecuteFails(d)
  PROVE  TruthKept
<1>1. Runs(d)
  BY DEF ExecuteUnlock, ExecuteChange, ExecuteCreate, Create, ExecuteFails, Runs
<1>2. CASE ExecuteUnlock(d)
  <2> DEFINE now == Unlocked(dialog[d].secret)
  <2>1. /\ collection' = [collection EXCEPT !.state = now]
        /\ Succeed(d, IF collection'.state = "unlocked" THEN "done" ELSE "unchanged")
        /\ created' = created /\ Role(d) = "unlock" /\ dialog[d].at = "execute"
    BY <1>2 DEF ExecuteUnlock
  <2>2. /\ collection'.password = collection.password
        /\ collection'.broken = collection.broken /\ collection'.state = now
    BY <2>1 DEF IInv, TypeOK
  <2>3. now = "none" => collection.state = "none" \/ collection.broken # "none"
    BY DEF Unlocked
  <2>4. CASE now = "unlocked"
    <3>1. Succeed(d, "done")
      BY <2>1, <2>2, <2>4
    <3> QED
      BY <1>1, <2>1, <2>2, <2>3, <3>1, SucceedKept
  <2>5. CASE now # "unlocked"
    <3>1. Succeed(d, "unchanged")
      BY <2>1, <2>2, <2>5
    <3>2. Changed \/ collection.broken # "none"
      <4>1. dialog[d].secret # collection.password => Changed
        BY <2>1 DEF TruthInv, Checks
      <4>2. collection.state \in {"locked", "unlocked", "none"}
        BY DEF IInv, TypeOK
      <4> QED
        BY <2>5, <4>1, <4>2 DEF Unlocked, TruthInv
    <3>3. OutcomesLast
      BY <1>1, <2>1, <3>1, EndLasts DEF Succeed
    <3>4. Changed => Changed'
      BY <3>3 DEF Changed, OutcomesLast
    <3> QED
      BY <1>1, <2>1, <2>2, <2>3, <3>1, <3>2, <3>4, SucceedKept
  <2> QED
    BY <2>4, <2>5
<1>3. CASE ExecuteChange(d)
  <2>1. /\ Role(d) = "change" /\ created' = created
        /\ collection'.broken = collection.broken /\ collection'.state = collection.state
    BY <1>3 DEF ExecuteChange, IInv, TypeOK
  <2>2. CASE Succeed(d, "done")
    <3>1. Changed'
      BY <1>1, <2>1, <2>2, EndLasts DEF Succeed, Changed, Role
    <3> QED
      BY <1>1, <2>1, <2>2, <3>1, SucceedKept
  <2>3. CASE ActionFails(d) /\ UNCHANGED collection
    BY <1>1, <2>1, <2>3, FailsKept
  <2> QED
    BY <1>3, <2>2, <2>3 DEF ExecuteChange
<1>4. CASE ExecuteCreate(d)
  <2>1. Role(d) = "create" /\ UNCHANGED <<created, collection>>
    BY <1>4 DEF ExecuteCreate
  <2>2. CASE DialogMoves(d, "create") /\ UNCHANGED <<client, spawned, outcome, executed>>
    BY <2>1, <2>2, MovesKept DEF OutcomesLast, DialogState, Checks
  <2>3. CASE ActionFails(d)
    BY <1>1, <2>1, <2>3, FailsKept
  <2> QED
    BY <1>4, <2>2, <2>3 DEF ExecuteCreate
<1>5. CASE Create(d)
  BY <1>1, <1>5, SucceedKept DEF Create
<1>6. CASE ExecuteFails(d)
  BY <1>1, <1>6, FailsKept DEF ExecuteFails
<1> QED
  BY <1>2, <1>3, <1>4, <1>5, <1>6

LEMMA NextTruth == IInv /\ TruthInv /\ [Next]_vars => TruthInv'
<1> SUFFICES ASSUME IInv, TruthInv, [Next]_vars PROVE TruthKept
  BY KeptIsTrue
<1>1. CASE Lock \/ \E p \in Prompts : Request(p)
  <2>1. /\ collection'.password = collection.password /\ collection'.broken = collection.broken
        /\ collection'.state \in {"locked", collection.state}
    BY <1>1 DEF Lock, Request, IInv, TypeOK
  <2> QED
    BY <1>1, <2>1, SameDialogsKept DEF Lock, Request, ghosts
<1>2. CASE \E d \in Dialogs : Emit(d)
  BY <1>2, SameDialogsKept DEF Emit
<1>3. CASE UNCHANGED vars
  BY <1>3, SameDialogsKept DEF vars, ghosts
<1> QED
  BY <1>1, <1>2, <1>3, WaitKept, ShowKept, DialogKept, ExecuteKept DEF Next, Serve, Proceed

\* A client that hears of a result is told the truth, whoever calls the prompts: an
\* unlock prompt is only not the truth when a prompt changed the password in between
\* (prompt/mod.rs: the actions; gnome/prompter.rs: the check of the secret) or the
\* collection has items that its password does not decrypt (collection/mod.rs:584).
THEOREM ResultsAreTrue == Spec => []ResultIsTrue
<1>1. Init => TruthInv
  BY PromptsAssumption DEF Init, TruthInv, Checks
<1>2. IInv /\ TruthInv => ResultIsTrue
  BY DEF IInv, TellInv, Spawned, TypeOK, TruthInv, Truth, Changed, Role, ResultIsTrue
<1>3. IInv /\ TruthInv /\ [Next]_vars => TruthInv'
  BY NextTruth
<1> QED
  BY <1>1, <1>2, <1>3, IInvAlways, PTL DEF Spec

-----------------------------------------------------------------------------
(* Nothing is left behind *)

Dismisses(c, p) == client[c].at = "dismiss" /\ client[c].prompt = p

\* The list, the object server and the pending collections, with the calls of Dismiss
\* that are under way.
Listed ==
  /\ exported \cup pending \subseteq registered
  /\ \A p \in registered \ exported : \E c \in Clients : Dismisses(c, p)
  /\ \A c \in Clients : client[c].at = "dismiss" =>
       /\ client[c].prompt \in Prompts \ exported
       /\ action[client[c].prompt] # "none"
  /\ \A p \in registered : action[p] # "none"

Ended ==
  prompter # "cli" =>
    \A d \in Dialogs : dialog[d].at = "done" =>
      d \notin served /\ dialog[d].prompt \notin registered

Waited == {"ask", "answer", "validate", "take", "execute", "create"}
Open(d) == dialog[d].at \in Waited

\* The command line prompter runs inside of the call that shows it.
Awaited ==
  prompter = "cli" =>
    /\ \A d \in Dialogs : dialog[d].at \notin {"begin", "stop"}
    /\ \A d \in Dialogs : Open(d) => client[dialog[d].caller].at = "cli"
    /\ \A d, e \in Dialogs : Open(d) /\ Open(e) /\ dialog[d].caller = dialog[e].caller => d = e

LeftInv == Listed /\ Ended /\ Awaited

DismissalsKept ==
  \A c \in Clients :
    /\ client[c].at = "dismiss" =>
         client'[c].at = "dismiss" /\ client'[c].prompt = client[c].prompt
    /\ client'[c].at = "dismiss" => client[c].at = "dismiss"

ActionsKept == \A p \in Prompts : action[p] # "none" => action'[p] # "none"

LEMMA KeptListed ==
  ASSUME IInv, Listed, DismissalsKept, ActionsKept, UNCHANGED <<registered, exported>>,
         pending' \subseteq pending
  PROVE  Listed'
<1>1. \A p \in registered' \ exported' : \E c \in Clients : Dismisses(c, p)'
  BY DEF Listed, DismissalsKept, Dismisses
<1>2. \A c \in Clients : client'[c].at = "dismiss" =>
        client'[c].prompt \in Prompts \ exported' /\ action'[client'[c].prompt] # "none"
  BY DEF Listed, DismissalsKept, ActionsKept
<1>3. \A p \in registered' : action'[p] # "none"
  BY DEF Listed, ActionsKept, IInv, TypeOK
<1>4. exported' \cup pending' \subseteq registered'
  BY DEF Listed
<1> QED
  BY <1>1, <1>2, <1>3, <1>4 DEF Listed

LEMMA KeptEnded ==
  ASSUME IInv, Ended, UNCHANGED prompter, served' \subseteq served,
         \A p \in registered' : p \in registered \/ action[p] = "none",
         \A d \in Dialogs : dialog'[d].at = "done" =>
           \/ prompter = "cli"
           \/ dialog[d].at = "done" /\ dialog'[d].prompt = dialog[d].prompt
  PROVE  Ended'
<1>1. \A d \in Dialogs : dialog[d].at = "done" => action[dialog[d].prompt] # "none"
  BY DEF IInv, TellInv, Asked
<1> QED
  BY <1>1 DEF Ended

LEMMA KeptAwaited ==
  ASSUME Awaited, UNCHANGED prompter,
         \A c \in Clients : client[c].at = "cli" => client'[c].at = "cli",
         TypeOK,
         \A d \in Dialogs :
           /\ Open(d)' => Open(d) /\ dialog'[d].caller = dialog[d].caller
           /\ dialog'[d].at \in {"begin", "stop"} =>
                prompter # "cli" \/ dialog[d].at \in {"begin", "stop"}
  PROVE  Awaited'
<1>1. \A d \in Dialogs : dialog[d].caller \in Clients
  BY DEF TypeOK
<1> QED
  BY <1>1 DEF Awaited

\* Steps of a client that is not at work in the command line prompter.
LEMMA ClientStep ==
  ASSUME IInv, NEW c \in Clients, NEW r \in ClientType, client' = [client EXCEPT ![c] = r],
         client[c].at # "cli"
  PROVE  /\ \A e \in Clients : client[e].at = "cli" => client'[e].at = "cli"
         /\ client[c].at # "dismiss" /\ r.at # "dismiss" => DismissalsKept
<1>1. client \in [Clients -> ClientType]
  BY DEF IInv, TypeOK, ClientType
<1> QED
  BY <1>1 DEF DismissalsKept

LEMMA WaitLeft ==
  ASSUME IInv, LeftInv, NEW c \in Clients,
         \/ \E p \in Prompts : CallPrompt(c, p)
         \/ Return(c) \/ GiveUp(c) \/ Check(c)
  PROVE  LeftInv'
<1>1. UNCHANGED <<prompter, registered, pending, exported, action, served, dialog>>
  BY DEF CallPrompt, Return, GiveUp, Check, serviceVars
<1>2. PICK r \in ClientType : /\ client' = [client EXCEPT ![c] = r]
                              /\ r.at \in {"idle", "check", "install", "replied"}
  <2>0. client \in [Clients -> ClientType]
    BY DEF IInv, TypeOK, ClientType
  <2>1. CASE Return(c) \/ GiveUp(c)
    <3>1. /\ [client[c] EXCEPT !.at = "idle"] \in ClientType
          /\ [client[c] EXCEPT !.at = "idle"].at = "idle"
      BY <2>0 DEF ClientType, ClientState
    <3> QED
      BY <2>0, <2>1, <3>1 DEF Return, GiveUp
  <2>2. CASE Check(c)
    <3>1. /\ [client[c] EXCEPT !.at = "replied", !.reply = "error"] \in ClientType
          /\ [client[c] EXCEPT !.at = "replied", !.reply = "error"].at = "replied"
          /\ [client[c] EXCEPT !.at = "install"] \in ClientType
          /\ [client[c] EXCEPT !.at = "install"].at = "install"
      BY <2>0 DEF ClientType, ClientState
    <3> QED
      BY <2>0, <2>2, <3>1 DEF Check
  <2>3. ASSUME NEW p \in Prompts, CallPrompt(c, p)
        PROVE  \E r \in ClientType : /\ client' = [client EXCEPT ![c] = r]
                                     /\ r.at \in {"idle", "check", "install", "replied"}
    <3> DEFINE r == [at |-> IF p \in exported THEN "check" ELSE "replied", prompt |-> p,
                     reply |-> IF p \in exported THEN "none" ELSE "error", heard |-> "none"]
    <3>1. r \in ClientType /\ r.at \in {"check", "replied"}
      BY DEF ClientType, ClientState
    <3> QED
      BY <2>3, <3>1 DEF CallPrompt
  <2> QED
    BY <2>1, <2>2, <2>3
<1>3. client[c].at \notin {"cli", "dismiss"}
  BY DEF CallPrompt, Return, GiveUp, Check, Idle
<1>4. DismissalsKept /\ \A e \in Clients : client[e].at = "cli" => client'[e].at = "cli"
  BY <1>2, <1>3, ClientStep
<1>5. Listed'
  BY <1>1, <1>4, KeptListed DEF LeftInv, ActionsKept
<1>6. Ended'
  BY <1>1, KeptEnded DEF LeftInv
<1>7. Awaited'
  BY <1>1, <1>4, KeptAwaited DEF LeftInv, IInv, Open
<1> QED
  BY <1>5, <1>6, <1>7 DEF LeftInv

LEMMA DismissLeft ==
  ASSUME IInv, LeftInv, NEW c \in Clients, NEW p \in Prompts, Dismiss(c, p)
  PROVE  LeftInv'
<1>0. client \in [Clients -> ClientType] /\ dialog \in [Dialogs -> DialogType]
  BY DEF IInv, TypeOK, ClientType, DialogType
<1>1. /\ client[c].at = "idle" /\ p \in exported /\ exported' = exported \ {p}
      /\ UNCHANGED <<prompter, registered, pending, action, served>>
  BY DEF Dismiss, Idle
<1>2. /\ client'[c].at = "dismiss" /\ client'[c].prompt = p
      /\ \A e \in Clients \ {c} : client'[e] = client[e]
  <2>1. /\ client'[c] = [client[c] EXCEPT !.at = "dismiss", !.prompt = p]
        /\ client[c] \in ClientType
    BY <1>0 DEF Dismiss
  <2>2. client'[c].at = "dismiss" /\ client'[c].prompt = p
    BY <2>1 DEF ClientType
  <2> QED
    BY <1>0, <2>2 DEF Dismiss
<1>3. Listed'
  <2>1. \A q \in registered' \ exported' : \E e \in Clients : Dismisses(e, q)'
    BY <1>1, <1>2 DEF LeftInv, Listed, Dismisses
  <2>2. action[p] # "none"
    BY <1>1 DEF LeftInv, Listed
  <2>3. \A e \in Clients : client'[e].at = "dismiss" =>
          client'[e].prompt \in Prompts \ exported' /\ action'[client'[e].prompt] # "none"
    BY <1>1, <1>2, <2>2 DEF LeftInv, Listed
  <2> QED
    BY <1>1, <2>1, <2>3 DEF LeftInv, Listed
<1>4. \A d \in Dialogs :
        \/ dialog'[d].at = "stop" /\ prompter = "plasma"
        \/ dialog'[d] = dialog[d]
  BY <1>0 DEF Dismiss, DialogType, IInv, TypeOK
<1>5. Ended'
  BY <1>1, <1>4, KeptEnded DEF LeftInv
<1>6. \A e \in Clients : client[e].at = "cli" => client'[e].at = "cli"
  BY <1>1, <1>2
<1>7. Awaited'
  BY <1>1, <1>4, <1>6, KeptAwaited DEF LeftInv, IInv, Open, Waited
<1> QED
  BY <1>3, <1>5, <1>7 DEF LeftInv

LEMMA RemoveLeft ==
  ASSUME IInv, LeftInv, NEW c \in Clients, RemovePrompt(c)
  PROVE  LeftInv'
<1> DEFINE p == client[c].prompt
<1>0. client \in [Clients -> ClientType]
  BY DEF IInv, TypeOK, ClientType
<1>1. /\ client[c].at = "dismiss" /\ registered' = registered \ {p} /\ pending' = pending \ {p}
      /\ UNCHANGED <<prompter, exported, action, served, dialog>>
  BY DEF RemovePrompt
<1>2. client'[c].at = "idle" /\ \A e \in Clients \ {c} : client'[e] = client[e]
  <2>1. client'[c] = [client[c] EXCEPT !.at = "idle"] /\ client[c] \in ClientType
    BY <1>0 DEF RemovePrompt
  <2>2. client'[c].at = "idle"
    BY <2>1 DEF ClientType
  <2> QED
    BY <1>0, <2>2 DEF RemovePrompt
<1>3. Listed'
  <2>1. p \notin exported
    BY <1>1 DEF LeftInv, Listed
  <2>2. \A q \in registered' \ exported' : \E e \in Clients : Dismisses(e, q)'
    BY <1>1, <1>2 DEF LeftInv, Listed, Dismisses
  <2>3. \A e \in Clients : client'[e].at = "dismiss" =>
          client'[e].prompt \in Prompts \ exported' /\ action'[client'[e].prompt] # "none"
    BY <1>1, <1>2 DEF LeftInv, Listed
  <2> QED
    BY <1>1, <2>1, <2>2, <2>3 DEF LeftInv, Listed
<1>4. Ended'
  BY <1>1, KeptEnded DEF LeftInv
<1>5. Awaited'
  BY <1>1, <1>2, KeptAwaited DEF LeftInv, IInv, Open
<1> QED
  BY <1>3, <1>4, <1>5 DEF LeftInv

LEMMA RequestLeft ==
  ASSUME IInv, LeftInv, NEW p \in Prompts, Request(p)
  PROVE  LeftInv'
<1>1. /\ action[p] = "none" /\ action' = [action EXCEPT ![p] = "set"]
      /\ registered' = registered \cup {p} /\ exported' = exported \cup {p}
      /\ pending' \subseteq pending \cup {p}
      /\ UNCHANGED <<prompter, client, served, dialog>>
  BY DEF Request, RequestUnlock, RequestCreate, RequestChange
<1>2. Listed'
  <2>1. \A q \in Prompts : action'[q] = IF q = p THEN "set" ELSE action[q]
    BY <1>1 DEF IInv, TypeOK
  <2>2. \A q \in registered' \ exported' : \E e \in Clients : Dismisses(e, q)'
    BY <1>1 DEF LeftInv, Listed, Dismisses
  <2>3. \A e \in Clients : client'[e].at = "dismiss" =>
          client'[e].prompt \in Prompts \ exported' /\ action'[client'[e].prompt] # "none"
    BY <1>1, <2>1 DEF LeftInv, Listed
  <2>4. \A q \in registered' : action'[q] # "none"
    BY <1>1, <2>1 DEF LeftInv, Listed, IInv, TypeOK
  <2> QED
    BY <1>1, <2>2, <2>3, <2>4 DEF LeftInv, Listed
<1>3. Ended'
  BY <1>1, KeptEnded DEF LeftInv
<1>4. Awaited'
  BY <1>1, KeptAwaited DEF LeftInv, IInv, Open
<1> QED
  BY <1>2, <1>3, <1>4 DEF LeftInv

LEMMA ShowLeft ==
  ASSUME IInv, LeftInv, NEW c \in Clients, NEW d \in Dialogs, Install(c, d) \/ PromptCli(c, d)
  PROVE  LeftInv'
<1>0. client \in [Clients -> ClientType] /\ dialog \in [Dialogs -> DialogType]
  BY DEF IInv, TypeOK, ClientType, DialogType
<1>1. /\ client[c].at = "install" /\ dialog[d].at = "unused"
      /\ dialog'[d].at \in {"begin", "ask"} /\ (dialog'[d].at = "begin" => prompter # "cli")
      /\ dialog'[d].caller = c
      /\ \A e \in Dialogs \ {d} : dialog'[e] = dialog[e]
      /\ UNCHANGED <<prompter, registered, pending, exported, action>>
      /\ served' = served \/ (served' = served \cup {d} /\ prompter # "cli")
  BY <1>0 DEF Install, PromptCli, Shown, serviceVars
<1>2. PICK r \in ClientType : /\ client' = [client EXCEPT ![c] = r]
                              /\ r.at = IF prompter = "cli" THEN "cli" ELSE "replied"
  <2>1. /\ [client[c] EXCEPT !.at = "replied", !.reply = "ok"] \in ClientType
        /\ [client[c] EXCEPT !.at = "replied", !.reply = "ok"].at = "replied"
        /\ [client[c] EXCEPT !.at = "cli"] \in ClientType
        /\ [client[c] EXCEPT !.at = "cli"].at = "cli"
    BY <1>0 DEF ClientType, ClientState
  <2> QED
    BY <1>0, <2>1 DEF Install, PromptCli
<1>3. DismissalsKept /\ \A e \in Clients : client[e].at = "cli" => client'[e].at = "cli"
  BY <1>1, <1>2, ClientStep
<1>4. Listed'
  BY <1>1, <1>3, KeptListed DEF LeftInv, ActionsKept
<1>5. Ended'
  BY <1>1 DEF LeftInv, Ended
<1>6. Awaited'
  <2> SUFFICES ASSUME prompter = "cli" PROVE Awaited'
    BY <1>1 DEF Awaited
  <2>1. client'[c].at = "cli"
    BY <1>0, <1>2
  <2>2. \A e \in Dialogs \ {d} : Open(e) => dialog[e].caller \in Clients \ {c}
    BY <1>1 DEF LeftInv, Awaited, IInv, TypeOK
  <2>3. \A e \in Dialogs \ {d} : Open(e)' => Open(e)
    BY <1>1 DEF Open
  <2> QED
    BY <1>1, <1>3, <2>1, <2>2, <2>3 DEF LeftInv, Awaited
<1> QED
  BY <1>4, <1>5, <1>6 DEF LeftInv

\* The end of a dialog, with the reply that the command line prompter's caller waits for.
LEMMA ReplyLeft ==
  ASSUME IInv, LeftInv, NEW d \in Dialogs, NEW at \in DialogState, DialogMoves(d, at),
         NEW r \in {"ok", "wrong", "error"}, Reply(d, r),
         prompter = "cli" => Open(d) /\ at \in {"dead", "wrong", "done"},
         prompter # "cli" => at \in {"dead", "wrong", "stop"},
         UNCHANGED <<prompter, registered, exported, action, served>>,
         pending' \subseteq pending
  PROVE  LeftInv'
<1>0. client \in [Clients -> ClientType] /\ dialog[d].caller \in Clients
  BY DEF IInv, TypeOK, ClientType
<1>1. /\ dialog'[d].at = at /\ dialog'[d].prompt = dialog[d].prompt
      /\ dialog'[d].caller = dialog[d].caller
      /\ \A e \in Dialogs \ {d} : dialog'[e] = dialog[e]
  BY Moved DEF IInv
<1>2. ASSUME prompter = "cli"
      PROVE  /\ client[dialog[d].caller].at = "cli" /\ client'[dialog[d].caller].at = "replied"
             /\ \A c \in Clients \ {dialog[d].caller} : client'[c] = client[c]
  <2>1. /\ client'[dialog[d].caller] =
             [client[dialog[d].caller] EXCEPT !.at = "replied", !.reply = r]
        /\ client[dialog[d].caller] \in ClientType
    BY <1>0, <1>2 DEF Reply
  <2>2. client'[dialog[d].caller].at = "replied"
    BY <2>1 DEF ClientType
  <2> QED
    BY <1>0, <1>2, <2>2 DEF Reply, LeftInv, Awaited
<1>3. prompter # "cli" => client' = client
  BY DEF Reply
<1>4. DismissalsKept
  BY <1>0, <1>2, <1>3 DEF DismissalsKept
<1>5. Listed'
  BY <1>4, KeptListed DEF LeftInv, ActionsKept
<1>6. Ended'
  BY <1>1, KeptEnded DEF LeftInv
<1>7. Awaited'
  <2> SUFFICES ASSUME prompter = "cli" PROVE Awaited'
    BY DEF Awaited
  <2>1. ~Open(d)' /\ dialog'[d].at \notin {"begin", "stop"}
    BY <1>1 DEF Open, Waited
  <2>2. \A e \in Dialogs \ {d} : Open(e)' => /\ Open(e) /\ dialog[e].caller # dialog[d].caller
                                             /\ dialog[e].caller \in Clients
    BY <1>1 DEF Open, LeftInv, Awaited, IInv, TypeOK
  <2> QED
    BY <1>1, <1>2, <2>1, <2>2 DEF LeftInv, Awaited
<1> QED
  BY <1>5, <1>6, <1>7 DEF LeftInv

\* A dialog goes on.
LEMMA MovesLeft ==
  ASSUME IInv, LeftInv, NEW d \in Dialogs, dialog'[d].at \notin {"begin", "done"},
         dialog'[d].prompt = dialog[d].prompt, dialog'[d].caller = dialog[d].caller,
         \A e \in Dialogs \ {d} : dialog'[e] = dialog[e],
         prompter = "cli" => Open(d) /\ dialog'[d].at # "stop",
         ActionsKept,
         UNCHANGED <<client, prompter, registered, pending, exported, served>>
  PROVE  LeftInv'
<1>1. DismissalsKept
  BY DEF DismissalsKept
<1>2. Listed'
  BY <1>1, KeptListed DEF LeftInv
<1>3. Ended'
  BY KeptEnded DEF LeftInv
<1>4. Awaited'
  <2> SUFFICES ASSUME prompter = "cli" PROVE Awaited'
    BY DEF Awaited
  <2>1. \A e \in Dialogs : Open(e)' => Open(e)
    BY DEF Open
  <2>2. \A e \in Dialogs : dialog'[e].caller = dialog[e].caller
    OBVIOUS
  <2> QED
    BY <2>1, <2>2, KeptAwaited DEF LeftInv, IInv
<1> QED
  BY <1>2, <1>3, <1>4 DEF LeftInv

LEMMA FailLeft ==
  ASSUME IInv, LeftInv, NEW d \in Dialogs, Fail(d), prompter = "cli" => Open(d),
         UNCHANGED <<prompter, registered, pending, exported, action, served>>
  PROVE  LeftInv'
BY ReplyLeft DEF Fail, DialogState

LEMMA DialogLeft ==
  ASSUME IInv, LeftInv, NEW d \in Dialogs,
         \/ Begin(d) \/ PrompterFails(d) \/ Reacts(d) \/ Lookup(d) \/ Garbled(d)
         \/ Validate(d) \/ ValidatePanics(d) \/ Take(d)
  PROVE  LeftInv'
<1>1. /\ UNCHANGED <<prompter, registered, pending, exported, served>>
      /\ UNCHANGED action \/ action' = [action EXCEPT ![dialog[d].prompt] = "taken"]
  BY DEF Begin, PrompterFails, Reacts, Refuse, Answer, Lookup, Garbled, Validate, ValidatePanics, Take,
         serviceVars
<1>2. ActionsKept
  BY <1>1 DEF ActionsKept, IInv, TypeOK
<1>3. prompter = "cli" => Open(d)
  BY DEF Begin, PrompterFails, Reacts, Refuse, Answer, Lookup, Garbled, Validate, ValidatePanics, Take,
         LeftInv, Awaited, Open, Waited
<1>4. ASSUME NEW at \in DialogState \ {"begin", "done"}, DialogMoves(d, at), UNCHANGED client,
             prompter = "cli" => at # "stop"
      PROVE  LeftInv'
  <2>1. /\ dialog'[d].at = at /\ dialog'[d].prompt = dialog[d].prompt
        /\ dialog'[d].caller = dialog[d].caller
        /\ \A e \in Dialogs \ {d} : dialog'[e] = dialog[e]
    BY <1>4, Moved DEF IInv
  <2> QED
    BY <1>1, <1>2, <1>3, <1>4, <2>1, MovesLeft
<1>5. ASSUME Fail(d), UNCHANGED action PROVE LeftInv'
  BY <1>1, <1>3, <1>5, FailLeft
<1>6. CASE Begin(d)
  BY <1>4, <1>6 DEF Begin, Start, PrompterInit, DialogState
<1>7. CASE PrompterFails(d) \/ Garbled(d)
  BY <1>5, <1>7 DEF PrompterFails, Garbled
<1>8. CASE Refuse(d)
  BY <1>4, <1>5, <1>8 DEF Refuse, PrompterDismissed, DialogState
<1>9. ASSUME NEW s \in Answers, Answer(d, s) PROVE LeftInv'
  <2>1. dialog \in [Dialogs -> DialogType]
    BY DEF IInv, TypeOK, DialogType
  <2>2. dialog'[d] = [dialog[d] EXCEPT !.at = "answer", !.secret = s] /\ dialog[d] \in DialogType
    BY <1>9, <2>1 DEF Answer
  <2>3. /\ dialog'[d].at = "answer" /\ dialog'[d].prompt = dialog[d].prompt
        /\ dialog'[d].caller = dialog[d].caller
    BY <2>2 DEF DialogType
  <2>4. (\A e \in Dialogs \ {d} : dialog'[e] = dialog[e]) /\ UNCHANGED client
    BY <1>9, <2>1 DEF Answer
  <2> QED
    BY <1>1, <1>2, <1>3, <2>3, <2>4, MovesLeft
<1>10. CASE Lookup(d)
  BY <1>4, <1>5, <1>10 DEF Lookup, DialogState
<1>11. CASE Validate(d)
  <2>1. CASE Retry(d)
    <3>1. CASE prompter = "cli"
      BY <1>1, <1>3, <1>11, <2>1, <3>1, ReplyLeft DEF Retry, Validate, DialogState
    <3>2. CASE prompter # "cli"
      BY <1>4, <2>1, <3>2 DEF Retry, DialogState
    <3> QED
      BY <3>1, <3>2
  <2>2. CASE DialogMoves(d, "take") /\ UNCHANGED client
    BY <1>4, <2>2 DEF DialogState
  <2> QED
    BY <1>11, <2>1, <2>2 DEF Validate
<1>13. CASE ValidatePanics(d)
  BY <1>4, <1>13 DEF ValidatePanics, DialogState
<1>12. CASE Take(d)
  BY <1>4, <1>5, <1>12 DEF Take, DialogState
<1> QED
  BY <1>6, <1>7, <1>8, <1>9, <1>10, <1>11, <1>12, <1>13 DEF Reacts

LEMMA ExecuteLeft ==
  ASSUME IInv, LeftInv, NEW d \in Dialogs,
         \/ ExecuteUnlock(d) \/ ExecuteChange(d) \/ ExecuteCreate(d) \/ Create(d)
         \/ ExecuteFails(d)
  PROVE  LeftInv'
<1>1. /\ UNCHANGED <<prompter, registered, exported, action, served>>
      /\ pending' \subseteq pending /\ Open(d)
  BY DEF ExecuteUnlock, ExecuteChange, ExecuteCreate, Create, ExecuteFails, serviceVars, Open,
         Waited
<1>2. ASSUME NEW o, Succeed(d, o) PROVE LeftInv'
  BY <1>1, <1>2, ReplyLeft DEF Succeed, DialogState
<1>3. ASSUME ActionFails(d) PROVE LeftInv'
  BY <1>1, <1>3, ReplyLeft DEF ActionFails, Fail, DialogState
<1>4. ASSUME DialogMoves(d, "create"), UNCHANGED <<client, pending>> PROVE LeftInv'
  <2>1. /\ dialog'[d].at = "create" /\ dialog'[d].prompt = dialog[d].prompt
        /\ dialog'[d].caller = dialog[d].caller
        /\ \A e \in Dialogs \ {d} : dialog'[e] = dialog[e]
    BY <1>4, Moved DEF IInv, DialogState
  <2> QED
    BY <1>1, <1>4, <2>1, MovesLeft DEF ActionsKept
<1> QED
  BY <1>2, <1>3, <1>4
     DEF ExecuteUnlock, ExecuteChange, ExecuteCreate, Create, ExecuteFails, serviceVars

LEMMA EmitLeft ==
  ASSUME IInv, LeftInv, NEW d \in Dialogs, Emit(d)
  PROVE  LeftInv'
<1>1. UNCHANGED <<prompter, registered, pending, exported, action, served, dialog>>
  BY DEF Emit, serviceVars
<1>2. \A c \in Clients : client'[c].at = client[c].at /\ client'[c].prompt = client[c].prompt
  <2>1. client \in [Clients -> ClientType]
    BY DEF IInv, TypeOK, ClientType
  <2> TAKE c \in Clients
  <2>2. client'[c] = client[c] \/ client'[c] = [client[c] EXCEPT !.heard = spawned[d]]
    BY DEF Emit
  <2>3. client[c] \in ClientType
    BY <2>1
  <2> QED
    BY <2>2, <2>3 DEF ClientType
<1>3. Listed'
  BY <1>1, <1>2, KeptListed DEF LeftInv, DismissalsKept, ActionsKept
<1>4. Ended'
  BY <1>1, KeptEnded DEF LeftInv
<1>5. Awaited'
  BY <1>1, <1>2, KeptAwaited DEF LeftInv, IInv, Open
<1> QED
  BY <1>3, <1>4, <1>5 DEF LeftInv

LEMMA DoneLeft ==
  ASSUME IInv, LeftInv, NEW d \in Dialogs, PromptDone(d)
  PROVE  LeftInv'
<1> DEFINE p == dialog[d].prompt
<1>1. /\ prompter # "cli" /\ dialog[d].at = "stop"
      /\ UNCHANGED <<prompter, action, client>>
  BY DEF PromptDone, LeftInv, Awaited
<1>2. CASE DialogMoves(d, "dead") /\ UNCHANGED <<serviceVars, served>>
  <2>1. /\ dialog'[d].at = "dead" /\ dialog'[d].prompt = p
        /\ dialog'[d].caller = dialog[d].caller
        /\ \A e \in Dialogs \ {d} : dialog'[e] = dialog[e]
    BY <1>2, Moved DEF IInv, DialogState
  <2> QED
    BY <1>1, <1>2, <2>1, MovesLeft DEF ActionsKept, serviceVars
<1>3. CASE /\ ~(p \in registered /\ p \notin exported) /\ DialogMoves(d, "done")
           /\ registered' = registered \ {p} /\ exported' = exported \ {p}
           /\ pending' = pending \ {p} /\ served' = served \ {d}
  <2>1. /\ dialog'[d].at = "done" /\ dialog'[d].prompt = p
        /\ \A e \in Dialogs \ {d} : dialog'[e] = dialog[e]
    BY <1>3, Moved DEF IInv, DialogState
  <2>2. Listed'
    <3>1. \A q \in registered' \ exported' : \E c \in Clients : Dismisses(c, q)'
      BY <1>1, <1>3 DEF LeftInv, Listed, Dismisses
    <3> QED
      BY <1>1, <1>3, <3>1 DEF LeftInv, Listed
  <2>3. Ended'
    BY <1>1, <1>3, <2>1 DEF LeftInv, Ended
  <2>4. Awaited'
    BY <1>1 DEF Awaited
  <2> QED
    BY <2>2, <2>3, <2>4 DEF LeftInv
<1> QED
  BY <1>2, <1>3 DEF PromptDone

LEMMA NextLeft == IInv /\ LeftInv /\ [Next]_vars => LeftInv'
<1> SUFFICES ASSUME IInv, LeftInv, [Next]_vars PROVE LeftInv'
  OBVIOUS
<1>1. CASE Lock \/ UNCHANGED vars
  BY <1>1 DEF Lock, vars, serviceVars, LeftInv, Listed, Ended, Awaited, Dismisses, Open
<1>2. CASE \E c \in Clients : Return(c) \/ GiveUp(c) \/ Serve(c)
  BY <1>2, WaitLeft, RemoveLeft, ShowLeft DEF Serve
<1>3. CASE \E d \in Dialogs : \/ Proceed(d) \/ Reacts(d) \/ Emit(d)
                             \/ PrompterFails(d) \/ Garbled(d) \/ ExecuteFails(d)
  BY <1>3, DialogLeft, ExecuteLeft, EmitLeft, DoneLeft DEF Proceed
<1> QED
  BY <1>1, <1>2, <1>3, WaitLeft, DismissLeft, RequestLeft DEF Next

\* The list of prompts, the object server and the pending collections agree but for a
\* Dismiss under way, and a dialog shown to its end leaves neither its callback nor its
\* prompt (Prompt::dismiss, Service::remove_prompt, the callbacks' prompter_done).
THEOREM NothingIsLeft == Spec => []NothingLeftBehind
<1>1. Init => LeftInv
  BY DEF Init, LeftInv, Listed, Ended, Awaited, Open, Waited
<1>2. IInv /\ LeftInv => NothingLeftBehind
  BY DEF LeftInv, Listed, Ended, Dismisses, NothingLeftBehind
<1>3. IInv /\ LeftInv /\ [Next]_vars => LeftInv'
  BY NextLeft
<1> QED
  BY <1>1, <1>2, <1>3, IInvAlways, PTL DEF Spec
=============================================================================
