------------------------------- MODULE Prompts -------------------------------
(***************************************************************************)
(* The prompts of the daemon: the objects that Unlock, CreateCollection    *)
(* and ChangeWithPrompt return (server/src/prompt/mod.rs), the dialogs     *)
(* that show them (server/src/gnome/prompter.rs, plasma/prompter.rs and    *)
(* the command line prompter of prompt/mod.rs) and the clients that wait   *)
(* for the signal Completed (client/src/dbus/api/prompt.rs).               *)
(*                                                                         *)
(* A step is the code between two points where a task can be suspended.    *)
(* The prompters are other programs: they are modelled by the calls that   *)
(* the daemon makes to them and answers from them.                         *)
(***************************************************************************)
EXTENDS Naturals, FiniteSets

CONSTANTS
  Prompts,      \* the prompt objects, one for each request
  Clients,
  OwnerOf,      \* the client that asks for each prompt
  CallersOf,    \* the clients that call Prompt on it
  RoleOf,       \* PromptRole
  Dialogs,      \* what one call of Prompt shows the user
  NoPrompt, NoDialog,
  Secrets,
  NoSecret,     \* None: an empty answer, the secret of an unencrypted keyring
  InitialCollections, \* how the collection may be
  Prompters,    \* the prompters there may be
  Budget        \* how many answers, dismissals, locks and failures there may be

Answers == Secrets \cup {NoSecret}
BudgetKeys == {"answer", "dismiss", "lock", "fault"}

ASSUME PromptsAssumption ==
  /\ Clients # {} /\ OwnerOf \in [Prompts -> Clients]
  /\ CallersOf \in [Prompts -> SUBSET Clients]
  /\ RoleOf \in [Prompts -> {"unlock", "create", "change"}]
  /\ NoPrompt \notin Prompts /\ NoDialog \notin Dialogs /\ NoSecret \notin Secrets
  /\ InitialCollections \subseteq
       [state : {"locked", "unlocked"}, password : Answers, broken : {"none", "some", "most"}]
  /\ \A c \in InitialCollections : c.state = "unlocked" => c.broken = "none"
  /\ Prompters \subseteq {"gnome", "plasma", "cli"}
  /\ Budget \in [BudgetKeys -> Nat]

VARIABLES
  prompter,    \* PrompterType: what prompter_type finds in the environment
  registered,  \* Service::prompts
  pending,     \* Service::pending_collections
  exported,    \* the prompts on the object server
  action,      \* the Option<PromptAction> of each prompt
  callback,    \* its OnceCell with the prompter's callback
  served,      \* the callbacks on the object server
  dialog,      \* how far each dialog is
  spawned,     \* the Completed signal of a dialog that a task is to emit
  client,      \* what each client does
  collection,  \* the collection that is unlocked and re-keyed: its keyring or "none",
               \* its password, how many items its key does not decrypt
  created,     \* history: prompts whose collection was created
  outcome,     \* history: what became of the action of each prompt
  emitted,     \* history: the Completed signals, by dialog
  executed,    \* history: the dialogs that ran an action
  dismissed,   \* history: the prompts that a call of Dismiss took away
  budget       \* what is left of Budget

serviceVars == <<registered, pending, exported>>
ghosts == <<created, outcome, emitted, executed, dismissed>>
vars == <<prompter, registered, pending, exported, action, callback, served, dialog,
          spawned, client, collection, created, outcome, emitted, executed, dismissed,
          budget>>

DialogState == {"unused", "begin", "ask", "answer", "validate", "take", "execute",
                "create", "stop", "done", "dead", "panicked"}
ClientState == {"idle", "check", "install", "cli", "replied", "dismiss"}

TypeOK ==
  /\ prompter \in Prompters
  /\ registered \subseteq Prompts /\ pending \subseteq Prompts /\ exported \subseteq Prompts
  /\ action \in [Prompts -> {"none", "set", "taken"}]
  /\ callback \in [Prompts -> Dialogs \cup {NoDialog}]
  /\ served \subseteq Dialogs
  /\ dialog \in [Dialogs -> [at : DialogState, prompt : Prompts \cup {NoPrompt},
                             secret : Answers, caller : Clients]]
  /\ spawned \in [Dialogs -> {"none", "result", "dismissed"}]
  /\ client \in [Clients -> [at : ClientState, prompt : Prompts \cup {NoPrompt},
                             reply : {"none", "ok", "wrong", "error"},
                             heard : {"none", "result", "dismissed"}]]
  /\ collection \in [state : {"locked", "unlocked", "none"}, password : Answers,
                    broken : {"none", "some", "most"}]
  /\ created \subseteq Prompts
  /\ outcome \in [Prompts -> {"none", "done", "unchanged", "failed"}]
  /\ emitted \in [Dialogs -> {"none", "result", "dismissed"}]
  /\ executed \subseteq Dialogs
  /\ dismissed \subseteq Prompts
  /\ budget \in [BudgetKeys -> Nat]

Role(d) == RoleOf[dialog[d].prompt]

Spend(k) == budget[k] > 0 /\ budget' = [budget EXCEPT ![k] = @ - 1]

DialogMoves(d, at) == dialog' = [dialog EXCEPT ![d].at = at]

Idle(c) == client[c].at = "idle"

\* Service::prompt: the handlers of a callback look for their prompt.
Found(d) == dialog[d].prompt \in registered

\* The call of Prompt that shows d returns: only the command line prompter runs
\* inside of it, the others were started by a spawned task.
Reply(d, r) ==
  client' = IF prompter = "cli"
            THEN [client EXCEPT ![dialog[d].caller].at = "replied",
                                ![dialog[d].caller].reply = r]
            ELSE client

\* A handler returns an error: the prompter gives up, and only the command line
\* prompter's caller hears of it.
Fail(d) == DialogMoves(d, "dead") /\ Reply(d, "error")

-----------------------------------------------------------------------------
(* Clients *)

\* Unlock only makes a prompt for a collection that is locked, or has lost its keyring.
RequestUnlock(p) == RoleOf[p] = "unlock" /\ collection.state # "unlocked" /\ UNCHANGED pending

\* CreateCollection remembers label and alias under the prompt's path.
RequestCreate(p) == RoleOf[p] = "create" /\ pending' = pending \cup {p}

RequestChange(p) == RoleOf[p] = "change" /\ UNCHANGED pending

\* The method call that makes a prompt; nobody knows its path before it returns.
Request(p) ==
  /\ action[p] = "none" /\ Idle(OwnerOf[p])
  /\ RequestUnlock(p) \/ RequestCreate(p) \/ RequestChange(p)
  /\ action' = [action EXCEPT ![p] = "set"]
  /\ registered' = registered \cup {p} /\ exported' = exported \cup {p}
  /\ UNCHANGED <<prompter, callback, served, dialog, spawned, client, collection, ghosts,
                 budget>>

Calling == {c \in Clients : client[c].at \in {"check", "install"}}

\* receive_completed: the client listens to Completed and calls Prompt.  There are as
\* many calls as Dialogs.
CallPrompt(c, p) ==
  /\ c \in CallersOf[p] /\ Idle(c) /\ action[p] # "none"
  /\ Cardinality(Calling) < Cardinality({d \in Dialogs : dialog[d].at = "unused"})
  /\ client' = [client EXCEPT ![c] = [at |-> IF p \in exported THEN "check" ELSE "replied",
                                      prompt |-> p,
                                      reply |-> IF p \in exported THEN "none" ELSE "error",
                                      heard |-> "none"]]
  /\ UNCHANGED <<prompter, serviceVars, action, callback, served, dialog, spawned,
                 collection, ghosts, budget>>

\* receive_completed returns: at an error of Prompt, or with Completed.
Return(c) ==
  /\ client[c].at = "replied"
  /\ client[c].reply = "error" \/ client[c].heard # "none"
  /\ client' = [client EXCEPT ![c].at = "idle"]
  /\ UNCHANGED <<prompter, serviceVars, action, callback, served, dialog, spawned,
                 collection, ghosts, budget>>

\* The application stops waiting.
GiveUp(c) ==
  /\ client[c].at = "replied" /\ client[c].reply # "error" /\ client[c].heard = "none"
  /\ Spend("dismiss")
  /\ client' = [client EXCEPT ![c].at = "idle"]
  /\ UNCHANGED <<prompter, serviceVars, action, callback, served, dialog, spawned,
                 collection, ghosts>>

\* Dismiss takes the prompt off the bus, and tells a Plasma dialog to close.
Dismiss(c, p) ==
  /\ Idle(c) /\ p \in exported /\ Spend("dismiss")
  /\ exported' = exported \ {p}
  /\ client' = [client EXCEPT ![c] = [@ EXCEPT !.at = "dismiss", !.prompt = p]]
  /\ dialog' = IF /\ prompter = "plasma" /\ callback[p] # NoDialog
                  /\ dialog[callback[p]].at = "ask"
               THEN [dialog EXCEPT ![callback[p]].at = "stop"] ELSE dialog
  /\ dismissed' = dismissed \cup {p}
  /\ UNCHANGED <<prompter, registered, pending, action, callback, served, spawned,
                 collection, created, outcome, emitted, executed>>

RemovePrompt(c) ==
  /\ client[c].at = "dismiss"
  /\ registered' = registered \ {client[c].prompt} /\ pending' = pending \ {client[c].prompt}
  /\ client' = [client EXCEPT ![c].at = "idle"]
  /\ UNCHANGED <<prompter, exported, action, callback, served, dialog, spawned, collection,
                 ghosts, budget>>

\* Somebody locks the collection.
Lock ==
  /\ collection.state = "unlocked" /\ Spend("lock")
  /\ collection' = [collection EXCEPT !.state = "locked"]
  /\ UNCHANGED <<prompter, serviceVars, action, callback, served, dialog, spawned, client,
                 ghosts>>

-----------------------------------------------------------------------------
(* The method Prompt *)

\* prompt_gnome and prompt_plasma refuse a prompt that has a callback.
Check(c) ==
  /\ client[c].at = "check"
  /\ client' = [client EXCEPT ![c] =
       IF prompter # "cli" /\ callback[@.prompt] # NoDialog
       THEN [@ EXCEPT !.at = "replied", !.reply = "error"] ELSE [@ EXCEPT !.at = "install"]]
  /\ UNCHANGED <<prompter, serviceVars, action, callback, served, dialog, spawned,
                 collection, ghosts, budget>>

NewDialog == CHOOSE d \in Dialogs : dialog[d].at = "unused"

Shown(c, d, at) ==
  dialog' = [dialog EXCEPT ![d] = [at |-> at, prompt |-> client[c].prompt,
                                   secret |-> NoSecret, caller |-> c]]

\* The callback is made, remembered unless another call was faster, and served; the
\* prompter is called by a task of its own.
Install(c, d) ==
  /\ client[c].at = "install" /\ prompter # "cli"
  /\ d = NewDialog /\ dialog[d].at = "unused"
  /\ Shown(c, d, "begin")
  /\ client' = [client EXCEPT ![c].at = "replied", ![c].reply = "ok"]
  /\ callback' = [callback EXCEPT ![client[c].prompt] = IF @ = NoDialog THEN d ELSE @]
  /\ served' = served \cup {d}
  /\ UNCHANGED <<prompter, serviceVars, action, spawned, collection, ghosts, budget>>

\* The command line prompter is waited for.
PromptCli(c, d) ==
  /\ client[c].at = "install" /\ prompter = "cli"
  /\ d = NewDialog /\ dialog[d].at = "unused"
  /\ Shown(c, d, "ask")
  /\ client' = [client EXCEPT ![c].at = "cli"]
  /\ UNCHANGED <<prompter, serviceVars, action, callback, served, spawned, collection,
                 ghosts, budget>>

-----------------------------------------------------------------------------
(* The dialog: calls of the prompter and the handlers of its callback *)

\* A Plasma prompter shows its dialog at once.
Start(d) == prompter = "plasma" /\ DialogMoves(d, "ask")

\* BeginPrompting is answered with the first PromptReady, which looks for the prompt
\* and calls PerformPrompt.
PrompterInit(d) == prompter = "gnome" /\ DialogMoves(d, IF Found(d) THEN "ask" ELSE "dead")

Begin(d) ==
  /\ dialog[d].at = "begin"
  /\ Start(d) \/ PrompterInit(d)
  /\ UNCHANGED <<prompter, serviceVars, action, callback, served, spawned, client,
                 collection, ghosts, budget>>

\* There is no such prompter, or it stops; nobody looks at what the calls return.
PrompterFails(d) ==
  /\ dialog[d].at \in {"begin", "ask"} /\ Spend("fault")
  /\ Fail(d)
  /\ UNCHANGED <<prompter, serviceVars, action, callback, served, spawned, collection,
                 ghosts>>

\* The user answers: PromptReady(yes), Accepted, or the prompter's file descriptor.
Answer(d, s) ==
  /\ dialog[d].at = "ask" /\ Spend("answer")
  /\ dialog' = [dialog EXCEPT ![d] = [@ EXCEPT !.at = "answer", !.secret = s]]
  /\ UNCHANGED <<prompter, serviceVars, action, callback, served, spawned, client,
                 collection, ghosts>>

\* Completed tells of a dismissal, and the prompter is told to stop.
PrompterDismissed(d) ==
  /\ DialogMoves(d, "stop") /\ UNCHANGED client
  /\ spawned' = [spawned EXCEPT ![d] = "dismissed"]

\* The user refuses: PromptReady(no), Rejected, or an answer without a descriptor.
Refuse(d) ==
  /\ dialog[d].at = "ask"
  /\ IF prompter = "cli" \/ (prompter = "gnome" /\ ~Found(d))
     THEN Fail(d) /\ UNCHANGED spawned
     ELSE PrompterDismissed(d)
  /\ UNCHANGED <<prompter, serviceVars, action, callback, served, collection, ghosts,
                 budget>>

\* The handler looks for the prompt; the command line prompter is its method.
Lookup(d) ==
  /\ dialog[d].at = "answer"
  /\ IF prompter = "cli" \/ Found(d)
     THEN /\ DialogMoves(d, IF Role(d) = "unlock" THEN "validate" ELSE "take")
          /\ UNCHANGED client
     ELSE Fail(d)
  /\ UNCHANGED <<prompter, serviceVars, action, callback, served, spawned, collection,
                 ghosts, budget>>

\* The answer cannot be read: no secret in the exchange, or not for our key.
Garbled(d) ==
  /\ dialog[d].at = "answer" /\ Spend("fault")
  /\ Fail(d)
  /\ UNCHANGED <<prompter, serviceVars, action, callback, served, spawned, collection,
                 ghosts>>

\* Mutant: the secret is not checked.
MutValidate(d) ==
  /\ dialog[d].at = "validate" /\ collection.state # "none"
  /\ DialogMoves(d, "take")
  /\ UNCHANGED <<prompter, serviceVars, action, callback, served, spawned, client,
                 collection, ghosts, budget>>

\* The prompters ask again for a wrong secret; prompt_cli forgets the verdict, and the
\* "wrong" of its reply is the caller's Ok all the same.
Retry(d) ==
  IF prompter = "cli" THEN DialogMoves(d, "done") /\ Reply(d, "wrong")
  ELSE DialogMoves(d, "ask") /\ UNCHANGED client

\* One item that the secret decrypts is enough (validate_secret).
Validate(d) ==
  /\ dialog[d].at = "validate" /\ collection.state # "none"
  /\ IF dialog[d].secret = collection.password
     THEN DialogMoves(d, "take") /\ UNCHANGED client ELSE Retry(d)
  /\ UNCHANGED <<prompter, serviceVars, action, callback, served, spawned, collection,
                 ghosts, budget>>

\* The unwrap of a keyring that set_locked has not put back.
ValidatePanics(d) ==
  /\ dialog[d].at = "validate" /\ collection.state = "none"
  /\ DialogMoves(d, "panicked")
  /\ UNCHANGED <<prompter, serviceVars, action, callback, served, spawned, client,
                 collection, ghosts, budget>>

\* Mutant: the action is copied, not taken.
MutTake(d) ==
  /\ dialog[d].at = "take"
  /\ DialogMoves(d, "execute")
  /\ UNCHANGED <<prompter, serviceVars, action, callback, served, spawned, client,
                 collection, ghosts, budget>>

\* take_action: whoever takes it runs it.
Take(d) ==
  /\ dialog[d].at = "take"
  /\ IF action[dialog[d].prompt] = "set"
     THEN /\ action' = [action EXCEPT ![dialog[d].prompt] = "taken"]
          /\ DialogMoves(d, "execute") /\ UNCHANGED client
     ELSE Fail(d) /\ UNCHANGED action
  /\ UNCHANGED <<prompter, serviceVars, callback, served, spawned, collection, ghosts,
                 budget>>

\* Mutant: no Completed signal.
MutSucceed(d, o) ==
  /\ DialogMoves(d, IF prompter = "cli" THEN "done" ELSE "stop") /\ Reply(d, "ok")
  /\ outcome' = [outcome EXCEPT ![dialog[d].prompt] = o]
  /\ executed' = executed \cup {d}
  /\ UNCHANGED spawned

\* The action returned Ok: Completed and StopPrompting are left to tasks.
Succeed(d, o) ==
  /\ DialogMoves(d, IF prompter = "cli" THEN "done" ELSE "stop") /\ Reply(d, "ok")
  /\ spawned' = [spawned EXCEPT ![d] = "result"]
  /\ outcome' = [outcome EXCEPT ![dialog[d].prompt] = o]
  /\ executed' = executed \cup {d}

\* Mutant: Completed tells of a result all the same.
MutActionFails(d) ==
  /\ Fail(d)
  /\ spawned' = [spawned EXCEPT ![d] = "result"]
  /\ outcome' = [outcome EXCEPT ![dialog[d].prompt] = "failed"]
  /\ executed' = executed \cup {d}

\* It returned an error, and is gone.
ActionFails(d) ==
  /\ Fail(d)
  /\ outcome' = [outcome EXCEPT ![dialog[d].prompt] = "failed"]
  /\ executed' = executed \cup {d}
  /\ UNCHANGED spawned

\* set_locked: the secret is refused when it is wrong or most items do not decrypt, and
\* the first item that does not is an error after the keyring was taken out.
Unlocked(s) ==
  CASE collection.state # "locked" -> collection.state
    [] collection.state = "locked" /\ (s # collection.password \/ collection.broken = "most")
         -> "locked"
    [] OTHER -> IF collection.broken = "some" THEN "none" ELSE "unlocked"

\* Unlock's action returns Ok whatever set_locked says.
ExecuteUnlock(d) ==
  /\ dialog[d].at = "execute" /\ Role(d) = "unlock"
  /\ collection' = [collection EXCEPT !.state = Unlocked(dialog[d].secret)]
  /\ Succeed(d, IF collection'.state = "unlocked" THEN "done" ELSE "unchanged")
  /\ UNCHANGED <<prompter, serviceVars, action, callback, served, created, emitted,
                 dismissed, budget>>

\* ChangeWithPrompt's action needs an unlocked collection and a secret.
ExecuteChange(d) ==
  /\ dialog[d].at = "execute" /\ Role(d) = "change"
  /\ IF collection.state = "unlocked" /\ dialog[d].secret # NoSecret
     THEN /\ collection' = [collection EXCEPT !.password = dialog[d].secret]
          /\ Succeed(d, "done")
     ELSE ActionFails(d) /\ UNCHANGED collection
  /\ UNCHANGED <<prompter, serviceVars, action, callback, served, created, emitted,
                 dismissed, budget>>

\* complete_collection_creation reads label and alias, which Dismiss removes.
ExecuteCreate(d) ==
  /\ dialog[d].at = "execute" /\ Role(d) = "create"
  /\ IF dialog[d].prompt \in pending
     THEN DialogMoves(d, "create") /\ UNCHANGED <<client, spawned, outcome, executed>>
     ELSE ActionFails(d)
  /\ UNCHANGED <<prompter, serviceVars, action, callback, served, collection, created,
                 emitted, dismissed, budget>>

Create(d) ==
  /\ dialog[d].at = "create"
  /\ Succeed(d, "done")
  /\ created' = created \cup {dialog[d].prompt}
  /\ pending' = pending \ {dialog[d].prompt}
  /\ UNCHANGED <<prompter, registered, exported, action, callback, served, collection,
                 emitted, dismissed, budget>>

\* The keyring cannot be opened or written, the secret cannot be changed.
ExecuteFails(d) ==
  /\ dialog[d].at = "create" \/ (dialog[d].at = "execute" /\ Role(d) = "change")
  /\ Spend("fault")
  /\ ActionFails(d)
  /\ UNCHANGED <<prompter, serviceVars, action, callback, served, collection, created,
                 emitted, dismissed>>

\* The spawned task emits Completed; every client that listens hears it.
Emit(d) ==
  /\ spawned[d] # "none" /\ emitted[d] = "none"
  /\ emitted' = [emitted EXCEPT ![d] = spawned[d]]
  /\ client' = [c \in Clients |->
       IF client[c].prompt = dialog[d].prompt /\ client[c].at \notin {"idle", "dismiss"}
       THEN [client[c] EXCEPT !.heard = spawned[d]] ELSE client[c]]
  /\ UNCHANGED <<prompter, serviceVars, action, callback, served, dialog, spawned,
                 collection, created, outcome, executed, dismissed, budget>>

\* Mutant: the prompt stays on the list.
MutPromptDone(d) ==
  /\ dialog[d].at = "stop"
  /\ DialogMoves(d, "done")
  /\ exported' = exported \ {dialog[d].prompt}
  /\ served' = served \ {d}
  /\ UNCHANGED <<prompter, registered, pending, action, callback, spawned, client,
                 collection, ghosts, budget>>

\* PromptDone, or Dismissed: what is left goes.  A prompt that Dismiss has taken off
\* the bus and not yet off the list makes it fail.
PromptDone(d) ==
  /\ dialog[d].at = "stop"
  /\ LET p == dialog[d].prompt
     IN IF p \in registered /\ p \notin exported
        THEN DialogMoves(d, "dead") /\ UNCHANGED <<serviceVars, served>>
        ELSE /\ DialogMoves(d, "done")
             /\ registered' = registered \ {p} /\ exported' = exported \ {p}
             /\ pending' = pending \ {p}
             /\ served' = served \ {d}
  /\ UNCHANGED <<prompter, action, callback, spawned, client, collection, ghosts, budget>>

-----------------------------------------------------------------------------

Init ==
  /\ prompter \in Prompters
  /\ registered = {} /\ pending = {} /\ exported = {}
  /\ action = [p \in Prompts |-> "none"]
  /\ callback = [p \in Prompts |-> NoDialog]
  /\ served = {}
  /\ dialog \in {[d \in Dialogs |-> [at |-> "unused", prompt |-> NoPrompt,
                                     secret |-> NoSecret, caller |-> CHOOSE c \in Clients : TRUE]]}
  /\ spawned = [d \in Dialogs |-> "none"]
  /\ client = [c \in Clients |-> [at |-> "idle", prompt |-> NoPrompt, reply |-> "none",
                                  heard |-> "none"]]
  /\ collection \in InitialCollections
  /\ created = {} /\ executed = {} /\ dismissed = {}
  /\ outcome = [p \in Prompts |-> "none"]
  /\ emitted = [d \in Dialogs |-> "none"]
  /\ budget = Budget

\* The prompter's protocol, the handlers and the tasks they spawn.
Proceed(d) ==
  \/ Begin(d) \/ Lookup(d) \/ Validate(d) \/ ValidatePanics(d) \/ Take(d)
  \/ ExecuteUnlock(d) \/ ExecuteChange(d) \/ ExecuteCreate(d) \/ Create(d) \/ PromptDone(d)

\* The user.
Reacts(d) == Refuse(d) \/ \E s \in Answers : Answer(d, s)

Serve(c) == Check(c) \/ RemovePrompt(c) \/ \E d \in Dialogs : Install(c, d) \/ PromptCli(c, d)

Next ==
  \/ \E p \in Prompts : Request(p)
  \/ \E c \in Clients, p \in Prompts : CallPrompt(c, p) \/ Dismiss(c, p)
  \/ \E c \in Clients : Return(c) \/ GiveUp(c) \/ Serve(c)
  \/ Lock
  \/ \E d \in Dialogs : \/ Proceed(d) \/ Reacts(d) \/ Emit(d)
                        \/ PrompterFails(d) \/ Garbled(d) \/ ExecuteFails(d)

Spec == Init /\ [][Next]_vars

\* Tasks are scheduled, a prompter answers and a user does not leave a dialog open
\* for ever; a client that may return does.
Fairness ==
  /\ \A d \in Dialogs : WF_vars(Proceed(d)) /\ WF_vars(Emit(d)) /\ WF_vars(Reacts(d))
  /\ \A c \in Clients : WF_vars(Serve(c)) /\ WF_vars(Return(c))

FairSpec == Spec /\ Fairness

-----------------------------------------------------------------------------
(* What should hold *)

\* Whatever the number of dialogs, and of answers in each: an action runs at most
\* once (Prompt::take_action).
ActionOnce ==
  \A d, e \in executed : dialog[d].prompt = dialog[e].prompt => d = e

\* The types, and the actions that have run.
WellFormed == TypeOK /\ ActionOnce

\* A client that hears of a result is told the truth: the collection was created,
\* re-keyed or unlocked.  Two holes are left, both of the unlock prompt, whose action
\* does not look at what set_locked returns (service/mod.rs:326): between the check of
\* the secret and its use another prompt may change the password (prompt/mod.rs:211),
\* and the check is content with one item that the secret decrypts (api/mod.rs:305),
\* while the unlocking is not (locked_keyring.rs:123, collection/mod.rs:584).
ResultIsTrue ==
  \A d \in Dialogs : emitted[d] = "result" =>
    LET p == dialog[d].prompt
    IN /\ RoleOf[p] = "create" => p \in created
       /\ \/ outcome[p] = "done"
          \/ /\ outcome[p] = "unchanged" /\ RoleOf[p] = "unlock"
             /\ \/ collection.broken # "none"
                \/ \E q \in Prompts : RoleOf[q] = "change" /\ outcome[q] = "done"

\* The list of prompts, the object server, the pending collections and the callbacks
\* agree, but for a Dismiss under way; a dialog that was shown to its end leaves
\* nothing behind.
NothingLeftBehind ==
  /\ exported \cup pending \subseteq registered
  /\ \A p \in registered \ exported :
       \E c \in Clients : client[c].at = "dismiss" /\ client[c].prompt = p
  /\ prompter # "cli" =>
       \A d \in Dialogs : dialog[d].at = "done" =>
         d \notin served /\ dialog[d].prompt \notin registered

\* A prompt is shown once: a second call of Prompt is refused (prompt/tests.rs:31).
\* It is, unless both calls look for the callback before one has made it
\* (prompt/mod.rs:349-368).
OneDialog ==
  prompter # "cli" =>
    \A d, e \in Dialogs : dialog[d].prompt = dialog[e].prompt /\ dialog[d].prompt # NoPrompt
                         => d = e

\* How a client may be left waiting for ever: somebody else dismissed its prompt, in the
\* dialog that its call made a handler, the prompter or the action failed, or the secret
\* typed at the command line was wrong (prompt/mod.rs:423).
Lost(c) ==
  \/ client[c].prompt \in dismissed
  \/ client[c].at = "replied" /\ client[c].reply = "wrong"
  \/ \E d \in Dialogs :
       /\ dialog[d].caller = c /\ dialog[d].prompt = client[c].prompt
       /\ dialog[d].at \in IF prompter = "cli" THEN {"panicked"} ELSE {"dead", "panicked"}

\* In every other case the caller of receive_completed gets its answer; that its dialog
\* has come to its end is no excuse.
ClientsAnswered ==
  \A c \in Clients : client[c].at # "idle" ~> (client[c].at = "idle" \/ Lost(c))

\* The promise of a prompt to its clients, for the run where only its owner calls it.
OutcomeOf(p) ==
  CASE action[p] = "none" -> "none"
    [] action[p] = "set"  -> "open"
    [] action[p] = "taken" /\ outcome[p] = "none" -> "running"
    [] action[p] = "taken" /\ outcome[p] = "failed" -> "failed"
    [] OTHER -> "done"

ToldOf(p) ==
  LET heard == {emitted[d] : d \in {e \in Dialogs : dialog[e].prompt = p}}
  IN CASE "result" \in heard -> "result"
       [] "result" \notin heard /\ "dismissed" \in heard -> "dismissed"
       [] OTHER -> "none"

Contract == INSTANCE PromptContract
  WITH state <- [p \in Prompts |-> OutcomeOf(p)], told <- [p \in Prompts |-> ToldOf(p)]

\* Every prompt keeps the contract.
KeepsContract == Contract!Spec
===============================================================================
