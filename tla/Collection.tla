------------------------------ MODULE Collection ------------------------------
(***************************************************************************)
(* One collection of the daemon (server/src/collection/mod.rs), the items  *)
(* it serves on the bus (server/src/item/mod.rs) and the calls of the      *)
(* service and of the PAM listener that lock, unlock and re-key it         *)
(* (server/src/service/mod.rs, server/src/pam_listener/mod.rs).            *)
(*                                                                         *)
(* Every D-Bus call runs as a task of its own.  A step is the code between *)
(* two points where such a task can be suspended.  A call of the file      *)
(* keyring has the steps that other calls can come between: the key is     *)
(* derived from a secret read before, the keyring is edited up to dump's   *)
(* look at the file, the file is renamed.  UnlockedKeyring has them one by *)
(* one, but knows nothing of a file that is removed.                       *)
(***************************************************************************)
EXTENDS Naturals, Sequences, FiniteSets

CONSTANTS
  Tasks,        \* the calls that may run at a time
  NoTask,       \* the holder of a free lock
  OpsOf,        \* the calls each task may make
  Items,        \* items, in the file or still to be created
  NoItem,       \* nothing is served at a path
  AttrsOf,      \* the attributes each item is created with
  Replaces,     \* the values create's replace may have
  Broken,       \* items in the file that no secret here decrypts
  NoKey,        \* no key is cached, or the key of an item is nobody's
  Secrets, WeakSecrets,
  Persistent,   \* FALSE for the session collection, which has no file
  InitialItems, \* what the file may hold, in its order
  StartStates,  \* how the keyring may be when the daemon serves it
  NoFile,
  Budget        \* how many calls and how many failures there may be

Op == {"create", "deleteItem", "deleteCollection", "lock", "unlock", "lockItem",
       "unlockItem", "setAttributes", "pamUnlock", "changePassword"}

Labels == {"idle", "check", "prompt", "validate", "resolve", "service", "decide", "take", "items",
           "each", "itemLock", "turn", "secret", "key", "change", "snapshot", "newSecret",
           "unset", "reset", "readd", "file", "put", "index", "number", "search", "purge",
           "push", "serve", "find", "attributes", "deleteFile", "remove", "retain",
           "unserve", "rename", "recheck", "unserveAll", "removeFile", "unregister"}

\* A key is derived from a secret and the salt of the keyring.
Key == Secrets \X Nat
AnyKey == Key \cup {NoKey}
Attributes == {AttrsOf[i] : i \in Items}
Paths == 0 .. Cardinality(Items)

ASSUME CollectionAssumption ==
  /\ NoTask \notin Tasks /\ NoItem \notin Items
  /\ NoFile \notin [items : SUBSET Items, under : [Items -> AnyKey], salt : Nat]
  /\ NoKey \notin Key
  /\ OpsOf \in [Tasks -> SUBSET Op]
  /\ IsFiniteSet(Items)
  /\ Replaces \subseteq BOOLEAN
  /\ Broken \subseteq Items /\ WeakSecrets \subseteq Secrets
  /\ Persistent \in BOOLEAN
  /\ InitialItems \subseteq Seq(Items)
  /\ \A q \in InitialItems : \A m, n \in DOMAIN q : q[m] = q[n] => m = n
  /\ ~Persistent => InitialItems = {<<>>}
  /\ StartStates \subseteq {"locked", "unlocked"}
  /\ Budget \in [{"call", "fault"} -> Nat]

VARIABLES
  keyring,     \* Option<Keyring>: its state ("none" for None), items, the key each is
               \* encrypted under, secret (of a locked one: the last), salt, cached key,
               \* and whether it remembers a time stamp of the file
  file,        \* the keyring file
  salts,       \* history: how many salts were drawn
  items,       \* the Vec of items
  bus,         \* the Option<file::Item> of each item and the path it was given
  served,      \* what the object server has at each item path
  item_index,  \* the next path
  registered,  \* whether the collection is on the bus
  writer,      \* the task holding the keyring lock for writing across awaits
  readers,     \* the tasks holding it for reading across awaits
  dumping,     \* the task writing the file: it holds the locks of the file keyring
  itemsHolder, \* the task holding the mutex of the Vec across awaits
  service,     \* the task holding the mutex of the service's collections
  pc, loc,     \* of each task: where it is, and its local variables
  used,        \* history: items that were created
  deleted,     \* history: items whose deletion succeeded
  late,        \* history: items added to the list of a collection that is not unlocked,
               \* and that no set_locked has turned since
  beside,      \* history: whether a change of the password and a call that uses the key
               \* of the keyring were under way at the same time
  budget       \* what is left of Budget

lockVars == <<writer, readers, dumping, itemsHolder, service>>
busVars  == <<items, bus, served, item_index, registered>>
fileVars == <<keyring, file, salts>>
ghosts   == <<used, deleted, late, beside>>

vars == <<keyring, file, salts, items, bus, served, item_index, registered, writer, readers,
          dumping, itemsHolder, service, pc, loc, used, deleted, late, beside, budget>>

KeyringState == [state : {"none", "locked", "unlocked"}, items : SUBSET Items,
                 under : [Items -> AnyKey], secret : Secrets, salt : Nat, cached : AnyKey,
                 stamped : BOOLEAN]
File == [items : SUBSET Items, under : [Items -> AnyKey], salt : Nat] \cup {NoFile}
BusItem == [path : Paths, lock : {"none", "locked", "unlocked"}, attrs : Attributes,
            key : AnyKey]

\* op, item: the call; attrs: the item's attributes; replace: its argument; n: the
\* index read; key, for: the key derived and the step it is for; todo: what a loop has
\* left; target, secret, after: the arguments of set_locked and where it returns to, or
\* the secret that derive_key has read; was: was_locked; snap: the items decrypted.
Local == [op : Op \cup {"none"}, item : Items \cup {NoItem}, attrs : Attributes \cup {{}},
          replace : BOOLEAN, n : Paths, key : AnyKey,
          for : {"put", "index", "remove", "turn", "readd"}, todo : Seq(Items),
          target : {"locked", "unlocked"}, secret : Secrets,
          after : {"idle", "file", "find", "recheck", "change"}, was : BOOLEAN,
          snap : SUBSET Items]

TypeOK ==
  /\ keyring \in KeyringState /\ file \in File /\ salts \in Nat
  /\ items \in Seq(Items)
  /\ bus \in [Items -> BusItem]
  /\ served \in [Paths -> Items \cup {NoItem}]
  /\ item_index \in 0 .. Cardinality(Items) + 1
  /\ registered \in BOOLEAN
  /\ {writer, dumping, itemsHolder, service} \subseteq Tasks \cup {NoTask}
  /\ readers \subseteq Tasks
  /\ pc \in [Tasks -> Labels] /\ loc \in [Tasks -> Local]
  /\ used \subseteq Items /\ deleted \subseteq Items /\ late \subseteq Items
  /\ beside \in BOOLEAN
  /\ budget \in [{"call", "fault"} -> Nat]

Listed == {items[n] : n \in DOMAIN items}
Idle == \A t \in Tasks : pc[t] = "idle"

-----------------------------------------------------------------------------
(* The file keyring *)

SomeSecret == CHOOSE s \in Secrets : TRUE

\* The items that a key decrypts, and a secret.
Under(kr, key) == {i \in kr.items : kr.under[i] = key}
Valid(kr, s) == Under(kr, <<s, kr.salt>>)

\* LockedKeyring::unlock: most of the items must decrypt.
Accepts(kr, s) ==
  LET valid == Valid(kr, s)
  IN  /\ valid = {} => kr.items = {}
      /\ Cardinality(kr.items \ valid) <= Cardinality(valid)

\* Keyring::validate_secret: one of them must.
Validates(kr, s) == kr.items = {} \/ Valid(kr, s) # {}

\* remove_items: an item that the key does not decrypt does not match either.
Matching(kr, attrs, key) == {i \in Under(kr, key) : attrs \subseteq AttrsOf[i]}

Weak(key) == key \in WeakSecrets \X Nat

\* The keyring gets items, encrypted under a key.
With(kr, S, key) ==
  [kr EXCEPT !.items = @ \cup S, !.under = [i \in Items |-> IF i \in S THEN key ELSE @[i]]]

\* derive_key: the key that was cached, or the one of a secret and the salt.
KeyFor(s) == IF keyring.cached # NoKey THEN keyring.cached ELSE <<s, keyring.salt>>

Spend(kind) ==
  /\ budget[kind] > 0
  /\ budget' = [budget EXCEPT ![kind] = @ - 1]

Unlocked == keyring.state = "unlocked"

\* Vec::retain and the like: the elements of s that are in S, in their order.
Kept(s, S) ==
  LET kept[n \in 0 .. Len(s)] ==
        IF n = 0 THEN <<>>
        ELSE IF s[n] \in S THEN Append(kept[n - 1], s[n]) ELSE kept[n - 1]
  IN kept[Len(s)]

\* No task holds, or keeps, the keyring lock for writing.
CanRead == writer = NoTask

\* Nor is the file keyring being written.
CanUse == CanRead /\ dumping = NoTask

-----------------------------------------------------------------------------
(* The course of a call *)

Blank == [op |-> "none", item |-> NoItem, attrs |-> {}, replace |-> FALSE, n |-> 0,
          key |-> NoKey, for |-> "put", todo |-> <<>>, target |-> "locked",
          secret |-> SomeSecret, after |-> "idle", was |-> FALSE, snap |-> {}]

Free(holder, t) == IF holder = t THEN NoTask ELSE holder

\* The call returns, with a value, an error or a panic: its guards are dropped.
End(t) ==
  /\ pc' = [pc EXCEPT ![t] = "idle"]
  /\ loc' = [loc EXCEPT ![t] = Blank]
  /\ writer' = Free(writer, t) /\ readers' = readers \ {t} /\ dumping' = Free(dumping, t)
  /\ itemsHolder' = Free(itemsHolder, t) /\ service' = Free(service, t)

Goto(t, label, local) ==
  /\ pc' = [pc EXCEPT ![t] = label]
  /\ loc' = [loc EXCEPT ![t] = local]

\* The keyring is edited in memory, and the file is to be replaced.  The edit stays when
\* that fails: dump refuses a file that is not as it remembers it, here one that was
\* removed.
Edit(t, kr, local) ==
  /\ keyring' = kr
  /\ \/ /\ ~Persistent \/ (keyring.stamped <=> file # NoFile)
        /\ Goto(t, "rename", local)
        /\ dumping' = t
        /\ UNCHANGED <<writer, readers, itemsHolder, service, budget>>
     \/ Persistent /\ (keyring.stamped <=> file = NoFile) /\ End(t) /\ UNCHANGED budget
     \/ Persistent /\ Spend("fault") /\ End(t)
  /\ UNCHANGED <<file, salts, busVars, ghosts>>

\* The call waits for a key, under its read guard of the collection's keyring.
GetKey(t, step, local) ==
  /\ Goto(t, "secret", [local EXCEPT !.for = step])
  /\ readers' = readers \cup {t}
  /\ beside' = (beside \/ \E u \in readers : loc[u].op = "changePassword")
  /\ UNCHANGED <<writer, dumping, itemsHolder, service, used, deleted, late>>

\* derive_key reads the secret, and lets go of it.
ReadSecret(t) ==
  /\ pc[t] = "secret"
  /\ Goto(t, "key", [loc[t] EXCEPT !.secret = keyring.secret])
  /\ UNCHANGED <<lockVars, busVars, fileVars, ghosts, budget>>

\* Under the lock of the key it derives it, when none is cached, from that secret and the
\* salt there is now.  create then drops the guard of the keyring.
DeriveKey(t) ==
  LET key == KeyFor(loc[t].secret)
  IN /\ pc[t] = "key"
     /\ keyring.cached # NoKey \/ dumping = NoTask
     /\ keyring' = [keyring EXCEPT !.cached = key]
     /\ Goto(t, loc[t].for, [loc[t] EXCEPT !.key = key])
     /\ readers' = IF loc[t].for = "index" THEN readers \ {t} ELSE readers
     /\ UNCHANGED <<writer, dumping, itemsHolder, service, file, salts, busVars, ghosts, budget>>

\* Mutant: the file is not written.
MutReplaced == file

\* What the new file has.
Replaced ==
  IF Persistent
    THEN [items |-> keyring.items, under |-> keyring.under, salt |-> keyring.salt]
    ELSE file

\* Mutant: a change of the password does not lock again.
MutRename(t) ==
  LET op == loc[t].op
  IN /\ pc[t] = "rename"
     /\ file' = Replaced
     /\ keyring' = [keyring EXCEPT !.stamped = Persistent]
     /\ \/ op = "changePassword" /\ End(t)
        \/ /\ op # "changePassword"
           /\ Goto(t, IF op = "create" THEN "secret" ELSE "retain",
                   [loc[t] EXCEPT !.for = IF op = "create" THEN "index" ELSE @])
           /\ dumping' = NoTask
           /\ UNCHANGED <<writer, readers, itemsHolder, service>>
     /\ UNCHANGED <<salts, busVars, ghosts, budget>>

\* The file is replaced.  create asks for the key, delete goes on to the list, and a
\* change of the password to lock what was locked.
Rename(t) ==
  LET op == loc[t].op
  IN /\ pc[t] = "rename"
     /\ file' = Replaced
     /\ keyring' = [keyring EXCEPT !.stamped = Persistent]
     /\ \/ op = "changePassword" /\ ~loc[t].was /\ End(t)
        \/ /\ op = "changePassword" => loc[t].was
           /\ CASE op = "create" -> Goto(t, "secret", [loc[t] EXCEPT !.for = "index"])
                [] op = "deleteItem" -> Goto(t, "retain", loc[t])
                [] op = "changePassword" ->
                     Goto(t, "take", [loc[t] EXCEPT !.target = "locked", !.after = "idle"])
           /\ dumping' = NoTask
           /\ readers' = IF op = "changePassword" THEN readers \ {t} ELSE readers
           /\ UNCHANGED <<writer, itemsHolder, service>>
     /\ UNCHANGED <<salts, busVars, ghosts, budget>>

\* A method call arrives, its other arguments are chosen where they are first used.
\* Item.Delete goes to what the object server has at the path; the service finds the
\* items to lock or unlock in the list.
Callable(op, i) ==
  CASE op = "create" -> registered /\ i \in Items \ used
    [] op = "deleteItem" -> i # NoItem /\ \E p \in Paths : served[p] = i
    [] op = "deleteCollection" -> registered /\ i = NoItem
    [] op \in {"lockItem", "unlockItem"} -> i \in Listed
    [] op \in {"lock", "unlock", "pamUnlock", "changePassword"} -> i = NoItem
    [] OTHER -> FALSE

ObjectCalls == {"create", "deleteItem", "deleteCollection"}

Call(t) ==
  /\ pc[t] = "idle"
  /\ Spend("call")
  /\ \E op \in OpsOf[t], i \in Items \cup {NoItem} :
       /\ Callable(op, i)
       /\ Goto(t, IF op \in ObjectCalls THEN "check" ELSE "service",
               [Blank EXCEPT !.op = op, !.item = i])
       /\ used' = IF op = "create" THEN used \cup {i} ELSE used
  /\ UNCHANGED <<lockVars, busVars, fileVars, deleted, late, beside>>

\* Item.set_attributes: to the item on the bus, not to the keyring.
SetAttributes(t) ==
  /\ pc[t] = "idle"
  /\ "setAttributes" \in OpsOf[t]
  /\ Spend("call")
  /\ \E p \in Paths, attrs \in Attributes :
       /\ served[p] # NoItem
       /\ bus[served[p]].lock = "unlocked"
       /\ bus' = [bus EXCEPT ![served[p]].attrs = attrs]
  /\ UNCHANGED <<lockVars, fileVars, items, served, item_index, registered, pc, loc, ghosts>>

\* Where the unlocked half of a call begins.
EntryOf(op) ==
  CASE op = "create" -> "file"
    [] op = "deleteItem" -> "find"
    [] op = "deleteCollection" -> "recheck"
    [] OTHER -> "idle"

\* The call asks for a prompt when the collection or the item is locked.
Check(t) ==
  LET i == loc[t].item
      itemOp == loc[t].op = "deleteItem"
  IN /\ pc[t] = "check"
     /\ CanRead
     /\ itemOp => service = NoTask
     /\ IF itemOp /\ (~registered \/ bus[i].lock = "none")
          THEN End(t)
          ELSE /\ Goto(t, IF ~Unlocked \/ (itemOp /\ bus[i].lock = "locked")
                            THEN "prompt" ELSE EntryOf(loc[t].op), loc[t])
               /\ UNCHANGED lockVars
     /\ UNCHANGED <<busVars, fileVars, ghosts, budget>>

\* The user dismisses the prompt or answers it.
Prompt(t) ==
  /\ pc[t] = "prompt"
  /\ \/ End(t)
     \/ /\ \E s \in Secrets : Goto(t, "validate", [loc[t] EXCEPT !.secret = s])
        /\ UNCHANGED lockVars
  /\ UNCHANGED <<busVars, fileVars, ghosts, budget>>

\* Mutant: an answer that does not fit is tried again and again.
MutValidate(t) ==
  /\ pc[t] = "validate"
  /\ CanUse
  /\ IF keyring.state = "none"
       THEN End(t)
       ELSE /\ Goto(t, IF Validates(keyring, loc[t].secret) THEN "take" ELSE "validate",
                    [loc[t] EXCEPT !.target = "unlocked", !.after = EntryOf(loc[t].op)])
            /\ UNCHANGED lockVars
  /\ UNCHANGED <<busVars, fileVars, ghosts, budget>>

\* on_unlock_collection: an answer that does not fit is asked for again.
Validate(t) ==
  /\ pc[t] = "validate"
  /\ CanUse
  /\ IF keyring.state = "none"
       THEN End(t)
       ELSE /\ IF Validates(keyring, loc[t].secret)
                 THEN Goto(t, IF loc[t].op \in {"unlock", "unlockItem"} THEN "resolve" ELSE "take",
                           [loc[t] EXCEPT !.target = "unlocked", !.after = EntryOf(loc[t].op)])
                 ELSE Goto(t, "prompt", loc[t])
            /\ UNCHANGED lockVars
  /\ UNCHANGED <<busVars, fileVars, ghosts, budget>>

-----------------------------------------------------------------------------
(* Collection::set_locked *)

\* It returns Ok: the call goes on, or is over.
Continue(t) ==
  IF loc[t].after = "idle"
    THEN End(t)
    ELSE /\ Goto(t, loc[t].after, [loc[t] EXCEPT !.todo = <<>>])
         /\ writer' = Free(writer, t) /\ itemsHolder' = Free(itemsHolder, t)
         /\ UNCHANGED <<readers, dumping, service>>

\* Mutant: a refused keyring is not read again.
MutReloaded == [keyring EXCEPT !.state = "none", !.items = {}]

\* An unlock that is refused has consumed the keyring: it is read from the file again.
Reloaded ==
  IF ~Persistent THEN [keyring EXCEPT !.state = "none", !.items = {}]
  ELSE IF file = NoFile
    THEN [keyring EXCEPT !.items = {}, !.salt = salts, !.stamped = FALSE]
    ELSE [keyring EXCEPT !.items = file.items, !.under = file.under, !.salt = file.salt,
                         !.stamped = TRUE]

\* The keyring is taken out of its Option, under the write guard.
Take(t) ==
  LET target == loc[t].target
      s == loc[t].secret
  IN /\ pc[t] = "take"
     /\ writer = NoTask /\ readers = {}
     /\ \/ /\ keyring.state \in {"none", target}
           /\ Continue(t)
           /\ UNCHANGED <<keyring, salts>>
        \/ /\ keyring.state = "locked" /\ target = "unlocked"
           /\ ~Accepts(keyring, s)
           /\ keyring' = Reloaded
           /\ salts' = IF Persistent /\ file = NoFile THEN salts + 1 ELSE salts
           /\ End(t)
        \/ /\ \/ /\ keyring.state = "unlocked" /\ target = "locked"
                 /\ UNCHANGED keyring
              \/ /\ keyring.state = "locked" /\ target = "unlocked"
                 /\ Accepts(keyring, s)
                 /\ keyring' = [keyring EXCEPT !.secret = s, !.cached = <<s, keyring.salt>>]
           /\ writer' = t
           /\ Goto(t, "items", loc[t])
           /\ UNCHANGED <<readers, dumping, itemsHolder, service, salts>>
     /\ UNCHANGED <<busVars, file, ghosts, budget>>

\* Mutant: the write guard is dropped before the items are turned.
MutLockItems(t) ==
  /\ pc[t] = "items"
  /\ itemsHolder = NoTask
  /\ itemsHolder' = t /\ writer' = NoTask /\ late' = {}
  /\ Goto(t, "each", [loc[t] EXCEPT !.todo = items])
  /\ UNCHANGED <<readers, dumping, service, busVars, fileVars, used, deleted, beside, budget>>

LockItems(t) ==
  /\ pc[t] = "items"
  /\ itemsHolder = NoTask
  /\ itemsHolder' = t
  /\ late' = {}
  /\ Goto(t, "each", [loc[t] EXCEPT !.todo = items])
  /\ UNCHANGED <<writer, readers, dumping, service, busVars, fileVars, used, deleted, beside, budget>>

\* Item::set_locked: what becomes of the item; "none" when it fails.  Locking it fails
\* under a weak key, unlocking it when it does not decrypt.
Turned(i, target, key) ==
  CASE bus[i].lock = "unlocked" /\ target = "locked" ->
         IF Weak(key) THEN [bus[i] EXCEPT !.lock = "none"]
                      ELSE [bus[i] EXCEPT !.lock = "locked", !.key = key]
    [] bus[i].lock = "locked" /\ target = "unlocked" ->
         IF bus[i].key = key THEN [bus[i] EXCEPT !.lock = "unlocked"]
                             ELSE [bus[i] EXCEPT !.lock = "none"]
    [] OTHER -> bus[i]

\* One item after the other is turned; the key is nobody else's now.  When one fails, the
\* keyring that was taken is not put back.  A locked keyring has forgotten its key.
EachItem(t) ==
  LET todo == loc[t].todo
      i == Head(todo)
      turned == Turned(i, loc[t].target, KeyFor(keyring.secret))
  IN /\ pc[t] = "each"
     /\ \/ /\ todo = <<>>
           /\ keyring' = [keyring EXCEPT !.state = loc[t].target,
                            !.cached = IF loc[t].target = "locked" THEN NoKey ELSE @]
           /\ Continue(t)
           /\ UNCHANGED bus
        \/ /\ todo # <<>>
           /\ bus' = [bus EXCEPT ![i] = turned]
           /\ \/ /\ turned.lock = "none" /\ bus[i].lock # "none"
                 /\ keyring' = [keyring EXCEPT !.state = "none", !.items = {}]
                 /\ End(t)
              \/ /\ turned.lock # "none" \/ bus[i].lock = "none"
                 /\ Goto(t, "each", [loc[t] EXCEPT !.todo = Tail(todo)])
                 /\ UNCHANGED <<keyring, lockVars>>
     /\ UNCHANGED <<items, served, item_index, registered, file, salts, ghosts, budget>>

-----------------------------------------------------------------------------
(* The service and the PAM listener *)

\* They keep the mutex of the collections to the end.
LockService(t) ==
  /\ pc[t] = "service"
  /\ service = NoTask
  /\ service' = t
  /\ Goto(t, "decide", loc[t])
  /\ UNCHANGED <<writer, readers, dumping, itemsHolder, busVars, fileVars, ghosts, budget>>

\* Service.Lock and Unlock of the collection, after is_locked.
DecideCollection(t) ==
  /\ pc[t] = "decide" /\ loc[t].op \in {"lock", "unlock"}
  /\ CanRead
  /\ \/ /\ ~registered \/ (Unlocked <=> loc[t].op = "unlock")
        /\ End(t)
     \/ /\ registered /\ loc[t].op = "lock" /\ Unlocked
        /\ Goto(t, "take", loc[t])
        /\ UNCHANGED lockVars
     \/ /\ registered /\ loc[t].op = "unlock" /\ ~Unlocked
        /\ Goto(t, "prompt", loc[t])
        /\ service' = NoTask
        /\ UNCHANGED <<writer, readers, dumping, itemsHolder>>
  /\ UNCHANGED <<busVars, fileVars, ghosts, budget>>

\* Service.Lock and Unlock of an item.
DecideItem(t) ==
  LET i == loc[t].item
      target == IF loc[t].op = "lockItem" THEN "locked" ELSE "unlocked"
  IN /\ pc[t] = "decide" /\ loc[t].op \in {"lockItem", "unlockItem"}
     /\ CanRead /\ itemsHolder = NoTask
     /\ \/ /\ ~registered \/ i \notin Listed
              \/ (IF Unlocked THEN bus[i].lock \in {"none", target} ELSE target = "locked")
           /\ End(t)
        \/ /\ registered /\ i \in Listed
           /\ Unlocked /\ bus[i].lock \notin {"none", target}
           /\ Goto(t, "itemLock", [loc[t] EXCEPT !.target = target])
           /\ UNCHANGED lockVars
        \/ /\ registered /\ i \in Listed
           /\ ~Unlocked /\ target = "unlocked"
           /\ Goto(t, "prompt", loc[t])
           /\ service' = NoTask
           /\ UNCHANGED <<writer, readers, dumping, itemsHolder>>
     /\ UNCHANGED <<busVars, fileVars, ghosts, budget>>

\* Unlock's action after its prompt: it looks the collection or the item up again.
Resolve(t) ==
  LET ofItem == loc[t].op = "unlockItem"
  IN /\ pc[t] = "resolve"
     /\ service = NoTask
     /\ ofItem => itemsHolder = NoTask
     /\ IF ~registered \/ (ofItem /\ loc[t].item \notin Listed)
          THEN End(t)
          ELSE Goto(t, IF ofItem THEN "itemLock" ELSE "take", loc[t]) /\ UNCHANGED lockVars
     /\ UNCHANGED <<busVars, fileVars, ghosts, budget>>

\* The collection may have been locked since: an item is not locked then, it is
\* unlocked with the collection, after a prompt unless this is the prompt's action.
ItemLock(t) ==
  LET i == loc[t].item
  IN /\ pc[t] = "itemLock"
     /\ CanRead
     /\ \/ /\ Unlocked /\ bus[i].lock \notin {"none", loc[t].target}
           /\ GetKey(t, "turn", loc[t])
        \/ /\ IF Unlocked THEN bus[i].lock \in {"none", loc[t].target}
                          ELSE loc[t].target = "locked"
           /\ End(t) /\ UNCHANGED ghosts
        \/ /\ ~Unlocked /\ loc[t].target = "unlocked"
           /\ Goto(t, IF service = t THEN "prompt" ELSE "take", loc[t])
           /\ service' = Free(service, t)
           /\ UNCHANGED <<writer, readers, dumping, itemsHolder, ghosts>>
     /\ UNCHANGED <<busVars, fileVars, budget>>

\* The item is encrypted or decrypted with the key.
TurnItem(t) ==
  LET i == loc[t].item
  IN /\ pc[t] = "turn"
     /\ bus' = [bus EXCEPT ![i] = Turned(i, loc[t].target, loc[t].key)]
     /\ End(t)
     /\ UNCHANGED <<items, served, item_index, registered, fileVars, ghosts, budget>>

\* try_unlock_collections: the secret is tried on every locked collection.
PamUnlock(t) ==
  /\ pc[t] = "decide" /\ loc[t].op = "pamUnlock"
  /\ CanRead
  /\ \/ (~registered \/ Unlocked) /\ End(t)
     \/ /\ registered /\ ~Unlocked
        /\ \E s \in Secrets :
             Goto(t, "take", [loc[t] EXCEPT !.target = "unlocked", !.secret = s])
        /\ UNCHANGED lockVars
  /\ UNCHANGED <<busVars, fileVars, ghosts, budget>>

\* change_collection_passwords: a locked collection is unlocked with the old secret.
\* The session collection is skipped.
PamChange(t) ==
  /\ pc[t] = "decide" /\ loc[t].op = "changePassword"
  /\ CanRead
  /\ \/ (~registered \/ ~Persistent \/ keyring.state = "none") /\ End(t)
     \/ /\ registered /\ Persistent /\ keyring.state # "none"
        /\ \E s \in Secrets :
             Goto(t, IF Unlocked THEN "change" ELSE "take",
                  [loc[t] EXCEPT !.target = "unlocked", !.secret = s, !.after = "change",
                                 !.was = ~Unlocked])
        /\ UNCHANGED lockVars
  /\ UNCHANGED <<busVars, fileVars, ghosts, budget>>

\* Then it gets the new secret, when the old one is its own, and is locked again: under
\* the read guard of the collection's keyring, as the calls that edit it.
StartChange(t) ==
  /\ pc[t] = "change"
  /\ CanUse
  /\ IF Unlocked /\ Validates(keyring, loc[t].secret)
       THEN /\ Goto(t, "snapshot", loc[t])
            /\ readers' = readers \cup {t}
            /\ beside' = (beside \/ readers # {})
            /\ UNCHANGED <<writer, dumping, itemsHolder, service, used, deleted, late>>
       ELSE End(t) /\ UNCHANGED ghosts
  /\ UNCHANGED <<busVars, fileVars, budget>>

\* change_secret decrypts every item, under a read guard of the file keyring that it
\* then drops.  Nobody edits meanwhile; and nobody queues to, and so keeps derive_key from
\* reading as well, before a key was derived and cached.
Snapshot(t) ==
  LET key == KeyFor(keyring.secret)
  IN /\ pc[t] = "snapshot"
     /\ dumping = NoTask
     /\ keyring' = [keyring EXCEPT !.cached = key]
     /\ IF Under(keyring, key) = keyring.items
          THEN /\ Goto(t, "newSecret", [loc[t] EXCEPT !.snap = keyring.items])
               /\ UNCHANGED lockVars
          ELSE End(t)
     /\ UNCHANGED <<file, salts, busVars, ghosts, budget>>

NewSecret(t) ==
  /\ pc[t] = "newSecret"
  /\ \E s \in Secrets : keyring' = [keyring EXCEPT !.secret = s]
  /\ Goto(t, "unset", loc[t])
  /\ UNCHANGED <<lockVars, file, salts, busVars, ghosts, budget>>

UnsetKey(t) ==
  /\ pc[t] = "unset"
  /\ keyring' = [keyring EXCEPT !.cached = NoKey]
  /\ Goto(t, "reset", loc[t])
  /\ UNCHANGED <<lockVars, file, salts, busVars, ghosts, budget>>

\* Keyring::reset, whatever was edited since the items were decrypted.
Reset(t) ==
  /\ pc[t] = "reset"
  /\ dumping = NoTask
  /\ keyring' = [keyring EXCEPT !.items = {}, !.salt = salts]
  /\ salts' = salts + 1
  /\ Goto(t, "secret", [loc[t] EXCEPT !.for = "readd"])
  /\ UNCHANGED <<lockVars, file, busVars, ghosts, budget>>

\* The items that were decrypted come back, or none when the new secret is too weak.
Readd(t) ==
  LET snap == loc[t].snap
  IN /\ pc[t] = "readd"
     /\ dumping = NoTask
     /\ \/ /\ Weak(loc[t].key) /\ snap # {}
           /\ End(t) /\ UNCHANGED <<busVars, fileVars, ghosts, budget>>
        \/ /\ Weak(loc[t].key) => snap = {}
           /\ Edit(t, With(keyring, snap, loc[t].key), [loc[t] EXCEPT !.snap = {}])

-----------------------------------------------------------------------------
(* Collection.CreateItem *)

\* create_item_unlocked: the read guard is kept until the item is stored.
CreateFile(t) ==
  /\ pc[t] = "file"
  /\ CanRead
  /\ \/ ~Unlocked /\ End(t) /\ UNCHANGED ghosts
     \/ Unlocked /\ GetKey(t, "put", loc[t])
  /\ UNCHANGED <<busVars, fileVars, budget>>

\* Under the write guard of the file keyring; a weak key is refused after the removal.
PutItem(t) ==
  LET attrs == AttrsOf[loc[t].item]
      key == loc[t].key
  IN /\ pc[t] = "put"
     /\ dumping = NoTask
     /\ \E r \in Replaces :
          LET kr == [keyring EXCEPT !.items = @ \ (IF r THEN Matching(keyring, attrs, key) ELSE {})]
          IN \/ /\ Weak(key)
                /\ keyring' = kr
                /\ End(t) /\ UNCHANGED <<file, salts, busVars, ghosts, budget>>
             \/ /\ ~Weak(key)
                /\ Edit(t, With(kr, {loc[t].item}, key),
                        [loc[t] EXCEPT !.attrs = attrs, !.replace = r])

\* Mutant: the number of items is taken for the index.
MutReadIndex(t) ==
  /\ pc[t] = "index"
  /\ Goto(t, "number", [loc[t] EXCEPT !.n = Len(items)])
  /\ UNCHANGED <<lockVars, busVars, fileVars, ghosts, budget>>

\* The index is read and written under two guards.
ReadIndex(t) ==
  /\ pc[t] = "index"
  /\ Goto(t, "number", [loc[t] EXCEPT !.n = item_index])
  /\ UNCHANGED <<lockVars, busVars, fileVars, ghosts, budget>>

Number(t) ==
  /\ pc[t] = "number"
  /\ bus' = [bus EXCEPT ![loc[t].item] = [path |-> loc[t].n, lock |-> "unlocked",
                                         attrs |-> loc[t].attrs, key |-> NoKey]]
  /\ item_index' = loc[t].n + 1
  /\ Goto(t, IF loc[t].replace THEN "search" ELSE "push", loc[t])
  /\ UNCHANGED <<lockVars, items, served, registered, fileVars, ghosts, budget>>

\* Item::matches_attributes: a locked item is compared under the key.
Found(attrs, key) ==
  Kept(items, {i \in Items : /\ attrs \subseteq bus[i].attrs
                             /\ bus[i].lock = "unlocked" \/ bus[i].key = key})

Search(t) ==
  LET found == Found(loc[t].attrs, loc[t].key)
  IN /\ pc[t] = "search"
     /\ itemsHolder = NoTask
     /\ IF \E i \in Listed : bus[i].lock = "none"
          THEN End(t)
          ELSE /\ Goto(t, IF found = <<>> THEN "push" ELSE "purge",
                       [loc[t] EXCEPT !.todo = found])
               /\ UNCHANGED lockVars
     /\ UNCHANGED <<busVars, fileVars, ghosts, budget>>

Without(path) == Kept(items, {i \in Items : bus[i].path # path})

\* The items that were found are replaced one after the other.  The object server
\* refuses to remove what it does not have.
Purge(t) ==
  LET todo == loc[t].todo
      path == bus[Head(todo)].path
  IN /\ pc[t] = "purge"
     /\ itemsHolder \in {NoTask, t}
     /\ items' = Without(path)
     /\ \/ served[path] = NoItem /\ End(t) /\ UNCHANGED served
        \/ /\ served[path] # NoItem
           /\ served' = [served EXCEPT ![path] = NoItem]
           /\ Goto(t, IF Len(todo) = 1 THEN "push" ELSE "purge",
                   [loc[t] EXCEPT !.todo = Tail(todo)])
           /\ itemsHolder' = IF Len(todo) = 1 THEN NoTask ELSE t
           /\ UNCHANGED <<writer, readers, dumping, service>>
     /\ UNCHANGED <<bus, item_index, registered, fileVars, ghosts, budget>>

Push(t) ==
  /\ pc[t] = "push"
  /\ itemsHolder = NoTask
  /\ items' = Append(items, loc[t].item)
  /\ late' = IF Unlocked THEN late ELSE late \cup {loc[t].item}
  /\ Goto(t, "serve", loc[t])
  /\ UNCHANGED <<lockVars, bus, served, item_index, registered, fileVars,
                 used, deleted, beside, budget>>

\* The object server keeps what it already has at the path.
Serve(t) ==
  LET path == bus[loc[t].item].path
  IN /\ pc[t] = "serve"
     /\ served' = IF served[path] = NoItem THEN [served EXCEPT ![path] = loc[t].item]
                                          ELSE served
     /\ End(t)
     /\ UNCHANGED <<items, bus, item_index, registered, fileVars, ghosts, budget>>

-----------------------------------------------------------------------------
(* Item.Delete *)

\* item_from_path: the first item of the list with that path.
Find(t) ==
  LET path == bus[loc[t].item].path
      same == Kept(items, {i \in Items : bus[i].path = path})
  IN /\ pc[t] = "find"
     /\ itemsHolder = NoTask
     /\ IF same = <<>>
          THEN End(t)
          ELSE /\ Goto(t, "attributes", [loc[t] EXCEPT !.item = Head(same)])
               /\ UNCHANGED lockVars
     /\ UNCHANGED <<busVars, fileVars, ghosts, budget>>

ReadAttributes(t) ==
  LET i == loc[t].item
  IN /\ pc[t] = "attributes"
     /\ IF bus[i].lock = "unlocked"
          THEN /\ Goto(t, "deleteFile", [loc[t] EXCEPT !.attrs = bus[i].attrs])
               /\ UNCHANGED lockVars
          ELSE End(t)
     /\ UNCHANGED <<busVars, fileVars, ghosts, budget>>

\* The keyring deletes by these attributes; its read guard is kept.
DeleteFile(t) ==
  /\ pc[t] = "deleteFile"
  /\ CanRead
  /\ \/ ~Unlocked /\ End(t) /\ UNCHANGED ghosts
     \/ Unlocked /\ GetKey(t, "remove", loc[t])
  /\ UNCHANGED <<busVars, fileVars, budget>>

RemoveItems(t) ==
  /\ pc[t] = "remove"
  /\ dumping = NoTask
  /\ Edit(t, [keyring EXCEPT !.items = @ \ Matching(keyring, loc[t].attrs, loc[t].key)], loc[t])

\* Mutant: a deleted item stays in the list.
MutRetain(t) ==
  /\ pc[t] = "retain"
  /\ itemsHolder = NoTask
  /\ readers' = readers \ {t}
  /\ deleted' = deleted \cup {loc[t].item}
  /\ Goto(t, "unserve", loc[t])
  /\ UNCHANGED <<writer, dumping, itemsHolder, service, busVars, fileVars, used, late, beside,
                 budget>>

Retain(t) ==
  /\ pc[t] = "retain"
  /\ itemsHolder = NoTask
  /\ items' = Without(bus[loc[t].item].path)
  /\ readers' = readers \ {t}
  /\ deleted' = deleted \cup {loc[t].item}
  /\ Goto(t, "unserve", loc[t])
  /\ UNCHANGED <<writer, dumping, itemsHolder, service, bus, served, item_index, registered,
                 fileVars, used, late, beside, budget>>

Unserve(t) ==
  /\ pc[t] = "unserve"
  /\ served' = [served EXCEPT ![bus[loc[t].item].path] = NoItem]
  /\ End(t)
  /\ UNCHANGED <<items, bus, item_index, registered, fileVars, ghosts, budget>>

-----------------------------------------------------------------------------
(* Collection.Delete *)

\* delete_unlocked looks at the keyring and lets go of it.
Recheck(t) ==
  /\ pc[t] = "recheck"
  /\ CanRead
  /\ \/ ~Unlocked /\ End(t)
     \/ Unlocked /\ Goto(t, "unserveAll", loc[t]) /\ UNCHANGED lockVars
  /\ UNCHANGED <<busVars, fileVars, ghosts, budget>>

\* Every item leaves the object server; the first one it does not have ends the call.
UnserveAll(t) ==
  LET gone(n) == \/ served[bus[items[n]].path] = NoItem
                 \/ \E m \in 1 .. n - 1 : bus[items[m]].path = bus[items[n]].path
      failing == {n \in DOMAIN items : gone(n)}
      before == {m \in DOMAIN items : \A n \in failing : m < n}
      paths == {bus[items[m]].path : m \in before}
  IN /\ pc[t] = "unserveAll"
     /\ itemsHolder = NoTask
     /\ served' = [p \in Paths |-> IF p \in paths THEN NoItem ELSE served[p]]
     /\ IF failing # {}
          THEN End(t)
          ELSE /\ Goto(t, IF Persistent THEN "removeFile" ELSE "unregister", loc[t])
               /\ UNCHANGED lockVars
     /\ UNCHANGED <<items, bus, item_index, registered, fileVars, ghosts, budget>>

RemoveFile(t) ==
  /\ pc[t] = "removeFile"
  /\ IF file = NoFile
       THEN End(t) /\ UNCHANGED file
       ELSE /\ file' = NoFile
            /\ Goto(t, "unregister", loc[t])
            /\ UNCHANGED lockVars
  /\ UNCHANGED <<busVars, keyring, salts, ghosts, budget>>

\* The object server and the service forget the collection.
Unregister(t) ==
  /\ pc[t] = "unregister"
  /\ registered => service = NoTask
  /\ registered' = FALSE
  /\ End(t)
  /\ UNCHANGED <<items, bus, served, item_index, fileVars, ghosts, budget>>

-----------------------------------------------------------------------------

\* The daemon has read the file, dispatched the items that it could read and served
\* the collection; the first path of dispatch_items is 1, that of a new collection 0.
Init ==
  \E q \in InitialItems, s \in Secrets, state \in StartStates, cached \in BOOLEAN :
    LET elements == {q[n] : n \in DOMAIN q}
        kr == [state |-> state, items |-> elements,
               under |-> [i \in Items |-> IF i \in elements \ Broken THEN <<s, 0>> ELSE NoKey],
               secret |-> s, salt |-> 0,
               cached |-> IF cached /\ state = "unlocked" THEN <<s, 0>> ELSE NoKey,
               stamped |-> Persistent]
        visible == IF state = "locked" THEN q ELSE Kept(q, Items \ Broken)
        place(i) == CHOOSE n \in DOMAIN visible : visible[n] = i
    IN /\ state = "unlocked" => Accepts(kr, s)
       /\ keyring = kr
       /\ salts = 1
       /\ file = IF Persistent THEN [items |-> kr.items, under |-> kr.under, salt |-> 0]
                               ELSE NoFile
       /\ items = visible
       /\ bus = [i \in Items |->
            [path |-> IF \E n \in DOMAIN visible : visible[n] = i THEN place(i) ELSE 0,
             lock |-> IF \E n \in DOMAIN visible : visible[n] = i THEN state ELSE "none",
             attrs |-> AttrsOf[i], key |-> kr.under[i]]]
       /\ served = [p \in Paths |-> IF p \in DOMAIN visible THEN visible[p] ELSE NoItem]
       /\ item_index = IF Persistent THEN Len(visible) + 1 ELSE 0
       /\ registered = TRUE
       /\ writer = NoTask /\ readers = {} /\ dumping = NoTask
       /\ itemsHolder = NoTask /\ service = NoTask
       /\ pc = [t \in Tasks |-> "idle"] /\ loc = [t \in Tasks |-> Blank]
       /\ used = kr.items /\ deleted = {} /\ late = {} /\ beside = FALSE
       /\ budget = Budget

Locking(t) == Take(t) \/ LockItems(t) \/ EachItem(t)

Keying(t) == ReadSecret(t) \/ DeriveKey(t) \/ Rename(t)

Serving(t) ==
  \/ LockService(t) \/ DecideCollection(t) \/ DecideItem(t) \/ Resolve(t) \/ ItemLock(t)
  \/ TurnItem(t) \/ PamUnlock(t) \/ PamChange(t)

Changing(t) ==
  \/ StartChange(t) \/ Snapshot(t) \/ NewSecret(t) \/ UnsetKey(t) \/ Reset(t) \/ Readd(t)

Creating(t) ==
  \/ CreateFile(t) \/ PutItem(t) \/ ReadIndex(t) \/ Number(t)
  \/ Search(t) \/ Purge(t) \/ Push(t) \/ Serve(t)

Deleting(t) ==
  \/ Find(t) \/ ReadAttributes(t) \/ DeleteFile(t) \/ RemoveItems(t) \/ Retain(t)
  \/ Unserve(t)
  \/ Recheck(t) \/ UnserveAll(t) \/ RemoveFile(t) \/ Unregister(t)

\* What a task does by itself, once it was called.
Step(t) ==
  \/ Check(t) \/ Validate(t) \/ Locking(t) \/ Keying(t)
  \/ Serving(t) \/ Changing(t) \/ Creating(t) \/ Deleting(t)

\* No call is running, and nobody makes one.
Quiet == Idle /\ UNCHANGED vars

Next == Quiet \/ \E t \in Tasks : Call(t) \/ SetAttributes(t) \/ Prompt(t) \/ Step(t)

Spec == Init /\ [][Next]_vars
FairSpec == Spec /\ \A t \in Tasks : WF_vars(Step(t))

-----------------------------------------------------------------------------
(* Properties *)

\* set_locked takes the keyring and the items out of their Options and puts them
\* back: whoever looks at them, when no set_locked is under way, finds them there
\* (the unwraps in item/mod.rs and prompt/mod.rs rely on it).
NothingLeftTaken ==
  writer = NoTask => /\ keyring.state # "none"
                     /\ \A i \in Listed : bus[i].lock # "none"

\* When the collection is locked and no set_locked is under way, every item of it is, but
\* for one that its creation added to the list after the collection had been locked.
LockedWithCollection ==
  writer = NoTask /\ keyring.state = "locked" => \A i \in Listed \ late : bus[i].lock = "locked"

\* Stated without that exception, as a test of the repository expects it.
EveryItemLocked ==
  writer = NoTask /\ keyring.state = "locked" => \A i \in Listed : bus[i].lock = "locked"

\* When it is unlocked, so is every item (as long as none is locked by itself), also one
\* that was added while the collection was locked or being turned.
UnlockedWithCollection ==
  writer = NoTask /\ Unlocked => \A i \in Listed : bus[i].lock = "unlocked"

\* The items are locked and unlocked with their collection, whoever locks and unlocks it
\* while they are created and deleted.
ItemsFollowCollection == LockedWithCollection /\ UnlockedWithCollection

\* A deleted collection leaves no file for the next start of the daemon.
NoFileOnceDeleted == Idle /\ ~registered => file = NoFile

\* Whenever no call is running on a collection, its items on the bus are those in its
\* file; when it was deleted there is none.
BusMatchesFile ==
  /\ Idle /\ Persistent /\ registered => Listed = (IF file = NoFile THEN {} ELSE file.items)
  /\ NoFileOnceDeleted

\* An item whose deletion succeeded is not in the file and does not come back to it, also
\* after failed writes, refused unlocks and changes of the password: as long as no change
\* has overlapped with a call that uses the key, and nobody sets attributes.
DeletedStaysDeleted == ~beside /\ file # NoFile => deleted \cap file.items = {}

\* No two items of the list have the same path: item_index is read and written under
\* two guards.
OnePathOneItem == \A i, j \in Listed : bus[i].path = bus[j].path => i = j

\* The types, and what ties the list of items together.
WellFormed == TypeOK /\ OnePathOneItem

\* A change of the password leaves a locked collection locked.
PasswordChangeRelocks ==
  [][\A t \in Tasks : loc[t].was /\ pc'[t] = "idle" => keyring'.state # "unlocked"]_vars

\* Every call comes back, or waits for the user to answer its prompt.
CallsReturn == \A t \in Tasks : pc[t] # "idle" ~> pc[t] \in {"idle", "prompt"}
===============================================================================
