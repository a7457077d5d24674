------------------------------- MODULE Service -------------------------------
(***************************************************************************)
(* The daemon as the keeper of its collections (server/src/service/mod.rs, *)
(* server/src/migration.rs): what it discovers when it starts, the legacy  *)
(* keyrings that it migrates, then or when somebody has the password, the  *)
(* paths and aliases under which it serves collections, and what is left   *)
(* on the disk when it dies.                                               *)
(*                                                                         *)
(* A step is the code between two points where a task can be suspended.    *)
(* What happens inside of one collection is in Collection: here it is      *)
(* locked, unlocked, filled and deleted in a few steps.                    *)
(***************************************************************************)
EXTENDS Naturals, Sequences, FiniteSets

CONSTANTS
  Names,        \* the names of keyring files
  Login,        \* "login"
  PathOf,       \* collection_path of each name: it is lowered and sanitized
  V0, KWallets, \* the names of the legacy keyrings and of KWallet's files
  LegacyItems,  \* the items of each of these sources
  PasswordOf,   \* and its password
  NewItems,     \* items that clients create
  Secrets,
  NoSecret,     \* None
  StartSecrets, \* what the daemon may be started with
  LoginSecrets, \* what PAM may send
  Typed,        \* what a user may type for the keyring of each name
  NewNames,     \* the collections that clients create
  Aliases,      \* the aliases that clients give
  Tasks,        \* the calls that may run at a time
  Boot,         \* Service::run
  NoWorker, NoObject, NoFile,
  OpsOf,        \* the calls that each task may make
  Objects,      \* how many Collections there may be in memory
  Budget        \* how many calls, crashes and failures there may be

Answers == Secrets \cup {NoSecret}
Workers == Tasks \cup {Boot}
Sources == ({"v0"} \X V0) \cup ({"kwallet"} \X KWallets)
Items == NewItems \cup UNION {LegacyItems[s] : s \in Sources}
Op == {"openSession", "create", "unlock", "lock", "delete", "setAlias", "store", "pam"}

ASSUME ServiceAssumption ==
  /\ Login \in Names /\ V0 \subseteq Names /\ KWallets \subseteq Names
  /\ DOMAIN PathOf = Names
  /\ DOMAIN LegacyItems = Sources /\ PasswordOf \in [Sources -> Answers]
  /\ NoSecret \notin Secrets /\ NoFile \notin [secret : Answers, items : SUBSET Items]
  /\ StartSecrets \subseteq Answers /\ LoginSecrets \subseteq Secrets
  /\ Typed \in [Names -> SUBSET Answers]
  /\ NewNames \subseteq Names
  /\ "default" \in Aliases
  /\ Boot \notin Tasks /\ NoWorker \notin Workers /\ NoObject \notin Objects
  /\ OpsOf \in [Tasks -> SUBSET Op]
  /\ Objects \subseteq Nat /\ IsFiniteSet(Objects)
  /\ Budget \in [{"call", "crash", "fault"} -> Nat]

VARIABLES
  v1,             \* the keyring file of each name
  stamped,        \* the sources with a stamp file
  connected,      \* whether Service::connection is set
  object,         \* the Collections in memory, and the keyrings that become one
  found,          \* discovered_keyrings, then built_collections
  collections,    \* Service::collections
  served,         \* the collections on the object server
  defaultServed,  \* what it has at /org/freedesktop/secrets/aliases/default
  pending,        \* Service::pending_migrations, by name
  pendingHolder,  \* the task that holds its mutex
  registryHolder, \* the task that holds the mutex of collections
  userSecret,     \* PamListener::user_secrets
  pc, loc,        \* of each task: where it is, and its local variables
  moved,          \* history: sources whose items were in a keyring file
  foreign,        \* history: names whose file was made without the legacy keyring of that name
  raced,          \* history: names whose file two objects were writing at the same time
  placed,         \* history: sources migrated for PAM, and the object they became
  deletedAt,      \* history: the paths that Collection.Delete was called at
  panicked,       \* history: some unwrap failed
  budget          \* what is left of Budget

diskVars == <<v1, stamped>>
busVars  == <<collections, served, defaultServed>>
ghosts   == <<moved, foreign, raced, placed, deletedAt, panicked>>
vars == <<v1, stamped, connected, object, found, collections, served, defaultServed, pending,
          pendingHolder, registryHolder, userSecret, pc, loc, moved, foreign, raced, placed,
          deletedAt, panicked, budget>>

\* Labels get a number when their path is taken: the pair is the path of <<label, n>>.
Places == {PathOf[n] : n \in Names} \X (0 .. Cardinality(Objects))
AliasNames == Aliases \cup Names \cup {"default"}
File == [secret : Answers, items : SUBSET Items] \cup {NoFile}

\* time: the time stamp that the keyring remembers is none, the file's, or an old one.
Object == [used : BOOLEAN, name : Names, path : Places,
           alias : AliasNames \X (0 .. Cardinality(Objects)), default : BOOLEAN,
           locked : BOOLEAN, secret : Answers, items : SUBSET Items,
           time : {"none", "current", "old"}]

Labels == {"down", "idle", "scan", "v0", "kwallet", "connect", "register", "place", "serve",
           "replay", "open", "write", "rename", "refresh", "stamp", "migrated", "refused", "label",
           "at", "insert", "look", "pending", "setLocked", "forget", "pamLock", "pamNext",
           "serveDefault", "unlockAll", "unserve", "remove"}

\* obj: the keyring in hand; target: the collection to unlock or to store in; todo, done:
\* the names of a loop; index: its place in found.
Local == [op : Op \cup {"boot", "none"}, name : Names, kind : {"v0", "kwallet"},
          secret : Answers, alias : AliasNames, path : Places,
          obj : Objects \cup {NoObject}, target : Objects \cup {NoObject},
          todo : SUBSET Names, done : SUBSET Names,
          index : 0 .. Cardinality(Objects) + 1]

TypeOK ==
  /\ v1 \in [Names -> File] /\ stamped \subseteq Sources
  /\ connected \in BOOLEAN
  /\ object \in [Objects -> Object]
  /\ found \in Seq(Objects)
  /\ collections \in [Places -> Objects \cup {NoObject}]
  /\ served \in [Places -> Objects \cup {NoObject}]
  /\ defaultServed \in Objects \cup {NoObject}
  /\ pending \in [Names -> {"none", "v0", "kwallet"}]
  /\ {pendingHolder, registryHolder} \subseteq Workers \cup {NoWorker}
  /\ userSecret \in Answers
  /\ pc \in [Workers -> Labels] /\ loc \in [Workers -> Local]
  /\ moved \subseteq Sources /\ foreign \subseteq V0 /\ raced \subseteq Names
  /\ placed \in [Sources -> Objects \cup {NoObject}]
  /\ deletedAt \subseteq Places /\ panicked \in BOOLEAN
  /\ budget \in [{"call", "crash", "fault"} -> Nat]

AnyName == CHOOSE n \in Names : TRUE
Nowhere == <<PathOf[AnyName], 0>>

Blank == [op |-> "none", name |-> AnyName, kind |-> "v0", secret |-> NoSecret,
          alias |-> "default", path |-> Nowhere, obj |-> NoObject, target |-> NoObject,
          todo |-> {}, done |-> {}, index |-> 0]

NoCollection == [used |-> FALSE, name |-> AnyName, path |-> Nowhere, alias |-> <<"default", 0>>,
                 default |-> FALSE, locked |-> TRUE, secret |-> NoSecret, items |-> {},
                 time |-> "none"]

Spend(k) == budget[k] > 0 /\ budget' = [budget EXCEPT ![k] = @ - 1]

Goto(w, label, local) ==
  /\ pc' = [pc EXCEPT ![w] = label]
  /\ loc' = [loc EXCEPT ![w] = local]

Free(holder, w) == IF holder = w THEN NoWorker ELSE holder

\* The task is over, and its guards are dropped.
End(w) ==
  /\ Goto(w, "idle", Blank)
  /\ pendingHolder' = Free(pendingHolder, w) /\ registryHolder' = Free(registryHolder, w)

\* Somebody may lock the collections, or the pending migrations.
CanRegister(w) == registryHolder \in {NoWorker, w}
CanPend(w) == pendingHolder \in {NoWorker, w}

lockVars == <<pendingHolder, registryHolder>>

\* connection().unwrap()
Panic(w) == ~connected /\ panicked' = TRUE /\ End(w)

-----------------------------------------------------------------------------
(* Keyring files *)

\* The places of unused objects: an object is used up to the end of the process, or of
\* the task whose only reference to it was.
Fresh == {o \in Objects : ~object[o].used}
Next1 == CHOOSE o \in Fresh : \A p \in Fresh : o <= p

Keyring(n, s, locked, items, time) ==
  [NoCollection EXCEPT !.used = TRUE, !.name = n, !.secret = s, !.locked = locked,
                       !.items = items, !.time = time]

\* load_keyring takes the login keyring for the default one, KWallet's discovery does not.
AliasOf(kind, n) == IF n = Login /\ kind # "kwallet" THEN "default" ELSE n

Found(kr, kind) == [kr EXCEPT !.alias = <<AliasOf(kind, kr.name), 0>>]

\* A keyring without items accepts every secret, the others only their own.
Accepts(items, own, s) == items = {} \/ own = s

\* LockedKeyring::open_at: a file that is not there is an empty keyring.
Locked(n) ==
  IF v1[n] = NoFile THEN Keyring(n, NoSecret, TRUE, {}, "none")
                    ELSE Keyring(n, v1[n].secret, TRUE, v1[n].items, "current")

\* UnlockedKeyring::open_with_paths: from the file, else from a legacy keyring of that
\* name, stamped or not, else a new one.
Opens(n, s) ==
  IF v1[n] # NoFile THEN Accepts(v1[n].items, v1[n].secret, s)
  ELSE n \in V0 => s = PasswordOf[<<"v0", n>>]

Opened(n, s) ==
  IF v1[n] # NoFile THEN Keyring(n, s, FALSE, v1[n].items, "current")
  ELSE Keyring(n, s, FALSE, IF n \in V0 THEN LegacyItems[<<"v0", n>>] ELSE {}, "none")

\* PendingMigration::migrate opens the KWallet file before the keyring.
Migrates(kind, n, s) ==
  /\ kind = "kwallet" => s # NoSecret /\ s = PasswordOf[<<kind, n>>]
  /\ Opens(n, s)

Migrated(kind, n, s) ==
  IF kind = "v0" THEN Opened(n, s)
  ELSE [Opened(n, s) EXCEPT !.items = @ \cup LegacyItems[<<kind, n>>]]

\* Mutant: the time stamp is not compared.
MutMayWrite(o) == TRUE

\* Keyring::dump: the file is as the keyring remembers it.
MayWrite(o) ==
  IF v1[object[o].name] = NoFile THEN object[o].time = "none" ELSE object[o].time = "current"

Outdated(obj, n) ==
  [o \in Objects |-> IF obj[o].name = n /\ obj[o].time = "current"
                       THEN [obj[o] EXCEPT !.time = "old"] ELSE obj[o]]

\* The tasks that are between the comparison and the end of a dump, for an object or for a
\* file: they hold the mutex of the object's time stamp.  Each object has its own.
InHand(w) == IF loc[w].op = "store" THEN loc[w].target ELSE loc[w].obj
Dumping(o) == {w \in Workers : pc[w] \in {"rename", "refresh"} /\ InHand(w) = o}
DumpingTo(n) == UNION {Dumping(o) : o \in {p \in Objects : object[p].name = n}}

\* The calls of CreateItem at an object: they keep a guard of its keyring.
Storing(o) == {t \in Tasks : loc[t].op = "store" /\ loc[t].target = o}

-----------------------------------------------------------------------------
(* Migration: PendingMigration::migrate, and open_at of a new collection *)

Open(w) ==
  LET l == loc[w]
      opens == IF l.op = "create" THEN Opens(l.name, l.secret)
                                  ELSE Migrates(l.kind, l.name, l.secret)
      kr == IF l.op = "create" THEN Opened(l.name, l.secret)
                               ELSE Migrated(l.kind, l.name, l.secret)
  IN /\ pc[w] = "open"
     /\ Fresh # {}
     /\ IF opens
          THEN /\ object' = [object EXCEPT ![Next1] = kr]
               /\ Goto(w, "write", [l EXCEPT !.obj = Next1])
          ELSE Goto(w, "refused", l) /\ UNCHANGED object
     /\ UNCHANGED <<diskVars, connected, found, busVars, pending, lockVars, userSecret, ghosts,
                    budget>>

\* Mutant: a keyring that cannot be written is migrated all the same.
MutUnwritten(w) ==
  /\ Goto(w, IF loc[w].op = "create" THEN "refused" ELSE "stamp", loc[w])
  /\ UNCHANGED object

\* The keyring is not as remembered: it is dropped.
Unwritten(w) ==
  /\ Goto(w, "refused", [loc[w] EXCEPT !.obj = NoObject])
  /\ object' = [object EXCEPT ![loc[w].obj] = NoCollection]

\* The write fails: a new keyring is dropped, a stored item stays in memory.
WriteFails(w) ==
  /\ IF loc[w].op = "store" THEN End(w) /\ UNCHANGED object
                            ELSE Unwritten(w) /\ UNCHANGED lockVars
  /\ UNCHANGED <<diskVars, connected, found, busVars, pending, userSecret, ghosts>>

\* UnlockedKeyring::write: under the mutex, dump compares the time stamps.
Write(w) ==
  LET o == InHand(w)
      n == object[o].name
  IN /\ pc[w] = "write"
     /\ Dumping(o) = {}
     /\ \/ /\ MayWrite(o)
           /\ Goto(w, "rename", loc[w])
           /\ raced' = IF DumpingTo(n) = {} THEN raced ELSE raced \cup {n}
           /\ UNCHANGED <<diskVars, connected, object, found, busVars, pending, lockVars,
                          userSecret, moved, foreign, placed, deletedAt, panicked, budget>>
        \/ ~MayWrite(o) /\ WriteFails(w) /\ UNCHANGED budget
        \/ Spend("fault") /\ WriteFails(w)

\* The file that is replaced may be another one than was looked at.
Rename(w) ==
  LET o == InHand(w)
      n == object[o].name
      items == object[o].items
  IN /\ pc[w] = "rename"
     /\ \/ /\ v1' = [v1 EXCEPT ![n] = [secret |-> object[o].secret, items |-> items]]
           /\ object' = Outdated(object, n)
           /\ moved' = moved \cup {s \in Sources : s[2] = n /\ LegacyItems[s] \subseteq items}
           /\ foreign' = foreign \cup
                {m \in V0 : m = n /\ v1[n] = NoFile /\ ~(LegacyItems[<<"v0", n>>] \subseteq items)}
           /\ Goto(w, "refresh", loc[w])
           /\ UNCHANGED <<stamped, connected, found, busVars, pending, lockVars, userSecret,
                          raced, placed, deletedAt, panicked, budget>>
        \/ Spend("fault") /\ WriteFails(w)

\* The keyring remembers the time stamp of the file that is there now.
Refresh(w) ==
  LET o == InHand(w)
      op == loc[w].op
  IN /\ pc[w] = "refresh"
     /\ \/ /\ v1[object[o].name] # NoFile
           /\ object' = [object EXCEPT ![o].time = "current"]
           /\ IF op = "store" THEN End(w)
              ELSE Goto(w, IF op = "create" THEN "label" ELSE "stamp", loc[w]) /\ UNCHANGED lockVars
           /\ UNCHANGED <<diskVars, connected, found, busVars, pending, userSecret, ghosts, budget>>
        \/ v1[object[o].name] = NoFile /\ WriteFails(w) /\ UNCHANGED budget

\* A stamp that cannot be written is only logged.
Stamp(w) ==
  /\ pc[w] = "stamp"
  /\ \/ stamped' = stamped \cup {<<loc[w].kind, loc[w].name>>} /\ UNCHANGED budget
     \/ UNCHANGED stamped /\ Spend("fault")
  /\ Goto(w, "migrated", loc[w])
  /\ UNCHANGED <<v1, connected, object, found, busVars, pending, lockVars, userSecret, ghosts>>

-----------------------------------------------------------------------------
(* Service::run: discovery *)

\* The name on the bus is taken first.
Start ==
  /\ pc[Boot] = "down"
  /\ \E s \in StartSecrets :
       Goto(Boot, "scan", [Blank EXCEPT !.op = "boot", !.secret = s,
                                        !.todo = {n \in Names : v1[n] # NoFile}])
  /\ UNCHANGED <<diskVars, connected, object, found, busVars, pending, lockVars, userSecret,
                 ghosts, budget>>

Todo == loc[Boot].todo

\* A keyring of the present format is unlocked, when the secret fits.
ScanV1 ==
  /\ pc[Boot] = "scan"
  /\ \E n \in Todo :
       LET kr == Locked(n)
           s == loc[Boot].secret
       IN /\ Fresh # {}
          /\ object' = [object EXCEPT ![Next1] =
               Found(IF s # NoSecret /\ Accepts(kr.items, kr.secret, s)
                       THEN [kr EXCEPT !.locked = FALSE, !.secret = s] ELSE kr, "v1")]
          /\ found' = Append(found, Next1)
          /\ Goto(Boot, "scan", [loc[Boot] EXCEPT !.todo = @ \ {n}])
  /\ UNCHANGED <<diskVars, connected, busVars, pending, lockVars, userSecret, ghosts, budget>>

\* The next scan begins; the last one is over when it has nothing left.
NextScan ==
  /\ pc[Boot] \in {"scan", "v0", "kwallet"} /\ Todo = {}
  /\ \/ pc[Boot] = "scan" /\ Goto(Boot, "v0", [loc[Boot] EXCEPT !.todo = V0])
     \/ pc[Boot] = "v0" /\ Goto(Boot, "kwallet", [loc[Boot] EXCEPT !.todo = KWallets])
     \/ pc[Boot] = "kwallet" /\ Goto(Boot, "connect", loc[Boot])
  /\ UNCHANGED <<diskVars, connected, object, found, busVars, pending, lockVars, userSecret,
                 ghosts, budget>>

\* A source is left alone when it has a stamp.
IsDue(kind, n) == <<kind, n>> \notin stamped

\* A legacy keyring is migrated at once; a KWallet file needs a secret for that.
ScanLegacy ==
  /\ pc[Boot] \in {"v0", "kwallet"}
  /\ \E n \in Todo :
       Goto(Boot, IF ~IsDue(pc[Boot], n) THEN pc[Boot]
                  ELSE IF pc[Boot] = "kwallet" /\ loc[Boot].secret = NoSecret THEN "refused"
                  ELSE "open",
            [loc[Boot] EXCEPT !.todo = @ \ {n}, !.name = n, !.kind = pc[Boot]])
  /\ UNCHANGED <<diskVars, connected, object, found, busVars, pending, lockVars, userSecret,
                 ghosts, budget>>

Discovered ==
  /\ pc[Boot] = "migrated" /\ loc[Boot].op = "boot"
  /\ found' = Append(found, loc[Boot].obj)
  /\ object' = [object EXCEPT ![loc[Boot].obj] = Found(@, loc[Boot].kind)]
  /\ Goto(Boot, loc[Boot].kind, [loc[Boot] EXCEPT !.obj = NoObject])
  /\ UNCHANGED <<diskVars, connected, busVars, pending, lockVars, userSecret, ghosts,
                 budget>>

\* Mutant: a migration that was put off gets no collection.
MutPlaceholder(n) == found

\* A locked collection stands for the keyring that could not be migrated.
Placeholder(n) == Append(found, Next1)

PutOff ==
  LET n == loc[Boot].name
  IN /\ pc[Boot] = "refused" /\ loc[Boot].op = "boot"
     /\ CanPend(Boot) /\ Fresh # {}
     /\ object' = [object EXCEPT ![Next1] = Found(Locked(n), loc[Boot].kind)]
     /\ found' = Placeholder(n)
     /\ pending' = [pending EXCEPT ![n] = loc[Boot].kind]
     /\ Goto(Boot, loc[Boot].kind, loc[Boot])
     /\ UNCHANGED <<diskVars, connected, busVars, lockVars, userSecret, ghosts, budget>>

-----------------------------------------------------------------------------
(* Service::initialize *)

Connect ==
  /\ pc[Boot] = "connect"
  /\ connected' = TRUE
  /\ Goto(Boot, "register", loc[Boot])
  /\ UNCHANGED <<diskVars, object, found, busVars, pending, lockVars, userSecret, ghosts, budget>>

HasDefault == \E i \in DOMAIN found : object[found[i]].alias[1] \in {"default", Login}

\* The login keyring is made when nothing is the default: locked without a secret.
\* run returns, and the daemon is gone, when it cannot be opened.
DefaultOpens == loc[Boot].secret = NoSecret \/ Opens(Login, loc[Boot].secret)

DefaultKeyring ==
  Found(IF loc[Boot].secret = NoSecret THEN Locked(Login)
                                       ELSE Opened(Login, loc[Boot].secret), "v1")

Register ==
  /\ pc[Boot] = "register"
  /\ CanRegister(Boot)
  /\ HasDefault \/ (DefaultOpens /\ Fresh # {})
  /\ registryHolder' = Boot
  /\ IF HasDefault
       THEN UNCHANGED <<object, found>>
       ELSE /\ object' = [object EXCEPT ![Next1] = DefaultKeyring]
            /\ found' = Append(found, Next1)
  /\ Goto(Boot, "place", [loc[Boot] EXCEPT !.index = 1])
  /\ UNCHANGED <<diskVars, connected, busVars, pending, pendingHolder, userSecret, ghosts, budget>>

\* make_unique_label_and_alias: 1 stands for no number.
NumberOf(n) ==
  CHOOSE k \in 1 .. Cardinality(Objects) :
    /\ collections[<<PathOf[n], k>>] = NoObject
    /\ \A j \in 1 .. k - 1 : collections[<<PathOf[n], j>>] # NoObject

\* Collection::new
Placed(o, alias) ==
  LET k == NumberOf(object[o].name)
  IN [object EXCEPT ![o].path = <<PathOf[object[o].name], k>>, ![o].alias = <<alias, k>>,
                    ![o].default = (<<alias, k>> = <<"default", 1>>)]

\* The collections are built and listed under their mutex.
Place ==
  LET i == loc[Boot].index
      placing == Placed(found[i], object[found[i]].alias[1])
  IN /\ pc[Boot] = "place"
     /\ IF i > Len(found)
          THEN /\ registryHolder' = NoWorker
               /\ Goto(Boot, "serve", [loc[Boot] EXCEPT !.index = 1])
               /\ UNCHANGED <<object, collections>>
          ELSE /\ object' = placing
               /\ collections' = [collections EXCEPT ![placing[found[i]].path] = found[i]]
               /\ Goto(Boot, "place", [loc[Boot] EXCEPT !.index = i + 1])
               /\ UNCHANGED registryHolder
     /\ UNCHANGED <<diskVars, connected, found, served, defaultServed, pending, pendingHolder,
                    userSecret, ghosts, budget>>

\* The object server keeps what it already has at a path.
At(path, o) == served' = IF served[path] = NoObject THEN [served EXCEPT ![path] = o] ELSE served
AtDefault(o) == defaultServed' = IF defaultServed = NoObject THEN o ELSE defaultServed

\* Without it, each is dispatched and served.
Serve ==
  LET i == loc[Boot].index
  IN /\ pc[Boot] = "serve"
     /\ IF i > Len(found)
          THEN Goto(Boot, "replay", loc[Boot]) /\ UNCHANGED <<served, defaultServed>>
          ELSE /\ At(object[found[i]].path, found[i])
               /\ IF object[found[i]].default THEN AtDefault(found[i]) ELSE UNCHANGED defaultServed
               /\ Goto(Boot, "serve", [loc[Boot] EXCEPT !.index = i + 1])
     /\ UNCHANGED <<diskVars, connected, object, found, collections, pending, lockVars,
                    userSecret, ghosts, budget>>

\* replay_buffered_secrets: a secret that came in the meantime is tried again.
Replay ==
  /\ pc[Boot] = "replay"
  /\ IF userSecret = NoSecret
       THEN End(Boot)
       ELSE /\ Goto(Boot, "pamLock", [Blank EXCEPT !.op = "pam", !.secret = userSecret])
            /\ UNCHANGED lockVars
  /\ UNCHANGED <<diskVars, connected, object, found, busVars, pending, userSecret, ghosts, budget>>

-----------------------------------------------------------------------------
(* Calls *)

Running == pc[Boot] # "down"
CanCall(t, op) == Running /\ pc[t] = "idle" /\ op \in OpsOf[t] /\ Spend("call")

Listed == {p \in Places : collections[p] # NoObject}

\* Clients call objects at the paths that they read from the property Collections, and at
\* the default alias.
Reachable == ({served[p] : p \in Listed} \cup {defaultServed}) \ {NoObject}

\* OpenSession asks the bus for the caller's process.
OpenSession(t) ==
  /\ CanCall(t, "openSession")
  /\ Panic(t) \/ (connected /\ UNCHANGED <<panicked, pc, loc, lockVars>>)
  /\ UNCHANGED <<diskVars, connected, object, found, busVars, pending, userSecret, moved, foreign,
                 raced, placed, deletedAt>>

\* CreateCollection serves a prompt; the user answers with the collection's password.
Create(t) ==
  /\ CanCall(t, "create")
  /\ \/ Panic(t)
     \/ /\ connected
        /\ \E n \in NewNames, a \in Aliases : \E s \in Typed[n] :
             Goto(t, "open", [Blank EXCEPT !.op = "create", !.name = n, !.alias = a, !.secret = s])
        /\ UNCHANGED <<panicked, lockVars>>
  /\ UNCHANGED <<diskVars, connected, object, found, busVars, pending, userSecret, moved, foreign,
                 raced, placed, deletedAt>>

\* Unlock asks for a secret, until it fits the keyring in memory.
Unlock(t) ==
  /\ CanCall(t, "unlock")
  /\ connected /\ CanRegister(t)
  /\ \E p \in Listed : \E s \in Typed[object[collections[p]].name] :
       LET o == object[collections[p]]
       IN /\ o.locked /\ Accepts(o.items, o.secret, s)
          /\ Goto(t, "look", [Blank EXCEPT !.op = "unlock", !.path = p, !.secret = s])
  /\ UNCHANGED <<diskVars, connected, object, found, busVars, pending, lockVars, userSecret, ghosts>>

\* Lock, and SetAlias, which leaves other collections with the alias alone.
Lock(t) ==
  /\ CanCall(t, "lock") /\ CanRegister(t)
  /\ \E p \in Listed : ~object[collections[p]].locked /\ Storing(collections[p]) = {}
                       /\ object' = [object EXCEPT ![collections[p]].locked = TRUE]
  /\ UNCHANGED <<diskVars, connected, found, busVars, pending, lockVars, userSecret, pc, loc, ghosts>>

SetAlias(t) ==
  /\ CanCall(t, "setAlias") /\ CanRegister(t)
  /\ \E p \in Listed, a \in Aliases : object' = [object EXCEPT ![collections[p]].alias = <<a, 1>>]
  /\ UNCHANGED <<diskVars, connected, found, busVars, pending, lockVars, userSecret, pc, loc, ghosts>>

\* CreateItem, at a collection's own path or at the default alias: the item is stored in
\* memory, and then the keyring is written.
Store(t) ==
  /\ CanCall(t, "store")
  /\ \E o \in Reachable, i \in NewItems :
       /\ ~object[o].locked /\ i \notin object[o].items
       /\ \A w \in Dumping(o) : pc[w] # "rename"
       /\ object' = [object EXCEPT ![o].items = @ \cup {i}]
       /\ Goto(t, "write", [Blank EXCEPT !.op = "store", !.name = object[o].name, !.target = o])
  /\ UNCHANGED <<diskVars, connected, found, busVars, pending, lockVars, userSecret, ghosts>>

\* Collection.Delete of an unlocked collection: its file goes first.
Delete(t) ==
  /\ CanCall(t, "delete")
  /\ \E o \in Reachable :
       LET n == object[o].name
       IN /\ ~object[o].locked
          /\ IF v1[n] = NoFile
               THEN UNCHANGED <<v1, object, pc, loc, deletedAt>>
               ELSE /\ v1' = [v1 EXCEPT ![n] = NoFile]
                    /\ object' = Outdated(object, n)
                    /\ deletedAt' = deletedAt \cup {object[o].path}
                    /\ Goto(t, "unserve", [Blank EXCEPT !.op = "delete", !.path = object[o].path])
  /\ UNCHANGED <<stamped, connected, found, busVars, pending, lockVars, userSecret, moved, foreign,
                 raced, placed, panicked>>

\* PAM's message: the secret is kept, and tried.
Pam(t) ==
  /\ CanCall(t, "pam")
  /\ \E s \in LoginSecrets :
       /\ userSecret' = s
       /\ Goto(t, "pamLock", [Blank EXCEPT !.op = "pam", !.secret = s])
  /\ UNCHANGED <<diskVars, connected, object, found, busVars, pending, lockVars, ghosts>>

Call(t) ==
  \/ OpenSession(t) \/ Create(t) \/ Unlock(t) \/ Lock(t) \/ SetAlias(t) \/ Store(t)
  \/ Delete(t) \/ Pam(t)

-----------------------------------------------------------------------------
(* A new collection: create_collection_with_secret, migrate_pending_keyrings *)

\* A collection that cannot be created is given up, with its prompt.
CreateFails(t) ==
  /\ pc[t] = "refused" /\ loc[t].op = "create"
  /\ End(t)
  /\ UNCHANGED <<diskVars, connected, object, found, busVars, pending, userSecret, ghosts, budget>>

\* Its label and alias are made unique under the mutex, which is let go of.
Label(w) ==
  LET l == loc[w]
  IN /\ pc[w] = "label" \/ (pc[w] = "migrated" /\ l.op = "pam")
     /\ CanRegister(w)
     /\ object' = Placed(l.obj, IF l.op = "create" THEN l.alias ELSE AliasOf(l.kind, l.name))
     /\ Goto(w, "at", l)
     /\ UNCHANGED <<diskVars, connected, found, busVars, pending, lockVars, userSecret, ghosts, budget>>

ServeAt(w) ==
  /\ pc[w] = "at"
  /\ \/ /\ Panic(w)
        /\ object' = [object EXCEPT ![loc[w].obj] = NoCollection]
        /\ UNCHANGED served
     \/ /\ connected
        /\ At(object[loc[w].obj].path, loc[w].obj)
        /\ Goto(w, "insert", loc[w])
        /\ UNCHANGED <<object, panicked, lockVars>>
  /\ UNCHANGED <<diskVars, connected, found, collections, defaultServed, pending, userSecret,
                 moved, foreign, raced, placed, deletedAt, budget>>

Insert(w) ==
  LET o == loc[w].obj
  IN /\ pc[w] = "insert"
     /\ CanRegister(w)
     /\ collections' = [collections EXCEPT ![object[o].path] = o]
     /\ \/ loc[w].op = "create" /\ End(w)
        \/ loc[w].op = "pam" /\ Goto(w, "serveDefault", loc[w]) /\ UNCHANGED lockVars
     /\ UNCHANGED <<diskVars, connected, object, found, served, defaultServed, pending, userSecret,
                    ghosts, budget>>

\* The default path goes by the alias before it was made unique.
ServeDefault(w) ==
  LET l == loc[w]
  IN /\ pc[w] = "serveDefault"
     /\ IF AliasOf(l.kind, l.name) = "default" THEN AtDefault(l.obj) ELSE UNCHANGED defaultServed
     /\ placed' = [placed EXCEPT ![<<l.kind, l.name>>] = l.obj]
     /\ Goto(w, "pamNext", [l EXCEPT !.obj = NoObject, !.done = @ \cup {l.name}])
     /\ UNCHANGED <<diskVars, connected, object, found, collections, served, pending, lockVars,
                    userSecret, moved, foreign, raced, deletedAt, panicked, budget>>

-----------------------------------------------------------------------------
(* try_unlock_collections *)

\* The mutex of the pending migrations is held until all were tried.
PamLock(w) ==
  /\ pc[w] = "pamLock"
  /\ pendingHolder = NoWorker
  /\ pendingHolder' = w
  /\ Goto(w, "pamNext", [loc[w] EXCEPT !.todo = {n \in Names : pending[n] # "none"}])
  /\ UNCHANGED <<diskVars, connected, object, found, busVars, pending, registryHolder, userSecret,
                 ghosts, budget>>

\* Next of them; one that was refused is tried no more.
PamNext(w) ==
  /\ pc[w] = "pamNext" \/ (pc[w] = "refused" /\ loc[w].op = "pam")
  /\ \E n \in loc[w].todo :
       Goto(w, "open", [loc[w] EXCEPT !.todo = @ \ {n}, !.name = n, !.kind = pending[n]])
  /\ UNCHANGED <<diskVars, connected, object, found, busVars, pending, lockVars, userSecret, ghosts,
                 budget>>

PamDone(w) ==
  /\ pc[w] = "pamNext" \/ (pc[w] = "refused" /\ loc[w].op = "pam")
  /\ loc[w].todo = {}
  /\ pending' = [n \in Names |-> IF n \in loc[w].done THEN "none" ELSE pending[n]]
  /\ pendingHolder' = NoWorker
  /\ Goto(w, "unlockAll", loc[w])
  /\ UNCHANGED <<diskVars, connected, object, found, busVars, registryHolder, userSecret, ghosts,
                 budget>>

\* Collection::set_locked: a secret that does not fit makes it read its file again.
TryUnlock(os, s) ==
  [o \in Objects |->
     LET kr == object[o]
         reread == Locked(kr.name)
     IN IF o \notin os \/ ~kr.locked THEN kr
        ELSE IF Accepts(kr.items, kr.secret, s) THEN [kr EXCEPT !.locked = FALSE, !.secret = s]
        ELSE [kr EXCEPT !.secret = reread.secret, !.items = reread.items, !.time = reread.time]]

\* Then every collection is tried, under the mutex.
UnlockAll(w) ==
  /\ pc[w] = "unlockAll"
  /\ CanRegister(w)
  /\ object' = TryUnlock({collections[p] : p \in Listed}, loc[w].secret)
  /\ End(w)
  /\ UNCHANGED <<diskVars, connected, found, busVars, pending, userSecret, ghosts, budget>>

-----------------------------------------------------------------------------
(* The action of an Unlock prompt *)

Look(t) ==
  LET o == collections[loc[t].path]
  IN /\ pc[t] = "look"
     /\ CanRegister(t)
     /\ IF o = NoObject
          THEN End(t)
          ELSE /\ Goto(t, "pending", [loc[t] EXCEPT !.target = o, !.name = object[o].name])
               /\ UNCHANGED lockVars
     /\ UNCHANGED <<diskVars, connected, object, found, busVars, pending, userSecret, ghosts, budget>>

AfterPending(t) ==
  LET k == pending[loc[t].name]
  IN IF k = "none" THEN Goto(t, "setLocked", loc[t])
                   ELSE Goto(t, "open", [loc[t] EXCEPT !.kind = k])

\* Mutant: the collections stay locked while the pending migrations are waited for, and
\* the other way round in the migration.
MutFindPending(t) ==
  /\ pc[t] = "pending"
  /\ CanRegister(t)
  /\ IF registryHolder = t
       THEN CanPend(t) /\ AfterPending(t) /\ registryHolder' = NoWorker
       ELSE registryHolder' = t /\ UNCHANGED <<pc, loc>>
  /\ UNCHANGED <<diskVars, connected, object, found, busVars, pending, pendingHolder, userSecret,
                 ghosts, budget>>

\* The migration is looked up by the collection's name; no mutex is kept.
FindPending(t) ==
  /\ pc[t] = "pending"
  /\ CanPend(t)
  /\ AfterPending(t)
  /\ UNCHANGED <<diskVars, connected, object, found, busVars, pending, lockVars, userSecret, ghosts,
                 budget>>

SetLocked(t) ==
  /\ pc[t] = "setLocked" \/ (pc[t] = "refused" /\ loc[t].op = "unlock")
  /\ object' = TryUnlock({loc[t].target}, loc[t].secret)
  /\ End(t)
  /\ UNCHANGED <<diskVars, connected, found, busVars, pending, userSecret, ghosts, budget>>

\* The collection gets the migrated keyring, when nobody has a guard of the one it had.
ReplaceKeyring(t) ==
  LET kr == object[loc[t].obj]
  IN /\ pc[t] = "migrated" /\ loc[t].op = "unlock"
     /\ Storing(loc[t].target) = {}
     /\ object' = [object EXCEPT
          ![loc[t].target] = [@ EXCEPT !.locked = FALSE, !.secret = kr.secret, !.items = kr.items,
                                       !.time = kr.time],
          ![loc[t].obj] = NoCollection]
     /\ Goto(t, "forget", [loc[t] EXCEPT !.obj = NoObject])
     /\ UNCHANGED <<diskVars, connected, found, busVars, pending, lockVars, userSecret, ghosts, budget>>

Forget(t) ==
  /\ pc[t] = "forget"
  /\ CanPend(t)
  /\ pending' = [pending EXCEPT ![loc[t].name] = "none"]
  /\ End(t)
  /\ UNCHANGED <<diskVars, connected, object, found, busVars, userSecret, ghosts, budget>>

-----------------------------------------------------------------------------
(* Collection.Delete, from the object server on; the default alias's path stays *)

Unserve(t) ==
  /\ pc[t] = "unserve"
  /\ IF served[loc[t].path] = NoObject
       THEN End(t) /\ UNCHANGED served
       ELSE /\ served' = [served EXCEPT ![loc[t].path] = NoObject]
            /\ Goto(t, "remove", loc[t]) /\ UNCHANGED lockVars
  /\ UNCHANGED <<diskVars, connected, object, found, collections, defaultServed, pending, userSecret,
                 ghosts, budget>>

Remove(t) ==
  /\ pc[t] = "remove"
  /\ CanRegister(t)
  /\ collections' = [collections EXCEPT ![loc[t].path] = NoObject]
  /\ End(t)
  /\ UNCHANGED <<diskVars, connected, object, found, served, defaultServed, pending, userSecret,
                 ghosts, budget>>

-----------------------------------------------------------------------------
(* The process *)

\* Everything but the disk is gone.
Reset ==
  /\ connected' = FALSE
  /\ object' = [o \in Objects |-> NoCollection] /\ found' = <<>>
  /\ collections' = [p \in Places |-> NoObject] /\ served' = [p \in Places |-> NoObject]
  /\ defaultServed' = NoObject
  /\ pending' = [n \in Names |-> "none"]
  /\ pendingHolder' = NoWorker /\ registryHolder' = NoWorker
  /\ userSecret' = NoSecret
  /\ pc' = [w \in Workers |-> IF w = Boot THEN "down" ELSE "idle"]
  /\ loc' = [w \in Workers |-> Blank]
  /\ placed' = [s \in Sources |-> NoObject]
  /\ deletedAt' = {}
  /\ UNCHANGED <<v1, stamped, moved, foreign, raced, panicked>>

Crash == Running /\ Spend("crash") /\ Reset

\* initialize returns an error.
GiveUp ==
  /\ pc[Boot] = "register" /\ CanRegister(Boot)
  /\ ~HasDefault /\ ~DefaultOpens
  /\ Reset /\ UNCHANGED budget

Booting ==
  \/ ScanV1 \/ NextScan \/ ScanLegacy \/ Discovered \/ PutOff \/ Connect \/ Register \/ Place
  \/ Serve \/ Replay \/ GiveUp

Migrating(w) == Open(w) \/ Stamp(w)
Writing(w) == Write(w) \/ Rename(w) \/ Refresh(w)
Adding(w) == Label(w) \/ ServeAt(w) \/ Insert(w) \/ ServeDefault(w)
TryingAll(w) == PamLock(w) \/ PamNext(w) \/ PamDone(w) \/ UnlockAll(w)

Unlocking(t) ==
  Look(t) \/ FindPending(t) \/ SetLocked(t) \/ ReplaceKeyring(t) \/ Forget(t)

\* What a task does by itself.
Step(w) ==
  \/ Migrating(w) \/ Writing(w) \/ Adding(w) \/ TryingAll(w)
  \/ w = Boot /\ Booting
  \/ w \in Tasks /\ (CreateFails(w) \/ Unlocking(w) \/ Unserve(w) \/ Remove(w))

\* No file, or one from an earlier run of the daemon, of a name without a legacy keyring.
Init ==
  /\ v1 \in [Names -> File]
  /\ \A n \in Names : v1[n] # NoFile => n \notin V0 \cup KWallets /\ v1[n].items = {}
  /\ stamped = {}
  /\ connected = FALSE
  /\ object = [o \in Objects |-> NoCollection] /\ found = <<>>
  /\ collections = [p \in Places |-> NoObject] /\ served = [p \in Places |-> NoObject]
  /\ defaultServed = NoObject
  /\ pending = [n \in Names |-> "none"]
  /\ pendingHolder = NoWorker /\ registryHolder = NoWorker
  /\ userSecret = NoSecret
  /\ pc = [w \in Workers |-> IF w = Boot THEN "down" ELSE "idle"]
  /\ loc = [w \in Workers |-> Blank]
  /\ moved = {} /\ foreign = {} /\ raced = {} /\ placed = [s \in Sources |-> NoObject]
  /\ deletedAt = {} /\ panicked = FALSE
  /\ budget = Budget

Next ==
  \/ Start \/ Crash
  \/ \E t \in Tasks : Call(t)
  \/ \E w \in Workers : Step(w)

Spec == Init /\ [][Next]_vars

-----------------------------------------------------------------------------
(* Properties *)

Quiet == pc[Boot] = "idle" /\ \A t \in Tasks : pc[t] = "idle"

\* A source is only stamped, and so never looked at again, when its items have been in a
\* keyring file: whatever fails, and whenever the daemon dies, between the reading, the
\* writing and the stamp.
StampedWereMoved == stamped \subseteq moved

\* The same but for a keyring file that was made without the legacy keyring of its name.
StampedWereMovedOrForeign == stamped \subseteq moved \cup ({"v0"} \X foreign)

\* A keyring file that has items keeps them and their password, as long as it is there:
\* of several objects in memory that stand for one file (a placeholder and what was
\* migrated, two collections with one label) one that does not know what another one wrote
\* is kept from writing, by the time stamps.  Two that write at the same time are not.
FilesKeepItems ==
  [][\A n \in Names \ raced :
       v1[n] # NoFile /\ v1'[n] # NoFile /\ v1[n].items # {} =>
         v1[n].items \subseteq v1'[n].items /\ v1'[n].secret = v1[n].secret]_vars

\* Stated for two that write at the same time as well.
FilesAlwaysKeepItems ==
  [][\A n \in Names :
       v1[n] # NoFile /\ v1'[n] # NoFile /\ v1[n].items # {} =>
         v1[n].items \subseteq v1'[n].items /\ v1'[n].secret = v1[n].secret]_vars

\* When nothing is under way the collections that the service lists are on the bus, and
\* the other way round: they are added to the two in turn, without a common lock.  Only
\* a deletion may come between the two.
ListedAreServed ==
  Quiet => \A p \in Places \ deletedAt : (collections[p] = NoObject) = (served[p] = NoObject)

\* A migration that was put off can be reached: some collection has its name, so that an
\* Unlock finds it, unless one with that label was deleted.
PendingHaveCollection ==
  Quiet => \A n \in Names :
    pending[n] # "none" => \/ \E p \in Listed : object[collections[p]].name = n
                           \/ \E p \in deletedAt : p[1] = PathOf[n]

\* What clients use at first: something is served as the default collection.
DefaultIsServed == Quiet => defaultServed # NoObject

\* The types, and what ties the list, the bus and the pending migrations together.
WellFormed == TypeOK /\ ListedAreServed /\ PendingHaveCollection /\ DefaultIsServed

\* The tasks of a daemon that runs never all wait for one another's mutex.
NotAllWaiting == Running /\ ~Quiet => \E w \in Workers : ENABLED Step(w)

\* No unwrap fails: what is called does not need a connection that is not set yet.
NothingPanics == ~panicked

\* A legacy keyring that PAM's secret migrated is found under its own label, not beside
\* the collection that stood for it.
MigratedUnderItsLabel ==
  \A s \in Sources : placed[s] # NoObject /\ object[placed[s]].used => object[placed[s]].path[2] = 1
===============================================================================
