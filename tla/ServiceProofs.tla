----------------------------- MODULE ServiceProofs -----------------------------
(***************************************************************************)
(* What holds of Service for all values of its constants.                  *)
(***************************************************************************)
EXTENDS Service, FiniteSetTheorems, WellFoundedInduction, TLAPS

(* The least of a set of numbers *)

Less == {ss \in Nat \X Nat : ss[1] < ss[2]}

LEMMA LessWellFounded == IsWellFoundedOn(Less, Nat)
BY NatLessThanWellFounded DEF OpToRel, Less

LEMMA Least ==
  ASSUME NEW T \in SUBSET Nat, T # {}
  PROVE  \E n \in T : \A m \in T : n <= m
<1>1. PICK x \in T : \A y \in T : <<y, x>> \notin Less
  BY LessWellFounded, WFMin
<1>2. ASSUME NEW y \in T, y < x PROVE <<y, x>> \in Less
  BY <1>2 DEF Less
<1>3. \A y \in T : ~(y < x)
  BY <1>1, <1>2
<1> QED
  BY <1>3

-----------------------------------------------------------------------------
(* Records and their types *)

ObjectOrNone == Objects \cup {NoObject}
Amounts == [{"call", "crash", "fault"} -> Nat]
Numbers == 0 .. Cardinality(Objects)

\* The conjuncts of TypeOK about what every step changes.
WorkerTypes == pc \in [Workers -> Labels] /\ loc \in [Workers -> Local]

LEMMA Counted == Cardinality(Objects) \in Nat
BY ServiceAssumption, FS_CardinalityType

LEMMA SomeName == AnyName \in Names /\ Login \in Names
BY ServiceAssumption DEF AnyName

LEMMA SomePlace == Nowhere \in Places
BY SomeName, Counted DEF Nowhere, Places

LEMMA BlankType == Blank \in Local
BY SomeName, SomePlace, Counted DEF Blank, Local, AliasNames, Answers

LEMMA NoCollectionType == NoCollection \in Object
BY SomeName, SomePlace, Counted DEF NoCollection, Object, AliasNames, Answers

LEMMA LocalType ==
  ASSUME NEW x \in Local
  PROVE  /\ \A o \in ObjectOrNone : [x EXCEPT !.obj = o] \in Local
         /\ \A s \in SUBSET Names : [x EXCEPT !.todo = s] \in Local
         /\ \A s \in SUBSET Names, n \in Names, k \in {"v0", "kwallet"} :
              [x EXCEPT !.todo = s, !.name = n, !.kind = k] \in Local
         /\ \A i \in 0 .. Cardinality(Objects) + 1 : [x EXCEPT !.index = i] \in Local
         /\ \A s \in SUBSET Names : [x EXCEPT !.obj = NoObject, !.done = s] \in Local
         /\ \A o \in ObjectOrNone, n \in Names : [x EXCEPT !.target = o, !.name = n] \in Local
         /\ \A k \in {"v0", "kwallet"} : [x EXCEPT !.kind = k] \in Local
BY DEF Local, ObjectOrNone

LEMMA BlankWith ==
  /\ \A s \in Answers, t \in SUBSET Names :
       [Blank EXCEPT !.op = "boot", !.secret = s, !.todo = t] \in Local
  /\ \A s \in Answers : [Blank EXCEPT !.op = "pam", !.secret = s] \in Local
  /\ \A n \in Names, a \in AliasNames, s \in Answers :
       [Blank EXCEPT !.op = "create", !.name = n, !.alias = a, !.secret = s] \in Local
  /\ \A p \in Places, s \in Answers :
       [Blank EXCEPT !.op = "unlock", !.path = p, !.secret = s] \in Local
  /\ \A p \in Places : [Blank EXCEPT !.op = "delete", !.path = p] \in Local
  /\ \A n \in Names, o \in Objects :
       [Blank EXCEPT !.op = "store", !.name = n, !.target = o] \in Local
<1> DEFINE b == Blank
<1>1. b \in Local
  BY BlankType
<1> HIDE DEF b
<1>2. /\ \A s \in Answers, t \in SUBSET Names :
           [b EXCEPT !.op = "boot", !.secret = s, !.todo = t] \in Local
      /\ \A s \in Answers : [b EXCEPT !.op = "pam", !.secret = s] \in Local
  BY <1>1, ZenonT(30) DEF Local, Op
<1>3. \A n \in Names, a \in AliasNames, s \in Answers :
        [b EXCEPT !.op = "create", !.name = n, !.alias = a, !.secret = s] \in Local
  BY <1>1, ZenonT(30) DEF Local, Op
<1>4. /\ \A p \in Places, s \in Answers :
           [b EXCEPT !.op = "unlock", !.path = p, !.secret = s] \in Local
      /\ \A p \in Places : [b EXCEPT !.op = "delete", !.path = p] \in Local
  BY <1>1, ZenonT(30) DEF Local, Op
<1>5. \A n \in Names, o \in Objects :
        [b EXCEPT !.op = "store", !.name = n, !.target = o] \in Local
  BY <1>1, ZenonT(30) DEF Local, Op
<1> QED
  BY <1>2, <1>3, <1>4, <1>5 DEF b

LEMMA GotoType ==
  ASSUME WorkerTypes, NEW w \in Workers, NEW label \in Labels, NEW local \in Local,
         Goto(w, label, local)
  PROVE  /\ WorkerTypes'
         /\ pc'[w] = label /\ loc'[w] = local
         /\ \A u \in Workers : u # w => pc'[u] = pc[u] /\ loc'[u] = loc[u]
BY DEF WorkerTypes, Goto

LEMMA LegacyType ==
  ASSUME NEW s \in Sources
  PROVE  LegacyItems[s] \subseteq Items /\ PasswordOf[s] \in Answers
BY ServiceAssumption DEF Items

\* A keyring that is put into memory.
IsKeyring(kr, n) == kr \in Object /\ kr.used /\ kr.name = n

LEMMA KeyringType ==
  ASSUME NEW n \in Names, NEW s \in Answers, NEW items \in SUBSET Items,
         NEW time \in {"none", "current", "old"}
  PROVE  /\ IsKeyring(Keyring(n, s, TRUE, items, time), n)
         /\ IsKeyring(Keyring(n, s, FALSE, items, time), n)
         /\ Keyring(n, s, FALSE, items, time).secret = s
BY NoCollectionType DEF Keyring, Object, NoCollection, IsKeyring

LEMMA FileType ==
  ASSUME v1 \in [Names -> File], NEW n \in Names, v1[n] # NoFile
  PROVE  v1[n].secret \in Answers /\ v1[n].items \in SUBSET Items
BY DEF File

LEMMA LockedType ==
  ASSUME v1 \in [Names -> File], NEW n \in Names
  PROVE  IsKeyring(Locked(n), n)
<1>1. CASE v1[n] = NoFile
  <2>1. NoSecret \in Answers /\ {} \in SUBSET Items
    BY DEF Answers
  <2>2. Locked(n) = Keyring(n, NoSecret, TRUE, {}, "none")
    BY <1>1 DEF Locked
  <2> QED
    BY <2>1, <2>2, KeyringType
<1>2. CASE v1[n] # NoFile
  <2>1. PICK s \in Answers, items \in SUBSET Items : s = v1[n].secret /\ items = v1[n].items
    BY <1>2, FileType
  <2>2. Locked(n) = Keyring(n, s, TRUE, items, "current")
    BY <1>2, <2>1 DEF Locked
  <2> QED
    BY <2>2, KeyringType
<1> QED
  BY <1>1, <1>2

LEMMA OpenedType ==
  ASSUME v1 \in [Names -> File], NEW n \in Names, NEW s \in Answers
  PROVE  IsKeyring(Opened(n, s), n) /\ Opened(n, s).secret = s
<1>1. CASE v1[n] # NoFile
  <2>1. PICK items \in SUBSET Items : items = v1[n].items
    BY <1>1, FileType
  <2> DEFINE kr == Keyring(n, s, FALSE, items, "current")
  <2>2. Opened(n, s) = kr
    BY <1>1, <2>1 DEF Opened
  <2>3. IsKeyring(kr, n) /\ kr.secret = s
    BY KeyringType
  <2> HIDE DEF kr
  <2> QED
    BY <2>2, <2>3
<1>2. CASE v1[n] = NoFile
  <2> DEFINE items == IF n \in V0 THEN LegacyItems[<<"v0", n>>] ELSE {}
  <2>1. items \in SUBSET Items
    BY LegacyType DEF Sources
  <2> DEFINE kr == Keyring(n, s, FALSE, items, "none")
  <2>2. Opened(n, s) = kr
    BY <1>2 DEF Opened
  <2> HIDE DEF items
  <2>3. IsKeyring(kr, n) /\ kr.secret = s
    BY <2>1, KeyringType
  <2> HIDE DEF kr
  <2> QED
    BY <2>2, <2>3
<1> QED
  BY <1>1, <1>2

LEMMA MigratedType ==
  ASSUME v1 \in [Names -> File], NEW n \in Names, NEW s \in Answers,
         NEW kind \in {"v0", "kwallet"}, <<kind, n>> \in Sources
  PROVE  IsKeyring(Migrated(kind, n, s), n) /\ Migrated(kind, n, s).secret = s
<1>1. IsKeyring(Opened(n, s), n) /\ Opened(n, s).secret = s
  BY OpenedType
<1>2. CASE kind = "v0"
  BY <1>1, <1>2 DEF Migrated
<1>3. CASE kind # "v0"
  <2>1. LegacyItems[<<kind, n>>] \in SUBSET Items
    BY LegacyType
  <2> DEFINE kr == Opened(n, s)
             items == kr.items \cup LegacyItems[<<kind, n>>]
  <2>2. items \in SUBSET Items
    BY <1>1, <2>1 DEF IsKeyring, Object
  <2>3. Migrated(kind, n, s) = [kr EXCEPT !.items = items]
    BY <1>3 DEF Migrated
  <2> HIDE DEF kr, items
  <2>4. kr \in Object /\ kr.used /\ kr.name = n /\ kr.secret = s
    BY <1>1 DEF IsKeyring, kr
  <2> QED
    BY <2>2, <2>3, <2>4 DEF IsKeyring, Object
<1> QED
  BY <1>2, <1>3

LEMMA FoundType ==
  ASSUME NEW n, NEW kr, IsKeyring(kr, n), NEW kind
  PROVE  /\ IsKeyring(Found(kr, kind), n)
         /\ Found(kr, kind).secret = kr.secret /\ Found(kr, kind).items = kr.items
         /\ Found(kr, kind).time = kr.time /\ Found(kr, kind).path = kr.path
         /\ Found(kr, kind).default = kr.default /\ Found(kr, kind).locked = kr.locked
         /\ Found(kr, kind).alias = <<AliasOf(kind, n), 0>>
<1>1. kr \in Object /\ kr.used /\ kr.name = n
  BY DEF IsKeyring
<1>2. AliasOf(kind, n) \in AliasNames
  BY <1>1 DEF AliasOf, AliasNames, Object
<1>3. <<AliasOf(kind, n), 0>> \in AliasNames \X Numbers
  BY <1>2, Counted DEF Numbers
<1>4. \A a \in AliasNames \X Numbers : [kr EXCEPT !.alias = a] \in Object
  BY <1>1 DEF Object, Numbers
<1>5. Found(kr, kind) = [kr EXCEPT !.alias = <<AliasOf(kind, n), 0>>]
  BY <1>1 DEF Found
<1> QED
  BY <1>1, <1>3, <1>4, <1>5 DEF IsKeyring, Object

-----------------------------------------------------------------------------
(* Unused objects *)

LEMMA NextIsFresh ==
  ASSUME Fresh # {}
  PROVE  Next1 \in Objects /\ ~object[Next1].used
<1>1. Fresh \in SUBSET Nat
  BY ServiceAssumption DEF Fresh
<1>2. \E o \in Fresh : \A p \in Fresh : o <= p
  BY <1>1, Least
<1>3. Next1 \in Fresh
  BY <1>2 DEF Next1
<1> QED
  BY <1>3 DEF Fresh

\* Some number is free for the label of an object that is not listed.
LEMMA NumberIsFree ==
  ASSUME NEW n \in Names, NEW o \in Objects,
         collections \in [Places -> ObjectOrNone],
         \A p \in Places : collections[p] # o,
         \A p, q \in Places : collections[p] = collections[q] /\ collections[p] # NoObject => p = q
  PROVE  /\ NumberOf(n) \in 1 .. Cardinality(Objects)
         /\ collections[<<PathOf[n], NumberOf(n)>>] = NoObject
         /\ \A j \in 1 .. NumberOf(n) - 1 : collections[<<PathOf[n], j>>] # NoObject
<1> DEFINE N == Cardinality(Objects)
           at(k) == collections[<<PathOf[n], k>>]
           F == {k \in 1 .. N : at(k) = NoObject}
<1>1. N \in Nat /\ IsFiniteSet(Objects)
  BY Counted, ServiceAssumption
<1>2. \A k \in 1 .. N : <<PathOf[n], k>> \in Places
  BY <1>1 DEF Places
<1>3. F # {}
  <2> SUFFICES ASSUME F = {} PROVE FALSE
    OBVIOUS
  <2> DEFINE T == Objects \ {o}
             f == [k \in 1 .. N |-> at(k)]
  <2>1. IsFiniteSet(T) /\ Cardinality(T) = N - 1
    BY <1>1, FS_RemoveElement
  <2>2. IsFiniteSet(1 .. N) /\ Cardinality(1 .. N) = N
    BY <1>1, FS_Interval
  <2>3. \A k \in 1 .. N : at(k) \in T
    BY <1>2 DEF ObjectOrNone
  <2>4. f \in [1 .. N -> T]
    BY <2>3
  <2>5. Cardinality(T) < Cardinality(1 .. N)
    BY <1>1, <2>1, <2>2
  <2>6. \E i, j \in 1 .. N : i # j /\ f[i] = f[j]
    <3> DEFINE S == 1 .. N
    <3> HIDE DEF f, T, S
    <3>1. IsFiniteSet(S) /\ IsFiniteSet(T) /\ Cardinality(T) < Cardinality(S) /\ f \in [S -> T]
      BY <2>1, <2>2, <2>4, <2>5 DEF S
    <3>2. \E i, j \in S : i # j /\ f[i] = f[j]
      BY <3>1, FS_PigeonHole
    <3> QED
      BY <3>2 DEF S
  <2>9. PICK i, j \in 1 .. N : i # j /\ f[i] = f[j]
    BY <2>6
  <2>7. at(i) = at(j) /\ at(i) # NoObject
    BY <2>3, <2>9
  <2>8. <<PathOf[n], i>> = <<PathOf[n], j>>
    BY <1>2, <2>7
  <2> QED
    BY <2>9, <2>8
<1>4. F \in SUBSET Nat
  OBVIOUS
<1>5. PICK k \in F : \A m \in F : k <= m
  BY <1>3, <1>4, Least
<1>6. k \in 1 .. N /\ at(k) = NoObject /\ \A j \in 1 .. k - 1 : at(j) # NoObject
  BY <1>1, <1>5
<1> QED
  BY <1>6 DEF NumberOf

-----------------------------------------------------------------------------
(* The inductive invariant: where a task is, and what its variables are there *)

\* The calls that may be at a label.
OpsAt(l) ==
  CASE l \in {"down", "idle"} -> {"none"}
    [] l \in {"scan", "v0", "kwallet", "connect", "register", "place", "serve", "replay"} -> {"boot"}
    [] l \in {"open", "refused"} -> {"create", "boot", "pam", "unlock"}
    [] l \in {"write", "rename", "refresh"} -> {"create", "boot", "pam", "unlock", "store"}
    [] l \in {"stamp", "migrated"} -> {"boot", "pam", "unlock"}
    [] l = "label" -> {"create"}
    [] l \in {"at", "insert"} -> {"create", "pam"}
    [] l \in {"serveDefault", "pamLock", "pamNext", "unlockAll"} -> {"pam"}
    [] l \in {"look", "pending", "setLocked", "forget"} -> {"unlock"}
    [] OTHER -> {"delete"}

\* A keyring that is in one task's hands, then in those of the clients too.
OwnAt == {"write", "rename", "refresh", "stamp", "migrated", "label", "at"}
SharedAt == {"insert", "serveDefault"}

\* The labels of a migration.
MigrationAt == {"open", "write", "rename", "refresh", "stamp", "migrated", "refused"}

SourcesOf(kind) == IF kind = "v0" THEN V0 ELSE KWallets

\* The task w may be at the label l with the variables x.
Fits(w, l, x) ==
  /\ x.op \in OpsAt(l)
  /\ x.op = "boot" \/ l = "down" => w = Boot
  /\ x.op \in {"boot", "pam", "unlock"} /\ l \in MigrationAt \cup SharedAt \cup {"at"} =>
       <<x.kind, x.name>> \in Sources
  /\ l \in {"v0", "kwallet"} => x.todo \subseteq SourcesOf(l)
  /\ x.op = "boot" /\ l \in MigrationAt => x.todo \subseteq SourcesOf(x.kind)
  /\ l \in {"place", "serve"} => x.index >= 1
  /\ l \in SharedAt \cup {"stamp", "migrated", "label", "at"} => x.obj \in Objects
  /\ l \in {"write", "rename", "refresh"} /\ x.op # "store" => x.obj \in Objects
  /\ x.target # NoObject => x.op \in {"unlock", "store"}
  /\ x.op = "unlock" /\ l # "look" => x.target \in Objects
  /\ x.op = "store" => w \in Tasks /\ x.target \in Objects /\ x.obj = NoObject

WorkersFit == \A w \in Workers : Fits(w, pc[w], loc[w])

\* Between pamLock and unlockAll.
TryingAt == MigrationAt \cup SharedAt \cup {"pamNext", "at"}
Trying(w) == loc[w].op = "pam" /\ pc[w] \in TryingAt

\* Who tries the pending migrations has their mutex, and they stay pending.
TryingHolds ==
  \A w \in Workers : Trying(w) =>
    pendingHolder = w /\ \A n \in loc[w].todo : pending[n] # "none"

\* What is put off has a source.
PendingSources == \A n \in Names : pending[n] # "none" => <<pending[n], n>> \in Sources

BootSteps ==
  /\ pc[Boot] = "down" => found = <<>>
  /\ pc[Boot] = "place" => registryHolder = Boot

Control == WorkersFit /\ TryingHolds /\ PendingSources /\ BootSteps

-----------------------------------------------------------------------------
(* Whose keyring it is *)

\* It can be found without having been told of it.
Known(o) ==
  \/ \E p \in Places : collections[p] = o \/ served[p] = o
  \/ defaultServed = o
  \/ \E i \in DOMAIN found : found[i] = o

Holds(w, o) == loc[w].target = o \/ (pc[w] \in SharedAt /\ loc[w].obj = o)
Owns(w, o) == pc[w] \in OwnAt /\ loc[w].obj = o

\* A keyring that a task owns is known to nobody else.
OwnIsOwn ==
  \A w \in Workers, o \in Objects : Owns(w, o) =>
    /\ object[o].used /\ object[o].name = loc[w].name /\ ~Known(o)
    /\ \A u \in Workers : ~Holds(u, o) /\ (Owns(u, o) => u = w)

\* One that is known or held is used up to the end of the process.
KnownAreUsed ==
  \A o \in Objects : Known(o) \/ (\E w \in Workers : Holds(w, o)) => object[o].used

\* The variables of a task say its name; one that it lists was made by it.
HeldAreNamed ==
  \A w \in Workers :
    /\ loc[w].target # NoObject => object[loc[w].target].name = loc[w].name
    /\ pc[w] \in SharedAt =>
         /\ object[loc[w].obj].name = loc[w].name
         /\ \A i \in DOMAIN found : found[i] # loc[w].obj
         /\ \A u \in Workers : pc[u] \in SharedAt /\ loc[u].obj = loc[w].obj => u = w

Ownership == OwnIsOwn /\ KnownAreUsed /\ HeldAreNamed

-----------------------------------------------------------------------------
(* Where it is listed *)

\* What was found is found once.
FoundOnce == \A i, j \in DOMAIN found : found[i] = found[j] => i = j

\* What was found and is not in the list yet.
Early == loc[Boot].op = "boot" /\ pc[Boot] \notin {"serve", "replay"}
Unplaced(i) == Early /\ (pc[Boot] = "place" => i >= loc[Boot].index)

\* A collection is listed at its path, which is made of its name.
ListedAtPath ==
  \A p \in Places : collections[p] # NoObject =>
    LET o == collections[p] IN object[o].path = p /\ p[1] = PathOf[object[o].name]

\* A keyring that is about to be listed has a path, and is listed nowhere.
ListedOnce ==
  /\ \A i \in DOMAIN found : Unplaced(i) => \A p \in Places : collections[p] # found[i]
  /\ \A w \in Workers :
       /\ pc[w] \in {"at", "insert"} => object[loc[w].obj].path[1] = PathOf[loc[w].name]
       /\ pc[w] = "insert" => \A p \in Places : collections[p] # loc[w].obj

Listing == FoundOnce /\ ListedAtPath /\ ListedOnce

IInv == TypeOK /\ Control /\ Ownership /\ Listing

-----------------------------------------------------------------------------
(* Where a task is *)

LEMMA FoundLength ==
  ASSUME found \in Seq(Objects), FoundOnce
  PROVE  Len(found) \in 0 .. Cardinality(Objects)
<1> DEFINE D == DOMAIN found
<1>1. D = 1 .. Len(found) /\ Len(found) \in Nat /\ found \in [D -> Objects]
  OBVIOUS
<1>2. IsFiniteSet(D) /\ Cardinality(D) = Len(found)
  BY <1>1, FS_Interval
<1>3. IsFiniteSet(Objects)
  BY ServiceAssumption
<1>4. Cardinality(D) <= Cardinality(Objects)
  <2> SUFFICES ASSUME Cardinality(Objects) < Cardinality(D) PROVE FALSE
    BY <1>1, <1>2, Counted
  <2> HIDE DEF D
  <2>1. \E i, j \in D : i # j /\ found[i] = found[j]
    BY <1>1, <1>2, <1>3, FS_PigeonHole
  <2> QED
    BY <2>1 DEF FoundOnce, D
<1> QED
  BY <1>1, <1>2, <1>4, Counted

-----------------------------------------------------------------------------
(* How keyrings in memory change *)

Objectful == object \in [Objects -> Object]

\* What a keyring is, whatever it contains.
Same(x, y) ==
  y.used = x.used /\ y.name = x.name /\ y.path = x.path /\ y.default = x.default

LEMMA OutdatedType ==
  ASSUME NEW obj \in [Objects -> Object], NEW n \in Names
  PROVE  /\ Outdated(obj, n) \in [Objects -> Object]
         /\ \A o \in Objects :
              /\ Same(obj[o], Outdated(obj, n)[o]) /\ Outdated(obj, n)[o].alias = obj[o].alias
              /\ Outdated(obj, n)[o].secret = obj[o].secret /\ Outdated(obj, n)[o].items = obj[o].items
              /\ Outdated(obj, n)[o].locked = obj[o].locked
              /\ Outdated(obj, n)[o].time = "current" => obj[o].time = "current" /\ obj[o].name # n
<1> DEFINE out == Outdated(obj, n)
<1>1. ASSUME NEW o \in Objects
      PROVE  /\ out[o] \in Object
             /\ Same(obj[o], out[o]) /\ out[o].alias = obj[o].alias
             /\ out[o].secret = obj[o].secret /\ out[o].items = obj[o].items
             /\ out[o].locked = obj[o].locked
             /\ out[o].time = "current" => obj[o].time = "current" /\ obj[o].name # n
  <2>1. CASE obj[o].name = n /\ obj[o].time = "current"
    <3>1. out[o] = [obj[o] EXCEPT !.time = "old"]
      BY <2>1 DEF Outdated
    <3> QED
      BY <3>1, ZenonT(30) DEF Object, Same
  <2>2. CASE ~(obj[o].name = n /\ obj[o].time = "current")
    <3>1. out[o] = obj[o]
      BY <2>2 DEF Outdated
    <3> QED
      BY <2>2, <3>1 DEF Object, Same
  <2> QED
    BY <2>1, <2>2
<1>2. out = [o \in Objects |-> out[o]]
  BY DEF Outdated
<1> QED
  BY <1>1, <1>2

\* Most steps change no more of a keyring than what it contains.
AllSame == \A o \in Objects : Same(object[o], object'[o])

LEMMA SameUnchanged ==
  ASSUME UNCHANGED object
  PROVE  AllSame
BY DEF AllSame, Same

\* A keyring in a task's hands does not lose anything.
Grows(x, y) ==
  y.name = x.name /\ y.locked = x.locked /\ y.secret = x.secret /\ x.items \subseteq y.items

\* Writing changes no more of a keyring than the time stamp.
Kept(x, y) == Same(x, y) /\ y.alias = x.alias /\ Grows(x, y)
AllKept == \A o \in Objects : Kept(object[o], object'[o])

LEMMA KeptIsSame ==
  ASSUME AllKept
  PROVE  AllSame
BY DEF AllKept, Kept, AllSame

LEMMA KeptUnchanged ==
  ASSUME UNCHANGED object
  PROVE  AllKept
BY DEF AllKept, Kept, Same, Grows

LEMMA KeptOne ==
  ASSUME Objectful, NEW o \in Objects, NEW x, Kept(object[o], x),
         object' = [object EXCEPT ![o] = x]
  PROVE  AllKept
BY DEF AllKept, Kept, Same, Grows, Objectful

LEMMA SameOne ==
  ASSUME Objectful, NEW o \in Objects, NEW x, Same(object[o], x),
         object' = [object EXCEPT ![o] = x]
  PROVE  AllSame
BY DEF AllSame, Same, Objectful

-----------------------------------------------------------------------------
(* Where a task that stores goes, and one that writes *)

LEMMA StoreGoes ==
  ASSUME TypeOK, NEW t \in Tasks, Store(t)
  PROVE  \E o \in Objects, x \in Object, y \in Local :
           /\ o \in Reachable /\ ~object[o].locked
           /\ object' = [object EXCEPT ![o] = x]
           /\ Same(object[o], x) /\ x.alias = object[o].alias /\ x.secret = object[o].secret
           /\ x.locked = object[o].locked /\ x.time = object[o].time
           /\ object[o].items \subseteq x.items
           /\ Goto(t, "write", y)
           /\ y.op = "store" /\ y.target = o /\ y.name = object[o].name /\ y.obj = NoObject
<1>1. PICK o \in Reachable, i \in NewItems :
        /\ ~object[o].locked
        /\ object' = [object EXCEPT ![o].items = @ \cup {i}]
        /\ Goto(t, "write", [Blank EXCEPT !.op = "store", !.name = object[o].name, !.target = o])
  BY DEF Store
<1>2. o \in Objects
  BY DEF Reachable, TypeOK, Listed
<1>3. object[o] \in Object
  BY <1>2 DEF TypeOK
<1> DEFINE items == object[o].items \cup {i}
           x == [object[o] EXCEPT !.items = items]
           n == object[o].name
           y == [Blank EXCEPT !.op = "store", !.name = n, !.target = o]
<1>4. items \in SUBSET Items /\ object[o].items \subseteq items
  BY <1>3 DEF Object, Items
<1>5. object' = [object EXCEPT ![o] = x]
  BY <1>1, <1>2 DEF TypeOK
<1> HIDE DEF items
<1>6. x \in Object
  BY <1>3, <1>4, ZenonT(30) DEF Object
<1>7. /\ Same(object[o], x) /\ x.alias = object[o].alias /\ x.secret = object[o].secret
      /\ x.locked = object[o].locked /\ x.time = object[o].time /\ x.items = items
  BY <1>3 DEF Object, Same
<1> HIDE DEF x
<1>8. n \in Names
  BY <1>3 DEF Object
<1>9. Goto(t, "write", y)
  BY <1>1
<1> HIDE DEF n
<1>10. y \in Local
  BY <1>2, <1>8, BlankWith
<1>11. y.op = "store" /\ y.target = o /\ y.name = n /\ y.obj = NoObject
  BY DEF Blank
<1> HIDE DEF y
<1> QED
  BY <1>1, <1>2, <1>4, <1>5, <1>6, <1>7, <1>9, <1>10, <1>11 DEF n

\* A task that writes goes on, ends, or drops the keyring that it could not write.
WritingAt == {"write", "rename", "refresh"}

GoesOn(w) ==
  \E label \in {"rename", "refresh", "stamp", "label"} :
    /\ loc[w].op \in OpsAt(label)
    /\ Goto(w, label, loc[w])
    /\ UNCHANGED lockVars

LEMMA WriteFailsTo ==
  ASSUME NEW w \in Workers, WriteFails(w)
  PROVE  /\ UNCHANGED <<v1, stamped, connected, found, collections, served, defaultServed,
                        pending, userSecret, moved, foreign, raced, placed, deletedAt, panicked>>
         /\ \/ loc[w].op = "store" /\ End(w) /\ UNCHANGED object
            \/ loc[w].op # "store" /\ Unwritten(w) /\ UNCHANGED lockVars
BY DEF WriteFails, diskVars, busVars, ghosts

LEMMA WritingGoes ==
  ASSUME TypeOK, WorkersFit, NEW w \in Workers, Writing(w)
  PROVE  /\ pc[w] \in WritingAt /\ InHand(w) \in Objects
         /\ loc[w].op = "store" => w \in Tasks /\ loc[w].target = InHand(w)
         /\ loc[w].op # "store" => loc[w].obj = InHand(w)
         /\ UNCHANGED <<stamped, connected, found, collections, served, defaultServed, pending,
                        userSecret, placed, deletedAt, panicked>>
         /\ \/ loc[w].op = "store" /\ End(w) /\ AllKept
            \/ loc[w].op # "store" /\ Unwritten(w) /\ UNCHANGED lockVars
            \/ GoesOn(w) /\ AllKept
<1> DEFINE l == loc[w]
           o == InHand(w)
<1>1. pc[w] \in WritingAt /\ l \in Local /\ Fits(w, pc[w], l) /\ Objectful
  BY DEF Writing, Write, Rename, Refresh, WritingAt, TypeOK, WorkersFit, Objectful
<1>2. /\ o \in Objects
      /\ l.op = "store" => w \in Tasks /\ l.target = o
      /\ l.op # "store" => l.obj = o
  BY <1>1 DEF Fits, OwnAt, WritingAt, InHand
<1>3. l.op \in {"create", "boot", "pam", "unlock", "store"}
  BY <1>1 DEF Fits, OpsAt, WritingAt
<1>4. CASE WriteFails(w)
  BY <1>1, <1>2, <1>4, WriteFailsTo, KeptUnchanged
<1>5. CASE Write(w) /\ ~WriteFails(w)
  <2>1. /\ Goto(w, "rename", l)
        /\ UNCHANGED <<diskVars, connected, object, found, busVars, pending, lockVars,
                       userSecret, moved, foreign, placed, deletedAt, panicked, budget>>
    BY <1>5 DEF Write
  <2>2. GoesOn(w)
    BY <1>3, <2>1 DEF GoesOn, OpsAt
  <2> QED
    BY <1>1, <1>2, <2>1, <2>2, KeptUnchanged DEF diskVars, busVars
<1>6. CASE Rename(w) /\ ~WriteFails(w)
  <2>1. /\ Goto(w, "refresh", l)
        /\ object' = Outdated(object, object[o].name)
        /\ UNCHANGED <<stamped, connected, found, busVars, pending, lockVars, userSecret,
                       raced, placed, deletedAt, panicked, budget>>
    BY <1>6 DEF Rename
  <2>2. GoesOn(w)
    BY <1>3, <2>1 DEF GoesOn, OpsAt
  <2>3. object[o].name \in Names
    BY <1>1, <1>2 DEF Objectful, Object
  <2>4. AllKept
    <3> DEFINE n == object[o].name
               out == Outdated(object, n)
    <3>1. object \in [Objects -> Object] /\ n \in Names /\ object' = out
      BY <1>1, <2>1, <2>3 DEF Objectful
    <3> HIDE DEF n
    <3>2. \A q \in Objects :
            /\ Same(object[q], out[q]) /\ out[q].alias = object[q].alias
            /\ out[q].secret = object[q].secret /\ out[q].items = object[q].items
            /\ out[q].locked = object[q].locked
      BY <3>1, OutdatedType
    <3> HIDE DEF out
    <3> QED
      BY <3>1, <3>2 DEF AllKept, Kept, Grows, Same
  <2> QED
    BY <1>1, <1>2, <2>1, <2>2, <2>4 DEF busVars
<1>7. CASE Refresh(w) /\ ~WriteFails(w)
  <2>1. /\ object' = [object EXCEPT ![o].time = "current"]
        /\ IF l.op = "store" THEN End(w)
           ELSE Goto(w, IF l.op = "create" THEN "label" ELSE "stamp", l) /\ UNCHANGED lockVars
        /\ UNCHANGED <<diskVars, connected, found, busVars, pending, userSecret, ghosts, budget>>
    BY <1>7 DEF Refresh
  <2> DEFINE x == [object[o] EXCEPT !.time = "current"]
  <2>2. object' = [object EXCEPT ![o] = x]
    BY <1>1, <1>2, <2>1 DEF Objectful
  <2>3. Kept(object[o], x)
    BY <1>1, <1>2 DEF Objectful, Object, Kept, Same, Grows
  <2> HIDE DEF x
  <2>4. AllKept
    BY <1>1, <1>2, <2>2, <2>3, KeptOne
  <2>5. l.op # "store" => GoesOn(w)
    BY <1>3, <2>1 DEF GoesOn, OpsAt
  <2> QED
    BY <1>1, <1>2, <2>1, <2>4, <2>5 DEF diskVars, busVars, ghosts
<1> QED
  BY <1>4, <1>5, <1>6, <1>7 DEF Writing

-----------------------------------------------------------------------------
(* Where a task goes *)

\* A task moves, and the others stay where they are.
Moves(w) ==
  \E label \in Labels, local \in Local : Fits(w, label, local) /\ Goto(w, label, local)

LEMMA MovesFit ==
  ASSUME WorkerTypes, WorkersFit, NEW w \in Workers, Moves(w)
  PROVE  WorkerTypes' /\ WorkersFit'
<1>1. PICK label \in Labels, local \in Local : Fits(w, label, local) /\ Goto(w, label, local)
  BY DEF Moves
<1>2. WorkerTypes'
  BY <1>1, GotoType
<1>3. \A u \in Workers : pc'[u] = IF u = w THEN label ELSE pc[u]
  BY <1>1 DEF Goto, WorkerTypes
<1>4. \A u \in Workers : loc'[u] = IF u = w THEN local ELSE loc[u]
  BY <1>1 DEF Goto, WorkerTypes
<1>5. ASSUME NEW u \in Workers PROVE Fits(u, pc'[u], loc'[u])
  <2>1. CASE u = w
    <3>1. pc'[u] = label /\ loc'[u] = local
      BY <1>3, <1>4, <2>1
    <3> QED
      BY <1>1, <2>1, <3>1
  <2>2. CASE u # w
    <3>1. pc'[u] = pc[u] /\ loc'[u] = loc[u]
      BY <1>3, <1>4, <2>2
    <3> QED
      BY <3>1 DEF WorkersFit
  <2> QED
    BY <2>1, <2>2
<1> QED
  BY <1>2, <1>5 DEF WorkersFit

LEMMA EndMoves ==
  ASSUME NEW w \in Workers, End(w)
  PROVE  Moves(w)
<1>1. "idle" \in Labels /\ Blank \in Local
  BY BlankType DEF Labels
<1>2. Fits(w, "idle", Blank)
  BY DEF Fits, OpsAt, Blank, OwnAt, SharedAt, MigrationAt
<1> QED
  BY <1>1, <1>2 DEF Moves, End

LEMMA MigratingMoves ==
  ASSUME TypeOK, Control, NEW w \in Workers, Migrating(w)
  PROVE  Moves(w)
<1> DEFINE l == loc[w]
<1>1. WorkerTypes /\ l \in Local /\ Fits(w, pc[w], l)
  BY DEF TypeOK, WorkerTypes, Control, WorkersFit
<1>2. CASE Open(w)
  <2>1. pc[w] = "open" /\ Fresh # {}
    BY <1>2 DEF Open
  <2>2. Next1 \in ObjectOrNone /\ Next1 \in Objects
    BY <2>1, NextIsFresh DEF ObjectOrNone
  <2>3. [l EXCEPT !.obj = Next1] \in Local
    BY <1>1, <2>2, LocalType
  <2>4. Fits(w, "write", [l EXCEPT !.obj = Next1])
    BY <1>1, <2>1, <2>2 DEF Fits, OpsAt, OwnAt, SharedAt, MigrationAt, Local
  <2>5. Fits(w, "refused", l)
    BY <1>1, <2>1 DEF Fits, OpsAt, OwnAt, SharedAt, MigrationAt
  <2>6. Goto(w, "write", [l EXCEPT !.obj = Next1]) \/ Goto(w, "refused", l)
    BY <1>2 DEF Open
  <2>7. "write" \in Labels /\ "refused" \in Labels
    BY DEF Labels
  <2> QED
    BY <1>1, <2>3, <2>4, <2>5, <2>6, <2>7 DEF Moves
<1>4. CASE Stamp(w)
  <2>1. pc[w] = "stamp" /\ Goto(w, "migrated", l)
    BY <1>4 DEF Stamp
  <2>2. Fits(w, "migrated", l)
    BY <1>1, <2>1 DEF Fits, OpsAt, OwnAt, SharedAt, MigrationAt
  <2> QED
    BY <1>1, <2>1, <2>2 DEF Moves, Labels
<1> QED
  BY <1>2, <1>4 DEF Migrating

LEMMA WritingMoves ==
  ASSUME TypeOK, Control, NEW w \in Workers, Writing(w)
  PROVE  Moves(w)
<1> DEFINE l == loc[w]
<1>1. WorkerTypes /\ WorkersFit /\ l \in Local /\ Fits(w, pc[w], l)
  BY DEF TypeOK, WorkerTypes, Control, WorkersFit
<1>2. pc[w] \in WritingAt
  BY <1>1, WritingGoes
<1>3. CASE End(w)
  BY <1>3, EndMoves
<1>4. CASE l.op # "store" /\ Unwritten(w)
  <2>1. NoObject \in ObjectOrNone
    BY DEF ObjectOrNone
  <2>2. [l EXCEPT !.obj = NoObject] \in Local
    BY <1>1, <2>1, LocalType
  <2>3. Fits(w, "refused", [l EXCEPT !.obj = NoObject])
    BY <1>1, <1>2, <1>4 DEF Fits, OpsAt, OwnAt, SharedAt, MigrationAt, Local, WritingAt
  <2> QED
    BY <1>4, <2>2, <2>3 DEF Moves, Unwritten, Labels
<1>5. CASE GoesOn(w)
  <2>1. PICK label \in {"rename", "refresh", "stamp", "label"} :
          l.op \in OpsAt(label) /\ Goto(w, label, l)
    BY <1>5 DEF GoesOn
  <2>2. Fits(w, label, l)
    BY <1>1, <1>2, <2>1 DEF Fits, OpsAt, OwnAt, SharedAt, MigrationAt, WritingAt
  <2> QED
    BY <1>1, <2>1, <2>2 DEF Moves, Labels
<1> QED
  BY <1>1, <1>3, <1>4, <1>5, WritingGoes, KeptIsSame

LEMMA AddingMoves ==
  ASSUME TypeOK, Control, NEW w \in Workers, Adding(w)
  PROVE  Moves(w)
<1> DEFINE l == loc[w]
<1>1. WorkerTypes /\ l \in Local /\ Fits(w, pc[w], l)
  BY DEF TypeOK, WorkerTypes, Control, WorkersFit
<1>2. CASE Label(w)
  <2>1. pc[w] = "label" \/ (pc[w] = "migrated" /\ l.op = "pam")
    BY <1>2 DEF Label
  <2>2. Goto(w, "at", l)
    BY <1>2 DEF Label
  <2>3. Fits(w, "at", l)
    BY <1>1, <2>1 DEF Fits, OpsAt, OwnAt, SharedAt, MigrationAt
  <2> QED
    BY <1>1, <2>2, <2>3 DEF Moves, Labels
<1>3. CASE ServeAt(w)
  <2>1. CASE Panic(w)
    BY <2>1, EndMoves DEF Panic
  <2>2. CASE Goto(w, "insert", l)
    <3>1. pc[w] = "at"
      BY <1>3 DEF ServeAt
    <3>2. Fits(w, "insert", l)
      BY <1>1, <3>1 DEF Fits, OpsAt, OwnAt, SharedAt, MigrationAt
    <3> QED
      BY <1>1, <2>2, <3>2 DEF Moves, Labels
  <2> QED
    BY <1>3, <2>1, <2>2 DEF ServeAt
<1>4. CASE Insert(w)
  <2>1. CASE End(w)
    BY <2>1, EndMoves
  <2>2. CASE l.op = "pam" /\ Goto(w, "serveDefault", l)
    <3>1. pc[w] = "insert"
      BY <1>4 DEF Insert
    <3>2. Fits(w, "serveDefault", l)
      BY <1>1, <2>2, <3>1 DEF Fits, OpsAt, OwnAt, SharedAt, MigrationAt
    <3> QED
      BY <1>1, <2>2, <3>2 DEF Moves, Labels
  <2> QED
    BY <1>4, <2>1, <2>2 DEF Insert
<1>5. CASE ServeDefault(w)
  <2> DEFINE done == l.done \cup {l.name}
             x == [l EXCEPT !.obj = NoObject, !.done = done]
  <2>1. pc[w] = "serveDefault" /\ Goto(w, "pamNext", x)
    BY <1>5 DEF ServeDefault
  <2>2. done \in SUBSET Names
    BY <1>1 DEF Local
  <2> HIDE DEF done
  <2>3. x \in Local /\ x.op = l.op /\ x.target = l.target
    <3>1. x \in Local
      BY <1>1, <2>2, LocalType
    <3> QED
      BY <1>1, <3>1 DEF Local
  <2>4. l.op = "pam" /\ l.target = NoObject
    BY <1>1, <2>1 DEF Fits, OpsAt
  <2> HIDE DEF x
  <2>5. Fits(w, "pamNext", x)
    BY <2>3, <2>4 DEF Fits, OpsAt, OwnAt, SharedAt, MigrationAt
  <2> QED
    BY <2>1, <2>3, <2>5 DEF Moves, Labels
<1> QED
  BY <1>2, <1>3, <1>4, <1>5 DEF Adding

LEMMA TryingAllMoves ==
  ASSUME TypeOK, Control, NEW w \in Workers, TryingAll(w)
  PROVE  Moves(w)
<1> DEFINE l == loc[w]
<1>1. WorkerTypes /\ l \in Local /\ Fits(w, pc[w], l)
  BY DEF TypeOK, WorkerTypes, Control, WorkersFit
<1>2. CASE PamLock(w)
  <2> DEFINE todo == {n \in Names : pending[n] # "none"}
             x == [l EXCEPT !.todo = todo]
  <2>1. pc[w] = "pamLock" /\ Goto(w, "pamNext", x)
    BY <1>2 DEF PamLock
  <2>2. todo \in SUBSET Names
    OBVIOUS
  <2> HIDE DEF todo
  <2>3. x \in Local /\ x.op = l.op /\ x.target = l.target
    <3>1. x \in Local
      BY <1>1, <2>2, LocalType
    <3> QED
      BY <1>1, <3>1 DEF Local
  <2>4. l.op = "pam" /\ l.target = NoObject
    BY <1>1, <2>1 DEF Fits, OpsAt
  <2> HIDE DEF x
  <2>5. Fits(w, "pamNext", x)
    BY <2>3, <2>4 DEF Fits, OpsAt, OwnAt, SharedAt, MigrationAt
  <2> QED
    BY <2>1, <2>3, <2>5 DEF Moves, Labels
<1>3. CASE PamNext(w)
  <2>1. pc[w] = "pamNext" \/ (pc[w] = "refused" /\ l.op = "pam")
    BY <1>3 DEF PamNext
  <2>2. PICK n \in l.todo :
          Goto(w, "open", [l EXCEPT !.todo = @ \ {n}, !.name = n, !.kind = pending[n]])
    BY <1>3 DEF PamNext
  <2> DEFINE todo == l.todo \ {n}
             k == pending[n]
             x == [l EXCEPT !.todo = todo, !.name = n, !.kind = k]
  <2>3. l.op = "pam" /\ l.target = NoObject
    BY <1>1, <2>1 DEF Fits, OpsAt
  <2>4. n \in Names /\ todo \in SUBSET Names
    BY <1>1 DEF Local
  <2>5. pending[n] # "none"
    BY <2>1, <2>3 DEF Control, TryingHolds, Trying, TryingAt, MigrationAt
  <2>6. <<k, n>> \in Sources
    BY <2>4, <2>5 DEF Control, PendingSources
  <2>7. k \in {"v0", "kwallet"}
    BY <2>4, <2>5 DEF TypeOK
  <2> HIDE DEF todo, k
  <2>8. x \in Local
    BY <1>1, <2>4, <2>7, LocalType
  <2>9. x.op = l.op /\ x.target = l.target /\ x.kind = k /\ x.name = n
    BY <1>1 DEF Local
  <2>10. Goto(w, "open", x)
    BY <2>2 DEF todo, k
  <2> HIDE DEF x
  <2>11. Fits(w, "open", x)
    BY <2>3, <2>6, <2>9 DEF Fits, OpsAt, OwnAt, SharedAt, MigrationAt
  <2> QED
    BY <2>8, <2>10, <2>11 DEF Moves, Labels
<1>4. CASE PamDone(w)
  <2>1. Goto(w, "unlockAll", l) /\ (pc[w] = "pamNext" \/ (pc[w] = "refused" /\ l.op = "pam"))
    BY <1>4 DEF PamDone
  <2>2. Fits(w, "unlockAll", l)
    BY <1>1, <2>1 DEF Fits, OpsAt, OwnAt, SharedAt, MigrationAt
  <2> QED
    BY <1>1, <2>1, <2>2 DEF Moves, Labels
<1>5. CASE UnlockAll(w)
  BY <1>5, EndMoves DEF UnlockAll
<1> QED
  BY <1>2, <1>3, <1>4, <1>5 DEF TryingAll

LEMMA UnlockingMoves ==
  ASSUME TypeOK, Control, NEW w \in Workers, Unlocking(w)
  PROVE  Moves(w)
<1> DEFINE l == loc[w]
<1>1. WorkerTypes /\ l \in Local /\ Fits(w, pc[w], l)
  BY DEF TypeOK, WorkerTypes, Control, WorkersFit
<1>2. CASE Look(w)
  <2> DEFINE o == collections[l.path]
             n == object[o].name
             x == [l EXCEPT !.target = o, !.name = n]
  <2>1. CASE o = NoObject
    BY <1>2, <2>1, EndMoves DEF Look
  <2>2. CASE o # NoObject
    <3>1. pc[w] = "look" /\ Goto(w, "pending", x)
      BY <1>2, <2>2 DEF Look
    <3>2. l.path \in Places
      BY <1>1 DEF Local
    <3>3. o \in Objects
      BY <2>2, <3>2 DEF TypeOK
    <3>4. n \in Names
      BY <3>3 DEF TypeOK, Object
    <3> HIDE DEF o, n
    <3>5. x \in Local
      BY <1>1, <3>3, <3>4, LocalType DEF ObjectOrNone
    <3>6. x.op = l.op /\ x.target = o
      BY <1>1 DEF Local
    <3> HIDE DEF x
    <3>7. Fits(w, "pending", x)
      BY <1>1, <3>1, <3>3, <3>6 DEF Fits, OpsAt, OwnAt, SharedAt, MigrationAt
    <3> QED
      BY <3>1, <3>5, <3>7 DEF Moves, Labels
  <2> QED
    BY <2>1, <2>2
<1>3. CASE FindPending(w)
  <2>1. pc[w] = "pending"
    BY <1>3 DEF FindPending
  <2> DEFINE k == pending[l.name]
             x == [l EXCEPT !.kind = k]
  <2>2. CASE k = "none"
    <3>1. Goto(w, "setLocked", l)
      BY <1>3, <2>2 DEF FindPending, AfterPending
    <3>2. Fits(w, "setLocked", l)
      BY <1>1, <2>1 DEF Fits, OpsAt, OwnAt, SharedAt, MigrationAt
    <3> QED
      BY <1>1, <3>1, <3>2 DEF Moves, Labels
  <2>3. CASE k # "none"
    <3>1. Goto(w, "open", x)
      BY <1>3, <2>3 DEF FindPending, AfterPending
    <3>2. l.name \in Names
      BY <1>1 DEF Local
    <3>3. <<k, l.name>> \in Sources
      BY <2>3, <3>2 DEF Control, PendingSources
    <3>4. k \in {"v0", "kwallet"}
      BY <2>3, <3>2 DEF TypeOK
    <3> HIDE DEF k
    <3>5. x \in Local
      BY <1>1, <3>4, LocalType
    <3>6. x.op = l.op /\ x.target = l.target /\ x.kind = k /\ x.name = l.name
      BY <1>1 DEF Local
    <3> HIDE DEF x
    <3>7. Fits(w, "open", x)
      BY <1>1, <2>1, <3>3, <3>6 DEF Fits, OpsAt, OwnAt, SharedAt, MigrationAt
    <3> QED
      BY <3>1, <3>5, <3>7 DEF Moves, Labels
  <2> QED
    BY <2>2, <2>3
<1>4. CASE SetLocked(w)
  BY <1>4, EndMoves DEF SetLocked
<1>5. CASE ReplaceKeyring(w)
  <2> DEFINE x == [l EXCEPT !.obj = NoObject]
  <2>1. pc[w] = "migrated" /\ l.op = "unlock" /\ Goto(w, "forget", x)
    BY <1>5 DEF ReplaceKeyring
  <2>2. x \in Local
    BY <1>1, LocalType DEF ObjectOrNone
  <2>3. x.op = l.op /\ x.target = l.target
    BY <1>1 DEF Local
  <2> HIDE DEF x
  <2>4. Fits(w, "forget", x)
    BY <1>1, <2>1, <2>3 DEF Fits, OpsAt, OwnAt, SharedAt, MigrationAt
  <2> QED
    BY <2>1, <2>2, <2>4 DEF Moves, Labels
<1>6. CASE Forget(w)
  BY <1>6, EndMoves DEF Forget
<1> QED
  BY <1>2, <1>3, <1>4, <1>5, <1>6 DEF Unlocking

LEMMA CallMoves ==
  ASSUME TypeOK, Control, NEW t \in Tasks, Call(t)
  PROVE  t \in Workers /\ (Moves(t) \/ UNCHANGED <<pc, loc>>)
<1>1. t \in Workers /\ t # Boot
  BY ServiceAssumption DEF Workers
<1>2. Blank.target = NoObject
  BY DEF Blank
<1>3. CASE OpenSession(t)
  BY <1>1, <1>3, EndMoves DEF OpenSession, Panic
<1>4. CASE Create(t)
  <2>1. CASE Panic(t)
    BY <1>1, <2>1, EndMoves DEF Panic
  <2>2. ASSUME NEW n \in NewNames, NEW a \in Aliases, NEW s \in Typed[n],
               Goto(t, "open", [Blank EXCEPT !.op = "create", !.name = n, !.alias = a, !.secret = s])
        PROVE  Moves(t)
    <3> DEFINE x == [Blank EXCEPT !.op = "create", !.name = n, !.alias = a, !.secret = s]
    <3>1. n \in Names /\ a \in AliasNames /\ s \in Answers
      BY ServiceAssumption DEF AliasNames
    <3>2. x \in Local
      BY <3>1, BlankWith
    <3>3. x.op = "create" /\ x.target = NoObject
      BY DEF Blank
    <3>4. Goto(t, "open", x)
      BY <2>2
    <3> HIDE DEF x
    <3>5. Fits(t, "open", x)
      BY <3>3 DEF Fits, OpsAt, OwnAt, SharedAt, MigrationAt
    <3> QED
      BY <3>2, <3>4, <3>5 DEF Moves, Labels
  <2> QED
    BY <1>1, <1>4, <2>1, <2>2 DEF Create
<1>5. CASE Unlock(t)
  <2>0. PICK p \in Listed : \E s \in Typed[object[collections[p]].name] :
          Goto(t, "look", [Blank EXCEPT !.op = "unlock", !.path = p, !.secret = s])
    BY <1>5 DEF Unlock
  <2>1. PICK s \in Typed[object[collections[p]].name] :
          Goto(t, "look", [Blank EXCEPT !.op = "unlock", !.path = p, !.secret = s])
    BY <2>0
  <2>2. p \in Places /\ collections[p] \in Objects
    BY DEF Listed, TypeOK
  <2>3. s \in Answers
    <3>1. object[collections[p]].name \in Names
      BY <2>2 DEF TypeOK, Object
    <3> QED
      BY <3>1, ServiceAssumption
  <2> DEFINE x == [Blank EXCEPT !.op = "unlock", !.path = p, !.secret = s]
  <2>4. x \in Local
    BY <2>2, <2>3, BlankWith
  <2>5. x.op = "unlock"
    BY DEF Blank
  <2>6. Goto(t, "look", x)
    BY <2>1
  <2> HIDE DEF x
  <2>7. Fits(t, "look", x)
    BY <2>5 DEF Fits, OpsAt, OwnAt, SharedAt, MigrationAt
  <2> QED
    BY <1>1, <2>4, <2>6, <2>7 DEF Moves, Labels
<1>6. CASE Lock(t) \/ SetAlias(t)
  BY <1>1, <1>6 DEF Lock, SetAlias
<1>9. CASE Store(t)
  <2>1. PICK o \in Objects, x \in Local :
          /\ Goto(t, "write", x)
          /\ x.op = "store" /\ x.target = o /\ x.obj = NoObject
    BY <1>9, StoreGoes
  <2>2. Fits(t, "write", x)
    BY <2>1 DEF Fits, OpsAt, OwnAt, SharedAt, MigrationAt
  <2> QED
    BY <1>1, <2>1, <2>2 DEF Moves, Labels
<1>7. CASE Delete(t)
  <2>1. PICK o \in Reachable :
          \/ UNCHANGED <<pc, loc>>
          \/ Goto(t, "unserve", [Blank EXCEPT !.op = "delete", !.path = object[o].path])
    BY <1>7 DEF Delete
  <2>2. o \in Objects
    BY DEF Reachable, TypeOK, Listed
  <2> DEFINE p == object[o].path
             x == [Blank EXCEPT !.op = "delete", !.path = p]
  <2>3. p \in Places
    BY <2>2 DEF TypeOK, Object
  <2>4. x \in Local
    BY <2>3, BlankWith
  <2>5. x.op = "delete" /\ x.target = NoObject
    BY DEF Blank
  <2>6. UNCHANGED <<pc, loc>> \/ Goto(t, "unserve", x)
    BY <2>1
  <2> HIDE DEF x
  <2>7. Fits(t, "unserve", x)
    BY <2>5 DEF Fits, OpsAt, OwnAt, SharedAt, MigrationAt
  <2> QED
    BY <1>1, <2>4, <2>6, <2>7 DEF Moves, Labels
<1>8. CASE Pam(t)
  <2>1. PICK s \in LoginSecrets : Goto(t, "pamLock", [Blank EXCEPT !.op = "pam", !.secret = s])
    BY <1>8 DEF Pam
  <2> DEFINE x == [Blank EXCEPT !.op = "pam", !.secret = s]
  <2>2. s \in Answers
    BY ServiceAssumption DEF Answers
  <2>3. x \in Local
    BY <2>2, BlankWith
  <2>4. x.op = "pam" /\ x.target = NoObject
    BY DEF Blank
  <2>5. Goto(t, "pamLock", x)
    BY <2>1
  <2> HIDE DEF x
  <2>6. Fits(t, "pamLock", x)
    BY <2>4 DEF Fits, OpsAt, OwnAt, SharedAt, MigrationAt
  <2> QED
    BY <1>1, <2>3, <2>5, <2>6 DEF Moves, Labels
<1> QED
  BY <1>3, <1>4, <1>5, <1>6, <1>7, <1>8, <1>9 DEF Call

LEMMA TaskMoves ==
  ASSUME TypeOK, Control, NEW t \in Tasks, CreateFails(t) \/ Unserve(t) \/ Remove(t)
  PROVE  Moves(t)
<1> DEFINE l == loc[t]
<1>1. t \in Workers
  BY DEF Workers
<1>2. WorkerTypes /\ l \in Local /\ Fits(t, pc[t], l)
  BY <1>1 DEF TypeOK, WorkerTypes, Control, WorkersFit
<1>3. CASE CreateFails(t) \/ Remove(t)
  BY <1>1, <1>3, EndMoves DEF CreateFails, Remove
<1>4. CASE Unserve(t)
  <2>1. CASE End(t)
    BY <1>1, <2>1, EndMoves
  <2>2. CASE Goto(t, "remove", l)
    <3>1. pc[t] = "unserve"
      BY <1>4 DEF Unserve
    <3>2. Fits(t, "remove", l)
      BY <1>2, <3>1 DEF Fits, OpsAt, OwnAt, SharedAt, MigrationAt
    <3> QED
      BY <1>2, <2>2, <3>2 DEF Moves, Labels
  <2> QED
    BY <1>4, <2>1, <2>2 DEF Unserve
<1> QED
  BY <1>3, <1>4

LEMMA BootingMoves ==
  ASSUME TypeOK, Control, FoundOnce, Start \/ (Booting /\ ~GiveUp)
  PROVE  Boot \in Workers /\ Moves(Boot)
<1> DEFINE l == loc[Boot]
<1>1. Boot \in Workers
  BY DEF Workers
<1>2. WorkerTypes /\ l \in Local /\ Fits(Boot, pc[Boot], l)
  BY <1>1 DEF TypeOK, WorkerTypes, Control, WorkersFit
<1>3. CASE Start
  <2> DEFINE todo == {n \in Names : v1[n] # NoFile}
  <2>1. PICK s \in StartSecrets :
          Goto(Boot, "scan", [Blank EXCEPT !.op = "boot", !.secret = s, !.todo = todo])
    BY <1>3 DEF Start
  <2>2. s \in Answers /\ todo \in SUBSET Names
    BY ServiceAssumption
  <2> HIDE DEF todo
  <2> DEFINE x == [Blank EXCEPT !.op = "boot", !.secret = s, !.todo = todo]
  <2>3. x \in Local
    BY <2>2, BlankWith
  <2>4. x.op = "boot" /\ x.target = NoObject
    BY DEF Blank
  <2>5. Goto(Boot, "scan", x)
    BY <2>1
  <2> HIDE DEF x
  <2>6. Fits(Boot, "scan", x)
    BY <2>4 DEF Fits, OpsAt, OwnAt, SharedAt, MigrationAt
  <2> QED
    BY <1>1, <2>3, <2>5, <2>6 DEF Moves, Labels
<1>4. CASE ScanV1
  <2>1. PICK n \in Todo : Goto(Boot, "scan", [l EXCEPT !.todo = @ \ {n}])
    BY <1>4 DEF ScanV1
  <2> DEFINE todo == l.todo \ {n}
             x == [l EXCEPT !.todo = todo]
  <2>2. pc[Boot] = "scan" /\ Goto(Boot, "scan", x)
    BY <1>4, <2>1 DEF ScanV1
  <2>3. todo \in SUBSET Names
    BY <1>2 DEF Local
  <2> HIDE DEF todo
  <2>4. x \in Local
    BY <1>2, <2>3, LocalType
  <2>5. x.op = l.op /\ x.target = l.target
    BY <1>2 DEF Local
  <2> HIDE DEF x
  <2>6. Fits(Boot, "scan", x)
    BY <1>2, <2>2, <2>5 DEF Fits, OpsAt, OwnAt, SharedAt, MigrationAt
  <2> QED
    BY <1>1, <2>2, <2>4, <2>6 DEF Moves, Labels
<1>5. CASE NextScan
  <2>1. CASE pc[Boot] = "scan" /\ Goto(Boot, "v0", [l EXCEPT !.todo = V0])
    <3> DEFINE x == [l EXCEPT !.todo = V0]
    <3>1. x \in Local
      BY <1>2, LocalType, ServiceAssumption
    <3>2. x.op = l.op /\ x.target = l.target /\ x.todo = V0
      BY <1>2 DEF Local
    <3> HIDE DEF x
    <3>3. Fits(Boot, "v0", x)
      BY <1>2, <2>1, <3>2 DEF Fits, OpsAt, OwnAt, SharedAt, MigrationAt, SourcesOf
    <3> QED
      BY <1>1, <2>1, <3>1, <3>3 DEF Moves, Labels, x
  <2>2. CASE pc[Boot] = "v0" /\ Goto(Boot, "kwallet", [l EXCEPT !.todo = KWallets])
    <3> DEFINE x == [l EXCEPT !.todo = KWallets]
    <3>1. x \in Local
      BY <1>2, LocalType, ServiceAssumption
    <3>2. x.op = l.op /\ x.target = l.target /\ x.todo = KWallets
      BY <1>2 DEF Local
    <3> HIDE DEF x
    <3>3. Fits(Boot, "kwallet", x)
      BY <1>2, <2>2, <3>2 DEF Fits, OpsAt, OwnAt, SharedAt, MigrationAt, SourcesOf
    <3> QED
      BY <1>1, <2>2, <3>1, <3>3 DEF Moves, Labels, x
  <2>3. CASE pc[Boot] = "kwallet" /\ Goto(Boot, "connect", l)
    <3>1. Fits(Boot, "connect", l)
      BY <1>2, <2>3 DEF Fits, OpsAt, OwnAt, SharedAt, MigrationAt
    <3> QED
      BY <1>1, <1>2, <2>3, <3>1 DEF Moves, Labels
  <2> QED
    BY <1>5, <2>1, <2>2, <2>3 DEF NextScan
<1>6. CASE ScanLegacy
  <2> DEFINE k == pc[Boot]
  <2>1. k \in {"v0", "kwallet"}
    BY <1>6 DEF ScanLegacy
  <2>2. PICK n \in Todo :
          Goto(Boot, IF ~IsDue(k, n) THEN k
                     ELSE IF k = "kwallet" /\ l.secret = NoSecret THEN "refused" ELSE "open",
               [l EXCEPT !.todo = @ \ {n}, !.name = n, !.kind = k])
    BY <1>6 DEF ScanLegacy
  <2> DEFINE todo == l.todo \ {n}
             x == [l EXCEPT !.todo = todo, !.name = n, !.kind = k]
  <2>3. PICK label \in {k, "refused", "open"} : Goto(Boot, label, x)
    BY <2>2
  <2>4. n \in Names /\ todo \in SUBSET Names
    BY <1>2 DEF Local, Todo
  <2>5. l.todo \subseteq SourcesOf(k) /\ l.op = "boot" /\ l.target = NoObject
    BY <1>2, <2>1 DEF Fits, OpsAt
  <2>6. <<k, n>> \in Sources /\ todo \subseteq SourcesOf(k)
    BY <2>1, <2>5 DEF Sources, SourcesOf, Todo
  <2>7. label \in Labels
    BY <2>1, <2>3 DEF Labels
  <2> HIDE DEF todo, k
  <2>8. x \in Local
    BY <1>2, <2>1, <2>4, LocalType
  <2>9. x.op = l.op /\ x.target = l.target /\ x.kind = k /\ x.name = n /\ x.todo = todo
    BY <1>2 DEF Local
  <2> HIDE DEF x
  <2>10. Fits(Boot, label, x)
    BY <2>1, <2>3, <2>5, <2>6, <2>9 DEF Fits, OpsAt, OwnAt, SharedAt, MigrationAt
  <2> QED
    BY <1>1, <2>3, <2>7, <2>8, <2>10 DEF Moves
<1>7. CASE Discovered
  <2> DEFINE x == [l EXCEPT !.obj = NoObject]
  <2>1. pc[Boot] = "migrated" /\ l.op = "boot" /\ Goto(Boot, l.kind, x)
    BY <1>7 DEF Discovered
  <2>2. x \in Local
    BY <1>2, LocalType DEF ObjectOrNone
  <2>3. x.op = l.op /\ x.target = l.target /\ x.todo = l.todo
    BY <1>2 DEF Local
  <2>4. l.kind \in {"v0", "kwallet"}
    BY <1>2 DEF Local
  <2> HIDE DEF x
  <2>5. Fits(Boot, l.kind, x)
    BY <1>2, <2>1, <2>3, <2>4 DEF Fits, OpsAt, OwnAt, SharedAt, MigrationAt
  <2> QED
    BY <1>1, <2>1, <2>2, <2>4, <2>5 DEF Moves, Labels
<1>8. CASE PutOff
  <2>1. pc[Boot] = "refused" /\ l.op = "boot" /\ Goto(Boot, l.kind, l)
    BY <1>8 DEF PutOff
  <2>2. l.kind \in {"v0", "kwallet"}
    BY <1>2 DEF Local
  <2>3. Fits(Boot, l.kind, l)
    BY <1>2, <2>1, <2>2 DEF Fits, OpsAt, OwnAt, SharedAt, MigrationAt
  <2> QED
    BY <1>1, <1>2, <2>1, <2>2, <2>3 DEF Moves, Labels
<1>9. CASE Connect
  <2>1. pc[Boot] = "connect" /\ Goto(Boot, "register", l)
    BY <1>9 DEF Connect
  <2>2. Fits(Boot, "register", l)
    BY <1>2, <2>1 DEF Fits, OpsAt, OwnAt, SharedAt, MigrationAt
  <2> QED
    BY <1>1, <1>2, <2>1, <2>2 DEF Moves, Labels
<1>10. ASSUME NEW i \in 0 .. Cardinality(Objects) + 1, i >= 1,
              NEW label \in {"place", "serve"}, Goto(Boot, label, [l EXCEPT !.index = i]),
              pc[Boot] \in {"register", "place", "serve"}
       PROVE  Moves(Boot)
  <2> DEFINE x == [l EXCEPT !.index = i]
  <2>1. x \in Local
    BY <1>2, LocalType
  <2>2. x.op = l.op /\ x.target = l.target /\ x.index = i
    BY <1>2 DEF Local
  <2>3. Goto(Boot, label, x)
    BY <1>10
  <2> HIDE DEF x
  <2>4. Fits(Boot, label, x)
    BY <1>2, <1>10, <2>2 DEF Fits, OpsAt, OwnAt, SharedAt, MigrationAt
  <2> QED
    BY <1>1, <2>1, <2>3, <2>4 DEF Moves, Labels
<1>11. 1 \in 0 .. Cardinality(Objects) + 1 /\ 1 >= 1
  BY Counted
<1>12. CASE Register
  <2>1. pc[Boot] = "register" /\ Goto(Boot, "place", [l EXCEPT !.index = 1])
    BY <1>12 DEF Register
  <2> QED
    BY <1>1, <1>10, <1>11, <2>1
<1>13. pc[Boot] \in {"place", "serve"} /\ l.index <= Len(found) =>
         l.index + 1 \in 0 .. Cardinality(Objects) + 1 /\ l.index + 1 >= 1
  <2>1. Len(found) \in 0 .. Cardinality(Objects)
    BY FoundLength DEF TypeOK
  <2>2. l.index \in 0 .. Cardinality(Objects) + 1
    BY <1>2 DEF Local
  <2> QED
    BY <2>1, <2>2, Counted
<1>14. CASE Place
  <2>1. pc[Boot] = "place"
    BY <1>14 DEF Place
  <2>2. CASE l.index > Len(found)
    <3>1. Goto(Boot, "serve", [l EXCEPT !.index = 1])
      BY <1>14, <2>2 DEF Place
    <3> QED
      BY <1>1, <1>10, <1>11, <2>1, <3>1
  <2>3. CASE ~(l.index > Len(found))
    <3>1. Goto(Boot, "place", [l EXCEPT !.index = l.index + 1])
      BY <1>14, <2>3 DEF Place
    <3>2. l.index <= Len(found)
      BY <1>2, <2>3 DEF TypeOK, Local
    <3> QED
      BY <1>1, <1>10, <1>13, <2>1, <3>1, <3>2
  <2> QED
    BY <2>2, <2>3
<1>15. CASE Serve
  <2>1. pc[Boot] = "serve"
    BY <1>15 DEF Serve
  <2>2. CASE l.index > Len(found)
    <3>1. Goto(Boot, "replay", l)
      BY <1>15, <2>2 DEF Serve
    <3>2. Fits(Boot, "replay", l)
      BY <1>2, <2>1 DEF Fits, OpsAt, OwnAt, SharedAt, MigrationAt
    <3> QED
      BY <1>1, <1>2, <3>1, <3>2 DEF Moves, Labels
  <2>3. CASE ~(l.index > Len(found))
    <3>1. Goto(Boot, "serve", [l EXCEPT !.index = l.index + 1])
      BY <1>15, <2>3 DEF Serve
    <3>2. l.index <= Len(found)
      BY <1>2, <2>3 DEF TypeOK, Local
    <3> QED
      BY <1>1, <1>10, <1>13, <2>1, <3>1, <3>2
  <2> QED
    BY <2>2, <2>3
<1>16. CASE Replay
  <2>1. CASE End(Boot)
    BY <1>1, <2>1, EndMoves
  <2>2. CASE Goto(Boot, "pamLock", [Blank EXCEPT !.op = "pam", !.secret = userSecret])
    <3> DEFINE x == [Blank EXCEPT !.op = "pam", !.secret = userSecret]
    <3>1. x \in Local
      BY BlankWith DEF TypeOK
    <3>2. x.op = "pam" /\ x.target = NoObject
      BY DEF Blank
    <3>3. Goto(Boot, "pamLock", x)
      BY <2>2
    <3> HIDE DEF x
    <3>4. Fits(Boot, "pamLock", x)
      BY <3>2 DEF Fits, OpsAt, OwnAt, SharedAt, MigrationAt
    <3> QED
      BY <1>1, <3>1, <3>3, <3>4 DEF Moves, Labels
  <2> QED
    BY <1>16, <2>1, <2>2 DEF Replay
<1> QED
  BY <1>1, <1>3, <1>4, <1>5, <1>6, <1>7, <1>8, <1>9, <1>12, <1>14, <1>15, <1>16 DEF Booting

LEMMA TryUnlockType ==
  ASSUME TypeOK, NEW os, NEW s \in Answers
  PROVE  /\ TryUnlock(os, s) \in [Objects -> Object]
         /\ \A o \in Objects :
              Same(object[o], TryUnlock(os, s)[o]) /\ TryUnlock(os, s)[o].alias = object[o].alias
<1> DEFINE new == TryUnlock(os, s)
<1>1. ASSUME NEW o \in Objects
      PROVE  new[o] \in Object /\ Same(object[o], new[o]) /\ new[o].alias = object[o].alias
  <2> DEFINE kr == object[o]
             reread == Locked(kr.name)
  <2>1. kr \in Object
    BY DEF TypeOK
  <2>2. reread \in Object
    <3>1. kr.name \in Names
      BY <2>1 DEF Object
    <3> QED
      BY <3>1, LockedType DEF IsKeyring, TypeOK
  <2>3. \/ new[o] = kr
        \/ new[o] = [kr EXCEPT !.locked = FALSE, !.secret = s]
        \/ new[o] = [kr EXCEPT !.secret = reread.secret, !.items = reread.items,
                               !.time = reread.time]
    BY DEF TryUnlock
  <2> HIDE DEF kr, reread, new
  <2>4. reread.secret \in Answers /\ reread.items \in SUBSET Items
        /\ reread.time \in {"none", "current", "old"}
    BY <2>2 DEF Object
  <2>5. new[o] \in Object /\ Same(kr, new[o]) /\ new[o].alias = kr.alias
    BY <2>1, <2>3, <2>4 DEF Object, Same
  <2> QED
    BY <2>5 DEF kr
<1>2. new = [o \in Objects |-> new[o]]
  BY DEF TryUnlock
<1> QED
  BY <1>1, <1>2

\* A keyring that gets its path: the others stay as they are.
LEMMA PlacedType ==
  ASSUME TypeOK, NEW o \in Objects, NEW alias \in AliasNames,
         \A p \in Places : collections[p] # o,
         \A p, q \in Places : collections[p] = collections[q] /\ collections[p] # NoObject => p = q
  PROVE  LET k == NumberOf(object[o].name)
             new == Placed(o, alias)
         IN /\ new \in [Objects -> Object]
            /\ \A q \in Objects : q # o => new[q] = object[q]
            /\ new[o].used = object[o].used /\ new[o].name = object[o].name
            /\ new[o].path = <<PathOf[object[o].name], k>> /\ new[o].alias = <<alias, k>>
            /\ new[o].default = (<<alias, k>> = <<"default", 1>>)
            /\ new[o].time = object[o].time /\ new[o].items = object[o].items
            /\ new[o].secret = object[o].secret /\ new[o].locked = object[o].locked
            /\ new[o].path \in Places /\ collections[new[o].path] = NoObject
            /\ k \in 1 .. Cardinality(Objects)
            /\ \A j \in 1 .. k - 1 : collections[<<PathOf[object[o].name], j>>] # NoObject
<1> DEFINE n == object[o].name
           k == NumberOf(n)
           p == <<PathOf[n], k>>
           a == <<alias, k>>
           d == (<<alias, k>> = <<"default", 1>>)
           new == Placed(o, alias)
<1>1. n \in Names /\ object \in [Objects -> Object]
  BY DEF TypeOK, Object
<1>2. /\ k \in 1 .. Cardinality(Objects) /\ collections[p] = NoObject
      /\ \A j \in 1 .. k - 1 : collections[<<PathOf[n], j>>] # NoObject
  BY <1>1, NumberIsFree DEF TypeOK, ObjectOrNone
<1>3. p \in Places
  BY <1>1, <1>2, Counted DEF Places
<1>4. a \in AliasNames \X Numbers
  BY <1>2, Counted DEF Numbers
<1>5. d \in BOOLEAN
  OBVIOUS
<1>6. new = [object EXCEPT ![o].path = p, ![o].alias = a, ![o].default = d]
  BY DEF Placed
<1> HIDE DEF p, a, d, new
<1>7. new = [object EXCEPT ![o] = [object[o] EXCEPT !.path = p, !.alias = a, !.default = d]]
  BY <1>1, <1>6
<1> DEFINE x == [object[o] EXCEPT !.path = p, !.alias = a, !.default = d]
<1>8. object[o] \in Object
  BY <1>1
<1>9. x \in Object
  BY <1>3, <1>4, <1>5, <1>8 DEF Object, Numbers
<1>10. /\ x.used = object[o].used /\ x.name = object[o].name
       /\ x.path = p /\ x.alias = a /\ x.default = d
       /\ x.time = object[o].time /\ x.items = object[o].items
       /\ x.secret = object[o].secret /\ x.locked = object[o].locked
  BY <1>8 DEF Object
<1> HIDE DEF x
<1>11. new \in [Objects -> Object] /\ new[o] = x /\ \A q \in Objects : q # o => new[q] = object[q]
  BY <1>1, <1>7, <1>9 DEF x
<1> QED
  BY <1>2, <1>3, <1>10, <1>11 DEF p, a, d, new

-----------------------------------------------------------------------------
(* The types *)

LEMMA InOnePlace ==
  ASSUME ListedAtPath
  PROVE  \A p, q \in Places : collections[p] = collections[q] /\ collections[p] # NoObject => p = q
BY DEF ListedAtPath

LEMMA EndTypes ==
  ASSUME TypeOK, NEW w \in Workers, End(w)
  PROVE  {pendingHolder', registryHolder'} \subseteq Workers \cup {NoWorker}
BY DEF TypeOK, End, Free

LEMMA SpendType ==
  ASSUME TypeOK, NEW k \in {"call", "crash", "fault"}, Spend(k)
  PROVE  budget' \in [{"call", "crash", "fault"} -> Nat]
<1>1. budget[k] - 1 \in Nat
  BY DEF TypeOK, Spend
<1> QED
  BY <1>1 DEF TypeOK, Spend

LEMMA MigratingTypes ==
  ASSUME IInv, NEW w \in Workers, Migrating(w), WorkerTypes'
  PROVE  TypeOK'
<1> DEFINE l == loc[w]
<1>1. TypeOK /\ Objectful /\ l \in Local /\ Fits(w, pc[w], l)
  BY DEF IInv, TypeOK, Objectful, Control, WorkersFit
<1>2. CASE Open(w)
  <2>1. pc[w] = "open" /\ Fresh # {}
    BY <1>2 DEF Open
  <2>2. Next1 \in Objects
    BY <2>1, NextIsFresh
  <2>3. l.name \in Names /\ l.secret \in Answers /\ l.kind \in {"v0", "kwallet"}
    BY <1>1 DEF Local
  <2>4. l.op # "create" => <<l.kind, l.name>> \in Sources
    BY <1>1, <2>1 DEF Fits, OpsAt, MigrationAt
  <2>5. l.op = "create" => Opened(l.name, l.secret) \in Object
    BY <1>1, <2>3, OpenedType DEF IsKeyring, TypeOK
  <2>6. l.op # "create" => Migrated(l.kind, l.name, l.secret) \in Object
    BY <1>1, <2>3, <2>4, MigratedType DEF IsKeyring, TypeOK
  <2>7. object' \in [Objects -> Object]
    BY <1>1, <1>2, <2>2, <2>5, <2>6 DEF Open, Objectful
  <2> QED
    BY <1>1, <1>2, <2>7 DEF Open, TypeOK, WorkerTypes, diskVars, busVars, lockVars, ghosts
<1>4. CASE Stamp(w)
  <2>1. <<l.kind, l.name>> \in Sources
    BY <1>1, <1>4 DEF Stamp, Fits, OpsAt, MigrationAt
  <2>2. stamped' \subseteq Sources
    BY <1>1, <1>4, <2>1 DEF Stamp, TypeOK
  <2>3. budget' \in [{"call", "crash", "fault"} -> Nat]
    BY <1>1, <1>4, SpendType DEF TypeOK, Stamp
  <2> QED
    BY <1>1, <1>4, <2>2, <2>3 DEF Stamp, TypeOK, WorkerTypes, busVars, lockVars, ghosts
<1> QED
  BY <1>2, <1>4 DEF Migrating

LEMMA WriteFailsTypes ==
  ASSUME TypeOK, WorkersFit, NEW w \in Workers, WriteFails(w), Writing(w),
         budget' \in [{"call", "crash", "fault"} -> Nat], WorkerTypes'
  PROVE  TypeOK'
<1>1. object' \in [Objects -> Object]
  <2>1. CASE UNCHANGED object
    BY <2>1 DEF TypeOK
  <2>2. CASE object' = [object EXCEPT ![loc[w].obj] = NoCollection]
    BY <2>2, NoCollectionType DEF TypeOK
  <2> QED
    BY <2>1, <2>2, WriteFailsTo DEF Unwritten
<1>2. {pendingHolder', registryHolder'} \subseteq Workers \cup {NoWorker}
  <2>1. CASE End(w)
    BY <2>1, EndTypes
  <2>2. CASE UNCHANGED lockVars
    BY <2>2 DEF lockVars, TypeOK
  <2> QED
    BY <2>1, <2>2, WriteFailsTo
<1> QED
  BY <1>1, <1>2, WriteFailsTo DEF TypeOK, WorkerTypes

LEMMA WritingTypes ==
  ASSUME IInv, NEW w \in Workers, Writing(w), WorkerTypes'
  PROVE  TypeOK'
<1> DEFINE l == loc[w]
           o == InHand(w)
           n == object[o].name
<1>1. TypeOK /\ Objectful /\ WorkersFit
  BY DEF IInv, TypeOK, Objectful, Control
<1>2. o \in Objects
  BY <1>1, WritingGoes
<1>3. object[o] \in Object /\ n \in Names /\ object[o].secret \in Answers
      /\ object[o].items \in SUBSET Items
  BY <1>1, <1>2 DEF Objectful, Object
<1>4. CASE WriteFails(w)
  <2>1. budget' \in [{"call", "crash", "fault"} -> Nat]
    <3>1. UNCHANGED budget \/ Spend("fault") \/ ~WriteFails(w)
      BY <1>2 DEF Writing, Write, Rename, Refresh, WriteFails, ghosts, diskVars
    <3> QED
      BY <1>1, <1>4, <3>1, SpendType DEF TypeOK
  <2> QED
    BY <1>1, <1>4, <2>1, WriteFailsTypes
<1>5. CASE Write(w) /\ ~WriteFails(w)
  <2>1. /\ raced' = raced \/ raced' = raced \cup {n}
        /\ UNCHANGED <<diskVars, connected, object, found, busVars, pending, lockVars,
                       userSecret, moved, foreign, placed, deletedAt, panicked, budget>>
    BY <1>5 DEF Write
  <2>2. raced' \subseteq Names
    BY <1>1, <1>3, <2>1 DEF TypeOK
  <2> QED
    BY <1>1, <2>1, <2>2 DEF TypeOK, WorkerTypes, diskVars, busVars, lockVars
<1>6. CASE Rename(w) /\ ~WriteFails(w)
  <2>1. /\ v1' = [v1 EXCEPT ![n] = [secret |-> object[o].secret, items |-> object[o].items]]
        /\ object' = Outdated(object, n)
        /\ moved' = moved \cup {s \in Sources : s[2] = n /\ LegacyItems[s] \subseteq object[o].items}
        /\ foreign' = foreign \cup
             {m \in V0 : m = n /\ v1[n] = NoFile /\ ~(LegacyItems[<<"v0", n>>] \subseteq object[o].items)}
        /\ UNCHANGED <<stamped, connected, found, busVars, pending, lockVars, userSecret,
                       raced, placed, deletedAt, panicked, budget>>
    BY <1>6 DEF Rename
  <2>2. v1' \in [Names -> File]
    BY <1>1, <1>3, <2>1 DEF TypeOK, File
  <2>3. object' \in [Objects -> Object]
    BY <1>1, <1>3, <2>1, OutdatedType DEF Objectful
  <2>4. moved' \subseteq Sources /\ foreign' \subseteq V0
    BY <1>1, <2>1 DEF TypeOK
  <2> QED
    BY <1>1, <2>1, <2>2, <2>3, <2>4 DEF TypeOK, WorkerTypes, busVars, lockVars
<1>7. CASE Refresh(w) /\ ~WriteFails(w)
  <2>1. /\ object' = [object EXCEPT ![o].time = "current"]
        /\ End(w) \/ UNCHANGED lockVars
        /\ UNCHANGED <<diskVars, connected, found, busVars, pending, userSecret, ghosts, budget>>
    BY <1>7 DEF Refresh
  <2> DEFINE x == [object[o] EXCEPT !.time = "current"]
  <2>2. object' = [object EXCEPT ![o] = x]
    BY <1>1, <1>2, <2>1 DEF Objectful
  <2>3. x \in Object
    BY <1>3 DEF Object
  <2> HIDE DEF x
  <2>4. object' \in [Objects -> Object]
    BY <1>1, <1>2, <2>2, <2>3 DEF Objectful
  <2>5. {pendingHolder', registryHolder'} \subseteq Workers \cup {NoWorker}
    BY <1>1, <2>1, EndTypes DEF lockVars, TypeOK
  <2> QED
    BY <1>1, <2>1, <2>4, <2>5 DEF TypeOK, WorkerTypes, diskVars, busVars, ghosts
<1> QED
  BY <1>4, <1>5, <1>6, <1>7 DEF Writing

LEMMA AddingTypes ==
  ASSUME IInv, NEW w \in Workers, Adding(w), WorkerTypes'
  PROVE  TypeOK'
<1> DEFINE l == loc[w]
<1>1. TypeOK /\ Objectful /\ l \in Local /\ Fits(w, pc[w], l)
  BY DEF IInv, TypeOK, Objectful, Control, WorkersFit
<1>2. CASE Label(w)
  <2>1. pc[w] \in {"label", "migrated"} /\ l.obj \in Objects
    BY <1>1, <1>2 DEF Label, Fits, OwnAt, OpsAt
  <2>2. \A p \in Places : collections[p] # l.obj
    BY <2>1 DEF IInv, Ownership, OwnIsOwn, Owns, OwnAt, Known
  <2> DEFINE alias == IF l.op = "create" THEN l.alias ELSE AliasOf(l.kind, l.name)
  <2>3. alias \in AliasNames
    BY <1>1 DEF Local, AliasOf, AliasNames
  <2>4. object' = Placed(l.obj, alias)
    BY <1>2 DEF Label
  <2> HIDE DEF alias
  <2>5. object' \in [Objects -> Object]
    BY <1>1, <2>1, <2>2, <2>3, <2>4, PlacedType, InOnePlace DEF IInv, Listing
  <2> QED
    BY <1>1, <1>2, <2>5 DEF Label, TypeOK, WorkerTypes, diskVars, busVars, lockVars, ghosts
<1>3. CASE ServeAt(w)
  <2>1. l.obj \in Objects
    BY <1>1, <1>3 DEF ServeAt, Fits, OwnAt, OpsAt
  <2>2. CASE Panic(w) /\ object' = [object EXCEPT ![l.obj] = NoCollection] /\ UNCHANGED served
    <3>1. object' \in [Objects -> Object]
      BY <1>1, <2>2, NoCollectionType DEF Objectful
    <3>2. {pendingHolder', registryHolder'} \subseteq Workers \cup {NoWorker} /\ panicked' \in BOOLEAN
      BY <1>1, <2>2, EndTypes DEF Panic
    <3> QED
      BY <1>1, <1>3, <2>2, <3>1, <3>2 DEF ServeAt, TypeOK, WorkerTypes, diskVars
  <2>3. CASE At(object[l.obj].path, l.obj) /\ UNCHANGED <<object, panicked, lockVars>>
    <3>1. object[l.obj].path \in Places
      BY <1>1, <2>1 DEF Objectful, Object
    <3>2. served' \in [Places -> Objects \cup {NoObject}]
      BY <1>1, <2>1, <2>3, <3>1 DEF At, TypeOK
    <3> QED
      BY <1>1, <1>3, <2>3, <3>2 DEF ServeAt, TypeOK, WorkerTypes, diskVars, lockVars
  <2> QED
    BY <1>3, <2>2, <2>3 DEF ServeAt
<1>4. CASE Insert(w)
  <2>1. l.obj \in Objects
    BY <1>1, <1>4 DEF Insert, Fits, SharedAt, OpsAt
  <2>2. collections' \in [Places -> Objects \cup {NoObject}]
    BY <1>1, <1>4, <2>1 DEF Insert, TypeOK
  <2>3. {pendingHolder', registryHolder'} \subseteq Workers \cup {NoWorker}
    BY <1>1, <1>4, EndTypes DEF Insert, lockVars, TypeOK
  <2> QED
    BY <1>1, <1>4, <2>2, <2>3 DEF Insert, TypeOK, WorkerTypes, diskVars, ghosts
<1>5. CASE ServeDefault(w)
  <2>1. l.obj \in Objects
    BY <1>1, <1>5 DEF ServeDefault, Fits, SharedAt, OpsAt
  <2>2. defaultServed' \in Objects \cup {NoObject}
    BY <1>1, <1>5, <2>1 DEF ServeDefault, TypeOK, AtDefault
  <2>3. placed' \in [Sources -> Objects \cup {NoObject}]
    BY <1>1, <1>5, <2>1 DEF ServeDefault, TypeOK
  <2> QED
    BY <1>1, <1>5, <2>2, <2>3 DEF ServeDefault, TypeOK, WorkerTypes, diskVars, lockVars
<1> QED
  BY <1>2, <1>3, <1>4, <1>5 DEF Adding

LEMMA TryingAllTypes ==
  ASSUME IInv, NEW w \in Workers, TryingAll(w), WorkerTypes'
  PROVE  TypeOK'
<1> DEFINE l == loc[w]
<1>1. TypeOK /\ l \in Local /\ Fits(w, pc[w], l)
  BY DEF IInv, TypeOK, Control, WorkersFit
<1>2. CASE PamLock(w)
  BY <1>1, <1>2 DEF PamLock, TypeOK, WorkerTypes, diskVars, busVars, ghosts
<1>3. CASE PamNext(w)
  BY <1>1, <1>3 DEF PamNext, TypeOK, WorkerTypes, diskVars, busVars, lockVars, ghosts
<1>4. CASE PamDone(w)
  BY <1>1, <1>4 DEF PamDone, TypeOK, WorkerTypes, diskVars, busVars, ghosts
<1>5. CASE UnlockAll(w)
  <2>1. l.secret \in Answers
    BY <1>1 DEF Local
  <2>2. object' \in [Objects -> Object]
    BY <1>1, <1>5, <2>1, TryUnlockType DEF UnlockAll
  <2>3. {pendingHolder', registryHolder'} \subseteq Workers \cup {NoWorker}
    BY <1>1, <1>5, EndTypes DEF UnlockAll
  <2> QED
    BY <1>1, <1>5, <2>2, <2>3 DEF UnlockAll, TypeOK, WorkerTypes, diskVars, busVars, ghosts
<1> QED
  BY <1>2, <1>3, <1>4, <1>5 DEF TryingAll

LEMMA UnlockingTypes ==
  ASSUME IInv, NEW w \in Workers, Unlocking(w), WorkerTypes'
  PROVE  TypeOK'
<1> DEFINE l == loc[w]
<1>1. TypeOK /\ Objectful /\ l \in Local /\ Fits(w, pc[w], l)
  BY DEF IInv, TypeOK, Objectful, Control, WorkersFit
<1>2. CASE Look(w)
  <2>1. {pendingHolder', registryHolder'} \subseteq Workers \cup {NoWorker}
    BY <1>1, <1>2, EndTypes DEF Look, lockVars, TypeOK
  <2> QED
    BY <1>1, <1>2, <2>1 DEF Look, TypeOK, WorkerTypes, diskVars, busVars, ghosts
<1>3. CASE FindPending(w)
  BY <1>1, <1>3 DEF FindPending, TypeOK, WorkerTypes, diskVars, busVars, lockVars, ghosts
<1>4. CASE SetLocked(w)
  <2>1. l.secret \in Answers
    BY <1>1 DEF Local
  <2>2. object' \in [Objects -> Object]
    BY <1>1, <1>4, <2>1, TryUnlockType DEF SetLocked
  <2>3. {pendingHolder', registryHolder'} \subseteq Workers \cup {NoWorker}
    BY <1>1, <1>4, EndTypes DEF SetLocked
  <2> QED
    BY <1>1, <1>4, <2>2, <2>3 DEF SetLocked, TypeOK, WorkerTypes, diskVars, busVars, ghosts
<1>5. CASE ReplaceKeyring(w)
  <2>1. l.obj \in Objects /\ l.target \in Objects
    BY <1>1, <1>5 DEF ReplaceKeyring, Fits, OwnAt
  <2> DEFINE kr == object[l.obj]
             tg == object[l.target]
             new == [tg EXCEPT !.locked = FALSE, !.secret = kr.secret, !.items = kr.items,
                               !.time = kr.time]
  <2>2. kr \in Object /\ tg \in Object
    BY <1>1, <2>1 DEF Objectful
  <2>3. object' = [object EXCEPT ![l.target] = new, ![l.obj] = NoCollection]
    BY <1>1, <1>5, <2>1 DEF ReplaceKeyring, Objectful
  <2> HIDE DEF kr, tg
  <2>4. new \in Object
    BY <2>2 DEF Object
  <2> HIDE DEF new
  <2>5. object' \in [Objects -> Object]
    BY <1>1, <2>3, <2>4, NoCollectionType DEF Objectful
  <2> QED
    BY <1>1, <1>5, <2>5 DEF ReplaceKeyring, TypeOK, WorkerTypes, diskVars, busVars, lockVars, ghosts
<1>6. CASE Forget(w)
  <2>1. {pendingHolder', registryHolder'} \subseteq Workers \cup {NoWorker}
    BY <1>1, <1>6, EndTypes DEF Forget
  <2> QED
    BY <1>1, <1>6, <2>1 DEF Forget, TypeOK, WorkerTypes, diskVars, busVars, ghosts
<1> QED
  BY <1>2, <1>3, <1>4, <1>5, <1>6 DEF Unlocking

LEMMA CallTypes ==
  ASSUME IInv, NEW t \in Tasks, Call(t), WorkerTypes'
  PROVE  TypeOK'
<1>1. TypeOK /\ Objectful /\ t \in Workers
  BY DEF IInv, TypeOK, Objectful, Workers
<1>2. budget' \in [{"call", "crash", "fault"} -> Nat]
  BY <1>1, SpendType
  DEF Call, CanCall, OpenSession, Create, Unlock, Lock, SetAlias, Store, Delete, Pam
<1>3. Panic(t) =>
        {pendingHolder', registryHolder'} \subseteq Workers \cup {NoWorker} /\ panicked' \in BOOLEAN
  BY <1>1, EndTypes DEF Panic
<1>4. CASE OpenSession(t)
  BY <1>1, <1>2, <1>3, <1>4 DEF OpenSession, TypeOK, WorkerTypes, diskVars, busVars, lockVars
<1>5. CASE Create(t)
  BY <1>1, <1>2, <1>3, <1>5 DEF Create, TypeOK, WorkerTypes, diskVars, busVars, lockVars
<1>6. CASE Unlock(t)
  BY <1>1, <1>2, <1>6 DEF Unlock, TypeOK, WorkerTypes, diskVars, busVars, lockVars, ghosts
<1>7. ASSUME NEW o \in Objects, NEW x \in Object, object' = [object EXCEPT ![o] = x]
      PROVE  object' \in [Objects -> Object]
  BY <1>1, <1>7 DEF Objectful
<1>8. \A p \in Listed : p \in Places /\ collections[p] \in Objects
  BY <1>1 DEF Listed, TypeOK
<1>9. CASE Lock(t)
  <2>1. PICK p \in Listed : object' = [object EXCEPT ![collections[p]].locked = TRUE]
    BY <1>9 DEF Lock
  <2> DEFINE o == collections[p]
             x == [object[o] EXCEPT !.locked = TRUE]
  <2>2. o \in Objects
    BY <1>8
  <2>3. x \in Object
    <3> HIDE DEF o
    <3>1. object[o] \in Object /\ TRUE \in BOOLEAN
      BY <1>1, <2>2 DEF Objectful
    <3> QED
      BY <3>1 DEF Object
  <2>4. object' = [object EXCEPT ![o] = x]
    BY <1>1, <2>1, <2>2 DEF Objectful
  <2> HIDE DEF x, o
  <2>5. object' \in [Objects -> Object]
    BY <1>7, <2>2, <2>3, <2>4
  <2> QED
    BY <1>1, <1>2, <1>9, <2>5 DEF Lock, TypeOK, WorkerTypes, diskVars, busVars, lockVars, ghosts
<1>10. CASE SetAlias(t)
  <2>1. PICK p \in Listed, a \in Aliases :
          object' = [object EXCEPT ![collections[p]].alias = <<a, 1>>]
    BY <1>10 DEF SetAlias
  <2> DEFINE o == collections[p]
             v == <<a, 1>>
             x == [object[o] EXCEPT !.alias = v]
  <2>2. o \in Objects
    BY <1>8
  <2>3. v \in AliasNames \X Numbers
    <3>1. Cardinality(Objects) # 0
      BY <2>2, FS_EmptySet, ServiceAssumption
    <3> QED
      BY <3>1, Counted DEF AliasNames, Numbers
  <2>4. object' = [object EXCEPT ![o] = x]
    BY <1>1, <2>1, <2>2 DEF Objectful
  <2> HIDE DEF v
  <2>5. x \in Object
    BY <1>1, <2>2, <2>3 DEF Objectful, Object, Numbers
  <2> HIDE DEF x, o
  <2>6. object' \in [Objects -> Object]
    BY <1>7, <2>2, <2>4, <2>5
  <2> QED
    BY <1>1, <1>2, <1>10, <2>6 DEF SetAlias, TypeOK, WorkerTypes, diskVars, busVars, lockVars, ghosts
<1>11. \A o \in Reachable : o \in Objects
  BY <1>1, <1>8 DEF Reachable, TypeOK
<1>12. CASE Store(t)
  <2>1. PICK o \in Objects, x \in Object : object' = [object EXCEPT ![o] = x]
    BY <1>1, <1>12, StoreGoes
  <2>2. object' \in [Objects -> Object]
    BY <1>7, <2>1
  <2> QED
    BY <1>1, <1>2, <1>12, <2>2 DEF Store, TypeOK, WorkerTypes, diskVars, busVars, lockVars, ghosts
<1>13. CASE Delete(t)
  <2>1. PICK o \in Reachable :
          IF v1[object[o].name] = NoFile
            THEN UNCHANGED <<v1, object, pc, loc, deletedAt>>
            ELSE /\ v1' = [v1 EXCEPT ![object[o].name] = NoFile]
                 /\ object' = Outdated(object, object[o].name)
                 /\ deletedAt' = deletedAt \cup {object[o].path}
    BY <1>13 DEF Delete
  <2>2. o \in Objects
    BY <1>11
  <2>3. object[o].name \in Names /\ object[o].path \in Places
    BY <1>1, <2>2 DEF Objectful, Object
  <2>4. Outdated(object, object[o].name) \in [Objects -> Object]
    BY <1>1, <2>3, OutdatedType DEF Objectful
  <2>5. v1' \in [Names -> File] /\ object' \in [Objects -> Object] /\ deletedAt' \subseteq Places
    BY <1>1, <2>1, <2>3, <2>4 DEF TypeOK, File
  <2> QED
    BY <1>1, <1>2, <1>13, <2>5 DEF Delete, TypeOK, WorkerTypes, busVars, lockVars
<1>14. CASE Pam(t)
  <2>1. userSecret' \in Answers
    BY <1>14, ServiceAssumption DEF Pam, Answers
  <2> QED
    BY <1>1, <1>2, <1>14, <2>1 DEF Pam, TypeOK, WorkerTypes, diskVars, busVars, lockVars, ghosts
<1> QED
  BY <1>4, <1>5, <1>6, <1>9, <1>10, <1>12, <1>13, <1>14 DEF Call

LEMMA TaskTypes ==
  ASSUME IInv, NEW t \in Tasks, CreateFails(t) \/ Unserve(t) \/ Remove(t), WorkerTypes'
  PROVE  TypeOK'
<1> DEFINE l == loc[t]
<1>1. TypeOK /\ t \in Workers
  BY DEF IInv, Workers
<1>2. l.path \in Places
  BY <1>1 DEF TypeOK, Local
<1>3. End(t) => {pendingHolder', registryHolder'} \subseteq Workers \cup {NoWorker}
  BY <1>1, EndTypes
<1>4. CASE CreateFails(t)
  BY <1>1, <1>3, <1>4 DEF CreateFails, TypeOK, WorkerTypes, diskVars, busVars, ghosts
<1>5. CASE Unserve(t)
  <2>1. served' \in [Places -> Objects \cup {NoObject}]
    BY <1>1, <1>2, <1>5 DEF Unserve, TypeOK
  <2>2. {pendingHolder', registryHolder'} \subseteq Workers \cup {NoWorker}
    BY <1>1, <1>3, <1>5 DEF Unserve, lockVars, TypeOK
  <2> QED
    BY <1>1, <1>5, <2>1, <2>2 DEF Unserve, TypeOK, WorkerTypes, diskVars, ghosts
<1>6. CASE Remove(t)
  BY <1>1, <1>2, <1>3, <1>6 DEF Remove, TypeOK, WorkerTypes, diskVars, ghosts
<1> QED
  BY <1>4, <1>5, <1>6

LEMMA BootingTypes ==
  ASSUME IInv, Start \/ (Booting /\ ~GiveUp), WorkerTypes'
  PROVE  TypeOK'
<1> DEFINE l == loc[Boot]
<1>1. TypeOK /\ Objectful /\ Boot \in Workers
  BY DEF IInv, TypeOK, Objectful, Workers
<1>2. l \in Local /\ Fits(Boot, pc[Boot], l)
  BY <1>1 DEF TypeOK, IInv, Control, WorkersFit
<1>3. Fresh # {} => Next1 \in Objects
  BY NextIsFresh
<1>4. ASSUME NEW o \in Objects, NEW x \in Object, object' = [object EXCEPT ![o] = x]
      PROVE  object' \in [Objects -> Object]
  BY <1>1, <1>4 DEF Objectful
<1>5. CASE Start
  BY <1>1, <1>5 DEF Start, TypeOK, WorkerTypes, diskVars, busVars, lockVars, ghosts
<1>6. CASE ScanV1
  <2>1. PICK n \in Todo :
          LET kr == Locked(n)
              s == l.secret
          IN /\ object' = [object EXCEPT ![Next1] =
                  Found(IF s # NoSecret /\ Accepts(kr.items, kr.secret, s)
                          THEN [kr EXCEPT !.locked = FALSE, !.secret = s] ELSE kr, "v1")]
             /\ found' = Append(found, Next1)
    BY <1>6 DEF ScanV1
  <2> DEFINE kr == Locked(n)
             s == l.secret
             y == IF s # NoSecret /\ Accepts(kr.items, kr.secret, s)
                    THEN [kr EXCEPT !.locked = FALSE, !.secret = s] ELSE kr
             x == Found(y, "v1")
  <2>2. n \in Names /\ s \in Answers
    BY <1>2 DEF Todo, Local
  <2>3. Next1 \in Objects
    BY <1>3, <1>6 DEF ScanV1
  <2>4. IsKeyring(kr, n)
    BY <1>1, <2>2, LockedType DEF TypeOK
  <2>5. object' = [object EXCEPT ![Next1] = x]
    BY <2>1
  <2> HIDE DEF kr
  <2>6. IsKeyring(y, n)
    BY <2>2, <2>4 DEF IsKeyring, Object
  <2> HIDE DEF y
  <2>7. x \in Object
    BY <2>6, FoundType DEF IsKeyring
  <2> HIDE DEF x
  <2>8. object' \in [Objects -> Object]
    BY <1>4, <2>3, <2>5, <2>7
  <2>9. found' \in Seq(Objects)
    BY <1>1, <2>1, <2>3 DEF TypeOK
  <2> QED
    BY <1>1, <1>6, <2>8, <2>9 DEF ScanV1, TypeOK, WorkerTypes, diskVars, busVars, lockVars, ghosts
<1>7. CASE NextScan
  BY <1>1, <1>7 DEF NextScan, TypeOK, WorkerTypes, diskVars, busVars, lockVars, ghosts
<1>8. CASE ScanLegacy
  BY <1>1, <1>8 DEF ScanLegacy, TypeOK, WorkerTypes, diskVars, busVars, lockVars, ghosts
<1>9. CASE Discovered
  <2>1. l.obj \in Objects
    BY <1>2, <1>9 DEF Discovered, Fits, OwnAt
  <2> DEFINE y == object[l.obj]
             x == Found(y, l.kind)
  <2>2. y \in Object /\ y.used
    BY <1>1, <1>9, <2>1 DEF Objectful, Discovered, IInv, Ownership, OwnIsOwn, Owns, OwnAt
  <2>3. object' = [object EXCEPT ![l.obj] = x] /\ found' = Append(found, l.obj)
    BY <1>1, <1>9, <2>1 DEF Discovered, Objectful
  <2> HIDE DEF y
  <2>4. x \in Object
    <3>1. IsKeyring(y, y.name)
      BY <2>2 DEF IsKeyring
    <3>2. IsKeyring(x, y.name)
      BY <3>1, FoundType
    <3> QED
      BY <3>2 DEF IsKeyring
  <2> HIDE DEF x
  <2>5. object' \in [Objects -> Object]
    BY <1>4, <2>1, <2>3, <2>4
  <2>6. found' \in Seq(Objects)
    BY <1>1, <2>1, <2>3 DEF TypeOK
  <2> QED
    BY <1>1, <1>9, <2>5, <2>6 DEF Discovered, TypeOK, WorkerTypes, diskVars, busVars, lockVars, ghosts
<1>10. CASE PutOff
  <2> DEFINE n == l.name
             x == Found(Locked(n), l.kind)
  <2>1. n \in Names /\ l.kind \in {"v0", "kwallet"}
    BY <1>2 DEF Local
  <2>2. Next1 \in Objects
    BY <1>3, <1>10 DEF PutOff
  <2>3. IsKeyring(Locked(n), n)
    BY <1>1, <2>1, LockedType DEF TypeOK
  <2>4. x \in Object
    BY <2>3, FoundType DEF IsKeyring
  <2>5. object' = [object EXCEPT ![Next1] = x] /\ found' = Append(found, Next1)
    BY <1>10 DEF PutOff, Placeholder
  <2> HIDE DEF x
  <2>6. object' \in [Objects -> Object]
    BY <1>4, <2>2, <2>4, <2>5
  <2>7. found' \in Seq(Objects)
    BY <1>1, <2>2, <2>5 DEF TypeOK
  <2>8. pending' \in [Names -> {"none", "v0", "kwallet"}]
    BY <1>1, <1>10, <2>1 DEF PutOff, TypeOK
  <2> QED
    BY <1>1, <1>10, <2>6, <2>7, <2>8 DEF PutOff, TypeOK, WorkerTypes, diskVars, busVars, lockVars, ghosts
<1>11. CASE Connect
  BY <1>1, <1>11 DEF Connect, TypeOK, WorkerTypes, diskVars, busVars, lockVars, ghosts
<1>12. CASE Register
  <2>1. object' \in [Objects -> Object] /\ found' \in Seq(Objects)
    <3>1. CASE HasDefault
      BY <1>1, <1>12, <3>1 DEF Register, TypeOK
    <3>2. CASE ~HasDefault
      <4>1. Next1 \in Objects
        BY <1>3, <1>12, <3>2 DEF Register
      <4>2. l.secret \in Answers
        BY <1>2 DEF Local
      <4> DEFINE y == IF l.secret = NoSecret THEN Locked(Login) ELSE Opened(Login, l.secret)
      <4>3. IsKeyring(Locked(Login), Login) /\ IsKeyring(Opened(Login, l.secret), Login)
        BY <1>1, <4>2, SomeName, LockedType, OpenedType DEF TypeOK
      <4>4. IsKeyring(y, Login)
        BY <4>3
      <4>5. DefaultKeyring = Found(y, "v1")
        BY DEF DefaultKeyring
      <4> HIDE DEF y
      <4>6. DefaultKeyring \in Object
        BY <4>4, <4>5, FoundType DEF IsKeyring
      <4>7. object' = [object EXCEPT ![Next1] = DefaultKeyring] /\ found' = Append(found, Next1)
        BY <1>12, <3>2 DEF Register
      <4> QED
        BY <1>1, <1>4, <4>1, <4>6, <4>7 DEF TypeOK
    <3> QED
      BY <3>1, <3>2
  <2> QED
    BY <1>1, <1>12, <2>1 DEF Register, TypeOK, WorkerTypes, diskVars, busVars, ghosts
<1>13. CASE Place
  <2> DEFINE i == l.index
             o == found[i]
             alias == object[o].alias[1]
  <2>1. CASE i > Len(found)
    BY <1>1, <1>13, <2>1 DEF Place, TypeOK, WorkerTypes, diskVars, busVars, ghosts
  <2>2. CASE ~(i > Len(found))
    <3>1. pc[Boot] = "place"
      BY <1>13 DEF Place
    <3>2. i \in DOMAIN found
      <4>1. i >= 1 /\ i \in Nat
        BY <1>2, <3>1, Counted DEF Fits, Local
      <4> QED
        BY <1>1, <2>2, <4>1 DEF TypeOK
    <3>3. o \in Objects
      BY <1>1, <3>2 DEF TypeOK
    <3>4. alias \in AliasNames
      BY <1>1, <3>3 DEF Objectful, Object
    <3>5. \A p \in Places : collections[p] # o
      <4>1. l.op = "boot"
        BY <1>2, <3>1 DEF Fits, OpsAt
      <4>2. Unplaced(i)
        BY <1>2, <3>1, <4>1, Counted DEF Unplaced, Early, Local
      <4> QED
        BY <3>2, <4>2 DEF IInv, Listing, ListedOnce
    <3>6. /\ object' = Placed(o, alias)
          /\ collections' = [collections EXCEPT ![Placed(o, alias)[o].path] = o]
      BY <1>13, <2>2 DEF Place
    <3> HIDE DEF alias, o, i
    <3>7. Placed(o, alias) \in [Objects -> Object] /\ Placed(o, alias)[o].path \in Places
      BY <1>1, <3>3, <3>4, <3>5, PlacedType, InOnePlace DEF IInv, Listing
    <3>8. object' \in [Objects -> Object] /\ collections' \in [Places -> Objects \cup {NoObject}]
      BY <1>1, <3>3, <3>6, <3>7 DEF TypeOK
    <3>9. UNCHANGED registryHolder
      BY <1>13, <2>2 DEF Place, i
    <3> QED
      BY <1>1, <1>13, <3>8, <3>9 DEF Place, TypeOK, WorkerTypes, diskVars, ghosts
  <2> QED
    BY <2>1, <2>2
<1>14. CASE Serve
  <2> DEFINE i == l.index
             o == found[i]
  <2>1. CASE i > Len(found)
    BY <1>1, <1>14, <2>1 DEF Serve, TypeOK, WorkerTypes, diskVars, lockVars, ghosts
  <2>2. CASE ~(i > Len(found))
    <3>1. pc[Boot] = "serve"
      BY <1>14 DEF Serve
    <3>2. i \in DOMAIN found
      <4>1. i >= 1 /\ i \in Nat
        BY <1>2, <3>1, Counted DEF Fits, Local
      <4> QED
        BY <1>1, <2>2, <4>1 DEF TypeOK
    <3>3. o \in Objects
      BY <1>1, <3>2 DEF TypeOK
    <3>4. object[o].path \in Places
      BY <1>1, <3>3 DEF Objectful, Object
    <3>5. At(object[o].path, o) /\ (AtDefault(o) \/ UNCHANGED defaultServed)
      BY <1>14, <2>2 DEF Serve
    <3>6. /\ served' \in [Places -> Objects \cup {NoObject}]
          /\ defaultServed' \in Objects \cup {NoObject}
      BY <1>1, <3>3, <3>4, <3>5 DEF TypeOK, At, AtDefault
    <3> QED
      BY <1>1, <1>14, <3>6 DEF Serve, TypeOK, WorkerTypes, diskVars, lockVars, ghosts
  <2> QED
    BY <2>1, <2>2
<1>15. CASE Replay
  <2>1. {pendingHolder', registryHolder'} \subseteq Workers \cup {NoWorker}
    BY <1>1, <1>15, EndTypes DEF Replay, lockVars, TypeOK
  <2> QED
    BY <1>1, <1>15, <2>1 DEF Replay, TypeOK, WorkerTypes, diskVars, busVars, ghosts
<1> QED
  BY <1>5, <1>6, <1>7, <1>8, <1>9, <1>10, <1>11, <1>12, <1>13, <1>14, <1>15 DEF Booting

-----------------------------------------------------------------------------
(* Who holds the pending migrations *)

\* Only w moves.
OnlyMoves(w) == \A u \in Workers : u # w => pc'[u] = pc[u] /\ loc'[u] = loc[u]

LEMMA GotoGoes ==
  ASSUME WorkerTypes, NEW w \in Workers, NEW label, NEW local, Goto(w, label, local)
  PROVE  pc'[w] = label /\ loc'[w] = local /\ OnlyMoves(w)
BY DEF Goto, WorkerTypes, OnlyMoves

LEMMA EndGoes ==
  ASSUME WorkerTypes, NEW w \in Workers, End(w)
  PROVE  /\ pc'[w] = "idle" /\ loc'[w] = Blank /\ OnlyMoves(w) /\ ~Trying(w)'
         /\ pendingHolder' = Free(pendingHolder, w) /\ registryHolder' = Free(registryHolder, w)
<1>1. pc'[w] = "idle" /\ loc'[w] = Blank /\ OnlyMoves(w)
  BY GotoGoes DEF End
<1> QED
  BY <1>1 DEF End, Trying, TryingAt, MigrationAt, SharedAt

LEMMA TryingKept ==
  ASSUME TryingHolds, NoWorker \notin Workers, NEW w \in Workers, OnlyMoves(w),
         \/ UNCHANGED pendingHolder
         \/ pendingHolder' = Free(pendingHolder, w) /\ ~Trying(w)',
         \A n \in Names : pending[n] # "none" => pending'[n] # "none",
         loc[w].todo \subseteq Names,
         Trying(w)' => Trying(w) /\ loc'[w].todo \subseteq loc[w].todo,
         \A u \in Workers : loc[u].todo \subseteq Names
  PROVE  TryingHolds'
<1> SUFFICES ASSUME NEW u \in Workers, Trying(u)'
             PROVE  pendingHolder' = u /\ \A n \in loc'[u].todo : pending'[n] # "none"
  BY DEF TryingHolds
<1>1. CASE u = w
  BY <1>1 DEF TryingHolds
<1>2. CASE u # w
  <2>1. Trying(u) /\ loc'[u] = loc[u]
    BY <1>2 DEF OnlyMoves, Trying
  <2>2. pendingHolder = u /\ \A n \in loc[u].todo : pending[n] # "none"
    BY <2>1 DEF TryingHolds
  <2> QED
    BY <1>2, <2>1, <2>2 DEF Free
<1> QED
  BY <1>1, <1>2

LEMMA BootKept ==
  ASSUME BootSteps, NEW w \in Workers, OnlyMoves(w), UNCHANGED found, Boot \in Workers,
         pc'[w] \notin {"down", "place"},
         UNCHANGED registryHolder \/ registryHolder' = Free(registryHolder, w)
  PROVE  BootSteps'
<1>1. CASE w = Boot
  BY <1>1 DEF BootSteps
<1>2. CASE w # Boot
  BY <1>2 DEF BootSteps, OnlyMoves, Free
<1> QED
  BY <1>1, <1>2

\* What most of the steps have in common.
LEMMA ControlKept ==
  ASSUME TypeOK, TryingHolds, PendingSources, BootSteps,
         NEW w \in Workers, OnlyMoves(w), UNCHANGED <<found, pending>>,
         \/ UNCHANGED <<pendingHolder, registryHolder>>
         \/ /\ pendingHolder' = Free(pendingHolder, w) /\ ~Trying(w)'
            /\ registryHolder' = Free(registryHolder, w),
         pc'[w] \notin {"down", "place"},
         Trying(w)' => Trying(w) /\ loc'[w].todo \subseteq loc[w].todo
  PROVE  TryingHolds' /\ PendingSources' /\ BootSteps'
<1>1. NoWorker \notin Workers /\ Boot \in Workers
  BY ServiceAssumption DEF Workers
<1>2. \A u \in Workers : loc[u].todo \subseteq Names
  BY DEF TypeOK, Local
<1>3. TryingHolds'
  BY <1>1, <1>2, TryingKept
<1>4. PendingSources'
  BY DEF PendingSources
<1>5. BootSteps'
  BY <1>1, BootKept
<1> QED
  BY <1>3, <1>4, <1>5

LEMMA MigratingControl ==
  ASSUME IInv, NEW w \in Workers, Migrating(w)
  PROVE  TryingHolds' /\ PendingSources' /\ BootSteps'
<1> DEFINE l == loc[w]
<1>1. /\ TypeOK /\ WorkerTypes /\ l \in Local
      /\ TryingHolds /\ PendingSources /\ BootSteps
  BY DEF IInv, TypeOK, WorkerTypes, Control
<1>2. pc[w] \in MigrationAt
  BY DEF Migrating, Open, Stamp, MigrationAt
<1>3. \E label \in {"write", "refused", "migrated"},
         o \in {l.obj, Next1, NoObject} : Goto(w, label, [l EXCEPT !.obj = o])
  <2>1. l = [l EXCEPT !.obj = l.obj]
    BY <1>1 DEF Local
  <2>2. CASE Open(w)
    BY <2>1, <2>2 DEF Open
  <2>4. CASE Stamp(w)
    BY <2>1, <2>4 DEF Stamp
  <2> QED
    BY <2>2, <2>4 DEF Migrating
<1>4. PICK label \in {"write", "refused", "migrated"},
           o \in {l.obj, Next1, NoObject} : Goto(w, label, [l EXCEPT !.obj = o])
  BY <1>3
<1>5. /\ pc'[w] = label /\ OnlyMoves(w)
      /\ loc'[w].op = l.op /\ loc'[w].todo = l.todo
  <2>1. pc'[w] = label /\ loc'[w] = [l EXCEPT !.obj = o] /\ OnlyMoves(w)
    BY <1>1, <1>4, GotoGoes
  <2> QED
    BY <1>1, <2>1 DEF Local
<1>6. Trying(w)' => Trying(w)
  BY <1>2, <1>5 DEF Trying, TryingAt
<1>7. UNCHANGED <<found, pending, pendingHolder, registryHolder>>
  BY DEF Migrating, Open, Stamp, lockVars
<1> QED
  BY <1>1, <1>4, <1>5, <1>6, <1>7, ControlKept

LEMMA WritingControl ==
  ASSUME IInv, NEW w \in Workers, Writing(w)
  PROVE  TryingHolds' /\ PendingSources' /\ BootSteps'
<1> DEFINE l == loc[w]
<1>1. /\ TypeOK /\ WorkerTypes /\ l \in Local /\ WorkersFit
      /\ TryingHolds /\ PendingSources /\ BootSteps
  BY DEF IInv, TypeOK, WorkerTypes, Control
<1>2. pc[w] \in WritingAt /\ UNCHANGED <<found, pending>>
  BY <1>1, WritingGoes
<1>3. CASE End(w)
  BY <1>1, <1>2, <1>3, EndGoes, ControlKept
<1>4. CASE (Unwritten(w) \/ GoesOn(w)) /\ UNCHANGED lockVars
  <2>1. \E label \in {"refused", "rename", "refresh", "stamp", "label"}, o \in {l.obj, NoObject} :
          Goto(w, label, [l EXCEPT !.obj = o])
    <3>1. l = [l EXCEPT !.obj = l.obj]
      BY <1>1 DEF Local
    <3> QED
      BY <1>4, <3>1 DEF Unwritten, GoesOn
  <2>2. PICK label \in {"refused", "rename", "refresh", "stamp", "label"},
             o \in {l.obj, NoObject} : Goto(w, label, [l EXCEPT !.obj = o])
    BY <2>1
  <2>3. /\ pc'[w] = label /\ OnlyMoves(w)
        /\ loc'[w].op = l.op /\ loc'[w].todo = l.todo
    <3>1. pc'[w] = label /\ loc'[w] = [l EXCEPT !.obj = o] /\ OnlyMoves(w)
      BY <1>1, <2>2, GotoGoes
    <3> QED
      BY <1>1, <3>1 DEF Local
  <2>4. Trying(w)' => Trying(w)
    BY <1>2, <2>3 DEF Trying, TryingAt, MigrationAt, WritingAt
  <2> QED
    BY <1>1, <1>2, <1>4, <2>2, <2>3, <2>4, ControlKept DEF lockVars
<1> QED
  BY <1>1, <1>3, <1>4, WritingGoes DEF GoesOn

LEMMA AddingControl ==
  ASSUME IInv, NEW w \in Workers, Adding(w)
  PROVE  TryingHolds' /\ PendingSources' /\ BootSteps'
<1> DEFINE l == loc[w]
<1>1. /\ TypeOK /\ WorkerTypes /\ l \in Local
      /\ TryingHolds /\ PendingSources /\ BootSteps
  BY DEF IInv, TypeOK, WorkerTypes, Control
<1>2. UNCHANGED <<found, pending>>
  BY DEF Adding, Label, ServeAt, Insert, ServeDefault
<1>3. CASE End(w)
  BY <1>1, <1>2, <1>3, EndGoes, ControlKept
<1>4. ASSUME NEW label \in {"at", "insert", "serveDefault"}, Goto(w, label, l),
             pc[w] \in {"label", "migrated", "at", "insert"}, UNCHANGED lockVars,
             l.op = "pam" => pc[w] # "label"
      PROVE  TryingHolds' /\ PendingSources' /\ BootSteps'
  <2>1. pc'[w] = label /\ loc'[w] = l /\ OnlyMoves(w)
    BY <1>1, <1>4, GotoGoes
  <2>2. Trying(w)' => Trying(w)
    BY <1>4, <2>1 DEF Trying, TryingAt, MigrationAt, SharedAt
  <2> QED
    BY <1>1, <1>2, <1>4, <2>1, <2>2, ControlKept DEF lockVars
<1>5. pc[w] = "label" => l.op # "pam"
  BY DEF IInv, Control, WorkersFit, Fits, OpsAt
<1>6. CASE Label(w)
  BY <1>4, <1>5, <1>6 DEF Label
<1>7. CASE ServeAt(w)
  BY <1>3, <1>4, <1>7 DEF ServeAt, Panic
<1>8. CASE Insert(w)
  BY <1>3, <1>4, <1>8 DEF Insert
<1>9. CASE ServeDefault(w)
  <2> DEFINE done == l.done \cup {l.name}
             x == [l EXCEPT !.obj = NoObject, !.done = done]
  <2>1. pc[w] = "serveDefault" /\ Goto(w, "pamNext", x) /\ UNCHANGED lockVars
    BY <1>9 DEF ServeDefault
  <2>2. x.op = l.op /\ x.todo = l.todo
    BY <1>1 DEF Local
  <2> HIDE DEF x
  <2>3. pc'[w] = "pamNext" /\ loc'[w] = x /\ OnlyMoves(w)
    BY <1>1, <2>1, GotoGoes
  <2>4. Trying(w)' => Trying(w) /\ loc'[w].todo \subseteq l.todo
    BY <2>1, <2>2, <2>3 DEF Trying, TryingAt, SharedAt
  <2> QED
    BY <1>1, <1>2, <2>1, <2>3, <2>4, ControlKept DEF lockVars
<1> QED
  BY <1>6, <1>7, <1>8, <1>9 DEF Adding

LEMMA TryingAllControl ==
  ASSUME IInv, NEW w \in Workers, TryingAll(w)
  PROVE  TryingHolds' /\ PendingSources' /\ BootSteps'
<1> DEFINE l == loc[w]
<1>1. /\ TypeOK /\ WorkerTypes /\ l \in Local /\ Fits(w, pc[w], l)
      /\ TryingHolds /\ PendingSources /\ BootSteps
      /\ NoWorker \notin Workers /\ Boot \in Workers
  BY ServiceAssumption DEF IInv, TypeOK, WorkerTypes, Control, WorkersFit, Workers
<1>2. CASE PamLock(w)
  <2> DEFINE todo == {n \in Names : pending[n] # "none"}
             x == [l EXCEPT !.todo = todo]
  <2>1. /\ Goto(w, "pamNext", x) /\ pendingHolder = NoWorker /\ pendingHolder' = w
        /\ UNCHANGED <<found, pending, registryHolder>>
    BY <1>2 DEF PamLock
  <2>2. x.todo = todo
    BY <1>1 DEF Local
  <2> HIDE DEF x
  <2>3. pc'[w] = "pamNext" /\ loc'[w] = x /\ OnlyMoves(w)
    BY <1>1, <2>1, GotoGoes
  <2>4. \A u \in Workers : ~Trying(u)
    BY <1>1, <2>1 DEF TryingHolds
  <2>5. TryingHolds'
    BY <2>1, <2>2, <2>3, <2>4 DEF TryingHolds, Trying, OnlyMoves
  <2>6. PendingSources'
    BY <1>1, <2>1 DEF PendingSources
  <2>7. BootSteps'
    BY <1>1, <2>1, <2>3, BootKept
  <2> QED
    BY <2>5, <2>6, <2>7
<1>3. CASE PamNext(w)
  <2>1. PICK n \in l.todo :
          Goto(w, "open", [l EXCEPT !.todo = @ \ {n}, !.name = n, !.kind = pending[n]])
    BY <1>3 DEF PamNext
  <2> DEFINE todo == l.todo \ {n}
             x == [l EXCEPT !.todo = todo, !.name = n, !.kind = pending[n]]
  <2>2. /\ pc[w] = "pamNext" \/ (pc[w] = "refused" /\ l.op = "pam")
        /\ UNCHANGED <<found, pending, pendingHolder, registryHolder>>
    BY <1>3 DEF PamNext, lockVars
  <2>3. x.todo = todo /\ x.op = l.op
    BY <1>1 DEF Local
  <2>4. Goto(w, "open", x)
    BY <2>1
  <2> HIDE DEF x
  <2>5. pc'[w] = "open" /\ loc'[w] = x /\ OnlyMoves(w)
    BY <1>1, <2>4, GotoGoes
  <2>6. Trying(w)' => Trying(w) /\ loc'[w].todo \subseteq l.todo
    BY <1>1, <2>2, <2>3, <2>5 DEF Trying, TryingAt, MigrationAt
  <2> QED
    BY <1>1, <2>2, <2>5, <2>6, ControlKept
<1>4. CASE PamDone(w)
  <2>1. /\ pc[w] = "pamNext" \/ (pc[w] = "refused" /\ l.op = "pam")
        /\ pending' = [n \in Names |-> IF n \in l.done THEN "none" ELSE pending[n]]
        /\ pendingHolder' = NoWorker /\ Goto(w, "unlockAll", l)
        /\ UNCHANGED <<found, registryHolder>>
    BY <1>4 DEF PamDone
  <2>2. pc'[w] = "unlockAll" /\ OnlyMoves(w)
    BY <1>1, <2>1, GotoGoes
  <2>3. Trying(w)
    BY <1>1, <2>1 DEF Fits, OpsAt, Trying, TryingAt, MigrationAt
  <2>4. \A u \in Workers : u # w => ~Trying(u)
    BY <1>1, <2>3 DEF TryingHolds
  <2>5. \A u \in Workers : ~Trying(u)'
    BY <2>2, <2>4 DEF Trying, OnlyMoves, TryingAt, MigrationAt, SharedAt
  <2>6. TryingHolds'
    BY <2>5 DEF TryingHolds
  <2>7. PendingSources'
    BY <1>1, <2>1 DEF PendingSources
  <2>8. BootSteps'
    BY <1>1, <2>1, <2>2, BootKept
  <2> QED
    BY <2>6, <2>7, <2>8
<1>5. CASE UnlockAll(w)
  <2>1. End(w) /\ UNCHANGED <<found, pending>>
    BY <1>5 DEF UnlockAll
  <2> QED
    BY <1>1, <2>1, EndGoes, ControlKept
<1> QED
  BY <1>2, <1>3, <1>4, <1>5 DEF TryingAll

LEMMA UnlockingControl ==
  ASSUME IInv, NEW w \in Workers, Unlocking(w)
  PROVE  TryingHolds' /\ PendingSources' /\ BootSteps'
<1> DEFINE l == loc[w]
<1>1. /\ TypeOK /\ WorkerTypes /\ l \in Local /\ Fits(w, pc[w], l)
      /\ TryingHolds /\ PendingSources /\ BootSteps
      /\ NoWorker \notin Workers /\ Boot \in Workers
  BY ServiceAssumption DEF IInv, TypeOK, WorkerTypes, Control, WorkersFit, Workers
<1>2. ASSUME End(w), UNCHANGED <<found, pending>>
      PROVE  TryingHolds' /\ PendingSources' /\ BootSteps'
  BY <1>1, <1>2, EndGoes, ControlKept
<1>3. ASSUME NEW label \in {"pending", "setLocked", "open", "forget"}, NEW x,
             Goto(w, label, x), x.op = "unlock", UNCHANGED <<found, pending>>, UNCHANGED lockVars
      PROVE  TryingHolds' /\ PendingSources' /\ BootSteps'
  <2>1. pc'[w] = label /\ loc'[w] = x /\ OnlyMoves(w)
    BY <1>1, <1>3, GotoGoes
  <2>2. ~Trying(w)'
    BY <1>3, <2>1 DEF Trying
  <2> QED
    BY <1>1, <1>3, <2>1, <2>2, ControlKept DEF lockVars
<1>5. CASE Look(w)
  <2> DEFINE o == collections[l.path]
             x == [l EXCEPT !.target = o, !.name = object[o].name]
  <2>1. UNCHANGED <<found, pending>>
    BY <1>5 DEF Look
  <2>2. CASE o = NoObject
    BY <1>2, <1>5, <2>1, <2>2 DEF Look
  <2>3. CASE o # NoObject
    <3>1. Goto(w, "pending", x) /\ UNCHANGED lockVars
      BY <1>5, <2>3 DEF Look
    <3>2. x.op = "unlock"
      BY <1>1, <1>5 DEF Local, Look, Fits, OpsAt
    <3> QED
      BY <1>3, <2>1, <3>1, <3>2
  <2> QED
    BY <2>2, <2>3
<1>6. CASE FindPending(w)
  <2>1. UNCHANGED <<found, pending>> /\ UNCHANGED lockVars
    BY <1>6 DEF FindPending
  <2>2. l.op = "unlock" /\ [l EXCEPT !.kind = pending[l.name]].op = "unlock"
    BY <1>1, <1>6 DEF Local, FindPending, Fits, OpsAt
  <2>3. Goto(w, "setLocked", l) \/ Goto(w, "open", [l EXCEPT !.kind = pending[l.name]])
    BY <1>6 DEF FindPending, AfterPending
  <2> QED
    BY <1>3, <2>1, <2>2, <2>3
<1>7. CASE SetLocked(w)
  BY <1>2, <1>7 DEF SetLocked
<1>8. CASE ReplaceKeyring(w)
  <2>1. /\ UNCHANGED <<found, pending>> /\ UNCHANGED lockVars
        /\ Goto(w, "forget", [l EXCEPT !.obj = NoObject]) /\ l.op = "unlock"
    BY <1>8 DEF ReplaceKeyring
  <2>2. [l EXCEPT !.obj = NoObject].op = "unlock"
    BY <1>1, <2>1 DEF Local
  <2> QED
    BY <1>3, <2>1, <2>2
<1>9. CASE Forget(w)
  <2>1. /\ pc[w] = "forget" /\ CanPend(w) /\ End(w) /\ UNCHANGED found
        /\ pending' = [pending EXCEPT ![l.name] = "none"]
    BY <1>9 DEF Forget
  <2>2. pc'[w] = "idle" /\ OnlyMoves(w) /\ ~Trying(w)' /\ registryHolder' = Free(registryHolder, w)
    BY <1>1, <2>1, EndGoes
  <2>3. \A u \in Workers : u # w => ~Trying(u)
    BY <1>1, <2>1 DEF TryingHolds, CanPend
  <2>4. \A u \in Workers : ~Trying(u)'
    BY <2>2, <2>3 DEF Trying, OnlyMoves
  <2>5. TryingHolds'
    BY <2>4 DEF TryingHolds
  <2>6. PendingSources'
    BY <1>1, <2>1 DEF PendingSources, TypeOK
  <2>7. BootSteps'
    BY <1>1, <2>1, <2>2, BootKept
  <2> QED
    BY <2>5, <2>6, <2>7
<1> QED
  BY <1>5, <1>6, <1>7, <1>8, <1>9 DEF Unlocking

LEMMA CallControl ==
  ASSUME IInv, NEW t \in Tasks,
         Call(t) \/ CreateFails(t) \/ Unserve(t) \/ Remove(t)
  PROVE  TryingHolds' /\ PendingSources' /\ BootSteps'
<1> DEFINE l == loc[t]
<1>1. /\ TypeOK /\ WorkerTypes /\ t \in Workers /\ t # Boot /\ l \in Local /\ Fits(t, pc[t], l)
      /\ TryingHolds /\ PendingSources /\ BootSteps
      /\ NoWorker \notin Workers /\ Boot \in Workers
  BY ServiceAssumption DEF IInv, TypeOK, WorkerTypes, Control, WorkersFit, Workers
<1>2. UNCHANGED <<found, pending>>
  BY DEF Call, OpenSession, Create, Unlock, Lock, SetAlias, Store, Delete, Pam, CreateFails,
         Unserve, Remove
<1>3. CASE End(t)
  BY <1>1, <1>2, <1>3, EndGoes, ControlKept
<1>4. ASSUME NEW label \in {"open", "write", "look", "unserve", "pamLock", "remove"}, NEW x,
             Goto(t, label, x), label \notin {"open", "write"} \/ x.op # "pam", UNCHANGED lockVars
      PROVE  TryingHolds' /\ PendingSources' /\ BootSteps'
  <2>1. pc'[t] = label /\ loc'[t] = x /\ OnlyMoves(t)
    BY <1>1, <1>4, GotoGoes
  <2>2. ~Trying(t)'
    BY <1>4, <2>1 DEF Trying, TryingAt, MigrationAt, SharedAt
  <2> QED
    BY <1>1, <1>2, <1>4, <2>1, <2>2, ControlKept DEF lockVars
<1>5. CASE UNCHANGED <<pc, loc, pendingHolder, registryHolder>>
  <2>1. TryingHolds'
    BY <1>1, <1>2, <1>5 DEF TryingHolds, Trying
  <2>2. PendingSources' /\ BootSteps'
    BY <1>1, <1>2, <1>5 DEF PendingSources, BootSteps
  <2> QED
    BY <2>1, <2>2
<1>6. CASE OpenSession(t)
  BY <1>3, <1>5, <1>6 DEF OpenSession, Panic, lockVars
<1>7. CASE Create(t)
  <2>1. ASSUME NEW n \in NewNames, NEW a \in Aliases, NEW s \in Typed[n], UNCHANGED lockVars,
               Goto(t, "open", [Blank EXCEPT !.op = "create", !.name = n, !.alias = a, !.secret = s])
        PROVE  TryingHolds' /\ PendingSources' /\ BootSteps'
    <3>1. [Blank EXCEPT !.op = "create", !.name = n, !.alias = a, !.secret = s].op = "create"
      BY DEF Blank
    <3> QED
      BY <1>4, <2>1, <3>1
  <2> QED
    BY <1>3, <1>7, <2>1 DEF Create, Panic
<1>8. CASE Unlock(t)
  BY <1>4, <1>8 DEF Unlock
<1>9. CASE Lock(t) \/ SetAlias(t)
  BY <1>5, <1>9 DEF Lock, SetAlias, lockVars
<1>14. CASE Store(t)
  <2>1. PICK y \in Local : Goto(t, "write", y) /\ y.op = "store"
    BY <1>1, <1>14, StoreGoes
  <2>2. UNCHANGED lockVars
    BY <1>14 DEF Store
  <2> QED
    BY <1>4, <2>1, <2>2
<1>10. CASE Delete(t)
  BY <1>4, <1>5, <1>10 DEF Delete, lockVars
<1>11. CASE Pam(t)
  BY <1>4, <1>11 DEF Pam
<1>12. CASE CreateFails(t) \/ Remove(t)
  BY <1>3, <1>12 DEF CreateFails, Remove
<1>13. CASE Unserve(t)
  BY <1>3, <1>4, <1>13 DEF Unserve
<1> QED
  BY <1>6, <1>7, <1>8, <1>9, <1>10, <1>11, <1>12, <1>13, <1>14 DEF Call

LEMMA BootingControl ==
  ASSUME IInv, Start \/ (Booting /\ ~GiveUp), WorkerTypes', WorkersFit'
  PROVE  TryingHolds' /\ PendingSources' /\ BootSteps'
<1> DEFINE l == loc[Boot]
<1>1. /\ TypeOK /\ WorkerTypes /\ Boot \in Workers /\ NoWorker \notin Workers
      /\ TryingHolds /\ PendingSources /\ BootSteps
  BY ServiceAssumption DEF IInv, TypeOK, WorkerTypes, Control, Workers
<1>2. l \in Local /\ Fits(Boot, pc[Boot], l)
  BY <1>1 DEF TypeOK, IInv, Control, WorkersFit
<1>3. \A u \in Workers : loc[u].todo \subseteq Names
  BY <1>1 DEF TypeOK, Local
<1>4. OnlyMoves(Boot) /\ pc'[Boot] # "down" /\ ~Trying(Boot)'
  <2>1. ASSUME NEW label, NEW x, Goto(Boot, label, x), label # "down",
               label \notin TryingAt \/ x.op # "pam"
        PROVE  OnlyMoves(Boot) /\ pc'[Boot] # "down" /\ ~Trying(Boot)'
    <3>1. pc'[Boot] = label /\ loc'[Boot] = x /\ OnlyMoves(Boot)
      BY <1>1, <2>1, GotoGoes
    <3> QED
      BY <2>1, <3>1 DEF Trying
  <2>2. l.kind \in {"v0", "kwallet"}
    BY <1>2 DEF Local
  <2>3. CASE Start
    BY <2>1, <2>3 DEF Start, TryingAt, MigrationAt, SharedAt
  <2>4. CASE ScanV1
    BY <2>1, <2>4 DEF ScanV1, TryingAt, MigrationAt, SharedAt
  <2>5. CASE NextScan
    BY <2>1, <2>5 DEF NextScan, TryingAt, MigrationAt, SharedAt
  <2>6. CASE ScanLegacy
    <3>1. PICK n \in Todo :
            Goto(Boot, IF ~IsDue(pc[Boot], n) THEN pc[Boot]
                       ELSE IF pc[Boot] = "kwallet" /\ l.secret = NoSecret THEN "refused" ELSE "open",
                 [l EXCEPT !.todo = @ \ {n}, !.name = n, !.kind = pc[Boot]])
      BY <2>6 DEF ScanLegacy
    <3>2. l.op = "boot" /\ pc[Boot] \in {"v0", "kwallet"}
      BY <1>2, <2>6 DEF ScanLegacy, Fits, OpsAt
    <3>3. [l EXCEPT !.todo = @ \ {n}, !.name = n, !.kind = pc[Boot]].op = "boot"
      BY <1>2, <3>2 DEF Local
    <3> QED
      BY <2>1, <3>1, <3>2, <3>3
  <2>7. CASE Discovered
    BY <2>1, <2>2, <2>7 DEF Discovered, TryingAt, MigrationAt, SharedAt
  <2>8. CASE PutOff
    BY <2>1, <2>2, <2>8 DEF PutOff, TryingAt, MigrationAt, SharedAt
  <2>9. CASE Connect
    BY <2>1, <2>9 DEF Connect, TryingAt, MigrationAt, SharedAt
  <2>10. CASE Register
    BY <2>1, <2>10 DEF Register, TryingAt, MigrationAt, SharedAt
  <2>11. CASE Place
    BY <2>1, <2>11 DEF Place, TryingAt, MigrationAt, SharedAt
  <2>12. CASE Serve
    BY <2>1, <2>12 DEF Serve, TryingAt, MigrationAt, SharedAt
  <2>13. CASE Replay
    BY <2>1, <2>13 DEF Replay, End, TryingAt, MigrationAt, SharedAt
  <2> QED
    BY <2>3, <2>4, <2>5, <2>6, <2>7, <2>8, <2>9, <2>10, <2>11, <2>12, <2>13 DEF Booting
<1>5. /\ UNCHANGED pendingHolder \/ pendingHolder' = Free(pendingHolder, Boot)
      /\ UNCHANGED pending \/ PutOff
  BY DEF Booting, Start, ScanV1, NextScan, ScanLegacy, Discovered, PutOff, Connect, Register,
         Place, Serve, Replay, End, lockVars
<1>6. BootSteps'
  <2>1. pc'[Boot] = "place" => registryHolder' = Boot
    <3>1. CASE Register
      BY <3>1 DEF Register
    <3>2. CASE Place
      <4>1. registryHolder = Boot
        BY <1>1, <3>2 DEF Place, BootSteps
      <4>2. CASE l.index > Len(found)
        <5>1. Goto(Boot, "serve", [l EXCEPT !.index = 1])
          BY <3>2, <4>2 DEF Place
        <5> QED
          BY <1>1, <5>1, GotoGoes
      <4>3. CASE ~(l.index > Len(found))
        BY <3>2, <4>1, <4>3 DEF Place
      <4> QED
        BY <4>2, <4>3
    <3>3. CASE ~Register /\ ~Place
      <4>1. ASSUME NEW label, NEW x, Goto(Boot, label, x), label # "place"
            PROVE  pc'[Boot] # "place"
        BY <1>1, <4>1, GotoGoes
      <4>2. l.kind # "place"
        BY <1>2 DEF Local
      <4> QED
        BY <3>3, <4>1, <4>2 DEF Booting, Start, ScanV1, NextScan, ScanLegacy, Discovered, PutOff,
           Connect, Serve, Replay, End
    <3> QED
      BY <3>1, <3>2, <3>3
  <2> QED
    BY <1>4, <2>1 DEF BootSteps
<1>7. CASE UNCHANGED pending
  <2>1. TryingHolds'
    BY <1>1, <1>3, <1>4, <1>5, <1>7, TryingKept
  <2> QED
    BY <1>1, <1>6, <1>7, <2>1 DEF PendingSources
<1>8. CASE PutOff
  <2>1. /\ pc[Boot] = "refused" /\ l.op = "boot"
        /\ pending' = [pending EXCEPT ![l.name] = l.kind]
    BY <1>8 DEF PutOff
  <2>2. l.name \in Names /\ l.kind \in {"v0", "kwallet"} /\ <<l.kind, l.name>> \in Sources
    BY <1>2, <2>1 DEF Local, Fits, OpsAt, MigrationAt
  <2>3. \A n \in Names : pending'[n] = IF n = l.name THEN l.kind ELSE pending[n]
    BY <1>1, <2>1 DEF TypeOK
  <2>4. \A n \in Names : pending[n] # "none" => pending'[n] # "none"
    BY <2>2, <2>3
  <2>5. TryingHolds'
    BY <1>1, <1>3, <1>4, <1>5, <2>4, TryingKept
  <2>6. PendingSources'
    BY <1>1, <2>2, <2>3 DEF PendingSources
  <2> QED
    BY <1>6, <2>5, <2>6
<1> QED
  BY <1>5, <1>6, <1>7, <1>8

-----------------------------------------------------------------------------
(* Whose keyring it is, from step to step *)

Named(x, y) == y.used = x.used /\ y.name = x.name

\* The variables of w fit what it holds.
StaysNamed(w) ==
  loc'[w].target # NoObject =>
    \/ loc'[w].target = loc[w].target /\ loc'[w].name = loc[w].name
    \/ loc'[w].target \in Objects /\ loc'[w].name = object[loc'[w].target].name

\* w lets others know of what it has, and keeps what it owns.
LEMMA OwnMoves ==
  ASSUME Ownership, NEW w \in Workers, OnlyMoves(w), WorkerTypes, WorkerTypes', WorkersFit, WorkersFit',
         \A o \in Objects : Named(object[o], object'[o]),
         \A o \in Objects : Known(o)' =>
           Known(o) \/ Holds(w, o) \/ (Owns(w, o) /\ ~Owns(w, o)'),
         \A o \in Objects : Holds(w, o)' =>
           Known(o) \/ Holds(w, o) \/ (Owns(w, o) /\ ~Owns(w, o)'),
         \A o \in Objects : Owns(w, o)' => Owns(w, o) /\ loc'[w].name = loc[w].name,
         StaysNamed(w),
         pc'[w] \in SharedAt =>
           /\ loc'[w].obj = loc[w].obj /\ loc'[w].name = loc[w].name
           /\ pc[w] \in SharedAt \cup OwnAt,
         \A i \in DOMAIN found' :
           \/ \E j \in DOMAIN found : found'[i] = found[j]
           \/ Owns(w, found'[i]) /\ pc'[w] \notin SharedAt
  PROVE  Ownership'
<1>1. \A u \in Workers : u # w => pc'[u] = pc[u] /\ loc'[u] = loc[u]
  BY DEF OnlyMoves
<1>2. \A u \in Workers, o \in Objects : u # w =>
        (Owns(u, o)' <=> Owns(u, o)) /\ (Holds(u, o)' <=> Holds(u, o))
  BY <1>1 DEF Owns, Holds
<1>3. \A o \in Objects : object'[o].used = object[o].used /\ object'[o].name = object[o].name
  BY DEF Named
<1>4. OwnIsOwn'
  <2> SUFFICES ASSUME NEW u \in Workers, NEW o \in Objects, Owns(u, o)'
               PROVE  /\ object'[o].used /\ object'[o].name = loc'[u].name /\ ~Known(o)'
                      /\ \A v \in Workers : ~Holds(v, o)' /\ (Owns(v, o)' => v = u)
    BY DEF OwnIsOwn
  <2>1. Owns(u, o) /\ loc'[u].name = loc[u].name
    BY <1>1, <1>2
  <2>2. /\ object[o].used /\ object[o].name = loc[u].name /\ ~Known(o)
        /\ \A v \in Workers : ~Holds(v, o) /\ (Owns(v, o) => v = u)
    BY <2>1 DEF Ownership, OwnIsOwn
  <2>3. ~(Owns(w, o) /\ ~Owns(w, o)')
    BY <2>2
  <2>4. ~Known(o)' /\ ~Holds(w, o)'
    BY <2>2, <2>3
  <2>5. \A v \in Workers : ~Holds(v, o)' /\ (Owns(v, o)' => v = u)
    BY <1>2, <2>2, <2>4
  <2> QED
    BY <1>3, <2>1, <2>2, <2>4, <2>5
<1>5. KnownAreUsed'
  <2> SUFFICES ASSUME NEW o \in Objects, Known(o)' \/ (\E u \in Workers : Holds(u, o)')
               PROVE  object[o].used
    BY <1>3 DEF KnownAreUsed
  <2>1. Known(o) \/ (\E u \in Workers : Holds(u, o)) \/ Owns(w, o)
    BY <1>2
  <2> QED
    BY <2>1 DEF Ownership, KnownAreUsed, OwnIsOwn
<1>6. HeldAreNamed'
  <2> SUFFICES ASSUME NEW u \in Workers
               PROVE  /\ loc'[u].target # NoObject => object'[loc'[u].target].name = loc'[u].name
                      /\ pc'[u] \in SharedAt =>
                           /\ object'[loc'[u].obj].name = loc'[u].name
                           /\ \A i \in DOMAIN found' : found'[i] # loc'[u].obj
                           /\ \A v \in Workers :
                                pc'[v] \in SharedAt /\ loc'[v].obj = loc'[u].obj => v = u
    BY DEF HeldAreNamed
  <2>1. loc'[u].target # NoObject => object'[loc'[u].target].name = loc'[u].name
    <3>1. loc'[u].target \in Objects \cup {NoObject}
      BY DEF WorkerTypes, Local
    <3> QED
      BY <1>1, <1>3, <3>1 DEF StaysNamed, Ownership, HeldAreNamed
  <2>2. ASSUME NEW v \in Workers, pc'[v] \in SharedAt
        PROVE  /\ loc'[v].obj \in Objects /\ loc'[v].obj = loc[v].obj /\ loc'[v].name = loc[v].name
               /\ pc[v] \in SharedAt \/ (v = w /\ Owns(w, loc[w].obj))
    <3>1. loc'[v].obj \in Objects
      BY <2>2 DEF WorkersFit, Fits
    <3> QED
      BY <1>1, <2>2, <3>1 DEF Owns
  <2>3. ASSUME pc'[u] \in SharedAt
        PROVE  object'[loc'[u].obj].name = loc'[u].name
    <3>1. object[loc[u].obj].name = loc[u].name
      BY <2>2, <2>3 DEF Ownership, HeldAreNamed, OwnIsOwn
    <3> QED
      BY <1>3, <2>2, <2>3, <3>1
  <2>4. ASSUME pc'[u] \in SharedAt, NEW i \in DOMAIN found'
        PROVE  found'[i] # loc'[u].obj
    <3>1. \A j \in DOMAIN found : found[j] # loc[u].obj
      BY <2>2, <2>4 DEF Ownership, HeldAreNamed, OwnIsOwn, Known
    <3>2. CASE \E j \in DOMAIN found : found'[i] = found[j]
      BY <2>2, <2>4, <3>1, <3>2
    <3>3. CASE Owns(w, found'[i]) /\ pc'[w] \notin SharedAt
      <4>1. u # w /\ pc[u] \in SharedAt /\ loc'[u].obj = loc[u].obj
        BY <2>2, <2>4, <3>3
      <4>2. ASSUME found'[i] = loc[u].obj PROVE FALSE
        <5>1. Holds(u, found'[i]) /\ found'[i] \in Objects
          BY <2>2, <2>4, <4>1, <4>2 DEF Holds
        <5> QED
          BY <3>3, <5>1 DEF Ownership, OwnIsOwn
      <4> QED
        BY <4>1, <4>2
    <3> QED
      BY <3>2, <3>3
  <2>5. ASSUME pc'[u] \in SharedAt, NEW v \in Workers, pc'[v] \in SharedAt,
               loc'[v].obj = loc'[u].obj
        PROVE  v = u
    <3>1. loc[v].obj = loc[u].obj /\ loc[u].obj \in Objects
      BY <2>2, <2>5
    <3>2. pc[v] \in SharedAt \/ (v = w /\ Owns(w, loc[w].obj))
      BY <2>2, <2>5
    <3>3. pc[u] \in SharedAt \/ (u = w /\ Owns(w, loc[w].obj))
      BY <2>2, <2>5
    <3>4. CASE pc[v] \in SharedAt /\ pc[u] \in SharedAt
      BY <3>1, <3>4 DEF Ownership, HeldAreNamed
    <3>5. CASE v = w /\ Owns(w, loc[w].obj) /\ pc[u] \in SharedAt
      <4>1. Holds(u, loc[w].obj)
        BY <3>1, <3>5 DEF Holds
      <4> QED
        BY <3>1, <3>5, <4>1 DEF Ownership, OwnIsOwn
    <3>6. CASE u = w /\ Owns(w, loc[w].obj) /\ pc[v] \in SharedAt
      <4>1. Holds(v, loc[w].obj)
        BY <3>1, <3>6 DEF Holds
      <4> QED
        BY <3>1, <3>6, <4>1 DEF Ownership, OwnIsOwn
    <3> QED
      BY <3>2, <3>3, <3>4, <3>5, <3>6
  <2> QED
    BY <2>1, <2>3, <2>4, <2>5
<1> QED
  BY <1>4, <1>5, <1>6 DEF Ownership

\* w has nothing in hand any more, but for what it is to unlock.
LEMMA OwnGone ==
  ASSUME Ownership, NEW w \in Workers, OnlyMoves(w), WorkerTypes, WorkerTypes',
         WorkersFit, WorkersFit',
         \A o \in Objects : Named(object[o], object'[o]),
         \A o \in Objects : Known(o)' => Known(o) \/ Holds(w, o) \/ Owns(w, o),
         pc'[w] \notin OwnAt \cup SharedAt,
         loc'[w].target # NoObject =>
           loc'[w].target = loc[w].target /\ loc'[w].name = loc[w].name,
         \A i \in DOMAIN found' :
           (\E j \in DOMAIN found : found'[i] = found[j]) \/ Owns(w, found'[i])
  PROVE  Ownership'
<1>1. \A o \in Objects : ~Owns(w, o)'
  BY DEF Owns
<1>2. \A o \in Objects : Holds(w, o)' => Holds(w, o)
  <2>1. NoObject \notin Objects
    BY ServiceAssumption
  <2> QED
    BY <2>1 DEF Holds
<1>3. StaysNamed(w)
  BY DEF StaysNamed
<1> QED
  BY <1>1, <1>2, <1>3, OwnMoves

\* A keyring is put into memory, into the hands of w or among what was found.
LEMMA OwnNew ==
  ASSUME Ownership, NEW w \in Workers, OnlyMoves(w), WorkerTypes, WorkerTypes',
         WorkersFit, WorkersFit',
         NEW k \in Objects, ~object[k].used, object'[k].used,
         \A o \in Objects \ {k} : object'[o] = object[o],
         \A o \in Objects : Known(o)' => Known(o) \/ (o = k /\ ~Owns(w, k)'),
         \A o \in Objects : Owns(w, o)' => o = k /\ object'[k].name = loc'[w].name,
         pc'[w] \notin SharedAt,
         loc'[w].target # NoObject =>
           loc'[w].target = loc[w].target /\ loc'[w].name = loc[w].name,
         \A i \in DOMAIN found' : (\E j \in DOMAIN found : found'[i] = found[j]) \/ found'[i] = k
  PROVE  Ownership'
<1>1. \A u \in Workers : u # w => pc'[u] = pc[u] /\ loc'[u] = loc[u]
  BY DEF OnlyMoves
<1>2. \A u \in Workers, o \in Objects : u # w =>
        (Owns(u, o)' <=> Owns(u, o)) /\ (Holds(u, o)' <=> Holds(u, o))
  BY <1>1 DEF Owns, Holds
<1>3. \A u \in Workers : ~Holds(u, k) /\ ~Owns(u, k)
  BY DEF Ownership, KnownAreUsed, OwnIsOwn
<1>4. ~Known(k)
  BY DEF Ownership, KnownAreUsed
<1>5. \A o \in Objects : Holds(w, o)' => Holds(w, o)
  <2>1. NoObject \notin Objects
    BY ServiceAssumption
  <2> QED
    BY <2>1 DEF Holds
<1>6. OwnIsOwn'
  <2> SUFFICES ASSUME NEW u \in Workers, NEW o \in Objects, Owns(u, o)'
               PROVE  /\ object'[o].used /\ object'[o].name = loc'[u].name /\ ~Known(o)'
                      /\ \A v \in Workers : ~Holds(v, o)' /\ (Owns(v, o)' => v = u)
    BY DEF OwnIsOwn
  <2>1. CASE u = w
    <3>1. o = k /\ object'[k].name = loc'[w].name /\ Owns(w, k)'
      BY <2>1
    <3>2. ~Known(o)'
      BY <1>4, <3>1
    <3>3. \A v \in Workers : ~Holds(v, o)' /\ (Owns(v, o)' => v = u)
      BY <1>2, <1>3, <1>5, <2>1, <3>1
    <3> QED
      BY <2>1, <3>1, <3>2, <3>3
  <2>2. CASE u # w
    <3>1. Owns(u, o) /\ o # k /\ loc'[u].name = loc[u].name
      BY <1>1, <1>2, <1>3, <2>2
    <3>2. /\ object[o].used /\ object[o].name = loc[u].name /\ ~Known(o)
          /\ \A v \in Workers : ~Holds(v, o) /\ (Owns(v, o) => v = u)
      BY <3>1 DEF Ownership, OwnIsOwn
    <3>3. ~Known(o)'
      BY <3>1, <3>2
    <3>4. \A v \in Workers : ~Holds(v, o)' /\ (Owns(v, o)' => v = u)
      BY <1>2, <1>5, <3>1, <3>2
    <3> QED
      BY <3>1, <3>2, <3>3, <3>4
  <2> QED
    BY <2>1, <2>2
<1>7. KnownAreUsed'
  <2> SUFFICES ASSUME NEW o \in Objects, Known(o)' \/ (\E u \in Workers : Holds(u, o)'), o # k
               PROVE  object[o].used
    BY DEF KnownAreUsed
  <2>1. Known(o) \/ (\E u \in Workers : Holds(u, o))
    BY <1>2, <1>5
  <2> QED
    BY <2>1 DEF Ownership, KnownAreUsed
<1>8. HeldAreNamed'
  <2> SUFFICES ASSUME NEW u \in Workers
               PROVE  /\ loc'[u].target # NoObject => object'[loc'[u].target].name = loc'[u].name
                      /\ pc'[u] \in SharedAt =>
                           /\ object'[loc'[u].obj].name = loc'[u].name
                           /\ \A i \in DOMAIN found' : found'[i] # loc'[u].obj
                           /\ \A v \in Workers :
                                pc'[v] \in SharedAt /\ loc'[v].obj = loc'[u].obj => v = u
    BY DEF HeldAreNamed
  <2>1. ASSUME loc'[u].target # NoObject
        PROVE  object'[loc'[u].target].name = loc'[u].name
    <3>1. loc'[u].target \in Objects
      BY <2>1 DEF WorkerTypes, Local
    <3>2. loc[u].target = loc'[u].target /\ loc[u].name = loc'[u].name
      BY <1>1, <2>1
    <3>3. loc'[u].target # k
      BY <1>3, <3>2 DEF Holds
    <3>4. object[loc[u].target].name = loc[u].name
      BY <2>1, <3>2 DEF Ownership, HeldAreNamed
    <3> QED
      BY <3>1, <3>2, <3>3, <3>4
  <2>2. ASSUME NEW v \in Workers, pc'[v] \in SharedAt
        PROVE  /\ loc[v].obj \in Objects /\ loc[v].obj # k /\ loc'[v] = loc[v] /\ pc[v] \in SharedAt
    <3>1. v # w /\ loc'[v] = loc[v] /\ pc[v] \in SharedAt
      BY <1>1, <2>2
    <3>2. loc[v].obj \in Objects
      BY <3>1 DEF WorkersFit, Fits
    <3>3. loc[v].obj # k
      BY <1>3, <3>1 DEF Holds
    <3> QED
      BY <3>1, <3>2, <3>3
  <2>3. ASSUME pc'[u] \in SharedAt
        PROVE  /\ object'[loc'[u].obj].name = loc'[u].name
               /\ \A i \in DOMAIN found' : found'[i] # loc'[u].obj
               /\ \A v \in Workers : pc'[v] \in SharedAt /\ loc'[v].obj = loc'[u].obj => v = u
    <3>1. /\ object[loc[u].obj].name = loc[u].name
          /\ \A i \in DOMAIN found : found[i] # loc[u].obj
          /\ \A v \in Workers : pc[v] \in SharedAt /\ loc[v].obj = loc[u].obj => v = u
      BY <2>2, <2>3 DEF Ownership, HeldAreNamed
    <3> QED
      BY <2>2, <2>3, <3>1
  <2> QED
    BY <2>1, <2>3
<1> QED
  BY <1>6, <1>7, <1>8 DEF Ownership

\* w drops the keyring that it owns.
LEMMA OwnDrop ==
  ASSUME Ownership, NEW w \in Workers, OnlyMoves(w), WorkerTypes, WorkerTypes',
         WorkersFit, WorkersFit',
         NEW d \in Objects, Owns(w, d),
         \A o \in Objects \ {d} : Named(object[o], object'[o]),
         UNCHANGED <<collections, served, defaultServed, found>>,
         pc'[w] \notin OwnAt \cup SharedAt,
         loc'[w].target # NoObject =>
           loc'[w].target = loc[w].target /\ loc'[w].name = loc[w].name
  PROVE  Ownership'
<1>1. \A u \in Workers : u # w => pc'[u] = pc[u] /\ loc'[u] = loc[u]
  BY DEF OnlyMoves
<1>2. \A u \in Workers, o \in Objects : u # w =>
        (Owns(u, o)' <=> Owns(u, o)) /\ (Holds(u, o)' <=> Holds(u, o))
  BY <1>1 DEF Owns, Holds
<1>3. ~Known(d) /\ \A u \in Workers : ~Holds(u, d) /\ (Owns(u, d) => u = w)
  BY DEF Ownership, OwnIsOwn
<1>4. \A o \in Objects : Known(o)' <=> Known(o)
  BY DEF Known
<1>5. \A o \in Objects : ~Owns(w, o)' /\ (Holds(w, o)' => Holds(w, o))
  <2>1. NoObject \notin Objects
    BY ServiceAssumption
  <2> QED
    BY <2>1 DEF Holds, Owns
<1>6. \A o \in Objects \ {d} : object'[o].used = object[o].used /\ object'[o].name = object[o].name
  BY DEF Named
<1>7. OwnIsOwn'
  <2> SUFFICES ASSUME NEW u \in Workers, NEW o \in Objects, Owns(u, o)'
               PROVE  /\ object'[o].used /\ object'[o].name = loc'[u].name /\ ~Known(o)'
                      /\ \A v \in Workers : ~Holds(v, o)' /\ (Owns(v, o)' => v = u)
    BY DEF OwnIsOwn
  <2>1. u # w /\ Owns(u, o) /\ o # d /\ loc'[u].name = loc[u].name
    BY <1>1, <1>2, <1>3, <1>5
  <2>2. /\ object[o].used /\ object[o].name = loc[u].name /\ ~Known(o)
        /\ \A v \in Workers : ~Holds(v, o) /\ (Owns(v, o) => v = u)
    BY <2>1 DEF Ownership, OwnIsOwn
  <2>3. \A v \in Workers : ~Holds(v, o)' /\ (Owns(v, o)' => v = u)
    BY <1>2, <1>5, <2>2
  <2> QED
    BY <1>4, <1>6, <2>1, <2>2, <2>3
<1>8. KnownAreUsed'
  <2> SUFFICES ASSUME NEW o \in Objects, Known(o)' \/ (\E u \in Workers : Holds(u, o)')
               PROVE  object'[o].used
    BY DEF KnownAreUsed
  <2>1. Known(o) \/ (\E u \in Workers : Holds(u, o))
    BY <1>2, <1>4, <1>5
  <2>2. o # d /\ object[o].used
    BY <1>3, <2>1 DEF Ownership, KnownAreUsed
  <2> QED
    BY <1>6, <2>2
<1>9. HeldAreNamed'
  <2> SUFFICES ASSUME NEW u \in Workers
               PROVE  /\ loc'[u].target # NoObject => object'[loc'[u].target].name = loc'[u].name
                      /\ pc'[u] \in SharedAt =>
                           /\ object'[loc'[u].obj].name = loc'[u].name
                           /\ \A i \in DOMAIN found' : found'[i] # loc'[u].obj
                           /\ \A v \in Workers :
                                pc'[v] \in SharedAt /\ loc'[v].obj = loc'[u].obj => v = u
    BY DEF HeldAreNamed
  <2>1. ASSUME loc'[u].target # NoObject
        PROVE  object'[loc'[u].target].name = loc'[u].name
    <3>1. loc'[u].target \in Objects
      BY <2>1 DEF WorkerTypes, Local
    <3>2. loc[u].target = loc'[u].target /\ loc[u].name = loc'[u].name
      BY <1>1, <2>1
    <3>3. loc'[u].target # d
      BY <1>3, <3>2 DEF Holds
    <3>4. object[loc[u].target].name = loc[u].name
      BY <2>1, <3>2 DEF Ownership, HeldAreNamed
    <3> QED
      BY <1>6, <3>1, <3>2, <3>3, <3>4
  <2>2. ASSUME NEW v \in Workers, pc'[v] \in SharedAt
        PROVE  /\ loc[v].obj \in Objects /\ loc[v].obj # d /\ loc'[v] = loc[v] /\ pc[v] \in SharedAt
    <3>1. v # w /\ loc'[v] = loc[v] /\ pc[v] \in SharedAt
      BY <1>1, <2>2
    <3>2. loc[v].obj \in Objects
      BY <3>1 DEF WorkersFit, Fits
    <3>3. loc[v].obj # d
      BY <1>3, <3>1 DEF Holds
    <3> QED
      BY <3>1, <3>2, <3>3
  <2>3. ASSUME pc'[u] \in SharedAt
        PROVE  /\ object'[loc'[u].obj].name = loc'[u].name
               /\ \A i \in DOMAIN found' : found'[i] # loc'[u].obj
               /\ \A v \in Workers : pc'[v] \in SharedAt /\ loc'[v].obj = loc'[u].obj => v = u
    <3>1. /\ object[loc[u].obj].name = loc[u].name
          /\ \A i \in DOMAIN found : found[i] # loc[u].obj
          /\ \A v \in Workers : pc[v] \in SharedAt /\ loc[v].obj = loc[u].obj => v = u
      BY <2>2, <2>3 DEF Ownership, HeldAreNamed
    <3> QED
      BY <1>6, <2>2, <2>3, <3>1
  <2> QED
    BY <2>1, <2>3
<1> QED
  BY <1>7, <1>8, <1>9 DEF Ownership

LEMMA CallSame ==
  ASSUME TypeOK, NEW t \in Tasks, Call(t)
  PROVE  AllSame
<1>1. Objectful
  BY DEF TypeOK, Objectful
<1>2. \A p \in Listed : collections[p] \in Objects
  BY DEF TypeOK, Listed
<1>3. \A o \in Reachable : o \in Objects
  BY DEF TypeOK, Listed, Reachable
<1>4. \A o \in Objects : object[o] \in Object
  BY <1>1 DEF Objectful
<1>5. CASE UNCHANGED object
  BY <1>5, SameUnchanged
<1>6. CASE Lock(t)
  <2>1. PICK p \in Listed : object' = [object EXCEPT ![collections[p]].locked = TRUE]
    BY <1>6 DEF Lock
  <2> DEFINE o == collections[p]
             x == [object[o] EXCEPT !.locked = TRUE]
  <2>2. object' = [object EXCEPT ![o] = x]
    BY <1>1, <1>2, <2>1 DEF Objectful
  <2>3. o \in Objects
    BY <1>2
  <2> HIDE DEF o
  <2>4. Same(object[o], x)
    BY <1>4, <2>3 DEF Same, Object
  <2> QED
    BY <1>1, <2>2, <2>3, <2>4, SameOne
<1>7. CASE SetAlias(t)
  <2>1. PICK p \in Listed, a \in Aliases :
          object' = [object EXCEPT ![collections[p]].alias = <<a, 1>>]
    BY <1>7 DEF SetAlias
  <2> DEFINE o == collections[p]
             x == [object[o] EXCEPT !.alias = <<a, 1>>]
  <2>2. object' = [object EXCEPT ![o] = x]
    BY <1>1, <1>2, <2>1 DEF Objectful
  <2>3. o \in Objects
    BY <1>2
  <2> HIDE DEF o
  <2>4. Same(object[o], x)
    BY <1>4, <2>3 DEF Same, Object
  <2> QED
    BY <1>1, <2>2, <2>3, <2>4, SameOne
<1>8. CASE Store(t)
  BY <1>1, <1>8, StoreGoes, SameOne
<1>9. CASE Delete(t)
  <2>1. PICK o \in Reachable :
          UNCHANGED object \/ object' = Outdated(object, object[o].name)
    BY <1>9 DEF Delete
  <2>2. object[o].name \in Names
    BY <1>3, <1>4 DEF Object
  <2>3. CASE object' = Outdated(object, object[o].name)
    BY <1>1, <2>2, <2>3, OutdatedType DEF Objectful, AllSame
  <2> QED
    BY <1>5, <2>1, <2>3
<1> QED
  BY <1>5, <1>6, <1>7, <1>8, <1>9 DEF Call, OpenSession, Create, Unlock, Pam

LEMMA TryingSame ==
  ASSUME TypeOK, NEW w \in Workers, TryingAll(w) \/ SetLocked(w)
  PROVE  AllSame
<1>1. loc[w].secret \in Answers
  BY DEF TypeOK, Local
<1>2. \/ UNCHANGED object
      \/ \E os : object' = TryUnlock(os, loc[w].secret)
  BY DEF TryingAll, PamLock, PamNext, PamDone, UnlockAll, SetLocked
<1> QED
  BY <1>1, <1>2, SameUnchanged, TryUnlockType DEF AllSame

LEMMA SameNamed ==
  ASSUME AllSame
  PROVE  \A o \in Objects : Named(object[o], object'[o])
BY DEF AllSame, Same, Named

-----------------------------------------------------------------------------
(* Whose keyring it is, for each step *)

LEMMA NothingNew ==
  ASSUME UNCHANGED <<collections, served, defaultServed, found>>
  PROVE  /\ \A o \in Objects : Known(o)' <=> Known(o)
         /\ \A i \in DOMAIN found' : \E j \in DOMAIN found : found'[i] = found[j]
BY DEF Known

LEMMA CallOwnership ==
  ASSUME IInv, NEW t \in Tasks, Call(t), WorkerTypes', WorkersFit'
  PROVE  Ownership'
<1>1. /\ TypeOK /\ WorkerTypes /\ WorkersFit /\ Ownership /\ t \in Workers
  BY DEF IInv, TypeOK, WorkerTypes, Control, Workers
<1>2. \A o \in Objects : Named(object[o], object'[o])
  BY <1>1, CallSame, SameNamed
<1>3. UNCHANGED <<collections, served, defaultServed, found>>
  BY DEF Call, OpenSession, Create, Unlock, Lock, SetAlias, Store, Delete, Pam, busVars
<1>4. CASE UNCHANGED <<pc, loc>>
  <2>1. \A u \in Workers, o \in Objects : Owns(u, o)' = Owns(u, o) /\ Holds(u, o)' = Holds(u, o)
    BY <1>4 DEF Owns, Holds
  <2>2. \A u \in Workers : loc'[u] = loc[u] /\ pc'[u] = pc[u]
    BY <1>4
  <2>3. \A u \in Workers : loc[u].target \in Objects \cup {NoObject}
    BY <1>1 DEF WorkerTypes, Local
  <2>4. \A u \in Workers : pc[u] \in SharedAt => loc[u].obj \in Objects
    BY <1>1 DEF WorkersFit, Fits
  <2>5. OnlyMoves(t) /\ StaysNamed(t)
    BY <1>1, <2>2 DEF OnlyMoves, StaysNamed
  <2>6. \A o \in Objects : (Owns(t, o)' => Owns(t, o)) /\ (Holds(t, o)' => Holds(t, o))
    BY <1>1, <2>1
  <2> QED
    BY <1>1, <1>2, <1>3, <2>2, <2>5, <2>6, NothingNew, OwnMoves
<1>5. ASSUME NEW label \in {"idle", "open", "look", "unserve", "pamLock"}, NEW x, Goto(t, label, x),
             x.target = NoObject
      PROVE  Ownership'
  <2>1. pc'[t] = label /\ loc'[t] = x /\ OnlyMoves(t)
    BY <1>1, <1>5, GotoGoes
  <2>2. pc'[t] \notin OwnAt \cup SharedAt
    BY <2>1 DEF OwnAt, SharedAt
  <2> QED
    BY <1>1, <1>2, <1>3, <1>5, <2>1, <2>2, NothingNew, OwnGone
<1>6. Blank.target = NoObject
  BY DEF Blank
<1>7. CASE OpenSession(t)
  BY <1>4, <1>5, <1>6, <1>7 DEF OpenSession, Panic, End
<1>8. CASE Create(t)
  <2>1. ASSUME NEW n, NEW a, NEW s
        PROVE  [Blank EXCEPT !.op = "create", !.name = n, !.alias = a, !.secret = s].target = NoObject
    BY DEF Blank
  <2> QED
    BY <1>5, <1>6, <1>8, <2>1 DEF Create, Panic, End
<1>9. CASE Unlock(t)
  <2>1. ASSUME NEW p, NEW s
        PROVE  [Blank EXCEPT !.op = "unlock", !.path = p, !.secret = s].target = NoObject
    BY DEF Blank
  <2> QED
    BY <1>5, <1>9, <2>1 DEF Unlock
<1>10. CASE Lock(t) \/ SetAlias(t)
  BY <1>4, <1>10 DEF Lock, SetAlias
<1>13. CASE Store(t)
  <2>1. PICK o \in Objects, y \in Local :
          /\ o \in Reachable /\ Goto(t, "write", y)
          /\ y.op = "store" /\ y.target = o /\ y.name = object[o].name /\ y.obj = NoObject
    BY <1>1, <1>13, StoreGoes
  <2>2. pc'[t] = "write" /\ loc'[t] = y /\ OnlyMoves(t)
    BY <1>1, <2>1, GotoGoes
  <2>3. Known(o)
    BY <2>1 DEF Known, Reachable, Listed
  <2>4. NoObject \notin Objects
    BY ServiceAssumption
  <2>5. \A q \in Objects : ~Owns(t, q)' /\ (Holds(t, q)' => Known(q))
    BY <2>1, <2>2, <2>3, <2>4 DEF Owns, Holds, SharedAt
  <2>6. pc'[t] \notin SharedAt /\ StaysNamed(t)
    BY <2>1, <2>2 DEF SharedAt, StaysNamed
  <2> QED
    BY <1>1, <1>2, <1>3, <2>2, <2>5, <2>6, NothingNew, OwnMoves
<1>11. CASE Delete(t)
  <2>1. ASSUME NEW p
        PROVE  [Blank EXCEPT !.op = "delete", !.path = p].target = NoObject
    BY DEF Blank
  <2> QED
    BY <1>4, <1>5, <1>11, <2>1 DEF Delete
<1>12. CASE Pam(t)
  <2>1. ASSUME NEW s
        PROVE  [Blank EXCEPT !.op = "pam", !.secret = s].target = NoObject
    BY DEF Blank
  <2> QED
    BY <1>5, <1>12, <2>1 DEF Pam
<1> QED
  BY <1>7, <1>8, <1>9, <1>10, <1>11, <1>12, <1>13 DEF Call

LEMMA TryingAllOwnership ==
  ASSUME IInv, NEW w \in Workers, TryingAll(w), WorkerTypes', WorkersFit'
  PROVE  Ownership'
<1> DEFINE l == loc[w]
<1>1. /\ TypeOK /\ WorkerTypes /\ WorkersFit /\ Ownership /\ l \in Local
  BY DEF IInv, TypeOK, WorkerTypes, Control
<1>2. \A o \in Objects : Named(object[o], object'[o])
  BY <1>1, TryingSame, SameNamed
<1>3. UNCHANGED <<collections, served, defaultServed, found>>
  BY DEF TryingAll, PamLock, PamNext, PamDone, UnlockAll, busVars
<1>4. ASSUME NEW label \in {"idle", "pamNext", "open", "unlockAll"}, NEW x, Goto(w, label, x),
             x.op # "unlock"
      PROVE  Ownership'
  <2>1. pc'[w] = label /\ loc'[w] = x /\ OnlyMoves(w)
    BY <1>1, <1>4, GotoGoes
  <2>2. pc'[w] \notin OwnAt \cup SharedAt
    BY <2>1 DEF OwnAt, SharedAt
  <2>3. loc'[w].target = NoObject
    BY <1>4, <2>1 DEF WorkersFit, Fits, OpsAt
  <2> QED
    BY <1>1, <1>2, <1>3, <2>1, <2>2, <2>3, NothingNew, OwnGone
<1>5. CASE PamLock(w)
  <2>1. l.op = "pam"
    BY <1>1, <1>5 DEF PamLock, WorkersFit, Fits, OpsAt
  <2>2. ASSUME NEW todo PROVE [l EXCEPT !.todo = todo].op = "pam"
    BY <1>1, <2>1 DEF Local
  <2> QED
    BY <1>4, <1>5, <2>2 DEF PamLock
<1>6. CASE PamNext(w)
  <2>1. l.op = "pam"
    BY <1>1, <1>6 DEF PamNext, WorkersFit, Fits, OpsAt
  <2>2. ASSUME NEW n, NEW k
        PROVE  [l EXCEPT !.todo = @ \ {n}, !.name = n, !.kind = k].op = "pam"
    BY <1>1, <2>1 DEF Local
  <2>3. PICK n : Goto(w, "open", [l EXCEPT !.todo = @ \ {n}, !.name = n, !.kind = pending[n]])
    BY <1>6 DEF PamNext
  <2> QED
    BY <1>4, <2>2, <2>3
<1>7. CASE PamDone(w)
  <2>1. l.op = "pam"
    BY <1>1, <1>7 DEF PamDone, WorkersFit, Fits, OpsAt
  <2> QED
    BY <1>4, <1>7, <2>1 DEF PamDone
<1>8. CASE UnlockAll(w)
  <2>1. Blank.op # "unlock"
    BY DEF Blank
  <2> QED
    BY <1>4, <1>8, <2>1 DEF UnlockAll, End
<1> QED
  BY <1>5, <1>6, <1>7, <1>8 DEF TryingAll

LEMMA UnlockingOwnership ==
  ASSUME IInv, NEW w \in Workers, Unlocking(w), WorkerTypes', WorkersFit'
  PROVE  Ownership'
<1> DEFINE l == loc[w]
<1>1. /\ TypeOK /\ WorkerTypes /\ WorkersFit /\ Ownership /\ l \in Local
      /\ Fits(w, pc[w], l) /\ Objectful
  BY DEF IInv, TypeOK, WorkerTypes, Control, Objectful, WorkersFit
<1>2. UNCHANGED <<collections, served, defaultServed, found>>
  BY DEF Unlocking, Look, FindPending, SetLocked, ReplaceKeyring, Forget, busVars
<1>3. ASSUME NEW label \in {"idle", "setLocked", "open"}, NEW x, Goto(w, label, x), AllSame,
             x.target = NoObject \/ (x.target = l.target /\ x.name = l.name)
      PROVE  Ownership'
  <2>1. pc'[w] = label /\ loc'[w] = x /\ OnlyMoves(w)
    BY <1>1, <1>3, GotoGoes
  <2>2. pc'[w] \notin OwnAt \cup SharedAt
    BY <2>1 DEF OwnAt, SharedAt
  <2> QED
    BY <1>1, <1>2, <1>3, <2>1, <2>2, NothingNew, SameNamed, OwnGone
<1>4. Blank.target = NoObject
  BY DEF Blank
<1>5. CASE Look(w)
  <2> DEFINE o == collections[l.path]
             n == object[o].name
             x == [l EXCEPT !.target = o, !.name = n]
  <2>1. AllSame
    BY <1>5, SameUnchanged DEF Look
  <2>2. CASE o = NoObject
    BY <1>3, <1>4, <1>5, <2>1, <2>2 DEF Look, End
  <2>3. CASE o # NoObject
    <3>1. Goto(w, "pending", x)
      BY <1>5, <2>3 DEF Look
    <3>2. x.target = o /\ x.name = n /\ l.path \in Places
      BY <1>1 DEF Local
    <3> HIDE DEF x
    <3>3. pc'[w] = "pending" /\ loc'[w] = x /\ OnlyMoves(w)
      BY <1>1, <3>1, GotoGoes
    <3>4. o \in Objects /\ Known(o)
      BY <1>1, <2>3, <3>2 DEF TypeOK, Known
    <3>5. \A q \in Objects : Holds(w, q)' => Known(q)
      BY <3>2, <3>3, <3>4 DEF Holds, SharedAt
    <3>6. \A q \in Objects : ~Owns(w, q)'
      BY <3>3 DEF Owns, OwnAt
    <3>7. pc'[w] \notin SharedAt
      BY <3>3 DEF SharedAt
    <3>8. StaysNamed(w)
      BY <3>2, <3>3, <3>4 DEF StaysNamed
    <3> QED
      BY <1>1, <1>2, <2>1, <3>3, <3>5, <3>6, <3>7, <3>8, NothingNew, SameNamed, OwnMoves
  <2> QED
    BY <2>2, <2>3
<1>6. CASE FindPending(w)
  <2>1. AllSame
    BY <1>6, SameUnchanged DEF FindPending
  <2>2. Goto(w, "setLocked", l) \/ Goto(w, "open", [l EXCEPT !.kind = pending[l.name]])
    BY <1>6 DEF FindPending, AfterPending
  <2>3. ASSUME NEW k
        PROVE  [l EXCEPT !.kind = k].target = l.target /\ [l EXCEPT !.kind = k].name = l.name
    BY <1>1 DEF Local
  <2> QED
    BY <1>3, <2>1, <2>2, <2>3
<1>7. CASE SetLocked(w)
  <2>1. AllSame
    BY <1>1, <1>7, TryingSame
  <2> QED
    BY <1>3, <1>4, <1>7, <2>1 DEF SetLocked, End
<1>8. CASE ReplaceKeyring(w)
  <2> DEFINE kr == object[l.obj]
             tg == object[l.target]
             new == [tg EXCEPT !.locked = FALSE, !.secret = kr.secret, !.items = kr.items,
                               !.time = kr.time]
             x == [l EXCEPT !.obj = NoObject]
  <2>1. l.obj \in Objects /\ l.target \in Objects
    BY <1>1, <1>8 DEF ReplaceKeyring, Fits, OwnAt
  <2>2. object' = [object EXCEPT ![l.target] = new, ![l.obj] = NoCollection]
    BY <1>1, <1>8, <2>1 DEF ReplaceKeyring, Objectful
  <2>3. Named(tg, new)
    <3>1. tg \in Object
      BY <1>1, <2>1 DEF Objectful
    <3> HIDE DEF tg
    <3> QED
      BY <3>1 DEF Object, Named
  <2> HIDE DEF new
  <2>4. \A o \in Objects \ {l.obj} : Named(object[o], object'[o])
    BY <1>1, <2>1, <2>2, <2>3 DEF Objectful, Named
  <2>5. Goto(w, "forget", x) /\ pc[w] = "migrated"
    BY <1>8 DEF ReplaceKeyring
  <2>6. x.target = l.target /\ x.name = l.name
    BY <1>1 DEF Local
  <2> HIDE DEF x
  <2>7. pc'[w] = "forget" /\ loc'[w] = x /\ OnlyMoves(w)
    BY <1>1, <2>5, GotoGoes
  <2>8. pc'[w] \notin OwnAt \cup SharedAt
    BY <2>7 DEF OwnAt, SharedAt
  <2>9. Owns(w, l.obj)
    BY <2>5 DEF Owns, OwnAt
  <2> QED
    BY <1>1, <1>2, <2>1, <2>4, <2>6, <2>7, <2>8, <2>9, OwnDrop
<1>9. CASE Forget(w)
  <2>1. AllSame
    BY <1>9, SameUnchanged DEF Forget
  <2> QED
    BY <1>3, <1>4, <1>9, <2>1 DEF Forget, End
<1> QED
  BY <1>5, <1>6, <1>7, <1>8, <1>9 DEF Unlocking

LEMMA TaskOwnership ==
  ASSUME IInv, NEW t \in Tasks, CreateFails(t) \/ Unserve(t) \/ Remove(t),
         WorkerTypes', WorkersFit'
  PROVE  Ownership'
<1> DEFINE l == loc[t]
<1>1. /\ TypeOK /\ WorkerTypes /\ WorkersFit /\ Ownership /\ t \in Workers
  BY DEF IInv, TypeOK, WorkerTypes, Control, Workers
<1>2. l \in Local
  BY <1>1 DEF WorkerTypes
<1>3. /\ UNCHANGED <<object, defaultServed, found>>
      /\ \/ UNCHANGED collections
         \/ collections' = [collections EXCEPT ![l.path] = NoObject]
      /\ \/ UNCHANGED served
         \/ served' = [served EXCEPT ![l.path] = NoObject]
  BY DEF CreateFails, Unserve, Remove, busVars
<1>4. \A o \in Objects : Known(o)' => Known(o)
  <2>1. l.path \in Places /\ NoObject \notin Objects
    BY <1>2, ServiceAssumption DEF Local
  <2>2. \A p \in Places, o \in Objects :
          (collections'[p] = o => collections[p] = o) /\ (served'[p] = o => served[p] = o)
    BY <1>1, <1>3, <2>1 DEF TypeOK
  <2> QED
    BY <1>3, <2>2 DEF Known
<1>5. \A o \in Objects : Named(object[o], object'[o])
  BY <1>3 DEF Named
<1>6. \/ pc'[t] = "idle" /\ loc'[t] = Blank /\ OnlyMoves(t)
      \/ pc'[t] = "remove" /\ loc'[t] = l /\ OnlyMoves(t)
  BY <1>1, GotoGoes, EndGoes DEF CreateFails, Unserve, Remove
<1>7. pc'[t] \notin OwnAt \cup SharedAt
  BY <1>6 DEF OwnAt, SharedAt
<1>8. Blank.target = NoObject
  BY DEF Blank
<1> QED
  BY <1>1, <1>3, <1>4, <1>5, <1>6, <1>7, <1>8, OwnGone

LEMMA MigratingOwnership ==
  ASSUME IInv, NEW w \in Workers, Migrating(w), WorkerTypes', WorkersFit'
  PROVE  Ownership'
<1> DEFINE l == loc[w]
<1>1. /\ TypeOK /\ WorkerTypes /\ WorkersFit /\ Ownership /\ l \in Local
      /\ Fits(w, pc[w], l) /\ Objectful
  BY DEF IInv, TypeOK, WorkerTypes, Control, Objectful, WorkersFit
<1>2. UNCHANGED <<collections, served, defaultServed, found>>
  BY DEF Migrating, Open, Stamp, busVars
<1>3. CASE Open(w)
  <2>1. pc[w] = "open" /\ Fresh # {}
    BY <1>3 DEF Open
  <2>2. Next1 \in Objects /\ ~object[Next1].used
    BY <2>1, NextIsFresh
  <2>3. l.name \in Names /\ l.secret \in Answers /\ l.kind \in {"v0", "kwallet"}
    BY <1>1 DEF Local
  <2> DEFINE kr == IF l.op = "create" THEN Opened(l.name, l.secret)
                                      ELSE Migrated(l.kind, l.name, l.secret)
             x == [l EXCEPT !.obj = Next1]
  <2>4. IsKeyring(kr, l.name)
    <3>1. l.op # "create" => <<l.kind, l.name>> \in Sources
      BY <1>1, <2>1 DEF Fits, OpsAt, MigrationAt
    <3>2. l.op = "create" => IsKeyring(Opened(l.name, l.secret), l.name)
      BY <1>1, <2>3, OpenedType DEF TypeOK
    <3>3. l.op # "create" => IsKeyring(Migrated(l.kind, l.name, l.secret), l.name)
      BY <1>1, <2>3, <3>1, MigratedType DEF TypeOK
    <3> QED
      BY <3>2, <3>3
  <2>5. CASE object' = [object EXCEPT ![Next1] = kr] /\ Goto(w, "write", x)
    <3> HIDE DEF kr
    <3>1. x.obj = Next1 /\ x.target = l.target /\ x.name = l.name
      BY <1>1 DEF Local
    <3> HIDE DEF x
    <3>2. pc'[w] = "write" /\ loc'[w] = x /\ OnlyMoves(w)
      BY <1>1, <2>5, GotoGoes
    <3>3. /\ object'[Next1].used /\ object'[Next1].name = l.name
          /\ \A o \in Objects \ {Next1} : object'[o] = object[o]
      BY <1>1, <2>2, <2>4, <2>5 DEF Objectful, IsKeyring
    <3>4. \A o \in Objects : Owns(w, o)' => o = Next1 /\ object'[Next1].name = loc'[w].name
      BY <3>1, <3>2, <3>3 DEF Owns
    <3>5. pc'[w] \notin SharedAt
      BY <3>2 DEF SharedAt
    <3> QED
      BY <1>1, <1>2, <2>2, <3>1, <3>2, <3>3, <3>4, <3>5, NothingNew, OwnNew
  <2>6. CASE Goto(w, "refused", l) /\ UNCHANGED object
    <3>1. pc'[w] = "refused" /\ loc'[w] = l /\ OnlyMoves(w)
      BY <1>1, <2>6, GotoGoes
    <3>2. pc'[w] \notin OwnAt \cup SharedAt
      BY <3>1 DEF OwnAt, SharedAt
    <3> QED
      BY <1>1, <1>2, <2>6, <3>1, <3>2, SameUnchanged, SameNamed, NothingNew, OwnGone
  <2> QED
    BY <1>3, <2>5, <2>6 DEF Open
<1>4. CASE Stamp(w)
  <2>1. pc[w] = "stamp" /\ Goto(w, "migrated", l) /\ AllSame
    BY <1>4, SameUnchanged DEF Stamp
  <2>2. pc'[w] = "migrated" /\ loc'[w] = l /\ OnlyMoves(w)
    BY <1>1, <2>1, GotoGoes
  <2>3. \A o \in Objects :
          (Owns(w, o)' => Owns(w, o)) /\ (Holds(w, o)' => Holds(w, o))
    BY <2>1, <2>2 DEF Owns, Holds, OwnAt, SharedAt
  <2>4. StaysNamed(w) /\ pc'[w] \notin SharedAt
    BY <2>2 DEF StaysNamed, SharedAt
  <2> QED
    BY <1>1, <1>2, <2>1, <2>2, <2>3, <2>4, NothingNew, SameNamed, OwnMoves
<1> QED
  BY <1>3, <1>4 DEF Migrating

LEMMA WritingOwnership ==
  ASSUME IInv, NEW w \in Workers, Writing(w), WorkerTypes', WorkersFit'
  PROVE  Ownership'
<1> DEFINE l == loc[w]
<1>1. /\ TypeOK /\ WorkerTypes /\ WorkersFit /\ Ownership /\ l \in Local
      /\ Fits(w, pc[w], l) /\ Objectful
  BY DEF IInv, TypeOK, WorkerTypes, Control, Objectful, WorkersFit
<1>2. /\ pc[w] \in WritingAt /\ UNCHANGED <<collections, served, defaultServed, found>>
      /\ l.op # "store" => l.obj \in Objects
  BY <1>1, WritingGoes
<1>3. CASE End(w) /\ AllSame
  <2>1. pc'[w] = "idle" /\ loc'[w] = Blank /\ OnlyMoves(w)
    BY <1>1, <1>3, EndGoes
  <2>2. pc'[w] \notin OwnAt \cup SharedAt /\ Blank.target = NoObject
    BY <2>1 DEF OwnAt, SharedAt, Blank
  <2> QED
    BY <1>1, <1>2, <1>3, <2>1, <2>2, NothingNew, SameNamed, OwnGone
<1>4. CASE l.op # "store" /\ Unwritten(w)
  <2> DEFINE x == [l EXCEPT !.obj = NoObject]
  <2>1. Goto(w, "refused", x) /\ object' = [object EXCEPT ![l.obj] = NoCollection]
    BY <1>4 DEF Unwritten
  <2>2. x.target = l.target /\ x.name = l.name
    BY <1>1 DEF Local
  <2> HIDE DEF x
  <2>3. pc'[w] = "refused" /\ loc'[w] = x /\ OnlyMoves(w)
    BY <1>1, <2>1, GotoGoes
  <2>4. \A o \in Objects \ {l.obj} : Named(object[o], object'[o])
    BY <1>1, <1>2, <1>4, <2>1 DEF Objectful, Named
  <2>5. pc'[w] \notin OwnAt \cup SharedAt
    BY <2>3 DEF OwnAt, SharedAt
  <2>6. Owns(w, l.obj) /\ l.obj \in Objects
    BY <1>2, <1>4 DEF Owns, OwnAt, WritingAt
  <2> QED
    BY <1>1, <1>2, <2>2, <2>3, <2>4, <2>5, <2>6, OwnDrop
<1>5. CASE GoesOn(w) /\ AllSame
  <2>1. PICK label \in {"rename", "refresh", "stamp", "label"} : Goto(w, label, l)
    BY <1>5 DEF GoesOn
  <2>2. pc'[w] = label /\ loc'[w] = l /\ OnlyMoves(w)
    BY <1>1, <2>1, GotoGoes
  <2>3. \A o \in Objects :
          (Owns(w, o)' => Owns(w, o)) /\ (Holds(w, o)' => Holds(w, o))
    BY <1>2, <2>2 DEF Owns, Holds, OwnAt, SharedAt, WritingAt
  <2>4. StaysNamed(w)
    BY <2>2 DEF StaysNamed
  <2>5. pc'[w] \notin SharedAt
    BY <2>2 DEF SharedAt
  <2> QED
    BY <1>1, <1>2, <1>5, <2>2, <2>3, <2>4, <2>5, NothingNew, SameNamed, OwnMoves
<1> QED
  BY <1>1, <1>3, <1>4, <1>5, WritingGoes, KeptIsSame

\* A keyring that gets its path keeps its name.
LEMMA PlacedNamed ==
  ASSUME IInv, NEW o \in Objects, NEW alias \in AliasNames, \A p \in Places : collections[p] # o
  PROVE  \A q \in Objects : Named(object[q], Placed(o, alias)[q])
BY PlacedType, InOnePlace DEF IInv, Listing, Named

\* What is about to be placed.
LEMMA LabelPlaces ==
  ASSUME IInv, NEW w \in Workers, Label(w)
  PROVE  /\ loc[w].obj \in Objects /\ Owns(w, loc[w].obj)
         /\ \A p \in Places : collections[p] # loc[w].obj
         /\ \E alias \in AliasNames : object' = Placed(loc[w].obj, alias)
<1> DEFINE l == loc[w]
<1>1. l \in Local /\ Fits(w, pc[w], l)
  BY DEF IInv, TypeOK, Control, WorkersFit
<1>2. pc[w] \in {"label", "migrated"} /\ l.obj \in Objects
  BY <1>1 DEF Label, Fits, OwnAt
<1>3. Owns(w, l.obj)
  BY <1>2 DEF Owns, OwnAt
<1>4. \A p \in Places : collections[p] # l.obj
  BY <1>2, <1>3 DEF IInv, Ownership, OwnIsOwn, Known
<1> DEFINE alias == IF l.op = "create" THEN l.alias ELSE AliasOf(l.kind, l.name)
<1>5. alias \in AliasNames
  BY <1>1 DEF Local, AliasOf, AliasNames
<1>6. object' = Placed(l.obj, alias)
  BY DEF Label
<1> QED
  BY <1>2, <1>3, <1>4, <1>5, <1>6

LEMMA PlacePlaces ==
  ASSUME IInv, Place, ~(loc[Boot].index > Len(found))
  PROVE  /\ loc[Boot].index \in DOMAIN found /\ found[loc[Boot].index] \in Objects
         /\ \A p \in Places : collections[p] # found[loc[Boot].index]
         /\ object[found[loc[Boot].index]].alias[1] \in AliasNames
         /\ object' = Placed(found[loc[Boot].index], object[found[loc[Boot].index]].alias[1])
         /\ collections' = [collections EXCEPT
              ![object'[found[loc[Boot].index]].path] = found[loc[Boot].index]]
<1> DEFINE l == loc[Boot]
           i == l.index
           o == found[i]
           alias == object[o].alias[1]
<1>1. Boot \in Workers
  BY DEF Workers
<1>2. TypeOK /\ Objectful /\ l \in Local /\ Fits(Boot, pc[Boot], l)
  BY <1>1 DEF TypeOK, IInv, Control, WorkersFit, Objectful
<1>3. pc[Boot] = "place"
  BY DEF Place
<1>4. i \in DOMAIN found
  <2>1. i >= 1 /\ i \in Nat
    BY <1>2, <1>3, Counted DEF Fits, Local
  <2> QED
    BY <1>2, <2>1 DEF TypeOK
<1>5. o \in Objects
  BY <1>2, <1>4 DEF TypeOK
<1>6. alias \in AliasNames
  BY <1>2, <1>5 DEF Objectful, Object
<1>7. \A p \in Places : collections[p] # o
  <2>1. l.op = "boot"
    BY <1>2, <1>3 DEF Fits, OpsAt
  <2>2. Unplaced(i)
    BY <1>2, <1>3, <2>1, Counted DEF Unplaced, Early, Local
  <2> QED
    BY <1>4, <2>2 DEF IInv, Listing, ListedOnce
<1>8. /\ object' = Placed(o, alias)
      /\ collections' = [collections EXCEPT ![Placed(o, alias)[o].path] = o]
  BY DEF Place
<1> QED
  BY <1>4, <1>5, <1>6, <1>7, <1>8

LEMMA AddingOwnership ==
  ASSUME IInv, NEW w \in Workers, Adding(w), WorkerTypes', WorkersFit'
  PROVE  Ownership'
<1> DEFINE l == loc[w]
<1>1. /\ TypeOK /\ WorkerTypes /\ WorkersFit /\ Ownership /\ l \in Local
      /\ Fits(w, pc[w], l) /\ Objectful
  BY DEF IInv, TypeOK, WorkerTypes, Control, Objectful, WorkersFit
<1>2. CASE Label(w)
  <2>1. PICK alias \in AliasNames : object' = Placed(l.obj, alias)
    BY <1>2, LabelPlaces
  <2>2. \A o \in Objects : Named(object[o], object'[o])
    BY <1>2, <2>1, LabelPlaces, PlacedNamed
  <2>3. pc[w] \in OwnAt /\ Goto(w, "at", l)
    BY <1>2, LabelPlaces DEF Label, Owns
  <2>4. pc'[w] = "at" /\ loc'[w] = l /\ OnlyMoves(w)
    BY <1>1, <2>3, GotoGoes
  <2>5. \A o \in Objects : (Owns(w, o)' => Owns(w, o)) /\ (Holds(w, o)' => Holds(w, o))
    BY <2>3, <2>4 DEF Owns, Holds, OwnAt, SharedAt
  <2>6. StaysNamed(w) /\ pc'[w] \notin SharedAt
    BY <2>4 DEF StaysNamed, SharedAt
  <2>7. UNCHANGED <<collections, served, defaultServed, found>>
    BY <1>2 DEF Label, busVars
  <2> QED
    BY <1>1, <2>2, <2>4, <2>5, <2>6, <2>7, NothingNew, OwnMoves
<1>3. CASE ServeAt(w)
  <2>1. pc[w] = "at" /\ l.obj \in Objects /\ Owns(w, l.obj)
    BY <1>1, <1>3 DEF ServeAt, Fits, OwnAt, Owns
  <2>2. CASE Panic(w) /\ object' = [object EXCEPT ![l.obj] = NoCollection] /\ UNCHANGED served
    <3>1. pc'[w] = "idle" /\ loc'[w] = Blank /\ OnlyMoves(w)
      BY <1>1, <2>2, EndGoes DEF Panic
    <3>2. pc'[w] \notin OwnAt \cup SharedAt /\ loc'[w].target = NoObject
      BY <3>1 DEF OwnAt, SharedAt, Blank
    <3>3. \A o \in Objects \ {l.obj} : Named(object[o], object'[o])
      BY <1>1, <2>1, <2>2 DEF Objectful, Named
    <3>4. UNCHANGED <<collections, served, defaultServed, found>>
      BY <1>3, <2>2 DEF ServeAt
    <3> QED
      BY <1>1, <2>1, <3>1, <3>2, <3>3, <3>4, OwnDrop
  <2>3. CASE /\ At(object[l.obj].path, l.obj) /\ Goto(w, "insert", l)
             /\ UNCHANGED <<object, panicked, lockVars>>
    <3>1. pc'[w] = "insert" /\ loc'[w] = l /\ OnlyMoves(w)
      BY <1>1, <2>3, GotoGoes
    <3>2. UNCHANGED <<collections, defaultServed, found>>
      BY <1>3 DEF ServeAt
    <3>3. \A p \in Places : served'[p] = served[p] \/ served'[p] = l.obj
      BY <1>1, <2>3 DEF At, TypeOK
    <3>4. \A o \in Objects : ~Owns(w, o)'
      BY <3>1 DEF Owns, OwnAt
    <3>5. \A o \in Objects : Known(o)' => Known(o) \/ (Owns(w, o) /\ ~Owns(w, o)')
      BY <2>1, <3>2, <3>3, <3>4 DEF Known
    <3>6. \A o \in Objects : Holds(w, o)' => Holds(w, o) \/ (Owns(w, o) /\ ~Owns(w, o)')
      BY <2>1, <3>1, <3>4 DEF Holds
    <3>7. StaysNamed(w) /\ pc[w] \in OwnAt
      BY <2>1, <3>1 DEF StaysNamed, OwnAt
    <3>8. \A i \in DOMAIN found' : \E j \in DOMAIN found : found'[i] = found[j]
      BY <3>2
    <3>9. \A o \in Objects : Named(object[o], object'[o])
      BY <2>3 DEF Named
    <3> QED
      BY <1>1, <3>1, <3>4, <3>5, <3>6, <3>7, <3>8, <3>9, OwnMoves
  <2> QED
    BY <1>3, <2>2, <2>3 DEF ServeAt
<1>4. CASE Insert(w)
  <2>1. pc[w] = "insert" /\ l.obj \in Objects /\ Holds(w, l.obj)
    BY <1>1, <1>4 DEF Insert, Fits, SharedAt, Holds
  <2>2. UNCHANGED <<object, served, defaultServed, found>>
    BY <1>4 DEF Insert
  <2>3. \A p \in Places : collections'[p] = collections[p] \/ collections'[p] = l.obj
    BY <1>1, <1>4 DEF Insert, TypeOK
  <2>4. \A o \in Objects : Known(o)' => Known(o) \/ Holds(w, o)
    BY <2>1, <2>2, <2>3 DEF Known
  <2>5. \A o \in Objects : Named(object[o], object'[o])
    BY <2>2 DEF Named
  <2>6. \A i \in DOMAIN found' : \E j \in DOMAIN found : found'[i] = found[j]
    BY <2>2
  <2>7. CASE End(w)
    <3>1. pc'[w] = "idle" /\ loc'[w] = Blank /\ OnlyMoves(w)
      BY <1>1, <2>7, EndGoes
    <3>2. pc'[w] \notin OwnAt \cup SharedAt /\ loc'[w].target = NoObject
      BY <3>1 DEF OwnAt, SharedAt, Blank
    <3> QED
      BY <1>1, <2>4, <2>5, <2>6, <3>1, <3>2, OwnGone
  <2>8. CASE Goto(w, "serveDefault", l)
    <3>1. pc'[w] = "serveDefault" /\ loc'[w] = l /\ OnlyMoves(w)
      BY <1>1, <2>8, GotoGoes
    <3>2. \A o \in Objects : ~Owns(w, o)' /\ (Holds(w, o)' => Holds(w, o))
      BY <2>1, <3>1 DEF Owns, OwnAt, Holds, SharedAt
    <3>3. StaysNamed(w) /\ pc[w] \in SharedAt
      BY <2>1, <3>1 DEF StaysNamed, SharedAt
    <3> QED
      BY <1>1, <2>4, <2>5, <2>6, <3>1, <3>2, <3>3, OwnMoves
  <2> QED
    BY <1>4, <2>7, <2>8 DEF Insert
<1>5. CASE ServeDefault(w)
  <2> DEFINE done == l.done \cup {l.name}
             x == [l EXCEPT !.obj = NoObject, !.done = done]
  <2>1. pc[w] = "serveDefault" /\ l.obj \in Objects /\ Holds(w, l.obj) /\ Goto(w, "pamNext", x)
    BY <1>1, <1>5 DEF ServeDefault, Fits, SharedAt, Holds
  <2>2. x.target = l.target /\ x.name = l.name
    BY <1>1 DEF Local
  <2> HIDE DEF x
  <2>3. pc'[w] = "pamNext" /\ loc'[w] = x /\ OnlyMoves(w)
    BY <1>1, <2>1, GotoGoes
  <2>4. UNCHANGED <<object, served, collections, found>>
    BY <1>5 DEF ServeDefault
  <2>5. defaultServed' = defaultServed \/ defaultServed' = l.obj
    BY <1>5 DEF ServeDefault, AtDefault
  <2>6. \A o \in Objects : Known(o)' => Known(o) \/ Holds(w, o)
    BY <2>1, <2>4, <2>5 DEF Known
  <2>7. \A o \in Objects : Named(object[o], object'[o])
    BY <2>4 DEF Named
  <2>8. \A i \in DOMAIN found' : \E j \in DOMAIN found : found'[i] = found[j]
    BY <2>4
  <2>9. pc'[w] \notin OwnAt \cup SharedAt
    BY <2>3 DEF OwnAt, SharedAt
  <2> QED
    BY <1>1, <2>2, <2>3, <2>6, <2>7, <2>8, <2>9, OwnGone
<1> QED
  BY <1>2, <1>3, <1>4, <1>5 DEF Adding

-----------------------------------------------------------------------------
(* Keyrings that fit their file *)

\* A keyring whose time stamp is the file's has the file's items, and its secret fits.
InStep(kr) ==
  kr.time = "current" =>
    /\ v1[kr.name] # NoFile /\ v1[kr.name].items \subseteq kr.items
    /\ v1[kr.name].items # {} => v1[kr.name].secret = kr.secret

LEMMA LockedInStep ==
  ASSUME NEW n \in Names
  PROVE  InStep(Locked(n))
<1>1. CASE v1[n] = NoFile
  <2> DEFINE kr == Keyring(n, NoSecret, TRUE, {}, "none")
  <2>1. kr.time = "none"
    BY DEF Keyring, NoCollection
  <2>2. Locked(n) = kr
    BY <1>1 DEF Locked
  <2> HIDE DEF kr
  <2> QED
    BY <2>1, <2>2 DEF InStep
<1>2. CASE v1[n] # NoFile
  <2> DEFINE kr == Keyring(n, v1[n].secret, TRUE, v1[n].items, "current")
  <2>1. kr.name = n /\ kr.items = v1[n].items /\ kr.secret = v1[n].secret
    BY DEF Keyring, NoCollection
  <2>2. Locked(n) = kr
    BY <1>2 DEF Locked
  <2> HIDE DEF kr
  <2> QED
    BY <1>2, <2>1, <2>2 DEF InStep
<1> QED
  BY <1>1, <1>2

LEMMA OpenedInStep ==
  ASSUME NEW n \in Names, NEW s, Opens(n, s)
  PROVE  InStep(Opened(n, s))
<1>1. CASE v1[n] = NoFile
  <2> DEFINE kr == Keyring(n, s, FALSE, IF n \in V0 THEN LegacyItems[<<"v0", n>>] ELSE {}, "none")
  <2>1. kr.time = "none"
    BY DEF Keyring, NoCollection
  <2>2. Opened(n, s) = kr
    BY <1>1 DEF Opened
  <2> HIDE DEF kr
  <2> QED
    BY <2>1, <2>2 DEF InStep
<1>2. CASE v1[n] # NoFile
  <2> DEFINE kr == Keyring(n, s, FALSE, v1[n].items, "current")
  <2>1. kr.name = n /\ kr.items = v1[n].items /\ kr.secret = s
    BY DEF Keyring, NoCollection
  <2>2. Opened(n, s) = kr
    BY <1>2 DEF Opened
  <2>3. v1[n].items = {} \/ v1[n].secret = s
    BY <1>2 DEF Opens, Accepts
  <2> HIDE DEF kr
  <2> QED
    BY <1>2, <2>1, <2>2, <2>3 DEF InStep
<1> QED
  BY <1>1, <1>2

\* What a starting daemon puts into memory, beside what it migrates.
LEMMA FoundNew ==
  ASSUME IInv, ScanV1 \/ PutOff \/ (Register /\ ~HasDefault)
  PROVE  /\ Fresh # {} /\ Next1 \in Objects /\ ~object[Next1].used
         /\ \E n \in Names, y \in Object, kind \in {"v1", "v0", "kwallet"} :
              /\ IsKeyring(y, n) /\ InStep(y)
              /\ object' = [object EXCEPT ![Next1] = Found(y, kind)]
              /\ ScanV1 => kind = "v1"
              /\ PutOff => n = loc[Boot].name /\ kind = loc[Boot].kind
              /\ Register => n = Login /\ kind = "v1"
         /\ found' = Append(found, Next1)
<1> DEFINE l == loc[Boot]
<1>1. TypeOK /\ l \in Local
  BY DEF IInv, TypeOK, Workers
<1>2. Fresh # {}
  BY DEF ScanV1, PutOff, Register
<1>3. Next1 \in Objects /\ ~object[Next1].used
  BY <1>2, NextIsFresh
<1>4. found' = Append(found, Next1)
  BY DEF ScanV1, PutOff, Register, Placeholder
<1>5. CASE ScanV1
  <2>1. PICK n \in Todo :
          LET kr == Locked(n)
              s == l.secret
          IN object' = [object EXCEPT ![Next1] =
               Found(IF s # NoSecret /\ Accepts(kr.items, kr.secret, s)
                       THEN [kr EXCEPT !.locked = FALSE, !.secret = s] ELSE kr, "v1")]
    BY <1>5 DEF ScanV1
  <2> DEFINE kr == Locked(n)
             s == l.secret
             y == IF s # NoSecret /\ Accepts(kr.items, kr.secret, s)
                    THEN [kr EXCEPT !.locked = FALSE, !.secret = s] ELSE kr
  <2>2. n \in Names /\ s \in Answers
    BY <1>1 DEF Todo, Local
  <2>3. IsKeyring(kr, n) /\ InStep(kr)
    BY <1>1, <2>2, LockedType, LockedInStep DEF TypeOK
  <2>4. kr.time = "current" => kr.items = v1[n].items /\ kr.secret = v1[n].secret
    <3>1. CASE v1[n] = NoFile
      <4>1. kr.time = "none"
        BY <3>1 DEF Locked, Keyring, NoCollection
      <4> QED
        BY <4>1
    <3>2. CASE v1[n] # NoFile
      BY <3>2 DEF Locked, Keyring, NoCollection
    <3> QED
      BY <3>1, <3>2
  <2>5. object' = [object EXCEPT ![Next1] = Found(y, "v1")]
    BY <2>1
  <2> HIDE DEF kr, s
  <2>6. IsKeyring(y, n)
    BY <2>2, <2>3 DEF IsKeyring, Object
  <2>7. InStep(y)
    <3>1. CASE y = kr
      BY <2>3, <3>1
    <3>2. CASE y # kr
      <4>1. Accepts(kr.items, kr.secret, s) /\ y = [kr EXCEPT !.locked = FALSE, !.secret = s]
        BY <3>2
      <4>2. y.name = kr.name /\ y.items = kr.items /\ y.time = kr.time /\ y.secret = s /\ kr.name = n
        BY <2>3, <4>1 DEF IsKeyring, Object
      <4> HIDE DEF y
      <4> QED
        BY <2>3, <2>4, <4>1, <4>2 DEF InStep, Accepts
    <3> QED
      BY <3>1, <3>2
  <2> HIDE DEF y
  <2>8. y \in Object /\ ~PutOff /\ ~Register
    BY <1>5, <2>6 DEF IsKeyring, ScanV1, PutOff, Register
  <2> QED
    BY <1>2, <1>3, <1>4, <2>2, <2>5, <2>6, <2>7, <2>8
<1>6. CASE PutOff
  <2>1. l.name \in Names
    BY <1>1 DEF Local
  <2>2. IsKeyring(Locked(l.name), l.name) /\ InStep(Locked(l.name))
    BY <1>1, <2>1, LockedType, LockedInStep DEF TypeOK
  <2>3. object' = [object EXCEPT ![Next1] = Found(Locked(l.name), l.kind)]
    BY <1>6 DEF PutOff
  <2> DEFINE y == Locked(l.name)
  <2>4. y \in Object /\ ~ScanV1 /\ ~Register
    BY <1>6, <2>2 DEF IsKeyring, ScanV1, PutOff, Register
  <2>5. l.kind \in {"v1", "v0", "kwallet"}
    BY <1>1 DEF Local
  <2>6. IsKeyring(y, l.name) /\ InStep(y) /\ object' = [object EXCEPT ![Next1] = Found(y, l.kind)]
    BY <2>2, <2>3
  <2> HIDE DEF y
  <2> QED
    BY <1>2, <1>3, <1>4, <2>1, <2>4, <2>5, <2>6
<1>7. CASE Register /\ ~HasDefault
  <2> DEFINE y == IF l.secret = NoSecret THEN Locked(Login) ELSE Opened(Login, l.secret)
  <2>1. l.secret \in Answers
    BY <1>1 DEF Local
  <2>2. l.secret # NoSecret => Opens(Login, l.secret)
    BY <1>7 DEF Register, DefaultOpens
  <2>3. IsKeyring(Locked(Login), Login) /\ InStep(Locked(Login))
    BY <1>1, SomeName, LockedType, LockedInStep DEF TypeOK
  <2>4. l.secret # NoSecret =>
          IsKeyring(Opened(Login, l.secret), Login) /\ InStep(Opened(Login, l.secret))
    BY <1>1, <2>1, <2>2, SomeName, OpenedType, OpenedInStep DEF TypeOK
  <2>5. IsKeyring(y, Login) /\ InStep(y)
    BY <2>3, <2>4
  <2>6. object' = [object EXCEPT ![Next1] = Found(y, "v1")]
    BY <1>7 DEF Register, DefaultKeyring
  <2> HIDE DEF y
  <2>7. y \in Object /\ ~ScanV1 /\ ~PutOff
    BY <1>7, <2>5 DEF IsKeyring, ScanV1, PutOff, Register
  <2> QED
    BY <1>2, <1>3, <1>4, <1>7, <2>5, <2>6, <2>7, SomeName
<1> QED
  BY <1>5, <1>6, <1>7

-----------------------------------------------------------------------------
(* The starting daemon's keyrings *)

\* Where a step of the starting daemon leads.
LEMMA BootingGoes ==
  ASSUME TypeOK, Control, Start \/ (Booting /\ ~GiveUp)
  PROVE  /\ OnlyMoves(Boot) /\ pc'[Boot] \notin OwnAt \cup SharedAt
         /\ loc'[Boot].op # "unlock"
<1> DEFINE l == loc[Boot]
<1>1. Boot \in Workers
  BY DEF Workers
<1>2. WorkerTypes /\ l \in Local /\ Fits(Boot, pc[Boot], l)
  BY <1>1 DEF TypeOK, WorkerTypes, Control, WorkersFit
<1>3. ASSUME NEW label, NEW x, Goto(Boot, label, x), label \notin OwnAt \cup SharedAt, x.op # "unlock"
      PROVE  /\ OnlyMoves(Boot) /\ pc'[Boot] \notin OwnAt \cup SharedAt
             /\ loc'[Boot].op # "unlock"
  BY <1>1, <1>2, <1>3, GotoGoes
<1>4. l.kind \in {"v0", "kwallet"}
  BY <1>2 DEF Local
<1>5. CASE Start
  <2> DEFINE todo == {n \in Names : v1[n] # NoFile}
  <2>1. PICK s \in StartSecrets :
          Goto(Boot, "scan", [Blank EXCEPT !.op = "boot", !.secret = s, !.todo = todo])
    BY <1>5 DEF Start
  <2> HIDE DEF todo
  <2> DEFINE x == [Blank EXCEPT !.op = "boot", !.secret = s, !.todo = todo]
  <2>2. x.op = "boot"
    BY DEF Blank
  <2>3. Goto(Boot, "scan", x)
    BY <2>1
  <2> HIDE DEF x
  <2> QED
    BY <1>3, <2>2, <2>3 DEF OwnAt, SharedAt
<1>6. CASE Booting /\ ~GiveUp
  <2>1. l.op = "boot"
    BY <1>2, <1>6 DEF Booting, ScanV1, NextScan, ScanLegacy, Discovered, PutOff, Connect, Register,
       Place, Serve, Replay, Fits, OpsAt
  <2>2. ASSUME NEW y PROVE [l EXCEPT !.todo = y].op = "boot"
    BY <1>2, <2>1 DEF Local
  <2>3. ASSUME NEW y PROVE [l EXCEPT !.obj = y].op = "boot"
    BY <1>2, <2>1 DEF Local
  <2>4. ASSUME NEW y PROVE [l EXCEPT !.index = y].op = "boot"
    BY <1>2, <2>1 DEF Local
  <2>5. ASSUME NEW n, NEW k PROVE [l EXCEPT !.todo = @ \ {n}, !.name = n, !.kind = k].op = "boot"
    BY <1>2, <2>1 DEF Local
  <2>6. CASE ScanV1
    <3>1. PICK n : Goto(Boot, "scan", [l EXCEPT !.todo = @ \ {n}])
      BY <2>6 DEF ScanV1
    <3> DEFINE x == [l EXCEPT !.todo = @ \ {n}]
    <3>2. x.op = "boot"
      BY <1>2, <2>1 DEF Local
    <3>3. Goto(Boot, "scan", x)
      BY <3>1
    <3> HIDE DEF x
    <3> QED
      BY <1>3, <3>2, <3>3 DEF OwnAt, SharedAt
  <2>7. CASE NextScan
    BY <1>3, <2>1, <2>2, <2>7 DEF NextScan, OwnAt, SharedAt
  <2>8. CASE ScanLegacy
    <3>1. PICK n \in Todo :
            Goto(Boot, IF ~IsDue(pc[Boot], n) THEN pc[Boot]
                       ELSE IF pc[Boot] = "kwallet" /\ l.secret = NoSecret THEN "refused" ELSE "open",
                 [l EXCEPT !.todo = @ \ {n}, !.name = n, !.kind = pc[Boot]])
      BY <2>8 DEF ScanLegacy
    <3>2. PICK label \in {pc[Boot], "refused", "open"} :
            Goto(Boot, label, [l EXCEPT !.todo = @ \ {n}, !.name = n, !.kind = pc[Boot]])
      BY <3>1
    <3>3. pc[Boot] \in {"v0", "kwallet"}
      BY <2>8 DEF ScanLegacy
    <3>4. label \notin OwnAt \cup SharedAt
      BY <3>3 DEF OwnAt, SharedAt
    <3> QED
      BY <1>3, <2>5, <3>2, <3>4
  <2>9. CASE Discovered
    BY <1>3, <1>4, <2>3, <2>9 DEF Discovered, OwnAt, SharedAt
  <2>10. CASE PutOff
    BY <1>3, <1>4, <2>1, <2>10 DEF PutOff, OwnAt, SharedAt
  <2>11. CASE Connect
    BY <1>3, <2>1, <2>11 DEF Connect, OwnAt, SharedAt
  <2>12. CASE Register
    BY <1>3, <2>4, <2>12 DEF Register, OwnAt, SharedAt
  <2>13. CASE Place
    BY <1>3, <2>4, <2>13 DEF Place, OwnAt, SharedAt
  <2>14. CASE Serve
    BY <1>3, <2>1, <2>4, <2>14 DEF Serve, OwnAt, SharedAt
  <2>15. CASE Replay
    <3>1. ASSUME NEW s PROVE [Blank EXCEPT !.op = "pam", !.secret = s].op = "pam"
      BY DEF Blank
    <3>2. Blank.op = "none"
      BY DEF Blank
    <3> QED
      BY <1>3, <2>15, <3>1, <3>2 DEF Replay, End, OwnAt, SharedAt
  <2> QED
    BY <1>6, <2>6, <2>7, <2>8, <2>9, <2>10, <2>11, <2>12, <2>13, <2>14, <2>15 DEF Booting
<1> QED
  BY <1>5, <1>6

LEMMA BootingOwnership ==
  ASSUME IInv, Start \/ (Booting /\ ~GiveUp), WorkerTypes', WorkersFit'
  PROVE  Ownership'
<1> DEFINE l == loc[Boot]
<1>1. /\ TypeOK /\ WorkerTypes /\ WorkersFit /\ Ownership /\ Objectful /\ Boot \in Workers
      /\ Control
  BY DEF IInv, TypeOK, WorkerTypes, Control, Objectful, Workers
<1>2. /\ OnlyMoves(Boot) /\ pc'[Boot] \notin OwnAt \cup SharedAt
      /\ loc'[Boot].op # "unlock"
  BY <1>1, BootingGoes
<1>3. loc'[Boot].target = NoObject
  BY <1>1, <1>2, ServiceAssumption DEF WorkersFit, Fits
<1>4. l \in Local /\ Fits(Boot, pc[Boot], l)
  BY <1>1 DEF WorkerTypes, WorkersFit
<1>5. CASE ScanV1 \/ PutOff \/ (Register /\ ~HasDefault)
  <2> DEFINE k == Next1
  <2>1. PICK n \in Names, y \in Object, kind \in {"v1", "v0", "kwallet"} :
          IsKeyring(y, n) /\ object' = [object EXCEPT ![k] = Found(y, kind)]
    BY <1>5, FoundNew
  <2>2. k \in Objects /\ ~object[k].used /\ found' = Append(found, k)
    BY <1>5, FoundNew
  <2> HIDE DEF k
  <2>3. Found(y, kind).used
    <3>1. IsKeyring(Found(y, kind), n)
      BY <2>1, FoundType
    <3> QED
      BY <3>1 DEF IsKeyring
  <2>4. object'[k].used /\ \A o \in Objects \ {k} : object'[o] = object[o]
    BY <1>1, <2>1, <2>2, <2>3 DEF Objectful
  <2>5. \A o \in Objects : ~Owns(Boot, o)'
    BY <1>2 DEF Owns
  <2>6. \A i \in DOMAIN found' : (\E j \in DOMAIN found : found'[i] = found[j]) \/ found'[i] = k
    BY <1>1, <2>2 DEF TypeOK
  <2>7. UNCHANGED <<collections, served, defaultServed>>
    BY <1>5 DEF ScanV1, PutOff, Register, busVars
  <2>8. \A o \in Objects : Known(o)' => Known(o) \/ o = k
    BY <2>6, <2>7 DEF Known
  <2> QED
    BY <1>1, <1>2, <1>3, <2>2, <2>4, <2>5, <2>6, <2>8, OwnNew
<1>6. CASE UNCHANGED <<object, collections, served, defaultServed, found>>
  BY <1>1, <1>2, <1>3, <1>6, SameUnchanged, SameNamed, NothingNew, OwnGone
<1>7. CASE Discovered
  <2>1. l.obj \in Objects /\ Owns(Boot, l.obj)
    BY <1>4, <1>7 DEF Discovered, Fits, OwnAt, Owns
  <2> DEFINE y == object[l.obj]
  <2>2. y \in Object /\ y.used
    BY <1>1, <2>1 DEF Objectful, Ownership, OwnIsOwn
  <2>3. object' = [object EXCEPT ![l.obj] = Found(y, l.kind)] /\ found' = Append(found, l.obj)
    BY <1>1, <1>7, <2>1 DEF Discovered, Objectful
  <2>4. Named(y, Found(y, l.kind))
    <3> HIDE DEF y
    <3>1. IsKeyring(y, y.name)
      BY <2>2 DEF IsKeyring
    <3>2. IsKeyring(Found(y, l.kind), y.name)
      BY <3>1, FoundType
    <3> QED
      BY <2>2, <3>2 DEF IsKeyring, Named
  <2>5. \A o \in Objects : Named(object[o], object'[o])
    BY <1>1, <2>1, <2>3, <2>4 DEF Objectful, Named
  <2>6. UNCHANGED <<collections, served, defaultServed>>
    BY <1>7 DEF Discovered, busVars
  <2>7. \A i \in DOMAIN found' :
          (\E j \in DOMAIN found : found'[i] = found[j]) \/ Owns(Boot, found'[i])
    BY <1>1, <2>1, <2>3 DEF TypeOK
  <2>8. \A o \in Objects : Known(o)' => Known(o) \/ Owns(Boot, o)
    BY <2>6, <2>7 DEF Known
  <2> QED
    BY <1>1, <1>2, <1>3, <2>5, <2>7, <2>8, OwnGone
<1>8. CASE Place
  <2> DEFINE i == l.index
             o == found[i]
             alias == object[o].alias[1]
  <2>1. UNCHANGED <<served, defaultServed, found>>
    BY <1>8 DEF Place
  <2>2. CASE i > Len(found)
    <3>1. UNCHANGED <<object, collections>>
      BY <1>8, <2>2 DEF Place
    <3> QED
      BY <1>6, <2>1, <3>1
  <2>3. CASE ~(i > Len(found))
    <3>1. /\ i \in DOMAIN found /\ o \in Objects /\ \A p \in Places : collections[p] # o
          /\ alias \in AliasNames /\ object' = Placed(o, alias)
          /\ collections' = [collections EXCEPT ![object'[o].path] = o]
      BY <1>8, <2>3, PlacePlaces
    <3>2. Known(o)
      BY <3>1 DEF Known
    <3> HIDE DEF o, alias
    <3>3. \A q \in Objects : Named(object[q], object'[q])
      BY <3>1, PlacedNamed
    <3>4. \A p \in Places : collections'[p] = collections[p] \/ collections'[p] = o
      BY <1>1, <3>1 DEF TypeOK
    <3>5. \A q \in Objects : Known(q)' => Known(q)
      BY <2>1, <3>2, <3>4 DEF Known
    <3>6. \A j \in DOMAIN found' : \E k \in DOMAIN found : found'[j] = found[k]
      BY <2>1
    <3> QED
      BY <1>1, <1>2, <1>3, <3>3, <3>5, <3>6, OwnGone
  <2> QED
    BY <2>2, <2>3
<1>9. CASE Serve
  <2> DEFINE i == l.index
             o == found[i]
  <2>1. UNCHANGED <<object, collections, found>>
    BY <1>9 DEF Serve
  <2>2. CASE i > Len(found)
    <3>1. UNCHANGED <<served, defaultServed>>
      BY <1>9, <2>2 DEF Serve
    <3> QED
      BY <1>6, <2>1, <3>1
  <2>3. CASE ~(i > Len(found))
    <3>1. i \in DOMAIN found
      <4>1. i >= 1 /\ i \in Nat
        BY <1>4, <1>9, Counted DEF Fits, Local, Serve
      <4> QED
        BY <1>1, <2>3, <4>1 DEF TypeOK
    <3>2. Known(o) /\ o \in Objects
      BY <1>1, <3>1 DEF Known, TypeOK
    <3>3. At(object[o].path, o) /\ (AtDefault(o) \/ UNCHANGED defaultServed)
      BY <1>9, <2>3 DEF Serve
    <3> HIDE DEF o
    <3>4. \A p \in Places : served'[p] = served[p] \/ served'[p] = o
      BY <1>1, <3>3 DEF TypeOK, At
    <3>5. \A q \in Objects : Known(q)' => Known(q)
      BY <2>1, <3>2, <3>3, <3>4 DEF Known, AtDefault
    <3>6. \A j \in DOMAIN found' : \E k \in DOMAIN found : found'[j] = found[k]
      BY <2>1
    <3> QED
      BY <1>1, <1>2, <1>3, <2>1, <3>5, <3>6, SameUnchanged, SameNamed, OwnGone
  <2> QED
    BY <2>2, <2>3
<1>10. CASE Register /\ HasDefault
  BY <1>6, <1>10 DEF Register, busVars
<1>11. CASE Start \/ NextScan \/ ScanLegacy \/ Connect \/ Replay
  BY <1>6, <1>11 DEF Start, NextScan, ScanLegacy, Connect, Replay, busVars
<1> QED
  BY <1>5, <1>7, <1>8, <1>9, <1>10, <1>11 DEF Booting

-----------------------------------------------------------------------------
(* Where collections are listed, from step to step *)

\* What is listed, and what the other tasks are about to list, keeps its path.
OthersKept(w) ==
  /\ \A p \in Places : collections[p] # NoObject =>
       /\ object'[collections[p]].path = object[collections[p]].path
       /\ object'[collections[p]].name = object[collections[p]].name
  /\ \A u \in Workers : u # w /\ pc[u] \in {"at", "insert"} =>
       object'[loc[u].obj].path = object[loc[u].obj].path

LEMMA SameKept ==
  ASSUME TypeOK, WorkersFit, AllSame
  PROVE  /\ \A w \in Workers : OthersKept(w)
         /\ \A u \in Workers : pc[u] \in {"at", "insert"} =>
              object'[loc[u].obj].path = object[loc[u].obj].path
<1>1. \A p \in Places : collections[p] # NoObject => collections[p] \in Objects
  BY DEF TypeOK
<1>2. \A u \in Workers : pc[u] \in {"at", "insert"} => loc[u].obj \in Objects
  BY DEF WorkersFit, Fits, OwnAt, SharedAt
<1> QED
  BY <1>1, <1>2 DEF AllSame, Same, OthersKept

LEMMA OneKept ==
  ASSUME TypeOK, WorkersFit, Ownership, NEW w \in Workers, NEW k \in Objects,
         ~object[k].used \/ Owns(w, k),
         \A o \in Objects \ {k} : Same(object[o], object'[o])
  PROVE  OthersKept(w)
<1>1. \A p \in Places : collections[p] # NoObject => collections[p] \in Objects \ {k}
  <2>1. ~Known(k)
    BY DEF Ownership, KnownAreUsed, OwnIsOwn
  <2> QED
    BY <2>1 DEF TypeOK, Known
<1>2. ASSUME NEW u \in Workers, u # w, pc[u] \in {"at", "insert"}
      PROVE  loc[u].obj \in Objects \ {k}
  <2>1. loc[u].obj \in Objects
    BY <1>2 DEF WorkersFit, Fits, OwnAt, SharedAt
  <2>2. Owns(u, loc[u].obj) \/ Holds(u, loc[u].obj)
    BY <1>2 DEF Owns, Holds, OwnAt, SharedAt
  <2>3. ~Owns(u, k) /\ ~Holds(u, k)
    BY <1>2 DEF Ownership, KnownAreUsed, OwnIsOwn
  <2> QED
    BY <2>1, <2>2, <2>3
<1> QED
  BY <1>1, <1>2 DEF Same, OthersKept

LEMMA ListingKept ==
  ASSUME Listing, TypeOK, NEW w \in Workers, OnlyMoves(w), OthersKept(w), UNCHANGED found,
         \A p \in Places : collections'[p] \in {collections[p], NoObject},
         \A i \in DOMAIN found : Unplaced(i)' => Unplaced(i),
         pc'[w] \in {"at", "insert"} =>
           object'[loc'[w].obj].path[1] = PathOf[loc'[w].name],
         pc'[w] = "insert" => \A p \in Places : collections[p] # loc'[w].obj,
         \A u \in Workers : pc'[u] = "insert" => loc'[u].obj \in Objects
  PROVE  Listing'
<1>0. NoObject \notin Objects
  BY ServiceAssumption
<1>1. FoundOnce'
  BY DEF Listing, FoundOnce
<1>2. ListedAtPath'
  BY DEF Listing, ListedAtPath, OthersKept
<1>3. ListedOnce'
  <2>1. ASSUME NEW i \in DOMAIN found', Unplaced(i)', NEW p \in Places
        PROVE  collections'[p] # found'[i]
    <3>1. i \in DOMAIN found /\ found'[i] = found[i] /\ found[i] \in Objects
      BY DEF TypeOK
    <3> QED
      BY <1>0, <2>1, <3>1 DEF Listing, ListedOnce
  <2>2. ASSUME NEW u \in Workers, pc'[u] \in {"at", "insert"}
        PROVE  object'[loc'[u].obj].path[1] = PathOf[loc'[u].name]
    BY <2>2 DEF Listing, ListedOnce, OnlyMoves, OthersKept
  <2>3. ASSUME NEW u \in Workers, pc'[u] = "insert", NEW p \in Places
        PROVE  collections'[p] # loc'[u].obj
    <3>1. collections[p] # loc'[u].obj
      BY <2>3 DEF Listing, ListedOnce, OnlyMoves
    <3> QED
      BY <1>0, <2>3, <3>1
  <2> QED
    BY <2>1, <2>2, <2>3 DEF ListedOnce
<1> QED
  BY <1>1, <1>2, <1>3 DEF Listing

\* Only Boot changes what is early.
LEMMA UnplacedKept ==
  ASSUME NEW w \in Workers, OnlyMoves(w), Boot \in Workers,
         loc'[w].op = "boot" =>
           loc[w].op = "boot" /\ pc[w] \in MigrationAt /\ pc'[w] \in MigrationAt
  PROVE  \A i : Unplaced(i)' => Unplaced(i)
<1>1. CASE w = Boot
  BY <1>1 DEF Unplaced, Early, MigrationAt
<1>2. CASE w # Boot
  BY <1>2 DEF Unplaced, Early, OnlyMoves
<1> QED
  BY <1>1, <1>2

\* A step that changes no path, and takes w nowhere near the list.
LEMMA ListingFar ==
  ASSUME IInv, NEW w \in Workers, OnlyMoves(w), OthersKept(w), UNCHANGED found, WorkersFit',
         \A p \in Places : collections'[p] \in {collections[p], NoObject},
         pc'[w] \notin {"at", "insert"},
         loc'[w].op = "boot" =>
           loc[w].op = "boot" /\ pc[w] \in MigrationAt /\ pc'[w] \in MigrationAt
  PROVE  Listing'
<1>1. Listing /\ TypeOK /\ Boot \in Workers
  BY DEF IInv, Workers
<1>2. \A i : Unplaced(i)' => Unplaced(i)
  BY <1>1, UnplacedKept
<1>3. \A u \in Workers : pc'[u] = "insert" => loc'[u].obj \in Objects
  BY DEF WorkersFit, Fits, SharedAt
<1> QED
  BY <1>1, <1>2, <1>3, ListingKept

LEMMA CallListing ==
  ASSUME IInv, NEW t \in Tasks, Call(t), WorkerTypes', WorkersFit'
  PROVE  Listing'
<1>1. /\ TypeOK /\ WorkerTypes /\ WorkersFit /\ Listing /\ t \in Workers /\ t # Boot
      /\ Boot \in Workers
  BY ServiceAssumption DEF IInv, TypeOK, WorkerTypes, Control, Workers
<1>2. AllSame
  BY <1>1, CallSame
<1>3. UNCHANGED <<collections, found>>
  BY DEF Call, OpenSession, Create, Unlock, Lock, SetAlias, Store, Delete, Pam, busVars
<1>4. OthersKept(t)
  BY <1>1, <1>2, SameKept
<1>5. \/ UNCHANGED <<pc, loc>>
      \/ pc'[t] \in {"idle", "open", "write", "look", "unserve", "pamLock"} /\ OnlyMoves(t)
  BY <1>1, GotoGoes DEF Call, OpenSession, Create, Unlock, Lock, SetAlias, Store, Delete, Pam,
     Panic, End
<1>6. loc'[t].op # "boot"
  BY <1>1 DEF WorkersFit, Fits
<1>7. CASE UNCHANGED <<pc, loc>>
  <2>1. /\ \A u \in Workers : pc'[u] = pc[u] /\ loc'[u] = loc[u]
        /\ \A i : Unplaced(i)' <=> Unplaced(i)
    BY <1>7 DEF Unplaced, Early
  <2>2. OnlyMoves(t)
    BY <2>1 DEF OnlyMoves
  <2>3. pc'[t] \in {"at", "insert"} => object'[loc'[t].obj].path[1] = PathOf[loc'[t].name]
    BY <1>1, <1>2, <2>1, SameKept DEF Listing, ListedOnce
  <2>4. pc'[t] = "insert" => \A p \in Places : collections[p] # loc'[t].obj
    BY <1>1, <2>1 DEF Listing, ListedOnce
  <2>5. \A u \in Workers : pc'[u] = "insert" => loc'[u].obj \in Objects
    BY DEF WorkersFit, Fits, SharedAt
  <2> QED
    BY <1>1, <1>3, <1>4, <2>1, <2>2, <2>3, <2>4, <2>5, ListingKept
<1>8. CASE pc'[t] \in {"idle", "open", "write", "look", "unserve", "pamLock"} /\ OnlyMoves(t)
  BY <1>1, <1>3, <1>4, <1>6, <1>8, ListingFar
<1> QED
  BY <1>5, <1>7, <1>8

LEMMA TryingAllListing ==
  ASSUME IInv, NEW w \in Workers, TryingAll(w) \/ Look(w) \/ FindPending(w) \/ SetLocked(w) \/ Forget(w),
         WorkerTypes', WorkersFit'
  PROVE  Listing'
<1> DEFINE l == loc[w]
<1>1. /\ TypeOK /\ WorkerTypes /\ WorkersFit /\ l \in Local /\ Fits(w, pc[w], l)
  BY DEF IInv, TypeOK, WorkerTypes, Control, WorkersFit
<1>2. AllSame
  BY <1>1, TryingSame, SameUnchanged DEF Look, FindPending, Forget
<1>3. UNCHANGED <<collections, found>>
  BY DEF TryingAll, PamLock, PamNext, PamDone, UnlockAll, Look, FindPending, SetLocked, Forget, busVars
<1>4. \/ End(w)
      \/ \E label \in {"pamNext", "open", "unlockAll", "pending", "setLocked"} : \E x :
           Goto(w, label, x) /\ x.op = l.op
  <2>1. CASE End(w)
    BY <2>1
  <2>2. CASE PamLock(w)
    <3> DEFINE x == [l EXCEPT !.todo = {n \in Names : pending[n] # "none"}]
    <3>1. x.op = l.op
      BY <1>1 DEF Local
    <3>2. Goto(w, "pamNext", x)
      BY <2>2 DEF PamLock
    <3> QED
      BY <3>1, <3>2
  <2>3. CASE PamNext(w)
    <3>1. PICK n : Goto(w, "open", [l EXCEPT !.todo = @ \ {n}, !.name = n, !.kind = pending[n]])
      BY <2>3 DEF PamNext
    <3> DEFINE x == [l EXCEPT !.todo = @ \ {n}, !.name = n, !.kind = pending[n]]
    <3>2. x.op = l.op
      BY <1>1 DEF Local
    <3> QED
      BY <3>1, <3>2
  <2>4. CASE PamDone(w)
    BY <2>4 DEF PamDone
  <2>5. CASE Look(w) /\ ~End(w)
    <3> DEFINE o == collections[l.path]
               x == [l EXCEPT !.target = o, !.name = object[o].name]
    <3>1. x.op = l.op
      BY <1>1 DEF Local
    <3>2. Goto(w, "pending", x)
      BY <2>5 DEF Look
    <3> QED
      BY <3>1, <3>2
  <2>6. CASE FindPending(w)
    <3> DEFINE x == [l EXCEPT !.kind = pending[l.name]]
    <3>1. x.op = l.op
      BY <1>1 DEF Local
    <3>2. Goto(w, "setLocked", l) \/ Goto(w, "open", x)
      BY <2>6 DEF FindPending, AfterPending
    <3> QED
      BY <3>1, <3>2
  <2> QED
    BY <2>1, <2>2, <2>3, <2>4, <2>5, <2>6 DEF TryingAll, UnlockAll, SetLocked, Forget
<1>5. l.op # "boot"
  BY <1>1 DEF TryingAll, PamLock, PamNext, PamDone, UnlockAll, Look, FindPending, SetLocked,
     Forget, Fits, OpsAt
<1>6. OnlyMoves(w) /\ pc'[w] \notin {"at", "insert"} /\ loc'[w].op # "boot"
  <2>1. Blank.op = "none"
    BY DEF Blank
  <2>2. CASE End(w)
    BY <1>1, <2>1, <2>2, EndGoes
  <2>3. CASE ~End(w)
    <3>1. PICK label \in {"pamNext", "open", "unlockAll", "pending", "setLocked"} :
            \E x : Goto(w, label, x) /\ x.op = l.op
      BY <1>4, <2>3
    <3>2. PICK x : Goto(w, label, x) /\ x.op = l.op
      BY <3>1
    <3> QED
      BY <1>1, <1>5, <3>1, <3>2, GotoGoes
  <2> QED
    BY <2>2, <2>3
<1>7. OthersKept(w)
  BY <1>1, <1>2, SameKept
<1> QED
  BY <1>3, <1>6, <1>7, ListingFar

LEMMA ReplaceKeyringListing ==
  ASSUME IInv, NEW w \in Workers, ReplaceKeyring(w), WorkerTypes', WorkersFit'
  PROVE  Listing'
<1> DEFINE l == loc[w]
           kr == object[l.obj]
           tg == object[l.target]
           new == [tg EXCEPT !.locked = FALSE, !.secret = kr.secret, !.items = kr.items,
                             !.time = kr.time]
           x == [l EXCEPT !.obj = NoObject]
<1>1. /\ TypeOK /\ WorkerTypes /\ WorkersFit /\ Ownership /\ l \in Local
      /\ Fits(w, pc[w], l) /\ Objectful
  BY DEF IInv, TypeOK, WorkerTypes, Control, Objectful, WorkersFit
<1>2. pc[w] = "migrated" /\ l.op = "unlock" /\ l.obj \in Objects /\ l.target \in Objects
  BY <1>1 DEF ReplaceKeyring, Fits, OwnAt
<1>3. object' = [object EXCEPT ![l.target] = new, ![l.obj] = NoCollection]
  BY <1>1, <1>2 DEF ReplaceKeyring, Objectful
<1>4. Same(tg, new)
  <2>1. tg \in Object
    BY <1>1, <1>2 DEF Objectful
  <2> HIDE DEF tg, kr
  <2> QED
    BY <2>1 DEF Object, Same
<1> HIDE DEF new
<1>5. \A o \in Objects \ {l.obj} : Same(object[o], object'[o])
  BY <1>1, <1>2, <1>3, <1>4 DEF Objectful, Same
<1>6. Owns(w, l.obj)
  BY <1>2 DEF Owns, OwnAt
<1>7. OthersKept(w)
  BY <1>1, <1>2, <1>5, <1>6, OneKept
<1>8. Goto(w, "forget", x)
  BY DEF ReplaceKeyring
<1>9. x.op = "unlock"
  BY <1>1, <1>2 DEF Local
<1> HIDE DEF x
<1>10. pc'[w] = "forget" /\ loc'[w] = x /\ OnlyMoves(w)
  BY <1>1, <1>8, GotoGoes
<1>11. UNCHANGED <<collections, found>>
  BY DEF ReplaceKeyring, busVars
<1> QED
  BY <1>1, <1>7, <1>9, <1>10, <1>11, ListingFar

LEMMA TaskListing ==
  ASSUME IInv, NEW t \in Tasks, CreateFails(t) \/ Unserve(t) \/ Remove(t),
         WorkerTypes', WorkersFit'
  PROVE  Listing'
<1> DEFINE l == loc[t]
<1>1. /\ TypeOK /\ WorkerTypes /\ WorkersFit /\ t \in Workers /\ t # Boot
  BY ServiceAssumption DEF IInv, TypeOK, WorkerTypes, Control, Workers
<1>2. UNCHANGED <<object, found>>
  BY DEF CreateFails, Unserve, Remove
<1>3. OthersKept(t)
  BY <1>1, <1>2, SameUnchanged, SameKept
<1>4. \A p \in Places : collections'[p] \in {collections[p], NoObject}
  BY <1>1 DEF CreateFails, Unserve, Remove, busVars, TypeOK
<1>5. pc'[t] \in {"idle", "remove"} /\ OnlyMoves(t)
  BY <1>1, GotoGoes DEF CreateFails, Unserve, Remove, End
<1>6. loc'[t].op # "boot"
  BY <1>1 DEF WorkersFit, Fits
<1> QED
  BY <1>1, <1>2, <1>3, <1>4, <1>5, <1>6, ListingFar

LEMMA MigratingListing ==
  ASSUME IInv, NEW w \in Workers, Migrating(w), WorkerTypes', WorkersFit'
  PROVE  Listing'
<1> DEFINE l == loc[w]
<1>1. /\ TypeOK /\ WorkerTypes /\ WorkersFit /\ Ownership /\ l \in Local
      /\ Fits(w, pc[w], l) /\ Objectful
  BY DEF IInv, TypeOK, WorkerTypes, Control, Objectful, WorkersFit
<1>2. UNCHANGED <<collections, found>>
  BY DEF Migrating, Open, Stamp, busVars
<1>3. pc[w] \in {"open", "stamp"}
  BY DEF Migrating, Open, Stamp
<1>4. ASSUME NEW label \in {"write", "migrated", "refused"}, NEW x,
             Goto(w, label, x), x.op = l.op, OthersKept(w)
      PROVE  Listing'
  <2>1. pc'[w] = label /\ loc'[w] = x /\ OnlyMoves(w)
    BY <1>1, <1>4, GotoGoes
  <2>2. loc'[w].op = "boot" => l.op = "boot" /\ pc[w] \in MigrationAt /\ pc'[w] \in MigrationAt
    BY <1>3, <1>4, <2>1 DEF MigrationAt
  <2> QED
    BY <1>1, <1>2, <1>4, <2>1, <2>2, ListingFar
<1>5. CASE Open(w)
  <2>1. Next1 \in Objects /\ ~object[Next1].used
    BY <1>5, NextIsFresh DEF Open
  <2> DEFINE kr == IF l.op = "create" THEN Opened(l.name, l.secret)
                                      ELSE Migrated(l.kind, l.name, l.secret)
             x == [l EXCEPT !.obj = Next1]
  <2>2. CASE object' = [object EXCEPT ![Next1] = kr] /\ Goto(w, "write", x)
    <3> HIDE DEF kr
    <3>1. \A o \in Objects \ {Next1} : Same(object[o], object'[o])
      BY <1>1, <2>1, <2>2 DEF Objectful, Same
    <3>2. OthersKept(w)
      BY <1>1, <2>1, <3>1, OneKept
    <3>3. x.op = l.op
      BY <1>1 DEF Local
    <3> HIDE DEF x
    <3> QED
      BY <1>4, <2>2, <3>2, <3>3
  <2>3. CASE Goto(w, "refused", l) /\ UNCHANGED object
    <3>1. OthersKept(w)
      BY <1>1, <2>3, SameUnchanged, SameKept
    <3> QED
      BY <1>4, <2>3, <3>1
  <2> QED
    BY <1>5, <2>2, <2>3 DEF Open
<1>7. CASE Stamp(w)
  <2>1. UNCHANGED object /\ Goto(w, "migrated", l)
    BY <1>7 DEF Stamp
  <2>2. OthersKept(w)
    BY <1>1, <2>1, SameUnchanged, SameKept
  <2> QED
    BY <1>4, <2>1, <2>2
<1> QED
  BY <1>5, <1>7 DEF Migrating

LEMMA WritingListing ==
  ASSUME IInv, NEW w \in Workers, Writing(w), WorkerTypes', WorkersFit'
  PROVE  Listing'
<1> DEFINE l == loc[w]
<1>1. /\ TypeOK /\ WorkerTypes /\ WorkersFit /\ Ownership /\ l \in Local
      /\ Fits(w, pc[w], l) /\ Objectful
  BY DEF IInv, TypeOK, WorkerTypes, Control, Objectful, WorkersFit
<1>2. /\ pc[w] \in WritingAt /\ UNCHANGED <<collections, found>>
      /\ l.op # "store" => l.obj \in Objects
  BY <1>1, WritingGoes
<1>3. ASSUME NEW label, NEW x, Goto(w, label, x), x.op \in {l.op, "none"}, OthersKept(w),
             label \in {"idle", "rename", "refresh", "stamp", "label", "refused"},
             label = "label" => l.op = "create"
      PROVE  Listing'
  <2>1. pc'[w] = label /\ loc'[w] = x /\ OnlyMoves(w)
    BY <1>1, <1>3, GotoGoes
  <2>2. label = "idle" => x.op # "boot"
    BY <1>1, <1>3, <2>1 DEF WorkersFit, Fits, OpsAt
  <2>3. loc'[w].op = "boot" => l.op = "boot" /\ pc[w] \in MigrationAt /\ pc'[w] \in MigrationAt
    BY <1>2, <1>3, <2>1, <2>2 DEF MigrationAt, WritingAt
  <2> QED
    BY <1>1, <1>2, <1>3, <2>1, <2>3, ListingFar
<1>4. CASE End(w) /\ AllSame
  <2>1. Blank.op = "none"
    BY DEF Blank
  <2> QED
    BY <1>1, <1>3, <1>4, <2>1, SameKept DEF End
<1>5. CASE l.op # "store" /\ Unwritten(w)
  <2> DEFINE x == [l EXCEPT !.obj = NoObject]
  <2>1. Goto(w, "refused", x) /\ object' = [object EXCEPT ![l.obj] = NoCollection]
    BY <1>5 DEF Unwritten
  <2>2. x.op = l.op
    BY <1>1 DEF Local
  <2> HIDE DEF x
  <2>3. \A o \in Objects \ {l.obj} : Same(object[o], object'[o])
    BY <1>1, <1>2, <1>5, <2>1 DEF Objectful, Same
  <2>4. Owns(w, l.obj) /\ l.obj \in Objects
    BY <1>2, <1>5 DEF Owns, OwnAt, WritingAt
  <2>5. OthersKept(w)
    BY <1>1, <2>3, <2>4, OneKept
  <2> QED
    BY <1>3, <2>1, <2>2, <2>5
<1>6. CASE GoesOn(w) /\ AllSame
  BY <1>1, <1>3, <1>6, SameKept DEF GoesOn, OpsAt
<1> QED
  BY <1>1, <1>4, <1>5, <1>6, WritingGoes, KeptIsSame

LEMMA AddingListing ==
  ASSUME IInv, NEW w \in Workers, Adding(w), WorkerTypes', WorkersFit'
  PROVE  Listing'
<1> DEFINE l == loc[w]
<1>1. /\ TypeOK /\ WorkerTypes /\ WorkersFit /\ Ownership /\ Listing /\ l \in Local
      /\ Fits(w, pc[w], l) /\ Objectful /\ Boot \in Workers
  BY DEF IInv, TypeOK, WorkerTypes, Control, Objectful, WorkersFit, Workers
<1>2. l.op \in {"create", "pam"} /\ UNCHANGED found
  BY <1>1 DEF Adding, Label, ServeAt, Insert, ServeDefault, Fits, OpsAt
<1>3. \A u \in Workers : pc'[u] = "insert" => loc'[u].obj \in Objects
  BY DEF WorkersFit, Fits, SharedAt
<1>4. CASE Label(w)
  <2>1. l.obj \in Objects /\ Owns(w, l.obj) /\ \A p \in Places : collections[p] # l.obj
    BY <1>4, LabelPlaces
  <2>2. PICK alias \in AliasNames : object' = Placed(l.obj, alias)
    BY <1>4, LabelPlaces
  <2> DEFINE o == l.obj
  <2>3. /\ \A q \in Objects : q # o => object'[q] = object[q]
        /\ \E k : object'[o].path = <<PathOf[object[o].name], k>>
    BY <1>1, <2>1, <2>2, PlacedType, InOnePlace DEF Listing
  <2>4. object'[o].path[1] = PathOf[l.name]
    <3>1. object[o].name = l.name
      BY <1>1, <2>1 DEF Ownership, OwnIsOwn
    <3> QED
      BY <2>3, <3>1
  <2>5. OthersKept(w)
    BY <1>1, <2>1, <2>3, OneKept DEF Same
  <2>6. pc'[w] = "at" /\ loc'[w] = l /\ OnlyMoves(w)
    BY <1>1, <1>4, GotoGoes DEF Label
  <2>7. \A i : Unplaced(i)' => Unplaced(i)
    BY <1>1, <1>2, <2>6, UnplacedKept
  <2>8. UNCHANGED collections
    BY <1>4 DEF Label, busVars
  <2> QED
    BY <1>1, <1>2, <1>3, <2>4, <2>5, <2>6, <2>7, <2>8, ListingKept
<1>5. CASE ServeAt(w)
  <2>1. pc[w] = "at" /\ l.obj \in Objects /\ Owns(w, l.obj)
    BY <1>1, <1>5 DEF ServeAt, Fits, OwnAt, Owns
  <2>2. UNCHANGED collections
    BY <1>5 DEF ServeAt
  <2>3. CASE Panic(w) /\ object' = [object EXCEPT ![l.obj] = NoCollection]
    <3>1. pc'[w] = "idle" /\ loc'[w] = Blank /\ OnlyMoves(w)
      BY <1>1, <2>3, EndGoes DEF Panic
    <3>2. loc'[w].op # "boot"
      BY <3>1 DEF Blank
    <3>3. \A o \in Objects \ {l.obj} : Same(object[o], object'[o])
      BY <1>1, <2>1, <2>3 DEF Objectful, Same
    <3>4. OthersKept(w)
      BY <1>1, <2>1, <3>3, OneKept
    <3> QED
      BY <1>1, <1>2, <2>2, <3>1, <3>2, <3>4, ListingFar
  <2>4. CASE Goto(w, "insert", l) /\ UNCHANGED object
    <3>1. pc'[w] = "insert" /\ loc'[w] = l /\ OnlyMoves(w)
      BY <1>1, <2>4, GotoGoes
    <3>2. OthersKept(w)
      BY <1>1, <2>4, SameUnchanged, SameKept
    <3>3. object[l.obj].path[1] = PathOf[l.name]
      BY <1>1, <2>1 DEF Listing, ListedOnce
    <3>4. \A p \in Places : collections[p] # l.obj
      BY <1>1, <2>1 DEF Ownership, OwnIsOwn, Known
    <3>5. \A i : Unplaced(i)' => Unplaced(i)
      BY <1>1, <1>2, <3>1, UnplacedKept
    <3> QED
      BY <1>1, <1>2, <1>3, <2>2, <2>4, <3>1, <3>2, <3>3, <3>4, <3>5, ListingKept
  <2> QED
    BY <1>5, <2>3, <2>4 DEF ServeAt
<1>6. CASE Insert(w)
  <2> DEFINE o == l.obj
             at == object[o].path
  <2>1. pc[w] = "insert" /\ o \in Objects /\ UNCHANGED object
    BY <1>1, <1>6 DEF Insert, Fits, SharedAt
  <2>2. at \in Places /\ at[1] = PathOf[object[o].name]
    <3>1. object[o].name = l.name
      BY <1>1, <2>1 DEF Ownership, HeldAreNamed, SharedAt
    <3>2. at[1] = PathOf[l.name]
      BY <1>1, <2>1 DEF Listing, ListedOnce
    <3>3. object[o] \in Object
      BY <1>1, <2>1 DEF Objectful
    <3> QED
      BY <3>1, <3>2, <3>3 DEF Object
  <2>3. \A p \in Places : collections'[p] = IF p = at THEN o ELSE collections[p]
    BY <1>1, <1>6, <2>2 DEF Insert, TypeOK
  <2>4. OnlyMoves(w) /\ pc'[w] \in {"idle", "serveDefault"} /\ loc'[w] \in {Blank, l}
    BY <1>1, <1>6, GotoGoes DEF Insert, End
  <2>5. loc'[w].op # "boot"
    BY <1>2, <2>4 DEF Blank
  <2>6. \A i : Unplaced(i)' => Unplaced(i)
    BY <1>1, <2>4, <2>5, UnplacedKept
  <2>7. FoundOnce'
    BY <1>1, <1>2 DEF Listing, FoundOnce
  <2>8. ListedAtPath'
    BY <1>1, <2>1, <2>2, <2>3 DEF Listing, ListedAtPath
  <2>9. ASSUME NEW i \in DOMAIN found', Unplaced(i)', NEW p \in Places
        PROVE  collections'[p] # found'[i]
    <3>1. found[i] # o
      BY <1>1, <1>2, <2>1, <2>9 DEF Ownership, HeldAreNamed, SharedAt
    <3>2. collections[p] # found[i]
      BY <1>1, <1>2, <2>6, <2>9 DEF Listing, ListedOnce
    <3> QED
      BY <1>2, <2>3, <3>1, <3>2
  <2>10. ASSUME NEW u \in Workers, pc'[u] \in {"at", "insert"}
         PROVE  /\ object'[loc'[u].obj].path[1] = PathOf[loc'[u].name]
                /\ pc'[u] = "insert" => \A p \in Places : collections'[p] # loc'[u].obj
    <3>1. u # w /\ pc'[u] = pc[u] /\ loc'[u] = loc[u]
      BY <2>4, <2>10 DEF OnlyMoves
    <3>2. object[loc[u].obj].path[1] = PathOf[loc[u].name]
      BY <1>1, <2>10, <3>1 DEF Listing, ListedOnce
    <3>3. pc[u] = "insert" => loc[u].obj # o /\ \A p \in Places : collections[p] # loc[u].obj
      BY <1>1, <2>1, <3>1 DEF Listing, ListedOnce, Ownership, HeldAreNamed, SharedAt
    <3> QED
      BY <2>1, <2>3, <3>1, <3>2, <3>3
  <2> QED
    BY <2>7, <2>8, <2>9, <2>10 DEF Listing, ListedOnce
<1>7. CASE ServeDefault(w)
  <2> DEFINE done == l.done \cup {l.name}
             x == [l EXCEPT !.obj = NoObject, !.done = done]
  <2>1. Goto(w, "pamNext", x)
    BY <1>7 DEF ServeDefault
  <2>2. x.op = l.op
    BY <1>1 DEF Local
  <2> HIDE DEF x
  <2>3. pc'[w] = "pamNext" /\ loc'[w] = x /\ OnlyMoves(w)
    BY <1>1, <2>1, GotoGoes
  <2>4. UNCHANGED <<object, collections>>
    BY <1>7 DEF ServeDefault
  <2>5. OthersKept(w)
    BY <1>1, <2>4, SameUnchanged, SameKept
  <2> QED
    BY <1>1, <1>2, <2>2, <2>3, <2>4, <2>5, ListingFar
<1> QED
  BY <1>4, <1>5, <1>6, <1>7 DEF Adding

\* A keyring that nobody lists is found.
LEMMA ListingFound ==
  ASSUME Listing, TypeOK, Boot \in Workers, OnlyMoves(Boot), OthersKept(Boot), WorkersFit',
         NEW k \in Objects, found' = Append(found, k), UNCHANGED collections,
         \A i \in DOMAIN found : found[i] # k, \A p \in Places : collections[p] # k,
         \A i \in DOMAIN found : Unplaced(i)' => Unplaced(i),
         pc'[Boot] \notin {"at", "insert"}
  PROVE  Listing'
<1>1. /\ DOMAIN found' = DOMAIN found \cup {Len(found) + 1}
      /\ found'[Len(found) + 1] = k
      /\ \A i \in DOMAIN found : found'[i] = found[i] /\ i # Len(found) + 1
  BY DEF TypeOK
<1>2. FoundOnce'
  BY <1>1 DEF Listing, FoundOnce
<1>3. ListedAtPath'
  BY DEF Listing, ListedAtPath, OthersKept
<1>4. \A i \in DOMAIN found' : Unplaced(i)' => \A p \in Places : collections'[p] # found'[i]
  BY <1>1 DEF Listing, ListedOnce
<1>5. ASSUME NEW u \in Workers, pc'[u] \in {"at", "insert"}
      PROVE  /\ object'[loc'[u].obj].path[1] = PathOf[loc'[u].name]
             /\ pc'[u] = "insert" => \A p \in Places : collections'[p] # loc'[u].obj
  BY <1>5 DEF Listing, ListedOnce, OnlyMoves, OthersKept
<1> QED
  BY <1>2, <1>3, <1>4, <1>5 DEF Listing, ListedOnce

LEMMA BootingListing ==
  ASSUME IInv, Start \/ (Booting /\ ~GiveUp), WorkerTypes', WorkersFit'
  PROVE  Listing'
<1> DEFINE l == loc[Boot]
<1>1. /\ TypeOK /\ WorkerTypes /\ WorkersFit /\ Ownership /\ Listing /\ Objectful
      /\ Boot \in Workers /\ Control
  BY DEF IInv, TypeOK, WorkerTypes, Control, Objectful, Workers
<1>2. OnlyMoves(Boot) /\ pc'[Boot] \notin {"at", "insert"}
  BY <1>1, BootingGoes DEF OwnAt, SharedAt
<1>3. l \in Local /\ Fits(Boot, pc[Boot], l)
  BY <1>1 DEF WorkerTypes, WorkersFit
<1>4. ASSUME l.op = "boot", pc[Boot] \notin {"place", "serve", "replay"}
      PROVE  \A i : Unplaced(i)
  BY <1>4 DEF Unplaced, Early
<1>5. \A u \in Workers : pc'[u] = "insert" => loc'[u].obj \in Objects
  BY DEF WorkersFit, Fits, SharedAt
<1>6. CASE ScanV1 \/ PutOff \/ (Register /\ ~HasDefault)
  <2> DEFINE k == Next1
  <2>1. PICK n \in Names, y \in Object, kind \in {"v1", "v0", "kwallet"} :
          object' = [object EXCEPT ![k] = Found(y, kind)]
    BY <1>6, FoundNew
  <2>2. k \in Objects /\ ~object[k].used /\ found' = Append(found, k)
    BY <1>6, FoundNew
  <2> HIDE DEF k
  <2>3. \A o \in Objects \ {k} : Same(object[o], object'[o])
    BY <1>1, <2>1, <2>2 DEF Objectful, Same
  <2>4. OthersKept(Boot)
    BY <1>1, <2>2, <2>3, OneKept
  <2>5. ~Known(k)
    BY <1>1, <2>2 DEF Ownership, KnownAreUsed
  <2>6. \A i : Unplaced(i)
    BY <1>3, <1>4, <1>6 DEF ScanV1, PutOff, Register, Fits, OpsAt
  <2>7. UNCHANGED collections
    BY <1>6 DEF ScanV1, PutOff, Register, busVars
  <2> QED
    BY <1>1, <1>2, <2>2, <2>4, <2>5, <2>6, <2>7, ListingFound DEF Known
<1>7. CASE Discovered
  <2>1. l.obj \in Objects /\ Owns(Boot, l.obj) /\ l.op = "boot" /\ pc[Boot] = "migrated"
    BY <1>3, <1>7 DEF Discovered, Fits, OwnAt, Owns
  <2>2. /\ object' = [object EXCEPT ![l.obj] = Found(object[l.obj], l.kind)]
        /\ found' = Append(found, l.obj)
    BY <1>1, <1>7, <2>1 DEF Discovered, Objectful
  <2>3. \A o \in Objects \ {l.obj} : Same(object[o], object'[o])
    BY <1>1, <2>1, <2>2 DEF Objectful, Same
  <2>4. OthersKept(Boot)
    BY <1>1, <2>1, <2>3, OneKept
  <2>5. ~Known(l.obj)
    BY <1>1, <2>1 DEF Ownership, OwnIsOwn
  <2>6. \A i : Unplaced(i)
    BY <1>4, <2>1
  <2>7. UNCHANGED collections
    BY <1>7 DEF Discovered, busVars
  <2> QED
    BY <1>1, <1>2, <2>1, <2>2, <2>4, <2>5, <2>6, <2>7, ListingFound DEF Known
<1>8. ASSUME UNCHANGED <<object, collections, found>>,
             \A i \in DOMAIN found : Unplaced(i)' => Unplaced(i)
      PROVE  Listing'
  <2>1. OthersKept(Boot)
    BY <1>1, <1>8, SameUnchanged, SameKept
  <2> QED
    BY <1>1, <1>2, <1>5, <1>8, <2>1, ListingKept
<1>9. CASE Start
  <2>1. found = <<>> /\ UNCHANGED <<object, collections, found>>
    BY <1>1, <1>9 DEF Start, Control, BootSteps, busVars
  <2> QED
    BY <1>8, <2>1
<1>10. CASE NextScan \/ ScanLegacy \/ Connect \/ (Register /\ HasDefault)
  <2>1. \A i : Unplaced(i)
    BY <1>3, <1>4, <1>10 DEF NextScan, ScanLegacy, Connect, Register, Fits, OpsAt
  <2>2. UNCHANGED <<object, collections, found>>
    BY <1>10 DEF NextScan, ScanLegacy, Connect, Register, busVars
  <2> QED
    BY <1>8, <2>1, <2>2
<1>11. CASE Serve \/ Replay
  <2>1. pc'[Boot] \in {"serve", "replay"} \/ loc'[Boot].op # "boot"
    <3>1. CASE Serve
      <4>1. PICK label \in {"serve", "replay"} : \E x : Goto(Boot, label, x)
        BY <3>1 DEF Serve
      <4>2. PICK x : Goto(Boot, label, x)
        BY <4>1
      <4> QED
        BY <1>1, <4>2, GotoGoes
    <3>2. CASE Replay
      <4> DEFINE y == [Blank EXCEPT !.op = "pam", !.secret = userSecret]
      <4>1. Blank.op = "none" /\ y.op = "pam"
        BY DEF Blank
      <4>2. Goto(Boot, "idle", Blank) \/ Goto(Boot, "pamLock", y)
        BY <3>2 DEF Replay, End
      <4> HIDE DEF y
      <4>3. loc'[Boot] \in {Blank, y}
        BY <1>1, <4>2, GotoGoes
      <4> QED
        BY <4>1, <4>3
    <3> QED
      BY <1>11, <3>1, <3>2
  <2>2. \A i : ~Unplaced(i)'
    BY <2>1 DEF Unplaced, Early
  <2>3. UNCHANGED <<object, collections, found>>
    BY <1>11 DEF Serve, Replay, busVars
  <2> QED
    BY <1>8, <2>2, <2>3
<1>12. CASE Place /\ l.index > Len(found)
  <2>1. UNCHANGED <<object, collections, found>>
    BY <1>12 DEF Place
  <2>2. pc'[Boot] = "serve"
    BY <1>1, <1>12, GotoGoes DEF Place
  <2>3. \A i : ~Unplaced(i)'
    BY <2>2 DEF Unplaced, Early
  <2> QED
    BY <1>8, <2>1, <2>3
<1>13. CASE Place /\ ~(l.index > Len(found))
  <2> DEFINE i == l.index
             o == found[i]
             alias == object[o].alias[1]
             at == object'[o].path
             x == [l EXCEPT !.index = i + 1]
  <2>1. /\ i \in DOMAIN found /\ o \in Objects /\ \A p \in Places : collections[p] # o
        /\ alias \in AliasNames /\ object' = Placed(o, alias)
        /\ collections' = [collections EXCEPT ![at] = o]
    BY <1>13, PlacePlaces
  <2>2. Known(o)
    BY <2>1 DEF Known
  <2>3. UNCHANGED found /\ pc[Boot] = "place" /\ Goto(Boot, "place", x)
    BY <1>13 DEF Place
  <2>4. l.op = "boot" /\ x.index = i + 1 /\ i \in Nat
    BY <1>3, <2>3, Counted DEF Fits, OpsAt, Local
  <2> HIDE DEF o, alias, x
  <2>5. /\ \A q \in Objects : q # o => object'[q] = object[q]
        /\ object'[o].name = object[o].name /\ at \in Places
        /\ \E k : at = <<PathOf[object[o].name], k>>
    BY <1>1, <2>1, PlacedType, InOnePlace DEF Listing
  <2> HIDE DEF at
  <2>6. pc'[Boot] = "place" /\ loc'[Boot] = x
    BY <1>1, <2>3, GotoGoes
  <2>7. \A p \in Places : collections'[p] = IF p = at THEN o ELSE collections[p]
    BY <1>1, <2>1, <2>5 DEF TypeOK
  <2>8. FoundOnce'
    BY <1>1, <2>3 DEF Listing, FoundOnce
  <2>9. ListedAtPath'
    <3>1. at[1] = PathOf[object'[o].name]
      BY <2>5
    <3>2. ASSUME NEW p \in Places, p # at, collections[p] # NoObject
          PROVE  object'[collections[p]] = object[collections[p]]
      BY <1>1, <2>1, <2>5, <3>2 DEF TypeOK
    <3>3. ASSUME NEW p \in Places, collections'[p] # NoObject
          PROVE  /\ object'[collections'[p]].path = p
                 /\ p[1] = PathOf[object'[collections'[p]].name]
      <4>1. CASE p = at
        BY <2>7, <3>1, <4>1 DEF at
      <4>2. CASE p # at
        BY <1>1, <2>7, <3>2, <3>3, <4>2 DEF Listing, ListedAtPath
      <4> QED
        BY <4>1, <4>2
    <3> QED
      BY <3>3 DEF ListedAtPath
  <2>10. ASSUME NEW j \in DOMAIN found', Unplaced(j)', NEW p \in Places
         PROVE  collections'[p] # found'[j]
    <3>1. j \in DOMAIN found /\ j \in Nat /\ found'[j] = found[j]
      BY <1>1, <2>3, <2>10 DEF TypeOK
    <3>2. j >= i + 1
      BY <2>4, <2>6, <2>10 DEF Unplaced
    <3>3. found[j] # o
      BY <1>1, <2>1, <2>4, <3>1, <3>2 DEF Listing, FoundOnce, o
    <3>4. Unplaced(j)
      BY <2>3, <2>4, <3>1, <3>2 DEF Unplaced, Early
    <3>5. collections[p] # found[j]
      BY <1>1, <3>1, <3>4 DEF Listing, ListedOnce
    <3> QED
      BY <2>7, <3>1, <3>3, <3>5
  <2>11. ASSUME NEW u \in Workers, pc'[u] \in {"at", "insert"}
         PROVE  /\ object'[loc'[u].obj].path[1] = PathOf[loc'[u].name]
                /\ pc'[u] = "insert" => \A p \in Places : collections'[p] # loc'[u].obj
    <3>1. u # Boot /\ pc'[u] = pc[u] /\ loc'[u] = loc[u]
      BY <2>6, <2>11, <1>2 DEF OnlyMoves
    <3>2. /\ object[loc[u].obj].path[1] = PathOf[loc[u].name]
          /\ pc[u] = "insert" => \A p \in Places : collections[p] # loc[u].obj
      BY <1>1, <2>11, <3>1 DEF Listing, ListedOnce
    <3>3. loc[u].obj \in Objects
      BY <1>1, <2>11, <3>1 DEF WorkersFit, Fits, OwnAt, SharedAt
    <3>4. loc[u].obj # o
      <4>1. CASE pc[u] = "at"
        <5>1. Owns(u, loc[u].obj)
          BY <4>1 DEF Owns, OwnAt
        <5> QED
          BY <1>1, <2>2, <3>3, <5>1 DEF Ownership, OwnIsOwn
      <4>2. CASE pc[u] = "insert"
        BY <1>1, <2>1, <4>2 DEF Ownership, HeldAreNamed, SharedAt, o
      <4> QED
        BY <2>11, <3>1, <4>1, <4>2
    <3> QED
      BY <2>5, <2>7, <3>1, <3>2, <3>3, <3>4
  <2> QED
    BY <2>8, <2>9, <2>10, <2>11 DEF Listing, ListedOnce
<1> QED
  BY <1>6, <1>7, <1>9, <1>10, <1>11, <1>12, <1>13 DEF Booting

-----------------------------------------------------------------------------
(* The invariant *)

\* Nothing is in memory yet.
Emptied ==
  /\ connected = FALSE
  /\ object = [o \in Objects |-> NoCollection] /\ found = <<>>
  /\ collections = [p \in Places |-> NoObject] /\ served = [p \in Places |-> NoObject]
  /\ defaultServed = NoObject
  /\ pending = [n \in Names |-> "none"]
  /\ pendingHolder = NoWorker /\ registryHolder = NoWorker
  /\ userSecret = NoSecret
  /\ pc = [w \in Workers |-> IF w = Boot THEN "down" ELSE "idle"]
  /\ loc = [w \in Workers |-> Blank]
  /\ placed = [s \in Sources |-> NoObject]
  /\ deletedAt = {}

\* What a crash leaves.
Remains ==
  /\ v1 \in [Names -> File] /\ stamped \subseteq Sources
  /\ moved \subseteq Sources /\ foreign \subseteq V0 /\ raced \subseteq Names
  /\ panicked \in BOOLEAN /\ budget \in Amounts

LEMMA EmptiedInv == Emptied /\ Remains => IInv
<1> SUFFICES ASSUME Emptied, Remains PROVE IInv
  OBVIOUS
<1>1. /\ Blank.op = "none" /\ Blank.target = NoObject /\ Blank.todo = {}
  BY DEF Blank
<1>2. /\ Boot \in Workers
      /\ \A w \in Workers : loc[w] = Blank /\ pc[w] = IF w = Boot THEN "down" ELSE "idle"
  BY DEF Emptied, Workers
<1>3. TypeOK
  <2>1. pc \in [Workers -> Labels] /\ loc \in [Workers -> Local]
    BY BlankType DEF Emptied, Labels
  <2>2. object \in [Objects -> Object]
    BY NoCollectionType DEF Emptied
  <2>3. /\ collections \in [Places -> Objects \cup {NoObject}]
        /\ served \in [Places -> Objects \cup {NoObject}]
        /\ defaultServed \in Objects \cup {NoObject}
        /\ placed \in [Sources -> Objects \cup {NoObject}]
    BY DEF Emptied
  <2>4. pending \in [Names -> {"none", "v0", "kwallet"}] /\ userSecret \in Answers
    BY DEF Emptied, Answers
  <2>5. found \in Seq(Objects)
    BY DEF Emptied
  <2> QED
    BY <2>1, <2>2, <2>3, <2>4, <2>5 DEF TypeOK, Emptied, Remains, Amounts
<1>4. WorkersFit
  BY <1>1, <1>2 DEF WorkersFit, Fits, OpsAt, OwnAt, SharedAt, MigrationAt
<1>5. TryingHolds
  BY <1>1, <1>2 DEF TryingHolds, Trying
<1>6. PendingSources /\ BootSteps
  BY <1>2 DEF PendingSources, BootSteps, Emptied
<1>7. DOMAIN found = {}
  BY DEF Emptied
<1>8. \A w \in Workers, o \in Objects : ~Owns(w, o) /\ ~Holds(w, o)
  BY <1>1, <1>2, ServiceAssumption DEF Owns, Holds, OwnAt, SharedAt
<1>9. \A o \in Objects : ~Known(o)
  BY <1>7, ServiceAssumption DEF Known, Emptied
<1>10. Ownership
  <2>1. HeldAreNamed
    BY <1>1, <1>2 DEF HeldAreNamed, SharedAt
  <2> QED
    BY <1>8, <1>9, <2>1 DEF Ownership, OwnIsOwn, KnownAreUsed
<1>11. Listing
  <2>1. ListedAtPath
    BY DEF ListedAtPath, Emptied
  <2> QED
    BY <1>2, <1>7, <2>1 DEF Listing, FoundOnce, ListedOnce
<1> QED
  BY <1>3, <1>4, <1>5, <1>6, <1>10, <1>11 DEF IInv, Control

\* The same of the next state.
LEMMA EmptiedNext == Emptied' /\ Remains' => IInv'
BY EmptiedInv, PTL

LEMMA ResetInv ==
  ASSUME IInv, Crash \/ GiveUp
  PROVE  IInv'
<1>1. Reset /\ budget' \in Amounts
  BY SpendType DEF Crash, GiveUp, IInv, TypeOK, Amounts
<1>2. Emptied'
  BY <1>1 DEF Reset, Emptied
<1>3. Remains'
  BY <1>1 DEF Reset, Remains, IInv, TypeOK
<1> QED
  BY <1>2, <1>3, EmptiedNext

LEMMA InitInv == Init => IInv
<1> SUFFICES ASSUME Init PROVE IInv
  OBVIOUS
<1>1. Emptied
  BY DEF Init, Emptied
<1>2. Remains
  BY ServiceAssumption DEF Init, Remains, Amounts
<1> QED
  BY <1>1, <1>2, EmptiedInv

\* Every step but one that resets is one of these.
Steps(w) ==
  \/ w \in Tasks /\ Call(w)
  \/ Migrating(w) \/ Writing(w) \/ Adding(w) \/ TryingAll(w)
  \/ w \in Tasks /\ (Unlocking(w) \/ CreateFails(w) \/ Unserve(w) \/ Remove(w))
  \/ w = Boot /\ (Start \/ (Booting /\ ~GiveUp))

LEMMA NextSteps ==
  ASSUME Next
  PROVE  Crash \/ GiveUp \/ \E w \in Workers : Steps(w)
<1>1. Boot \in Workers /\ Tasks \subseteq Workers
  BY DEF Workers
<1>2. CASE \E t \in Tasks : Call(t)
  BY <1>1, <1>2 DEF Steps
<1>3. CASE \E w \in Workers : Step(w)
  BY <1>3 DEF Step, Steps
<1>4. CASE Start
  BY <1>1, <1>4 DEF Steps
<1> QED
  BY <1>2, <1>3, <1>4 DEF Next

LEMMA StepsFit ==
  ASSUME IInv, NEW w \in Workers, Steps(w)
  PROVE  WorkerTypes' /\ WorkersFit'
<1>1. TypeOK /\ Control /\ WorkerTypes /\ WorkersFit /\ FoundOnce
  BY DEF IInv, TypeOK, WorkerTypes, Control, Listing
<1>2. CASE UNCHANGED <<pc, loc>>
  BY <1>1, <1>2 DEF WorkerTypes, WorkersFit, Fits
<1>3. Moves(w) \/ UNCHANGED <<pc, loc>>
  BY <1>1, MigratingMoves, WritingMoves, AddingMoves, TryingAllMoves, UnlockingMoves, CallMoves, TaskMoves,
     BootingMoves DEF Steps
<1> QED
  BY <1>1, <1>2, <1>3, MovesFit

LEMMA StepsInv ==
  ASSUME IInv, NEW w \in Workers, Steps(w)
  PROVE  IInv'
<1>1. WorkerTypes' /\ WorkersFit'
  BY StepsFit
<1>2. TypeOK'
  BY <1>1, MigratingTypes, WritingTypes, AddingTypes, TryingAllTypes, UnlockingTypes, CallTypes, TaskTypes,
     BootingTypes DEF Steps
<1>3. TryingHolds' /\ PendingSources' /\ BootSteps'
  BY <1>1, MigratingControl, WritingControl, AddingControl, TryingAllControl, UnlockingControl, CallControl,
     BootingControl DEF Steps
<1>4. Ownership'
  BY <1>1, MigratingOwnership, WritingOwnership, AddingOwnership, TryingAllOwnership, UnlockingOwnership,
     CallOwnership, TaskOwnership, BootingOwnership DEF Steps
<1>5. Listing'
  BY <1>1, MigratingListing, WritingListing, AddingListing, TryingAllListing, ReplaceKeyringListing, CallListing,
     TaskListing, BootingListing DEF Steps, Unlocking
<1> QED
  BY <1>1, <1>2, <1>3, <1>4, <1>5 DEF IInv, Control

LEMMA StutterInv ==
  ASSUME IInv, UNCHANGED vars
  PROVE  IInv'
<1>1. TypeOK'
  BY DEF IInv, TypeOK, vars
<1>2. Control'
  BY DEF IInv, Control, WorkersFit, Fits, TryingHolds, Trying, PendingSources, BootSteps, vars
<1>3. Ownership'
  BY DEF IInv, Ownership, OwnIsOwn, KnownAreUsed, HeldAreNamed, Known, Holds, Owns, vars
<1>4. Listing'
  BY DEF IInv, Listing, FoundOnce, ListedAtPath, ListedOnce, Unplaced, Early, vars
<1> QED
  BY <1>1, <1>2, <1>3, <1>4 DEF IInv

LEMMA IInvStep ==
  ASSUME IInv, [Next]_vars
  PROVE  IInv'
<1>1. CASE Next
  BY <1>1, NextSteps, ResetInv, StepsInv
<1>2. CASE UNCHANGED vars
  BY <1>2, StutterInv
<1> QED
  BY <1>1, <1>2

\* The invariant: a keyring has one owner until it is listed, and is listed once.
THEOREM Invariant == Spec => []IInv
<1>1. Init => IInv
  BY InitInv
<1>2. IInv /\ [Next]_vars => IInv'
  BY IInvStep
<1> QED
  BY <1>1, <1>2, PTL DEF Spec

\* The types, whatever the tasks do, whenever the daemon dies: the ranges of found and of
\* the index rest on every object being found once.
THEOREM ServiceTypes == Spec => []TypeOK
<1>1. IInv => TypeOK
  BY DEF IInv
<1> QED
  BY <1>1, Invariant, PTL

-----------------------------------------------------------------------------
(* Keyrings that fit their file, from step to step *)

TimeInv == \A o \in Objects : object[o].name \notin raced => InStep(object[o])

\* Another task owns it, or stores in it.
OthersHand(w, o) ==
  \E u \in Workers \ {w} : Owns(u, o) \/ (loc[u].op = "store" /\ loc[u].target = o)

OthersKeep(w) == \A o \in Objects : OthersHand(w, o) => Grows(object[o], object'[o])

\* A collection that an item is stored in stays unlocked: its guard keeps set_locked out.
StoreInv == \A w \in Workers : loc[w].op = "store" => ~object[loc[w].target].locked

\* What a step does to the keyring files: nothing, it renames what it wrote, or deletes a
\* file.
Writes(w) ==
  \/ UNCHANGED <<v1, moved, foreign>>
  \/ Rename(w)
  \/ /\ \E n \in Names : v1' = [v1 EXCEPT ![n] = NoFile]
     /\ UNCHANGED <<moved, foreign>>

Effects(w) == TimeInv' /\ OthersKeep(w) /\ Writes(w) /\ raced \subseteq raced'

\* Nobody else has what is not used, or what w owns.
LEMMA NotOthers ==
  ASSUME Ownership, WorkersFit, NEW w \in Workers, NEW o \in Objects, ~object[o].used \/ Owns(w, o)
  PROVE  ~OthersHand(w, o)
<1> SUFFICES ASSUME NEW u \in Workers, u # w,
                    Owns(u, o) \/ (loc[u].op = "store" /\ loc[u].target = o)
             PROVE  FALSE
  BY DEF OthersHand
<1>1. Owns(u, o) \/ Holds(u, o)
  BY DEF Holds
<1> QED
  BY <1>1 DEF Ownership, OwnIsOwn, KnownAreUsed

\* Of what is known others only store in it.
LEMMA OthersStore ==
  ASSUME Ownership, WorkersFit, NEW w \in Workers, NEW o \in Objects,
         Known(o) \/ (\E u \in Workers : Holds(u, o)), OthersHand(w, o)
  PROVE  \E u \in Tasks : loc[u].op = "store" /\ loc[u].target = o
<1>1. PICK u \in Workers \ {w} : Owns(u, o) \/ (loc[u].op = "store" /\ loc[u].target = o)
  BY DEF OthersHand
<1>2. ~Owns(u, o)
  BY DEF Ownership, OwnIsOwn
<1> QED
  BY <1>1, <1>2 DEF WorkersFit, Fits

LEMMA NoEffect ==
  ASSUME TimeInv, NEW w \in Workers, UNCHANGED <<object, v1, moved, foreign, raced>>
  PROVE  Effects(w)
BY DEF Effects, TimeInv, InStep, OthersKeep, Grows, Writes

LEMMA OneEffect ==
  ASSUME Objectful, TimeInv, NEW w \in Workers, NEW o \in Objects, NEW y,
         object' = [object EXCEPT ![o] = y], UNCHANGED <<v1, moved, foreign, raced>>,
         y.name \notin raced => InStep(y), OthersHand(w, o) => Grows(object[o], y)
  PROVE  Effects(w)
<1>1. object'[o] = y /\ \A q \in Objects : q # o => object'[q] = object[q]
  BY DEF Objectful
<1>2. TimeInv'
  <2>1. \A q \in Objects : object'[q].name \notin raced => InStep(object'[q])
    BY <1>1 DEF TimeInv
  <2> QED
    BY <2>1 DEF TimeInv, InStep
<1>3. OthersKeep(w)
  BY <1>1 DEF OthersKeep, Grows
<1> QED
  BY <1>2, <1>3 DEF Effects, Writes

LEMMA TryEffect ==
  ASSUME TypeOK, WorkersFit, Ownership, TimeInv, StoreInv,
         NEW w \in Workers, NEW os, NEW s \in Answers,
         object' = TryUnlock(os, s), UNCHANGED <<v1, moved, foreign, raced>>,
         \A o \in Objects : o \in os => Known(o) \/ \E u \in Workers : Holds(u, o)
  PROVE  Effects(w)
<1>1. ASSUME NEW o \in Objects
      PROVE  /\ object'[o].name \notin raced => InStep(object'[o])
             /\ o \notin os \/ ~object[o].locked => object'[o] = object[o]
  <2> DEFINE kr == object[o]
             reread == Locked(kr.name)
  <2>1. kr \in Object /\ (kr.name \notin raced => InStep(kr))
    BY DEF TypeOK, TimeInv
  <2>2. kr.name \in Names
    BY <2>1 DEF Object
  <2>3. IsKeyring(reread, kr.name) /\ InStep(reread)
    BY <2>2, LockedType, LockedInStep DEF TypeOK
  <2>4. \/ object'[o] = kr
        \/ /\ object'[o] = [kr EXCEPT !.locked = FALSE, !.secret = s]
           /\ Accepts(kr.items, kr.secret, s)
           /\ o \in os /\ kr.locked
        \/ /\ object'[o] = [kr EXCEPT !.secret = reread.secret, !.items = reread.items,
                                      !.time = reread.time]
           /\ o \in os /\ kr.locked
    BY DEF TryUnlock
  <2>8. kr = object[o]
    OBVIOUS
  <2> HIDE DEF kr, reread
  <2>5. CASE object'[o] = kr
    BY <2>1, <2>5, <2>8
  <2>6. CASE /\ object'[o] = [kr EXCEPT !.locked = FALSE, !.secret = s]
             /\ Accepts(kr.items, kr.secret, s) /\ o \in os /\ kr.locked
    <3> DEFINE y == [kr EXCEPT !.locked = FALSE, !.secret = s]
    <3>1. y.name = kr.name /\ y.items = kr.items /\ y.time = kr.time /\ y.secret = s
      BY <2>1 DEF Object
    <3>3. object'[o] = y
      BY <2>6
    <3> HIDE DEF y
    <3>2. y.name \notin raced => InStep(y)
      BY <2>1, <2>6, <3>1 DEF InStep, Accepts
    <3> QED
      BY <2>6, <2>8, <3>2, <3>3
  <2>7. CASE /\ object'[o] = [kr EXCEPT !.secret = reread.secret, !.items = reread.items,
                                        !.time = reread.time]
             /\ o \in os /\ kr.locked
    <3> DEFINE y == [kr EXCEPT !.secret = reread.secret, !.items = reread.items,
                               !.time = reread.time]
    <3>1. /\ y.name = reread.name /\ y.items = reread.items /\ y.time = reread.time
          /\ y.secret = reread.secret
      BY <2>1, <2>3 DEF Object, IsKeyring
    <3>3. object'[o] = y
      BY <2>7
    <3> HIDE DEF y
    <3>2. InStep(y)
      BY <2>3, <3>1 DEF InStep
    <3> QED
      BY <2>7, <2>8, <3>2, <3>3
  <2> QED
    BY <2>4, <2>5, <2>6, <2>7
<1>2. TimeInv'
  <2>1. \A o \in Objects : object'[o].name \notin raced => InStep(object'[o])
    BY <1>1
  <2> QED
    BY <2>1 DEF TimeInv, InStep
<1>3. OthersKeep(w)
  <2> SUFFICES ASSUME NEW o \in Objects, OthersHand(w, o)
               PROVE  Grows(object[o], object'[o])
    BY DEF OthersKeep
  <2>1. o \notin os \/ ~object[o].locked
    <3> SUFFICES ASSUME o \in os PROVE ~object[o].locked
      OBVIOUS
    <3>1. PICK u \in Tasks : loc[u].op = "store" /\ loc[u].target = o
      BY OthersStore
    <3> QED
      BY <3>1 DEF StoreInv, Workers
  <2> QED
    BY <1>1, <2>1 DEF Grows
<1> QED
  BY <1>2, <1>3 DEF Effects, Writes

LEMMA DeleteEffect ==
  ASSUME TypeOK, TimeInv, NEW w \in Workers, NEW n \in Names,
         v1' = [v1 EXCEPT ![n] = NoFile], object' = Outdated(object, n),
         UNCHANGED <<moved, foreign, raced>>
  PROVE  Effects(w)
<1>1. \A q \in Objects :
        /\ object'[q].name = object[q].name /\ object'[q].items = object[q].items
        /\ object'[q].secret = object[q].secret /\ object'[q].locked = object[q].locked
        /\ object'[q].time = "current" => object[q].time = "current" /\ object[q].name # n
  BY OutdatedType DEF TypeOK, Same
<1>2. \A q \in Objects : object[q].name \in Names
  BY DEF TypeOK, Object
<1>3. \A m \in Names : m # n => v1'[m] = v1[m]
  BY DEF TypeOK
<1>4. TimeInv'
  BY <1>1, <1>2, <1>3 DEF TimeInv, InStep
<1>5. OthersKeep(w)
  BY <1>1 DEF OthersKeep, Grows
<1>6. Writes(w)
  BY DEF Writes
<1> QED
  BY <1>4, <1>5, <1>6 DEF Effects

LEMMA CallEffects ==
  ASSUME IInv, TimeInv, StoreInv, NEW t \in Tasks, Call(t)
  PROVE  Effects(t)
<1>1. TypeOK /\ Objectful /\ Ownership /\ WorkersFit /\ t \in Workers
  BY DEF IInv, TypeOK, Objectful, Workers, Control
<1>2. \A p \in Listed : collections[p] \in Objects /\ Known(collections[p])
  BY DEF TypeOK, Listed, Known, IInv
<1>3. \A o \in Reachable : o \in Objects /\ Known(o)
  BY DEF TypeOK, Listed, Reachable, Known, IInv
<1>4. \A o \in Objects : object[o] \in Object /\ (object[o].name \notin raced => InStep(object[o]))
  BY <1>1 DEF Objectful, TimeInv
<1>5. CASE OpenSession(t) \/ Create(t) \/ Unlock(t) \/ Pam(t)
  <2>1. UNCHANGED <<object, v1, moved, foreign, raced>>
    BY <1>5 DEF OpenSession, Create, Unlock, Pam, diskVars, ghosts
  <2> QED
    BY <1>1, <2>1, NoEffect
<1>6. CASE Lock(t)
  <2>1. PICK p \in Listed : /\ Storing(collections[p]) = {}
                            /\ object' = [object EXCEPT ![collections[p]].locked = TRUE]
    BY <1>6 DEF Lock
  <2> DEFINE o == collections[p]
             y == [object[o] EXCEPT !.locked = TRUE]
  <2>2. object' = [object EXCEPT ![o] = y]
    BY <1>1, <1>2, <2>1 DEF Objectful
  <2>3. o \in Objects /\ Known(o) /\ Storing(o) = {}
    BY <1>2, <2>1
  <2> HIDE DEF o
  <2>4. /\ y.name = object[o].name /\ y.time = object[o].time
        /\ y.items = object[o].items /\ y.secret = object[o].secret
    BY <1>4, <2>3 DEF Object
  <2> HIDE DEF y
  <2>5. y.name \notin raced => InStep(y)
    BY <1>4, <2>3, <2>4 DEF InStep
  <2>6. UNCHANGED <<v1, moved, foreign, raced>>
    BY <1>6 DEF Lock, diskVars, ghosts
  <2>7. ~OthersHand(t, o)
    BY <1>1, <2>3, OthersStore DEF Storing
  <2> QED
    BY <1>1, <2>2, <2>3, <2>5, <2>6, <2>7, OneEffect
<1>7. CASE SetAlias(t)
  <2>1. PICK p \in Listed, a \in Aliases :
          object' = [object EXCEPT ![collections[p]].alias = <<a, 1>>]
    BY <1>7 DEF SetAlias
  <2> DEFINE o == collections[p]
             y == [object[o] EXCEPT !.alias = <<a, 1>>]
  <2>2. object' = [object EXCEPT ![o] = y]
    BY <1>1, <1>2, <2>1 DEF Objectful
  <2>3. o \in Objects
    BY <1>2
  <2> HIDE DEF o
  <2>4. /\ y.name = object[o].name /\ y.time = object[o].time /\ y.locked = object[o].locked
        /\ y.items = object[o].items /\ y.secret = object[o].secret
    BY <1>4, <2>3 DEF Object
  <2> HIDE DEF y
  <2>5. (y.name \notin raced => InStep(y)) /\ Grows(object[o], y)
    BY <1>4, <2>3, <2>4 DEF InStep, Grows
  <2>6. UNCHANGED <<v1, moved, foreign, raced>>
    BY <1>7 DEF SetAlias, diskVars, ghosts
  <2> QED
    BY <1>1, <2>2, <2>3, <2>5, <2>6, OneEffect
<1>8. CASE Store(t)
  <2>1. PICK o \in Objects, x \in Object :
          /\ object' = [object EXCEPT ![o] = x]
          /\ Same(object[o], x) /\ x.secret = object[o].secret /\ x.locked = object[o].locked
          /\ x.time = object[o].time /\ object[o].items \subseteq x.items
    BY <1>1, <1>8, StoreGoes
  <2>2. (x.name \notin raced => InStep(x)) /\ Grows(object[o], x)
    BY <1>4, <2>1 DEF InStep, Same, Grows
  <2>3. UNCHANGED <<v1, moved, foreign, raced>>
    BY <1>8 DEF Store, diskVars, ghosts
  <2> QED
    BY <1>1, <2>1, <2>2, <2>3, OneEffect
<1>9. CASE Delete(t)
  <2>1. PICK o \in Reachable :
          \/ UNCHANGED <<v1, object>>
          \/ /\ v1' = [v1 EXCEPT ![object[o].name] = NoFile]
             /\ object' = Outdated(object, object[o].name)
    BY <1>9 DEF Delete
  <2>2. UNCHANGED <<moved, foreign, raced>>
    BY <1>9 DEF Delete
  <2>3. object[o].name \in Names
    BY <1>3, <1>4 DEF Object
  <2> QED
    BY <1>1, <2>1, <2>2, <2>3, NoEffect, DeleteEffect
<1> QED
  BY <1>5, <1>6, <1>7, <1>8, <1>9 DEF Call

LEMMA TryingAllEffects ==
  ASSUME IInv, TimeInv, StoreInv, NEW w \in Workers,
         TryingAll(w) \/ SetLocked(w) \/ Look(w) \/ FindPending(w) \/ Forget(w)
  PROVE  Effects(w)
<1>1. TypeOK /\ Ownership /\ WorkersFit /\ loc[w].secret \in Answers
  BY DEF IInv, TypeOK, Local, Control
<1>2. CASE UnlockAll(w)
  <2> DEFINE os == {collections[p] : p \in Listed}
  <2>1. \A o \in Objects : o \in os => Known(o)
    BY DEF Known, Listed
  <2>2. object' = TryUnlock(os, loc[w].secret) /\ UNCHANGED <<v1, moved, foreign, raced>>
    BY <1>2 DEF UnlockAll, diskVars, ghosts
  <2> HIDE DEF os
  <2> QED
    BY <1>1, <2>1, <2>2, TryEffect
<1>3. CASE SetLocked(w)
  <2> DEFINE os == {loc[w].target}
  <2>1. \A o \in Objects : o \in os => \E u \in Workers : Holds(u, o)
    BY DEF Holds
  <2>2. object' = TryUnlock(os, loc[w].secret) /\ UNCHANGED <<v1, moved, foreign, raced>>
    BY <1>3 DEF SetLocked, diskVars, ghosts
  <2> HIDE DEF os
  <2> QED
    BY <1>1, <2>1, <2>2, TryEffect
<1>4. CASE PamLock(w) \/ PamNext(w) \/ PamDone(w) \/ Look(w) \/ FindPending(w) \/ Forget(w)
  <2>1. UNCHANGED <<object, v1, moved, foreign, raced>>
    BY <1>4 DEF PamLock, PamNext, PamDone, Look, FindPending, Forget, diskVars, ghosts
  <2> QED
    BY <2>1, NoEffect
<1> QED
  BY <1>2, <1>3, <1>4 DEF TryingAll

LEMMA BlankInStep == InStep(NoCollection)
BY DEF NoCollection, InStep

LEMMA ReplaceKeyringEffects ==
  ASSUME IInv, TimeInv, NEW w \in Workers, ReplaceKeyring(w)
  PROVE  Effects(w)
<1> DEFINE l == loc[w]
           kr == object[l.obj]
           tg == object[l.target]
           new == [tg EXCEPT !.locked = FALSE, !.secret = kr.secret, !.items = kr.items,
                             !.time = kr.time]
<1>1. TypeOK /\ Ownership /\ Objectful /\ WorkersFit /\ l \in Local /\ Fits(w, pc[w], l)
  BY DEF IInv, TypeOK, Control, Objectful, WorkersFit
<1>2. /\ pc[w] = "migrated" /\ l.op = "unlock" /\ l.obj \in Objects /\ l.target \in Objects
      /\ NoObject \notin Objects /\ Storing(l.target) = {}
  BY <1>1, ServiceAssumption DEF ReplaceKeyring, Fits, OwnAt
<1>3. /\ object' = [object EXCEPT ![l.target] = new, ![l.obj] = NoCollection]
      /\ UNCHANGED <<v1, moved, foreign, raced>>
  BY <1>1, <1>2 DEF ReplaceKeyring, Objectful, diskVars, ghosts
<1>4. Owns(w, l.obj) /\ Holds(w, l.target)
  BY <1>2 DEF Owns, OwnAt, Holds
<1>5. kr.name = l.name /\ tg.name = l.name
  BY <1>1, <1>2, <1>4 DEF Ownership, OwnIsOwn, HeldAreNamed
<1>6. kr \in Object /\ tg \in Object /\ (kr.name \notin raced => InStep(kr))
  BY <1>1, <1>2 DEF Objectful, TimeInv
<1>7. object' = [object EXCEPT ![l.target] = new, ![l.obj] = NoCollection]
  BY <1>3
<1> HIDE DEF kr, tg
<1>8. new.name = kr.name /\ new.items = kr.items /\ new.time = kr.time /\ new.secret = kr.secret
  BY <1>5, <1>6 DEF Object
<1> HIDE DEF new
<1>9. new.name \notin raced => InStep(new)
  BY <1>6, <1>8 DEF InStep
<1>10. \A q \in Objects : object'[q] \in {object[q], new, NoCollection}
  BY <1>1, <1>2, <1>7 DEF Objectful
<1>11. \A q \in Objects : q # l.target /\ q # l.obj => object'[q] = object[q]
  BY <1>1, <1>2, <1>7 DEF Objectful
<1>12. TimeInv'
  <2>1. \A q \in Objects : object'[q].name \notin raced => InStep(object'[q])
    BY <1>9, <1>10, BlankInStep DEF TimeInv
  <2> QED
    BY <1>3, <2>1 DEF TimeInv, InStep
<1>13. OthersKeep(w)
  <2>1. ~OthersHand(w, l.obj)
    BY <1>1, <1>2, <1>4, NotOthers
  <2>2. ~OthersHand(w, l.target)
    BY <1>1, <1>2, <1>4, OthersStore DEF Storing
  <2> QED
    BY <1>11, <2>1, <2>2 DEF OthersKeep, Grows
<1> QED
  BY <1>3, <1>12, <1>13 DEF Effects, Writes

LEMMA TaskEffects ==
  ASSUME TimeInv, NEW t \in Workers, CreateFails(t) \/ Unserve(t) \/ Remove(t)
  PROVE  Effects(t)
<1>1. UNCHANGED <<object, v1, moved, foreign, raced>>
  BY DEF CreateFails, Unserve, Remove, diskVars, ghosts
<1> QED
  BY <1>1, NoEffect

LEMMA MigratedInStep ==
  ASSUME v1 \in [Names -> File], NEW n \in Names, NEW s \in Answers,
         NEW kind \in {"v0", "kwallet"}, <<kind, n>> \in Sources, Migrates(kind, n, s)
  PROVE  /\ InStep(Migrated(kind, n, s))
         /\ v1[n] = NoFile \/ kind = "kwallet" =>
              LegacyItems[<<kind, n>>] \subseteq Migrated(kind, n, s).items
<1> DEFINE kr == Opened(n, s)
           legacy == LegacyItems[<<kind, n>>]
<1>1. IsKeyring(kr, n) /\ InStep(kr)
  BY OpenedType, OpenedInStep DEF Migrates
<1>2. CASE kind = "v0"
  <2>1. Migrated(kind, n, s) = kr
    BY <1>2 DEF Migrated
  <2>2. v1[n] = NoFile => kr.items = legacy
    <3>1. n \in V0
      BY <1>2 DEF Sources
    <3> DEFINE items == IF n \in V0 THEN LegacyItems[<<"v0", n>>] ELSE {}
    <3>2. items = legacy
      BY <1>2, <3>1
    <3>3. Keyring(n, s, FALSE, items, "none").items = items
      BY DEF Keyring, NoCollection
    <3>4. v1[n] = NoFile => kr = Keyring(n, s, FALSE, items, "none")
      BY DEF Opened
    <3> HIDE DEF kr, items, legacy
    <3> QED
      BY <3>2, <3>3, <3>4
  <2> HIDE DEF kr
  <2> QED
    BY <1>1, <1>2, <2>1, <2>2
<1>3. CASE kind # "v0"
  <2> DEFINE items == kr.items \cup legacy
             y == [kr EXCEPT !.items = items]
  <2>1. Migrated(kind, n, s) = y
    BY <1>3 DEF Migrated
  <2> HIDE DEF kr
  <2>2. y.name = kr.name /\ y.items = items /\ y.time = kr.time /\ y.secret = kr.secret
    BY <1>1 DEF IsKeyring, Object
  <2> HIDE DEF y
  <2>3. InStep(y)
    BY <1>1, <2>2 DEF InStep
  <2> QED
    BY <1>3, <2>1, <2>2, <2>3
<1> QED
  BY <1>2, <1>3

LEMMA MigratingEffects ==
  ASSUME IInv, TimeInv, NEW w \in Workers, Migrating(w)
  PROVE  Effects(w)
<1> DEFINE l == loc[w]
<1>1. /\ TypeOK /\ Ownership /\ Objectful /\ WorkersFit /\ l \in Local /\ Fits(w, pc[w], l)
  BY DEF IInv, TypeOK, Control, Objectful, WorkersFit
<1>2. CASE Open(w)
  <2> DEFINE kr == IF l.op = "create" THEN Opened(l.name, l.secret)
                                      ELSE Migrated(l.kind, l.name, l.secret)
             opens == IF l.op = "create" THEN Opens(l.name, l.secret)
                                         ELSE Migrates(l.kind, l.name, l.secret)
  <2>1. l.name \in Names /\ l.secret \in Answers /\ l.kind \in {"v0", "kwallet"}
    BY <1>1 DEF Local
  <2>2. UNCHANGED <<v1, moved, foreign, raced>>
    BY <1>2 DEF Open, diskVars, ghosts
  <2>3. CASE opens
    <3>1. Next1 \in Objects /\ ~object[Next1].used
      BY <1>2, NextIsFresh DEF Open
    <3>2. object' = [object EXCEPT ![Next1] = kr]
      BY <1>2, <2>3 DEF Open
    <3>3. ~OthersHand(w, Next1)
      BY <1>1, <3>1, NotOthers
    <3>4. InStep(kr)
      <4>1. CASE l.op = "create"
        BY <2>1, <2>3, <4>1, OpenedInStep
      <4>2. CASE l.op # "create"
        <5>1. <<l.kind, l.name>> \in Sources
          BY <1>1, <1>2, <4>2 DEF Open, Fits, OpsAt, MigrationAt
        <5> QED
          BY <1>1, <2>1, <2>3, <4>2, <5>1, MigratedInStep DEF TypeOK
      <4> QED
        BY <4>1, <4>2
    <3> HIDE DEF kr
    <3> QED
      BY <1>1, <2>2, <3>1, <3>2, <3>3, <3>4, OneEffect
  <2>4. CASE ~opens
    <3>1. UNCHANGED object
      BY <1>2, <2>4 DEF Open
    <3> QED
      BY <2>2, <3>1, NoEffect
  <2> QED
    BY <2>3, <2>4
<1>3. CASE Stamp(w)
  <2>1. UNCHANGED <<object, v1, moved, foreign, raced>>
    BY <1>3 DEF Stamp, ghosts
  <2> QED
    BY <2>1, NoEffect
<1> QED
  BY <1>2, <1>3 DEF Migrating

\* A keyring that gets its path has the contents it had.
LEMMA PlacedEffect ==
  ASSUME IInv, TimeInv, NEW w \in Workers, NEW o \in Objects, NEW alias \in AliasNames,
         \A p \in Places : collections[p] # o,
         object' = Placed(o, alias), UNCHANGED <<v1, moved, foreign, raced>>
  PROVE  Effects(w)
<1>1. TypeOK
  BY DEF IInv
<1>2. \A q \in Objects :
        /\ object'[q].name = object[q].name /\ object'[q].time = object[q].time
        /\ object'[q].items = object[q].items /\ object'[q].secret = object[q].secret
        /\ object'[q].locked = object[q].locked
  BY <1>1, PlacedType, InOnePlace DEF IInv, Listing
<1>3. TimeInv'
  BY <1>2 DEF TimeInv, InStep
<1>4. OthersKeep(w)
  BY <1>2 DEF OthersKeep, Grows
<1> QED
  BY <1>3, <1>4 DEF Effects, Writes

LEMMA AddingEffects ==
  ASSUME IInv, TimeInv, NEW w \in Workers, Adding(w)
  PROVE  Effects(w)
<1> DEFINE l == loc[w]
<1>1. TypeOK /\ Ownership /\ Objectful /\ WorkersFit /\ l \in Local /\ Fits(w, pc[w], l)
  BY DEF IInv, TypeOK, Control, Objectful, WorkersFit
<1>2. UNCHANGED <<v1, moved, foreign, raced>>
  BY DEF Adding, Label, ServeAt, Insert, ServeDefault, diskVars, ghosts
<1>3. CASE Label(w)
  <2>1. /\ l.obj \in Objects /\ \A p \in Places : collections[p] # l.obj
        /\ \E alias \in AliasNames : object' = Placed(l.obj, alias)
    BY <1>3, LabelPlaces
  <2> QED
    BY <1>2, <2>1, PlacedEffect
<1>4. CASE ServeAt(w)
  <2>1. l.obj \in Objects /\ Owns(w, l.obj)
    BY <1>1, <1>4 DEF ServeAt, Fits, OwnAt, Owns
  <2>2. CASE object' = [object EXCEPT ![l.obj] = NoCollection]
    <3>1. ~OthersHand(w, l.obj)
      BY <1>1, <2>1, NotOthers
    <3> QED
      BY <1>1, <1>2, <2>1, <2>2, <3>1, BlankInStep, OneEffect
  <2>3. CASE UNCHANGED object
    BY <1>2, <2>3, NoEffect
  <2> QED
    BY <1>4, <2>2, <2>3 DEF ServeAt
<1>5. CASE Insert(w) \/ ServeDefault(w)
  <2>1. UNCHANGED object
    BY <1>5 DEF Insert, ServeDefault
  <2> QED
    BY <1>2, <2>1, NoEffect
<1> QED
  BY <1>3, <1>4, <1>5 DEF Adding

LEMMA FoundInStep ==
  ASSUME NEW n, NEW kr, IsKeyring(kr, n), InStep(kr), NEW kind
  PROVE  InStep(Found(kr, kind))
BY FoundType DEF InStep, IsKeyring

LEMMA FoundName ==
  ASSUME NEW n, NEW kr, IsKeyring(kr, n), NEW kind
  PROVE  Found(kr, kind).name = kr.name
BY FoundType DEF IsKeyring

LEMMA BootingEffects ==
  ASSUME IInv, TimeInv, Start \/ (Booting /\ ~GiveUp)
  PROVE  Effects(Boot)
<1> DEFINE l == loc[Boot]
<1>1. /\ TypeOK /\ Ownership /\ Objectful /\ WorkersFit /\ l \in Local /\ Fits(Boot, pc[Boot], l)
      /\ Boot \in Workers
  BY DEF IInv, TypeOK, Control, Objectful, WorkersFit, Workers
<1>2. UNCHANGED <<v1, moved, foreign, raced>>
  BY DEF Booting, Start, ScanV1, NextScan, ScanLegacy, Discovered, PutOff, Connect, Register,
     Place, Serve, Replay, diskVars, ghosts
<1>3. CASE ScanV1 \/ PutOff \/ (Register /\ ~HasDefault)
  <2> DEFINE k == Next1
  <2>1. PICK n \in Names, y \in Object, kind \in {"v1", "v0", "kwallet"} :
          IsKeyring(y, n) /\ InStep(y) /\ object' = [object EXCEPT ![k] = Found(y, kind)]
    BY <1>3, FoundNew
  <2>2. k \in Objects /\ ~object[k].used
    BY <1>3, FoundNew
  <2> HIDE DEF k
  <2>3. InStep(Found(y, kind))
    BY <2>1, FoundInStep
  <2>4. ~OthersHand(Boot, k)
    BY <1>1, <2>2, NotOthers
  <2> QED
    BY <1>1, <1>2, <2>1, <2>2, <2>3, <2>4, OneEffect
<1>4. CASE Discovered
  <2>1. l.obj \in Objects /\ Owns(Boot, l.obj)
    BY <1>1, <1>4 DEF Discovered, Fits, OwnAt, Owns
  <2>2. /\ IsKeyring(object[l.obj], object[l.obj].name)
        /\ object[l.obj].name \notin raced => InStep(object[l.obj])
    BY <1>1, <2>1 DEF Objectful, Ownership, OwnIsOwn, TimeInv, IsKeyring
  <2>3. object' = [object EXCEPT ![l.obj] = Found(object[l.obj], l.kind)]
    BY <1>1, <1>4, <2>1 DEF Discovered, Objectful
  <2>4. Found(object[l.obj], l.kind).name \notin raced => InStep(Found(object[l.obj], l.kind))
    BY <2>2, FoundInStep, FoundName
  <2>5. ~OthersHand(Boot, l.obj)
    BY <1>1, <2>1, NotOthers
  <2> QED
    BY <1>1, <1>2, <2>1, <2>3, <2>4, <2>5, OneEffect
<1>5. CASE Place /\ ~(l.index > Len(found))
  <2>1. /\ l.index \in DOMAIN found /\ found[l.index] \in Objects
        /\ \A p \in Places : collections[p] # found[l.index]
        /\ object[found[l.index]].alias[1] \in AliasNames
        /\ object' = Placed(found[l.index], object[found[l.index]].alias[1])
    BY <1>5, PlacePlaces
  <2> QED
    BY <1>1, <1>2, <2>1, PlacedEffect
<1>6. CASE UNCHANGED object
  BY <1>1, <1>2, <1>6, NoEffect
<1>7. CASE \/ Start \/ NextScan \/ ScanLegacy \/ Connect \/ Serve \/ Replay
           \/ (Register /\ HasDefault) \/ (Place /\ l.index > Len(found))
  BY <1>6, <1>7 DEF Start, NextScan, ScanLegacy, Connect, Serve, Replay, Register, Place
<1> QED
  BY <1>3, <1>4, <1>5, <1>7 DEF Booting

-----------------------------------------------------------------------------
(* Keyrings that are being written *)

DumpingAt == {"rename", "refresh"}

\* The file has nothing that the keyring does not have.
Agrees(kr) ==
  v1[kr.name] # NoFile =>
    /\ v1[kr.name].items \subseteq kr.items
    /\ v1[kr.name].items # {} => v1[kr.name].secret = kr.secret

DumpOf(w) ==
  pc[w] \in DumpingAt /\ object[InHand(w)].name \notin raced =>
    /\ Agrees(object[InHand(w)])
    /\ \A u \in Workers :
         pc[u] \in DumpingAt /\ object[InHand(u)].name = object[InHand(w)].name => u = w

\* Who writes to a file that is not raced for is alone, and knows all that is in it.
DumpInv == \A w \in Workers : DumpOf(w)

\* What is in hand of another task.
LEMMA InHandOf ==
  ASSUME WorkersFit, NEW u \in Workers, pc[u] \in WritingAt
  PROVE  /\ InHand(u) \in Objects
         /\ Owns(u, InHand(u)) \/ (loc[u].op = "store" /\ loc[u].target = InHand(u))
BY DEF WorkersFit, Fits, InHand, Owns, OwnAt, WritingAt

\* How a task that writes leaves the keyrings.
LEMMA WritingEffects ==
  ASSUME IInv, TimeInv, DumpInv, NEW w \in Workers, Writing(w)
  PROVE  Effects(w)
<1> DEFINE o == InHand(w)
           n == object[o].name
<1>1. TypeOK /\ Ownership /\ Objectful /\ WorkersFit
  BY DEF IInv, TypeOK, Control, Objectful
<1>2. o \in Objects /\ pc[w] \in WritingAt
  BY <1>1, WritingGoes
<1>3. n \in Names /\ object[o] \in Object
  BY <1>1, <1>2 DEF Objectful, Object
<1>4. CASE WriteFails(w)
  <2>1. UNCHANGED <<v1, moved, foreign, raced>>
    BY <1>4, WriteFailsTo
  <2>2. CASE UNCHANGED object
    BY <2>1, <2>2, NoEffect
  <2>3. CASE loc[w].op # "store" /\ object' = [object EXCEPT ![o] = NoCollection]
    <3>1. Owns(w, o)
      BY <1>1, <1>2, <2>3, InHandOf
    <3>2. ~OthersHand(w, o)
      BY <1>1, <1>2, <3>1, NotOthers
    <3> QED
      BY <1>1, <1>2, <2>1, <2>3, <3>2, BlankInStep, OneEffect
  <2> QED
    BY <1>4, <2>2, <2>3, WriteFailsTo DEF Unwritten, InHand
<1>5. CASE Write(w) /\ ~WriteFails(w)
  <2>1. UNCHANGED <<v1, object, moved, foreign>> /\ raced \subseteq raced'
    BY <1>5 DEF Write, diskVars
  <2> QED
    BY <2>1 DEF Effects, TimeInv, InStep, OthersKeep, Grows, Writes
<1>6. CASE Rename(w) /\ ~WriteFails(w)
  <2>1. /\ v1' = [v1 EXCEPT ![n] = [secret |-> object[o].secret, items |-> object[o].items]]
        /\ object' = Outdated(object, n) /\ UNCHANGED raced
    BY <1>6 DEF Rename
  <2>2. \A q \in Objects :
          /\ object'[q].name = object[q].name /\ object'[q].items = object[q].items
          /\ object'[q].secret = object[q].secret /\ object'[q].locked = object[q].locked
          /\ object'[q].time = "current" => object[q].time = "current" /\ object[q].name # n
    <3>1. object \in [Objects -> Object]
      BY <1>1 DEF Objectful
    <3> HIDE DEF n
    <3> QED
      BY <1>3, <2>1, <3>1, OutdatedType DEF Same
  <2>3. \A q \in Objects : object[q].name \in Names
    BY <1>1 DEF Objectful, Object
  <2>4. \A m \in Names : m # n => v1'[m] = v1[m]
    BY <1>1, <2>1 DEF TypeOK
  <2>5. TimeInv'
    BY <2>1, <2>2, <2>3, <2>4 DEF TimeInv, InStep
  <2>6. OthersKeep(w)
    BY <2>2 DEF OthersKeep, Grows
  <2> QED
    BY <1>6, <2>1, <2>5, <2>6 DEF Effects, Writes
<1>7. CASE Refresh(w) /\ ~WriteFails(w)
  <2>1. /\ v1[n] # NoFile /\ pc[w] = "refresh"
        /\ object' = [object EXCEPT ![o].time = "current"]
        /\ UNCHANGED <<v1, moved, foreign, raced>>
    BY <1>7 DEF Refresh, diskVars, ghosts
  <2> DEFINE y == [object[o] EXCEPT !.time = "current"]
  <2>2. object' = [object EXCEPT ![o] = y]
    BY <1>1, <1>2, <2>1 DEF Objectful
  <2>3. /\ y.name = n /\ y.locked = object[o].locked
        /\ y.items = object[o].items /\ y.secret = object[o].secret
    BY <1>3 DEF Object
  <2> HIDE DEF y
  <2>4. n \notin raced => Agrees(object[o])
    BY <2>1 DEF DumpInv, DumpOf, DumpingAt
  <2>5. y.name \notin raced => InStep(y)
    BY <2>1, <2>3, <2>4 DEF InStep, Agrees
  <2>6. Grows(object[o], y)
    BY <2>3 DEF Grows
  <2> QED
    BY <1>1, <1>2, <2>1, <2>2, <2>5, <2>6, OneEffect
<1> QED
  BY <1>4, <1>5, <1>6, <1>7 DEF Writing

\* A task that stays in a dump has changed nothing of what it writes.
LEMMA DumpingKept ==
  ASSUME IInv, NEW w \in Workers, Writing(w), pc'[w] \in DumpingAt
  PROVE  /\ InHand(w)' = InHand(w) /\ loc'[w] = loc[w]
         /\ \A q \in Objects : Grows(object[q], object'[q])
         /\ Write(w) \/ Rename(w)
<1> DEFINE l == loc[w]
<1>1. TypeOK /\ WorkersFit /\ WorkerTypes
  BY DEF IInv, TypeOK, Control, WorkerTypes
<1>2. ~End(w) /\ ~Unwritten(w)
  BY <1>1, EndGoes, GotoGoes DEF DumpingAt, Unwritten
<1>3. GoesOn(w) /\ AllKept
  BY <1>1, <1>2, WritingGoes
<1>4. loc'[w] = l
  BY <1>1, <1>3, GotoGoes DEF GoesOn
<1>5. InHand(w)' = InHand(w)
  BY <1>4 DEF InHand
<1>6. \A q \in Objects : Grows(object[q], object'[q])
  BY <1>3 DEF AllKept, Kept
<1>7. ~WriteFails(w)
  BY <1>2, WriteFailsTo
<1>8. ~Refresh(w)
  <2> SUFFICES ASSUME Refresh(w) PROVE FALSE
    OBVIOUS
  <2>1. End(w) \/ Goto(w, "label", l) \/ Goto(w, "stamp", l)
    BY <1>7 DEF Refresh
  <2>2. pc'[w] \in {"label", "stamp"}
    BY <1>1, <1>2, <2>1, GotoGoes
  <2> QED
    BY <2>2 DEF DumpingAt
<1> QED
  BY <1>4, <1>5, <1>6, <1>8 DEF Writing

LEMMA DumpKept ==
  ASSUME IInv, TimeInv, DumpInv, NEW w \in Workers, Effects(w), OnlyMoves(w),
         pc'[w] \in DumpingAt => Writing(w)
  PROVE  DumpInv'
<1>1. TypeOK /\ WorkersFit /\ Objectful
  BY DEF IInv, Control, TypeOK, Objectful
<1>2. ASSUME NEW u \in Workers, u # w, pc'[u] \in DumpingAt
      PROVE  /\ pc[u] \in DumpingAt /\ InHand(u)' = InHand(u) /\ InHand(u) \in Objects
             /\ Grows(object[InHand(u)], object'[InHand(u)])
  <2>1. pc'[u] = pc[u] /\ loc'[u] = loc[u]
    BY <1>2 DEF OnlyMoves
  <2>2. pc[u] \in WritingAt /\ InHand(u)' = InHand(u)
    BY <1>2, <2>1 DEF WritingAt, DumpingAt, InHand
  <2>3. InHand(u) \in Objects /\ OthersHand(w, InHand(u))
    BY <1>1, <1>2, <2>2, InHandOf DEF OthersHand
  <2> QED
    BY <1>2, <2>1, <2>2, <2>3 DEF Effects, OthersKeep
\* What w has in hand, if it dumps now.
<1>3. ASSUME pc'[w] \in DumpingAt
      PROVE  /\ InHand(w)' = InHand(w) /\ InHand(w) \in Objects
             /\ Grows(object[InHand(w)], object'[InHand(w)])
             /\ Write(w) \/ Rename(w)
  <2>1. Writing(w)
    BY <1>3
  <2>2. InHand(w) \in Objects
    BY <1>1, <2>1, WritingGoes
  <2> QED
    BY <1>3, <2>1, <2>2, DumpingKept
\* A file that w starts to write while another task writes it is raced for.
<1>4. ASSUME NEW u \in Workers, u # w, pc'[u] \in DumpingAt, pc'[w] \in DumpingAt,
             object[InHand(u)].name = object[InHand(w)].name, object[InHand(w)].name \notin raced'
      PROVE  FALSE
  <2>1. pc[u] \in DumpingAt /\ InHand(u) \in Objects
    BY <1>2, <1>4
  <2>2. object[InHand(w)].name \notin raced
    BY <1>4 DEF Effects
  <2>3. CASE Rename(w)
    <3>1. pc[w] \in DumpingAt
      BY <2>3 DEF Rename, DumpingAt
    <3> QED
      BY <1>4, <2>1, <2>2, <3>1 DEF DumpInv, DumpOf
  <2>4. CASE Write(w)
    <3>1. ~WriteFails(w)
      <4>1. ~End(w) /\ ~Unwritten(w)
        BY <1>1, <1>4, EndGoes, GotoGoes DEF DumpingAt, Unwritten, TypeOK, WorkerTypes
      <4> QED
        BY <4>1, WriteFailsTo
    <3>2. raced' = IF DumpingTo(object[InHand(w)].name) = {} THEN raced
                   ELSE raced \cup {object[InHand(w)].name}
      BY <2>4, <3>1 DEF Write
    <3>3. u \in DumpingTo(object[InHand(w)].name)
      BY <1>4, <2>1 DEF DumpingTo, Dumping, DumpingAt
    <3> QED
      BY <1>4, <3>2, <3>3
  <2> QED
    BY <1>3, <1>4, <2>3, <2>4
\* Two that write one file are one.
<1>5. ASSUME NEW u \in Workers, NEW v \in Workers, pc'[u] \in DumpingAt, pc'[v] \in DumpingAt,
             object'[InHand(u)'].name = object'[InHand(v)'].name, object'[InHand(u)'].name \notin raced'
      PROVE  u = v
  <2>1. /\ InHand(u)' = InHand(u) /\ object'[InHand(u)].name = object[InHand(u)].name
        /\ InHand(v)' = InHand(v) /\ object'[InHand(v)].name = object[InHand(v)].name
    BY <1>2, <1>3, <1>5 DEF Grows
  <2>2. object[InHand(u)].name = object[InHand(v)].name /\ object[InHand(u)].name \notin raced'
    BY <1>5, <2>1
  <2>3. CASE u # w /\ v # w
    <3>1. pc[u] \in DumpingAt /\ pc[v] \in DumpingAt /\ object[InHand(u)].name \notin raced
      BY <1>2, <1>5, <2>2, <2>3 DEF Effects
    <3> QED
      BY <2>2, <3>1 DEF DumpInv, DumpOf
  <2>4. CASE u = w \/ v = w
    BY <1>4, <1>5, <2>2, <2>4
  <2> QED
    BY <2>3, <2>4
\* What is in the file.
<1>6. ASSUME NEW u \in Workers, u # w, pc'[u] \in DumpingAt, object'[InHand(u)'].name \notin raced'
      PROVE  Agrees(object[InHand(u)])'
  <2> DEFINE o == InHand(u)
             n == object[o].name
  <2>1. /\ pc[u] \in DumpingAt /\ InHand(u)' = o /\ o \in Objects
        /\ object'[o].name = n /\ object'[o].secret = object[o].secret
        /\ object[o].items \subseteq object'[o].items
    BY <1>2, <1>6 DEF Grows
  <2>2. n \in Names /\ n \notin raced
    BY <1>1, <1>6, <2>1 DEF Effects, Objectful, Object
  <2>3. /\ Agrees(object[o])
        /\ \A v \in Workers : pc[v] \in DumpingAt /\ object[InHand(v)].name = n => v = u
    BY <2>1, <2>2 DEF DumpInv, DumpOf
  <2>4. v1'[n] = v1[n] \/ v1'[n] = NoFile
    <3>1. CASE UNCHANGED <<v1, moved, foreign>>
      BY <3>1
    <3>2. CASE Rename(w)
      <4>1. pc[w] \in DumpingAt
        BY <3>2 DEF Rename, DumpingAt
      <4>2. object[InHand(w)].name # n
        BY <1>6, <2>3, <4>1
      <4>3. \/ UNCHANGED v1
            \/ \E x : v1' = [v1 EXCEPT ![object[InHand(w)].name] = x]
        BY <3>2, WriteFailsTo DEF Rename
      <4> QED
        BY <1>1, <2>2, <4>2, <4>3 DEF TypeOK
    <3>3. CASE \E m \in Names : v1' = [v1 EXCEPT ![m] = NoFile]
      BY <1>1, <2>2, <3>3 DEF TypeOK
    <3> QED
      BY <3>1, <3>2, <3>3 DEF Effects, Writes
  <2> QED
    BY <2>1, <2>3, <2>4 DEF Agrees
<1>7. ASSUME pc'[w] \in DumpingAt, object'[InHand(w)'].name \notin raced'
      PROVE  Agrees(object[InHand(w)])'
  <2> DEFINE o == InHand(w)
             n == object[o].name
  <2>1. /\ InHand(w)' = o /\ o \in Objects
        /\ object'[o].name = n /\ object'[o].secret = object[o].secret
        /\ object[o].items \subseteq object'[o].items
    BY <1>3, <1>7 DEF Grows
  <2>2. n \in Names /\ n \notin raced
    BY <1>1, <1>7, <2>1 DEF Effects, Objectful, Object
  <2>3. ~WriteFails(w)
    <3>1. ~End(w) /\ ~Unwritten(w)
      BY <1>1, <1>7, EndGoes, GotoGoes DEF DumpingAt, Unwritten, TypeOK, WorkerTypes
    <3> QED
      BY <3>1, WriteFailsTo
  <2>4. CASE Write(w)
    <3>1. MayWrite(o) /\ UNCHANGED v1
      BY <2>3, <2>4 DEF Write, diskVars
    <3>2. v1[n] # NoFile => InStep(object[o]) /\ object[o].time = "current"
      BY <2>1, <2>2, <3>1 DEF MayWrite, TimeInv
    <3> QED
      BY <2>1, <3>1, <3>2 DEF InStep, Agrees
  <2>5. CASE Rename(w)
    <3>1. v1' = [v1 EXCEPT ![n] = [secret |-> object[o].secret, items |-> object[o].items]]
      BY <2>3, <2>5 DEF Rename
    <3>2. v1'[n].secret = object[o].secret /\ v1'[n].items = object[o].items
      BY <1>1, <2>2, <3>1 DEF TypeOK
    <3> QED
      BY <2>1, <3>2 DEF Agrees
  <2> QED
    BY <1>3, <1>7, <2>4, <2>5
<1> QED
  BY <1>5, <1>6, <1>7 DEF DumpInv, DumpOf

-----------------------------------------------------------------------------
(* Who writes *)

\* Only a migration leads to a write or a stamp, but for an item that is stored.
LEMMA NotMigrating ==
  ASSUME IInv, NEW w \in Workers, Steps(w), ~Migrating(w), ~Writing(w)
  PROVE  /\ OnlyMoves(w) /\ UNCHANGED stamped
         /\ \/ pc'[w] \notin WritingAt \cup {"stamp"}
            \/ /\ w \in Tasks /\ Store(w) /\ pc'[w] = "write"
<1> DEFINE l == loc[w]
           Far == \E label \in Labels \ (WritingAt \cup {"stamp"}) : \E x : Goto(w, label, x)
<1>1. TypeOK /\ Control /\ WorkerTypes /\ l \in Local /\ Tasks \subseteq Workers
  BY DEF IInv, TypeOK, WorkerTypes, Workers
<1>2. CASE Far /\ UNCHANGED stamped
  <2>1. PICK label \in Labels \ (WritingAt \cup {"stamp"}) : \E x : Goto(w, label, x)
    BY <1>2
  <2>2. PICK x : Goto(w, label, x)
    BY <2>1
  <2> QED
    BY <1>1, <1>2, <2>2, GotoGoes
<1>3. CASE w \in Tasks /\ Call(w)
  <2>1. UNCHANGED stamped
    BY <1>3 DEF Call, OpenSession, Create, Unlock, Lock, SetAlias, Store, Delete, Pam, diskVars
  <2>2. Far \/ (UNCHANGED <<pc, loc>> /\ pc[w] = "idle") \/ Store(w)
    BY <1>3 DEF Call, CanCall, OpenSession, Create, Unlock, Lock, SetAlias, Delete, Pam,
       Panic, End, Labels, WritingAt
  <2>3. CASE UNCHANGED <<pc, loc>> /\ pc[w] = "idle"
    BY <2>1, <2>3 DEF OnlyMoves, WritingAt
  <2>4. CASE Store(w)
    <3>1. PICK y : Goto(w, "write", y)
      BY <1>1, <1>3, <2>4, StoreGoes
    <3> QED
      BY <1>1, <1>3, <2>1, <2>4, <3>1, GotoGoes
  <2> QED
    BY <1>2, <2>1, <2>2, <2>3, <2>4
<1>4. CASE Adding(w)
  <2>1. UNCHANGED stamped
    BY <1>4 DEF Adding, Label, ServeAt, Insert, ServeDefault, diskVars
  <2>2. Far
    BY <1>4 DEF Adding, Label, ServeAt, Insert, ServeDefault, Panic, End, Labels, WritingAt
  <2> QED
    BY <1>2, <2>1, <2>2
<1>5. CASE TryingAll(w)
  <2>1. UNCHANGED stamped
    BY <1>5 DEF TryingAll, PamLock, PamNext, PamDone, UnlockAll, diskVars
  <2>2. Far
    BY <1>5 DEF TryingAll, PamLock, PamNext, PamDone, UnlockAll, End, Labels, WritingAt
  <2> QED
    BY <1>2, <2>1, <2>2
<1>6. CASE Unlocking(w)
  <2>1. UNCHANGED stamped
    BY <1>6 DEF Unlocking, Look, FindPending, SetLocked, ReplaceKeyring, Forget, diskVars
  <2>2. Far
    BY <1>6 DEF Unlocking, Look, FindPending, AfterPending, SetLocked, ReplaceKeyring, Forget, End,
       Labels, WritingAt
  <2> QED
    BY <1>2, <2>1, <2>2
<1>7. CASE CreateFails(w) \/ Unserve(w) \/ Remove(w)
  <2>1. UNCHANGED stamped
    BY <1>7 DEF CreateFails, Unserve, Remove, diskVars
  <2>2. Far
    BY <1>7 DEF CreateFails, Unserve, Remove, End, Labels, WritingAt
  <2> QED
    BY <1>2, <2>1, <2>2
<1>8. CASE w = Boot /\ (Start \/ (Booting /\ ~GiveUp))
  <2>1. UNCHANGED stamped
    BY <1>8 DEF Booting, Start, ScanV1, NextScan, ScanLegacy, Discovered, PutOff, Connect,
       Register, Place, Serve, Replay, diskVars
  <2>2. OnlyMoves(w) /\ pc'[w] \notin OwnAt
    BY <1>1, <1>8, BootingGoes
  <2> QED
    BY <2>1, <2>2 DEF OwnAt, WritingAt
<1> QED
  BY <1>3, <1>4, <1>5, <1>6, <1>7, <1>8 DEF Steps

\* A migration only opens, or stamps.
LEMMA MigratingGoes ==
  ASSUME IInv, NEW w \in Workers, Migrating(w)
  PROVE  /\ OnlyMoves(w) /\ pc'[w] \in {"write", "refused", "migrated"}
         /\ loc'[w].op = loc[w].op /\ loc[w].op # "store"
<1> DEFINE l == loc[w]
<1>1. WorkerTypes /\ l \in Local /\ Fits(w, pc[w], l)
  BY DEF IInv, TypeOK, WorkerTypes, Control, WorkersFit
<1>2. [l EXCEPT !.obj = Next1].op = l.op
  BY <1>1 DEF Local
<1>3. \E label \in {"write", "refused", "migrated"} : \E x : Goto(w, label, x) /\ x.op = l.op
  BY <1>2 DEF Migrating, Open, Stamp
<1>4. PICK label \in {"write", "refused", "migrated"} : \E x : Goto(w, label, x) /\ x.op = l.op
  BY <1>3
<1>5. PICK x : Goto(w, label, x) /\ x.op = l.op
  BY <1>4
<1>6. pc'[w] = label /\ loc'[w] = x /\ OnlyMoves(w)
  BY <1>1, <1>5, GotoGoes
<1>7. l.op # "store"
  BY <1>1 DEF Migrating, Open, Stamp, Fits, OpsAt
<1> QED
  BY <1>5, <1>6, <1>7

LEMMA WritingOnlyMoves ==
  ASSUME IInv, NEW w \in Workers, Writing(w)
  PROVE  OnlyMoves(w) /\ loc'[w].op \in {loc[w].op, "none"}
<1> DEFINE l == loc[w]
<1>1. TypeOK /\ WorkersFit /\ WorkerTypes /\ l \in Local
  BY DEF IInv, TypeOK, WorkerTypes, Control
<1>2. Blank.op = "none" /\ [l EXCEPT !.obj = NoObject].op = l.op
  BY <1>1 DEF Blank, Local
<1>3. \E label, x : Goto(w, label, x) /\ x.op \in {l.op, "none"}
  BY <1>1, <1>2, WritingGoes DEF GoesOn, End, Unwritten
<1> QED
  BY <1>1, <1>3, GotoGoes

FileInv == TimeInv /\ DumpInv /\ StoreInv

LEMMA StepsEffects ==
  ASSUME IInv, FileInv, NEW w \in Workers, Steps(w)
  PROVE  Effects(w) /\ OnlyMoves(w)
<1>1. TimeInv /\ DumpInv /\ StoreInv
  BY DEF FileInv
<1>2. Effects(w)
  BY <1>1, MigratingEffects, WritingEffects, AddingEffects, TryingAllEffects, ReplaceKeyringEffects,
     CallEffects, TaskEffects, BootingEffects DEF Steps, Unlocking
<1> QED
  BY <1>2, NotMigrating, MigratingGoes, WritingOnlyMoves

\* What is stored in stays unlocked.
LEMMA StoreKept ==
  ASSUME IInv, FileInv, NEW w \in Workers, Steps(w)
  PROVE  StoreInv'
<1>1. TypeOK /\ Objectful /\ WorkersFit /\ WorkersFit' /\ Effects(w) /\ OnlyMoves(w) /\ StoreInv
  BY StepsEffects, StepsFit DEF IInv, TypeOK, Objectful, Control, FileInv
<1>2. ASSUME NEW u \in Workers, u # w, loc'[u].op = "store"
      PROVE  ~object'[loc'[u].target].locked
  <2>1. loc'[u] = loc[u]
    BY <1>1, <1>2 DEF OnlyMoves
  <2>2. loc[u].target \in Objects /\ ~object[loc[u].target].locked /\ OthersHand(w, loc[u].target)
    BY <1>1, <1>2, <2>1 DEF WorkersFit, Fits, StoreInv, OthersHand
  <2> QED
    BY <1>1, <2>1, <2>2 DEF Effects, OthersKeep, Grows
<1>3. ASSUME loc'[w].op = "store"
      PROVE  ~object'[loc'[w].target].locked
  <2>1. pc'[w] \in WritingAt
    BY <1>1, <1>3 DEF WorkersFit, Fits, OpsAt, WritingAt
  <2>2. ~Migrating(w)
    BY <1>3, MigratingGoes
  <2>3. CASE Writing(w)
    <3>1. ~End(w) /\ loc[w].op = "store"
      <4>1. loc[w].op = "store"
        BY <1>3, <2>3, WritingOnlyMoves
      <4>2. pc'[w] # "idle"
        BY <2>1 DEF WritingAt
      <4> QED
        BY <1>1, <4>1, <4>2, EndGoes DEF TypeOK, WorkerTypes
    <3>2. GoesOn(w) /\ AllKept
      BY <1>1, <2>3, <3>1, WritingGoes
    <3>3. loc'[w] = loc[w]
      BY <1>1, <3>2, GotoGoes DEF GoesOn, TypeOK, WorkerTypes
    <3>4. loc[w].target \in Objects /\ ~object[loc[w].target].locked
      BY <1>1, <3>1 DEF WorkersFit, Fits, StoreInv
    <3> QED
      BY <3>2, <3>3, <3>4 DEF AllKept, Kept, Grows
  <2>4. CASE ~Writing(w)
    <3>1. w \in Tasks /\ Store(w)
      BY <2>1, <2>2, <2>4, NotMigrating
    <3>2. PICK o \in Objects, x \in Object, y \in Local :
            /\ ~object[o].locked /\ object' = [object EXCEPT ![o] = x]
            /\ x.locked = object[o].locked /\ Goto(w, "write", y) /\ y.target = o
      BY <1>1, <3>1, StoreGoes
    <3>3. loc'[w] = y /\ object'[o] = x
      BY <1>1, <3>2, GotoGoes DEF TypeOK, WorkerTypes
    <3> QED
      BY <3>2, <3>3
  <2> QED
    BY <2>3, <2>4
<1> QED
  BY <1>2, <1>3 DEF StoreInv

LEMMA FileKept ==
  ASSUME IInv, FileInv, NEW w \in Workers, Steps(w)
  PROVE  FileInv'
<1>1. Effects(w) /\ OnlyMoves(w) /\ StoreInv'
  BY StepsEffects, StoreKept
<1>2. pc'[w] \in DumpingAt => Writing(w)
  BY NotMigrating, MigratingGoes DEF DumpingAt, WritingAt
<1>3. DumpInv'
  BY <1>1, <1>2, DumpKept DEF FileInv
<1> QED
  BY <1>1, <1>3 DEF FileInv, Effects

-----------------------------------------------------------------------------
(* Where the items of a source are *)

\* Its items were in a keyring file, or the file of its name was made without them.
Moved(s) == s \in moved \/ (s[1] = "v0" /\ s[2] \in foreign)

Source(w) == <<loc[w].kind, loc[w].name>>

FilesMoved == \A n \in V0 : v1[n] # NoFile => Moved(<<"v0", n>>)

\* Before the stamp the items are in the file, and before that in the keyring in hand.
StampOf(w) ==
  loc[w].op \notin {"create", "store"} =>
    /\ pc[w] \in {"refresh", "stamp"} => Moved(Source(w))
    /\ pc[w] \in {"write", "rename"} =>
         Moved(Source(w)) \/ LegacyItems[Source(w)] \subseteq object[loc[w].obj].items

StampInv ==
  /\ FilesMoved
  /\ \A w \in Workers : StampOf(w)
  /\ \A s \in stamped : Moved(s)

LEMMA WritesMove ==
  ASSUME TypeOK, WorkersFit, FilesMoved, NEW w \in Workers, Writes(w)
  PROVE  moved \subseteq moved' /\ foreign \subseteq foreign' /\ FilesMoved'
<1>1. CASE UNCHANGED <<v1, moved, foreign>>
  BY <1>1 DEF FilesMoved, Moved
<1>2. CASE Rename(w) /\ ~WriteFails(w)
  <2> DEFINE o == InHand(w)
             n == object[o].name
             items == object[o].items
  <2>1. o \in Objects
    BY <1>2, WritingGoes DEF Writing
  <2>2. n \in Names
    BY <2>1 DEF TypeOK, Object
  <2>3. /\ v1' = [v1 EXCEPT ![n] = [secret |-> object[o].secret, items |-> items]]
        /\ moved' = moved \cup {s \in Sources : s[2] = n /\ LegacyItems[s] \subseteq items}
        /\ foreign' = foreign \cup
             {m \in V0 : m = n /\ v1[n] = NoFile /\ ~(LegacyItems[<<"v0", n>>] \subseteq items)}
    BY <1>2 DEF Rename
  <2> HIDE DEF n, items, o
  <2>4. ASSUME NEW m \in V0, v1'[m] # NoFile
        PROVE  Moved(<<"v0", m>>)'
    <3>1. m \in Names /\ <<"v0", m>> \in Sources
      BY ServiceAssumption DEF Sources
    <3>2. CASE m # n
      <4>1. v1[m] # NoFile
        BY <2>2, <2>3, <2>4, <3>1, <3>2 DEF TypeOK
      <4> QED
        BY <2>3, <4>1 DEF FilesMoved, Moved
    <3>3. CASE m = n /\ LegacyItems[<<"v0", m>>] \subseteq items
      BY <2>3, <3>1, <3>3 DEF Moved
    <3>4. CASE m = n /\ v1[n] # NoFile
      BY <2>3, <3>4 DEF FilesMoved, Moved
    <3>5. CASE m = n /\ v1[n] = NoFile /\ ~(LegacyItems[<<"v0", m>>] \subseteq items)
      BY <2>3, <3>5 DEF Moved
    <3> QED
      BY <3>2, <3>3, <3>4, <3>5
  <2> QED
    BY <2>3, <2>4 DEF FilesMoved
<1>3. CASE Rename(w) /\ WriteFails(w)
  BY <1>1, <1>3, WriteFailsTo
<1>4. CASE /\ \E n \in Names : v1' = [v1 EXCEPT ![n] = NoFile]
           /\ UNCHANGED <<moved, foreign>>
  <2>1. \A m \in V0 : v1'[m] # NoFile => v1[m] # NoFile
    BY <1>4, ServiceAssumption DEF TypeOK
  <2> QED
    BY <1>4, <2>1 DEF FilesMoved, Moved
<1> QED
  BY <1>1, <1>2, <1>3, <1>4 DEF Writes

LEMMA StampKept ==
  ASSUME IInv, StampInv, NEW w \in Workers, Effects(w), OnlyMoves(w), StampOf(w)',
         \A s \in stamped' : s \in stamped \/ Moved(s)'
  PROVE  StampInv'
<1>1. TypeOK /\ WorkersFit
  BY DEF IInv, Control
<1>2. moved \subseteq moved' /\ foreign \subseteq foreign' /\ FilesMoved'
  BY <1>1, WritesMove DEF StampInv, Effects
<1>3. \A s : Moved(s) => Moved(s)'
  BY <1>2 DEF Moved
<1>4. ASSUME NEW u \in Workers, u # w
      PROVE  StampOf(u)'
  <2>1. pc'[u] = pc[u] /\ loc'[u] = loc[u] /\ Source(u)' = Source(u)
    BY <1>4 DEF OnlyMoves, Source
  <2>2. ASSUME loc[u].op # "store", pc[u] \in {"write", "rename"}
        PROVE  object[loc[u].obj].items \subseteq object'[loc[u].obj].items
    <3>1. loc[u].obj \in Objects /\ Owns(u, loc[u].obj)
      BY <1>1, <2>2 DEF WorkersFit, Fits, Owns, OwnAt
    <3>2. OthersHand(w, loc[u].obj)
      BY <1>4, <3>1 DEF OthersHand
    <3> QED
      BY <3>1, <3>2 DEF Effects, OthersKeep, Grows
  <2>3. StampOf(u)
    BY DEF StampInv
  <2>4. Moved(Source(u)) => Moved(Source(u))'
    BY <1>3, <2>1 DEF Moved
  <2> QED
    BY <2>1, <2>2, <2>3, <2>4 DEF StampOf
<1>5. \A s \in stamped' : Moved(s)'
  BY <1>3 DEF StampInv
<1> QED
  BY <1>2, <1>4, <1>5 DEF StampInv

LEMMA MigratingStamp ==
  ASSUME IInv, TimeInv, StampInv, NEW w \in Workers, Migrating(w)
  PROVE  StampInv'
<1> DEFINE l == loc[w]
<1>1. /\ TypeOK /\ Ownership /\ WorkerTypes /\ Objectful /\ l \in Local /\ Fits(w, pc[w], l)
      /\ WorkersFit
  BY DEF IInv, TypeOK, Control, WorkerTypes, Objectful, WorkersFit
<1>2. Effects(w)
  BY MigratingEffects
<1> DEFINE Now(s) == s \in moved' \/ (s[1] = "v0" /\ s[2] \in foreign')
<1>3. \A s : Moved(s) => Now(s)
  BY <1>1, <1>2, WritesMove DEF StampInv, Effects, Moved
<1>4. CASE Open(w)
  <2> DEFINE kr == Migrated(l.kind, l.name, l.secret)
             x == [l EXCEPT !.obj = Next1]
  <2>1. pc[w] = "open" /\ UNCHANGED <<stamped, moved, foreign>>
    BY <1>4 DEF Open, diskVars, ghosts
  <2>2. CASE Goto(w, "refused", l)
    <3>1. pc'[w] = "refused" /\ OnlyMoves(w)
      BY <1>1, <2>2, GotoGoes
    <3> QED
      BY <1>2, <2>1, <3>1, StampKept DEF StampOf
  <2>3. CASE Goto(w, "write", x)
    <3>1. x.op = l.op /\ x.kind = l.kind /\ x.name = l.name /\ x.obj = Next1
      BY <1>1 DEF Local
    <3> HIDE DEF x
    <3>2. pc'[w] = "write" /\ loc'[w] = x /\ OnlyMoves(w)
      BY <1>1, <2>3, GotoGoes
    <3>3. CASE l.op = "create"
      BY <1>2, <2>1, <3>1, <3>2, <3>3, StampKept DEF StampOf
    <3>4. CASE l.op # "create"
      <4>1. /\ l.name \in Names /\ l.secret \in Answers /\ l.kind \in {"v0", "kwallet"}
            /\ <<l.kind, l.name>> \in Sources
        BY <1>1, <2>1, <3>4 DEF Local, Fits, OpsAt, MigrationAt
      <4>2. Next1 \in Objects
        BY <1>4, NextIsFresh DEF Open
      <4>3. Migrates(l.kind, l.name, l.secret) /\ object' = [object EXCEPT ![Next1] = kr]
        <5>1. pc'[w] # "refused"
          BY <3>2
        <5>2. ~Goto(w, "refused", l)
          BY <1>1, <5>1, GotoGoes
        <5> QED
          BY <1>4, <3>4, <5>2 DEF Open
      <4>4. v1[l.name] = NoFile \/ l.kind = "kwallet" =>
              LegacyItems[<<l.kind, l.name>>] \subseteq kr.items
        BY <1>1, <4>1, <4>3, MigratedInStep DEF TypeOK
      <4>5. object'[Next1] = kr
        BY <1>1, <4>2, <4>3 DEF Objectful
      <4> HIDE DEF kr
      <4>6. v1[l.name] # NoFile /\ l.kind = "v0" => Moved(<<l.kind, l.name>>)
        <5>1. l.kind = "v0" => l.name \in V0
          BY <4>1 DEF Sources
        <5> QED
          BY <5>1 DEF StampInv, FilesMoved
      <4>7. loc'[w].kind = l.kind /\ loc'[w].name = l.name /\ loc'[w].obj = Next1
        BY <3>1, <3>2
      <4>8. LegacyItems[<<l.kind, l.name>>] \subseteq object'[Next1].items \/ Now(<<l.kind, l.name>>)
        BY <1>3, <4>1, <4>4, <4>5, <4>6
      <4>9. StampOf(w)'
        BY <3>2, <4>7, <4>8 DEF StampOf, Moved, Source
      <4> QED
        BY <1>2, <2>1, <3>2, <4>9, StampKept
    <3> QED
      BY <3>3, <3>4
  <2> QED
    BY <1>4, <2>2, <2>3 DEF Open
<1>5. CASE Stamp(w)
  <2>1. pc[w] = "stamp" /\ stamped' \subseteq stamped \cup {Source(w)}
    BY <1>5 DEF Stamp, Source
  <2>2. pc'[w] = "migrated" /\ OnlyMoves(w)
    BY <1>1, <1>5, GotoGoes DEF Stamp
  <2>3. Moved(Source(w))
    <3>1. l.op \notin {"create", "store"}
      BY <1>1, <2>1 DEF Fits, OpsAt
    <3> QED
      BY <2>1, <3>1 DEF StampInv, StampOf
  <2>4. \A s \in stamped' : s \in stamped \/ Moved(s)'
    BY <1>3, <2>1, <2>3 DEF Moved
  <2>5. StampOf(w)'
    BY <2>2 DEF StampOf
  <2> QED
    BY <1>2, <2>2, <2>4, <2>5, StampKept
<1> QED
  BY <1>4, <1>5 DEF Migrating

\* A keyring that is written has its source's items when it is renamed.
LEMMA WritingStamp ==
  ASSUME IInv, FileInv, StampInv, NEW w \in Workers, Writing(w)
  PROVE  StampInv'
<1> DEFINE l == loc[w]
           s == Source(w)
           o == InHand(w)
<1>1. /\ TypeOK /\ Ownership /\ WorkerTypes /\ Objectful /\ l \in Local /\ Fits(w, pc[w], l)
      /\ WorkersFit
  BY DEF IInv, TypeOK, Control, WorkerTypes, Objectful, WorkersFit
<1>2. Effects(w) /\ OnlyMoves(w)
  BY StepsEffects DEF Steps
<1>3. /\ pc[w] \in WritingAt /\ o \in Objects /\ UNCHANGED stamped
      /\ l.op # "store" => l.obj = o
  BY <1>1, WritingGoes
<1>4. moved \subseteq moved' /\ foreign \subseteq foreign'
  BY <1>1, <1>2, WritesMove DEF StampInv, Effects
<1>5. StampOf(w)'
  <2>1. CASE End(w) \/ Unwritten(w)
    <3>1. pc'[w] \in {"idle", "refused"}
      BY <1>1, <2>1, EndGoes, GotoGoes DEF Unwritten
    <3> QED
      BY <3>1 DEF StampOf
  <2>2. CASE GoesOn(w) /\ AllKept /\ ~WriteFails(w)
    <3>1. loc'[w] = l /\ pc'[w] \in {"rename", "refresh", "stamp", "label"}
      BY <1>1, <2>2, GotoGoes DEF GoesOn
    <3> SUFFICES ASSUME l.op \notin {"create", "store"}
                 PROVE  /\ pc'[w] \in {"refresh", "stamp"} => Moved(s)'
                        /\ pc'[w] \in {"write", "rename"} =>
                             Moved(s)' \/ LegacyItems[s] \subseteq object'[o].items
      <4>1. Source(w)' = s /\ Moved(Source(w))' = Moved(s)'
        BY <3>1 DEF Source, Moved
      <4> QED
        BY <1>3, <3>1, <4>1 DEF StampOf
    <3>2. Moved(s) => Moved(s)'
      BY <1>4, <3>1 DEF Moved, Source
    <3>3. /\ pc[w] = "refresh" => Moved(s)
          /\ pc[w] \in {"write", "rename"} => Moved(s) \/ LegacyItems[s] \subseteq object[o].items
      BY <1>3 DEF StampInv, StampOf
    <3>4. CASE Write(w)
      <4>1. pc[w] = "write" /\ Goto(w, "rename", l) /\ UNCHANGED object
        BY <2>2, <3>4 DEF Write
      <4>2. pc'[w] = "rename"
        BY <1>1, <4>1, GotoGoes
      <4> QED
        BY <3>2, <3>3, <4>1, <4>2
    <3>5. CASE Rename(w)
      <4>1. /\ pc[w] = "rename" /\ Goto(w, "refresh", l)
            /\ moved' = moved \cup {x \in Sources : x[2] = object[o].name
                                                   /\ LegacyItems[x] \subseteq object[o].items}
        BY <2>2, <3>5 DEF Rename
      <4>2. pc'[w] = "refresh"
        BY <1>1, <4>1, GotoGoes
      <4>3. s \in Sources /\ s[2] = l.name
        BY <1>1, <4>1 DEF Fits, OpsAt, MigrationAt, Source
      <4>4. object[o].name = l.name
        BY <1>1, <1>3, <4>1 DEF Ownership, OwnIsOwn, Owns, OwnAt
      <4>5. LegacyItems[s] \subseteq object[o].items => s \in moved'
        BY <4>1, <4>3, <4>4
      <4>6. s \in moved' => Moved(s)'
        BY <3>1 DEF Moved, Source
      <4> QED
        BY <3>2, <3>3, <4>1, <4>2, <4>5, <4>6
    <3>6. CASE Refresh(w)
      <4>1. pc[w] = "refresh" /\ pc'[w] # "rename" /\ pc'[w] # "write"
        <5>1. End(w) \/ Goto(w, "label", l) \/ Goto(w, "stamp", l)
          BY <2>2, <3>6 DEF Refresh
        <5>2. pc'[w] \in {"idle", "label", "stamp"}
          BY <1>1, <5>1, EndGoes, GotoGoes
        <5> QED
          BY <3>6, <5>2 DEF Refresh
      <4> QED
        BY <3>2, <3>3, <4>1
    <3> QED
      BY <3>4, <3>5, <3>6 DEF Writing
  <2> QED
    BY <1>1, <2>1, <2>2, WritingGoes, WriteFailsTo
<1> QED
  BY <1>1, <1>2, <1>3, <1>5, StampKept

LEMMA StepsStamp ==
  ASSUME IInv, FileInv, StampInv, NEW w \in Workers, Steps(w)
  PROVE  StampInv'
<1>1. CASE ~Migrating(w) /\ ~Writing(w)
  <2>1. /\ OnlyMoves(w) /\ UNCHANGED stamped
        /\ \/ pc'[w] \notin WritingAt \cup {"stamp"}
           \/ w \in Tasks /\ Store(w) /\ pc'[w] = "write"
    BY <1>1, NotMigrating
  <2>2. CASE pc'[w] \notin WritingAt \cup {"stamp"}
    <3>1. StampOf(w)'
      BY <2>2 DEF StampOf, WritingAt
    <3> QED
      BY <2>1, <3>1, StepsEffects, StampKept
  <2>3. CASE w \in Tasks /\ Store(w)
    <3>1. TypeOK /\ WorkerTypes
      BY DEF IInv, TypeOK, WorkerTypes
    <3>2. PICK y \in Local : Goto(w, "write", y) /\ y.op = "store"
      BY <2>3, <3>1, StoreGoes
    <3>3. loc'[w].op = "store"
      BY <3>1, <3>2, GotoGoes
    <3>4. StampOf(w)'
      BY <3>3 DEF StampOf
    <3> QED
      BY <2>1, <3>4, StepsEffects, StampKept
  <2> QED
    BY <2>1, <2>2, <2>3
<1>2. CASE Writing(w)
  BY <1>2, WritingStamp
<1>3. CASE Migrating(w)
  BY <1>3, MigratingStamp DEF FileInv
<1> QED
  BY <1>1, <1>2, <1>3

\* Nothing is in memory: what matters is what the files and the stamps say.
LEMMA EmptiedDisk == Emptied /\ FilesMoved /\ (\A s \in stamped : Moved(s)) => FileInv /\ StampInv
<1> SUFFICES ASSUME Emptied, FilesMoved, \A s \in stamped : Moved(s) PROVE FileInv /\ StampInv
  OBVIOUS
<1>1. TimeInv
  BY BlankInStep DEF TimeInv, Emptied
<1>2. \A w \in Workers : pc[w] \in {"down", "idle"} /\ loc[w].op = "none"
  BY DEF Emptied, Blank
<1>3. DumpInv /\ StoreInv
  BY <1>2 DEF DumpInv, DumpOf, DumpingAt, StoreInv
<1> QED
  BY <1>1, <1>2, <1>3 DEF FileInv, StampInv, StampOf

LEMMA EmptiedDiskNext ==
  Emptied' /\ FilesMoved' /\ (\A s \in stamped : Moved(s))' => FileInv' /\ StampInv'
BY EmptiedDisk, PTL

DiskInv == IInv /\ FileInv /\ StampInv

LEMMA StutterDisk ==
  ASSUME DiskInv, UNCHANGED vars
  PROVE  FileInv' /\ StampInv'
<1>1. TimeInv'
  BY DEF DiskInv, FileInv, TimeInv, InStep, vars
<1>2. \A w : InHand(w)' = InHand(w)
  BY DEF InHand, vars
<1>3. DumpInv'
  <2>1. UNCHANGED <<v1, object, pc, raced>>
    BY DEF vars
  <2>2. \A x : Agrees(x)' = Agrees(x)
    BY <2>1 DEF Agrees
  <2> QED
    BY <1>2, <2>1 DEF DiskInv, FileInv, DumpInv, DumpOf, Agrees
<1>4. StoreInv'
  BY DEF DiskInv, FileInv, StoreInv, vars
<1>5. StampInv'
  BY DEF DiskInv, StampInv, StampOf, FilesMoved, Moved, Source, vars
<1> QED
  BY <1>1, <1>3, <1>4, <1>5 DEF FileInv

LEMMA DiskInvStep ==
  ASSUME DiskInv, [Next]_vars
  PROVE  DiskInv'
<1>1. IInv /\ FileInv /\ StampInv /\ IInv'
  BY IInvStep DEF DiskInv
<1>2. CASE \E w \in Workers : Steps(w)
  BY <1>1, <1>2, FileKept, StepsStamp DEF DiskInv
<1>3. CASE Crash \/ GiveUp
  <2>1. Emptied' /\ UNCHANGED <<v1, stamped, moved, foreign>>
    BY <1>3 DEF Crash, GiveUp, Reset, Emptied
  <2>2. FilesMoved' /\ (\A s \in stamped : Moved(s))'
    BY <1>1, <2>1 DEF StampInv, FilesMoved, Moved
  <2> QED
    BY <1>1, <2>1, <2>2, EmptiedDiskNext DEF DiskInv
<1>4. CASE UNCHANGED vars
  BY <1>1, <1>4, StutterDisk DEF DiskInv
<1> QED
  BY <1>2, <1>3, <1>4, NextSteps

\* What is in memory fits the files, and the files what was migrated.
THEOREM DiskInvariant == Spec => []DiskInv
<1>1. Init => DiskInv
  <2> SUFFICES ASSUME Init PROVE DiskInv
    OBVIOUS
  <2>1. Emptied
    BY DEF Init, Emptied
  <2>2. FilesMoved /\ stamped = {}
    BY ServiceAssumption DEF Init, FilesMoved
  <2> QED
    BY <2>1, <2>2, InitInv, EmptiedDisk DEF DiskInv
<1>2. DiskInv /\ [Next]_vars => DiskInv'
  BY DiskInvStep
<1> QED
  BY <1>1, <1>2, PTL DEF Spec

\* A source is only stamped when its items were in a keyring file, or the file of its name
\* was made without them (migration.rs writes the stamp after the keyring): for every
\* interleaving of the migrations, of what clients do and of crashes.
THEOREM StampsAreTrue == Spec => []StampedWereMovedOrForeign
<1>1. DiskInv => StampedWereMovedOrForeign
  <2> SUFFICES ASSUME DiskInv, NEW s \in stamped
               PROVE  s \in moved \cup ({"v0"} \X foreign)
    BY DEF StampedWereMovedOrForeign
  <2>1. Moved(s) /\ s \in Sources
    BY DEF DiskInv, StampInv, IInv, TypeOK
  <2>2. s = <<s[1], s[2]>>
    BY <2>1 DEF Sources
  <2> QED
    BY <2>1, <2>2 DEF Moved
<1> QED
  BY <1>1, DiskInvariant, PTL

LEMMA WritesKeep ==
  ASSUME TypeOK, WorkersFit, DumpInv, NEW w \in Workers, Writes(w), NEW n \in Names \ raced,
         v1[n] # NoFile, v1'[n] # NoFile, v1[n].items # {}
  PROVE  v1[n].items \subseteq v1'[n].items /\ v1'[n].secret = v1[n].secret
<1>1. CASE UNCHANGED <<v1, moved, foreign>>
  BY <1>1
<1>2. CASE Rename(w) /\ ~WriteFails(w)
  <2> DEFINE o == InHand(w)
             m == object[o].name
             s == object[o].secret
             items == object[o].items
  <2>1. v1' = [v1 EXCEPT ![m] = [secret |-> s, items |-> items]]
    BY <1>2 DEF Rename
  <2>2. m \notin raced => Agrees(object[o])
    BY <1>2 DEF Rename, DumpInv, DumpOf, DumpingAt
  <2>3. m \notin raced /\ v1[m] # NoFile =>
          v1[m].items \subseteq items /\ (v1[m].items # {} => v1[m].secret = s)
    BY <2>2 DEF Agrees
  <2> HIDE DEF m, s, items
  <2>4. CASE n = m
    <3>1. v1'[n].items = items /\ v1'[n].secret = s
      BY <2>1, <2>4 DEF TypeOK
    <3> QED
      BY <2>3, <2>4, <3>1
  <2>5. CASE n # m
    BY <2>1, <2>5 DEF TypeOK
  <2> QED
    BY <2>4, <2>5
<1>3. CASE Rename(w) /\ WriteFails(w)
  BY <1>3, WriteFailsTo
<1>4. CASE \E m \in Names : v1' = [v1 EXCEPT ![m] = NoFile]
  <2>1. PICK m \in Names : v1' = [v1 EXCEPT ![m] = NoFile]
    BY <1>4
  <2>2. n # m
    BY <2>1 DEF TypeOK
  <2> QED
    BY <2>1, <2>2 DEF TypeOK
<1> QED
  BY <1>1, <1>2, <1>3, <1>4 DEF Writes

\* A keyring file that has items keeps them and their password, as long as it is there and
\* until two objects in memory write it at the same time: whoever writes compares the time
\* stamp (Keyring::dump), and stays alone with the file from there to the new time stamp.
THEOREM ItemsOutlastTheDaemon == Spec => FilesKeepItems
<1> DEFINE Keeps == \A n \in Names \ raced :
             v1[n] # NoFile /\ v1'[n] # NoFile /\ v1[n].items # {} =>
               v1[n].items \subseteq v1'[n].items /\ v1'[n].secret = v1[n].secret
<1>1. DiskInv /\ [Next]_vars => [Keeps]_vars
  <2> SUFFICES ASSUME DiskInv, [Next]_vars PROVE Keeps \/ UNCHANGED vars
    OBVIOUS
  <2>1. IInv /\ TypeOK /\ WorkersFit /\ FileInv /\ DumpInv
    BY DEF DiskInv, IInv, Control, FileInv
  <2>2. CASE \E w \in Workers : Steps(w)
    BY <2>1, <2>2, StepsEffects, WritesKeep DEF Effects
  <2>3. CASE Crash \/ GiveUp
    BY <2>3 DEF Crash, GiveUp, Reset
  <2> QED
    BY <2>2, <2>3, NextSteps
<1> QED
  BY <1>1, DiskInvariant, PTL DEF Spec, FilesKeepItems

-----------------------------------------------------------------------------
(* What a step leaves of the keyrings that others know *)

\* A keyring in use that w does not own stays what it is, and so does its alias, unless
\* it is listed.
Touches(w) ==
  \A o \in Objects : object[o].used /\ ~Owns(w, o) =>
    /\ Same(object[o], object'[o])
    /\ (\A p \in Places : collections[p] # o) => object'[o].alias = object[o].alias

LEMMA TouchesNothing ==
  ASSUME NEW w, UNCHANGED object
  PROVE  Touches(w)
BY DEF Touches, Same

LEMMA TouchesOne ==
  ASSUME Objectful, NEW w, NEW k \in Objects, NEW y, object' = [object EXCEPT ![k] = y],
         ~object[k].used \/ Owns(w, k)
  PROVE  Touches(w)
BY DEF Touches, Same, Objectful

LEMMA CallTouches ==
  ASSUME TypeOK, NEW t \in Tasks, Call(t)
  PROVE  Touches(t)
<1>1. Objectful /\ AllSame
  BY CallSame DEF TypeOK, Objectful
<1>2. \A p \in Listed : collections[p] \in Objects /\ p \in Places
  BY DEF TypeOK, Listed
<1>3. \A o \in Objects : object[o] \in Object
  BY <1>1 DEF Objectful
<1> SUFFICES ASSUME NEW q \in Objects, \A p \in Places : collections[p] # q
             PROVE  object'[q].alias = object[q].alias
  BY <1>1 DEF Touches, AllSame
<1>4. CASE UNCHANGED object
  BY <1>4
<1>5. CASE Lock(t) \/ SetAlias(t)
  <2>1. PICK p \in Listed :
          \/ object' = [object EXCEPT ![collections[p]].locked = TRUE]
          \/ \E a : object' = [object EXCEPT ![collections[p]].alias = a]
    BY <1>5 DEF Lock, SetAlias
  <2>2. q # collections[p]
    BY <1>2
  <2> QED
    BY <1>1, <1>2, <2>1, <2>2 DEF Objectful
<1>6. CASE Store(t)
  <2>1. PICK o \in Objects, x \in Object :
          object' = [object EXCEPT ![o] = x] /\ x.alias = object[o].alias
    BY <1>6, StoreGoes
  <2> QED
    BY <1>1, <2>1 DEF Objectful
<1>7. CASE Delete(t)
  <2>1. PICK o \in Reachable :
          UNCHANGED object \/ object' = Outdated(object, object[o].name)
    BY <1>7 DEF Delete
  <2>2. o \in Objects
    BY <1>2 DEF Reachable, TypeOK
  <2>3. object[o].name \in Names
    BY <1>3, <2>2 DEF Object
  <2>4. CASE object' = Outdated(object, object[o].name)
    BY <1>1, <2>3, <2>4, OutdatedType DEF Objectful
  <2> QED
    BY <1>4, <2>1, <2>4
<1> QED
  BY <1>4, <1>5, <1>6, <1>7 DEF Call, OpenSession, Create, Unlock, Pam

LEMMA MigratingTouches ==
  ASSUME IInv, NEW w \in Workers, Migrating(w)
  PROVE  Touches(w)
<1> DEFINE l == loc[w]
<1>1. TypeOK /\ Objectful /\ l \in Local /\ Fits(w, pc[w], l)
  BY DEF IInv, TypeOK, Control, WorkersFit, Objectful
<1>2. CASE Open(w)
  <2>1. Next1 \in Objects /\ ~object[Next1].used
    BY <1>2, NextIsFresh DEF Open
  <2>2. UNCHANGED object \/ \E y : object' = [object EXCEPT ![Next1] = y]
    BY <1>2 DEF Open
  <2> QED
    BY <1>1, <2>1, <2>2, TouchesNothing, TouchesOne
<1>3. CASE Stamp(w)
  BY <1>3, TouchesNothing DEF Stamp
<1> QED
  BY <1>2, <1>3 DEF Migrating

LEMMA WritingTouches ==
  ASSUME IInv, NEW w \in Workers, Writing(w)
  PROVE  Touches(w)
<1> DEFINE l == loc[w]
           o == InHand(w)
<1>1. TypeOK /\ WorkersFit /\ Objectful
  BY DEF IInv, TypeOK, Control, Objectful
<1>2. pc[w] \in WritingAt /\ o \in Objects /\ (l.op # "store" => l.obj = o)
  BY <1>1, WritingGoes
<1>3. CASE AllKept
  BY <1>3 DEF AllKept, Kept, Touches
<1>4. CASE l.op # "store" /\ Unwritten(w)
  <2>1. Owns(w, o)
    BY <1>2, <1>4 DEF Owns, OwnAt, WritingAt
  <2> QED
    BY <1>1, <1>2, <1>4, <2>1, TouchesOne DEF Unwritten
<1> QED
  BY <1>1, <1>3, <1>4, WritingGoes

LEMMA AddingTouches ==
  ASSUME IInv, NEW w \in Workers, Adding(w)
  PROVE  Touches(w)
<1> DEFINE l == loc[w]
<1>1. TypeOK /\ Objectful /\ Listing /\ l \in Local /\ Fits(w, pc[w], l)
  BY DEF IInv, TypeOK, Control, WorkersFit, Objectful
<1>2. CASE Label(w)
  <2>1. l.obj \in Objects /\ Owns(w, l.obj) /\ \A p \in Places : collections[p] # l.obj
    BY <1>2, LabelPlaces
  <2>2. PICK alias \in AliasNames : object' = Placed(l.obj, alias)
    BY <1>2, LabelPlaces
  <2>3. \A q \in Objects : q # l.obj => object'[q] = object[q]
    BY <1>1, <2>1, <2>2, PlacedType, InOnePlace DEF Listing
  <2> QED
    BY <2>1, <2>3 DEF Touches, Same
<1>3. CASE ServeAt(w)
  <2>1. l.obj \in Objects /\ Owns(w, l.obj)
    BY <1>1, <1>3 DEF ServeAt, Fits, OwnAt, Owns
  <2>2. UNCHANGED object \/ object' = [object EXCEPT ![l.obj] = NoCollection]
    BY <1>3 DEF ServeAt
  <2> QED
    BY <1>1, <2>1, <2>2, TouchesNothing, TouchesOne
<1>4. CASE Insert(w) \/ ServeDefault(w)
  BY <1>4, TouchesNothing DEF Insert, ServeDefault
<1> QED
  BY <1>2, <1>3, <1>4 DEF Adding

LEMMA TryingTouches ==
  ASSUME IInv, NEW w \in Workers, TryingAll(w) \/ SetLocked(w)
  PROVE  Touches(w)
<1>1. TypeOK /\ loc[w].secret \in Answers
  BY DEF IInv, TypeOK, Local
<1>2. UNCHANGED object \/ \E os : object' = TryUnlock(os, loc[w].secret)
  BY DEF TryingAll, PamLock, PamNext, PamDone, UnlockAll, SetLocked
<1> QED
  BY <1>1, <1>2, TouchesNothing, TryUnlockType DEF Touches

LEMMA UnlockingTouches ==
  ASSUME IInv, NEW w \in Workers, Unlocking(w)
  PROVE  Touches(w)
<1>1. CASE Look(w) \/ FindPending(w) \/ Forget(w)
  BY <1>1, TouchesNothing DEF Look, FindPending, Forget
<1>2. CASE ReplaceKeyring(w)
  <2> DEFINE l == loc[w]
             kr == object[l.obj]
             tg == object[l.target]
             new == [tg EXCEPT !.locked = FALSE, !.secret = kr.secret, !.items = kr.items,
                               !.time = kr.time]
  <2>1. Objectful /\ l \in Local /\ Fits(w, pc[w], l)
    BY DEF IInv, TypeOK, Control, WorkersFit, Objectful
  <2>2. pc[w] = "migrated" /\ l.op = "unlock" /\ l.obj \in Objects /\ l.target \in Objects
    BY <1>2, <2>1 DEF ReplaceKeyring, Fits, OwnAt
  <2>3. object' = [object EXCEPT ![l.target] = new, ![l.obj] = NoCollection]
    BY <1>2, <2>1, <2>2 DEF ReplaceKeyring, Objectful
  <2>4. Same(tg, new) /\ new.alias = tg.alias
    <3>1. tg \in Object
      BY <2>1, <2>2 DEF Objectful
    <3> HIDE DEF tg, kr
    <3> QED
      BY <3>1 DEF Object, Same
  <2> HIDE DEF new
  <2>5. Owns(w, l.obj)
    BY <2>2 DEF Owns, OwnAt
  <2> QED
    BY <2>1, <2>2, <2>3, <2>4, <2>5 DEF Touches, Objectful, Same
<1> QED
  BY <1>1, <1>2, TryingTouches DEF Unlocking

LEMMA BootingTouches ==
  ASSUME IInv, Start \/ (Booting /\ ~GiveUp), ~Place
  PROVE  Touches(Boot)
<1> DEFINE l == loc[Boot]
<1>1. Boot \in Workers
  BY DEF Workers
<1>2. TypeOK /\ Objectful /\ l \in Local /\ Fits(Boot, pc[Boot], l)
  BY <1>1 DEF IInv, TypeOK, Control, WorkersFit, Objectful
<1>3. CASE ScanV1 \/ PutOff \/ (Register /\ ~HasDefault)
  <2>1. Next1 \in Objects /\ ~object[Next1].used /\ \E y : object' = [object EXCEPT ![Next1] = y]
    BY <1>3, FoundNew
  <2> QED
    BY <1>2, <2>1, TouchesOne
<1>4. CASE Discovered
  <2>1. l.obj \in Objects /\ Owns(Boot, l.obj)
    BY <1>2, <1>4 DEF Discovered, Fits, OwnAt, Owns
  <2>2. object' = [object EXCEPT ![l.obj] = Found(object[l.obj], l.kind)]
    BY <1>2, <1>4, <2>1 DEF Discovered, Objectful
  <2> QED
    BY <1>2, <2>1, <2>2, TouchesOne
<1>5. CASE Start \/ NextScan \/ ScanLegacy \/ Connect \/ Serve \/ Replay \/ (Register /\ HasDefault)
  BY <1>5, TouchesNothing DEF Start, NextScan, ScanLegacy, Connect, Serve, Replay, Register
<1> QED
  BY <1>3, <1>4, <1>5 DEF Booting

LEMMA StepsTouch ==
  ASSUME IInv, NEW w \in Workers, Steps(w), ~(w = Boot /\ Place)
  PROVE  Touches(w)
<1>1. TypeOK
  BY DEF IInv
<1>2. CASE CreateFails(w) \/ Unserve(w) \/ Remove(w)
  BY <1>2, TouchesNothing DEF CreateFails, Unserve, Remove
<1> QED
  BY <1>1, <1>2, CallTouches, MigratingTouches, WritingTouches, AddingTouches, TryingTouches,
     UnlockingTouches, BootingTouches DEF Steps

\* What is known, and what is about to be listed, stays what it is.
LEMMA KnownKept ==
  ASSUME Ownership, NEW w \in Workers, Touches(w)
  PROVE  /\ \A o \in Objects : Known(o) => Same(object[o], object'[o])
         /\ \A u \in Workers : pc[u] \in SharedAt /\ loc[u].obj \in Objects =>
              Same(object[loc[u].obj], object'[loc[u].obj])
<1>1. ASSUME NEW o \in Objects, Known(o) \/ \E u \in Workers : Holds(u, o)
      PROVE  object[o].used /\ ~Owns(w, o)
  BY <1>1 DEF Ownership, KnownAreUsed, OwnIsOwn
<1>2. \A u \in Workers : pc[u] \in SharedAt => Holds(u, loc[u].obj)
  BY DEF Holds
<1> QED
  BY <1>1, <1>2 DEF Touches

-----------------------------------------------------------------------------
(* Listed, served and waited for *)

\* What Boot listed, and what of it is not on the bus yet.
Done(i) == pc[Boot] = "serve" \/ (pc[Boot] = "place" /\ i < loc[Boot].index)
ToServe(i) == Done(i) /\ (pc[Boot] = "serve" => i >= loc[Boot].index)

\* Boot has put on the bus what it found.
Settled == pc[Boot] # "down" /\ ~Early

PathAt(i) == object[found[i]].path

ListedIsServed ==
  \A p \in Places \ deletedAt : collections[p] # NoObject =>
    served[p] # NoObject \/ \E i \in DOMAIN found : ToServe(i) /\ PathAt(i) = p

ServedIsListed ==
  \A p \in Places \ deletedAt : served[p] # NoObject =>
    \/ collections[p] # NoObject
    \/ \E w \in Workers : pc[w] = "insert" /\ object[loc[w].obj].path = p

InsertIsServed ==
  \A w \in Workers : pc[w] = "insert" =>
    object[loc[w].obj].path \in deletedAt \/ served[object[loc[w].obj].path] # NoObject

TakenOffIsDeleted == \A w \in Workers : pc[w] \in {"unserve", "remove"} => loc[w].path \in deletedAt

DoneIsListed ==
  \A i \in DOMAIN found : Done(i) =>
    PathAt(i) \in deletedAt \/ collections[PathAt(i)] # NoObject

\* The list and the object server, by what is still to be done.
BusInv == ListedIsServed /\ ServedIsListed /\ InsertIsServed /\ TakenOffIsDeleted /\ DoneIsListed

\* A name that is waited for was found, is listed, or was deleted.
Reached(n) ==
  \/ \E i \in DOMAIN found : Unplaced(i) /\ object[found[i]].name = n
  \/ \E p \in Places : collections[p] # NoObject /\ object[collections[p]].name = n
  \/ \E p \in deletedAt : p[1] = PathOf[n]

PendInv == \A n \in Names : pending[n] # "none" => Reached(n)

DefaultNames == {Login, "default"}

\* Something is the default collection, or is about to be.
HaveDefault ==
  \/ defaultServed # NoObject
  \/ \E w \in Workers : pc[w] = "serveDefault" /\ loc[w].name \in DefaultNames
  \/ \E i \in DOMAIN found : ToServe(i) /\ object[found[i]].default

AliasFits(kr) ==
  /\ kr.alias[1] \in DefaultNames => kr.name \in DefaultNames
  /\ kr.name \in DefaultNames => kr.alias[1] = "default"

AliasGiven == \A i \in DOMAIN found : Unplaced(i) => AliasFits(object[found[i]])

CreatedAreNew == \A w \in Workers : loc[w].op = "create" => loc[w].name \in NewNames

ListedGivesDefault ==
  \A p \in Places : collections[p] # NoObject /\ object[collections[p]].name \in DefaultNames =>
    HaveDefault

\* Between the lists of what was found and the bus.
DefaultFound ==
  HaveDefault \/ \E i \in DOMAIN found : Unplaced(i) /\ object[found[i]].name \in DefaultNames

DefInv ==
  /\ AliasGiven /\ CreatedAreNew /\ ListedGivesDefault
  /\ pc[Boot] = "place" => DefaultFound
  /\ Settled => HaveDefault

-----------------------------------------------------------------------------
(* Steps far from all of that *)

SameStage ==
  /\ \A i \in DOMAIN found :
       (Done(i)' <=> Done(i)) /\ (ToServe(i)' <=> ToServe(i)) /\ (Unplaced(i)' <=> Unplaced(i))
  /\ Settled' => Settled
  /\ pc'[Boot] = "place" => pc[Boot] = "place"

Marks == {"insert", "serveDefault", "unserve", "remove"}
Stages == {"place", "serve", "replay", "down"}

\* What is created keeps its name.
NewName(w) ==
  loc'[w].op = "create" =>
    loc'[w].name \in NewNames \/ (loc[w].op = "create" /\ loc'[w].name = loc[w].name)

FarMoves(w) ==
  /\ OnlyMoves(w) /\ NewName(w)
  /\ pc[w] \notin Marks /\ pc'[w] \notin Marks
  /\ SameStage

Far(w) ==
  /\ FarMoves(w)
  /\ UNCHANGED <<collections, served, defaultServed, found, deletedAt>>
  /\ \A n \in Names : pending'[n] \in {pending[n], "none"}

LEMMA StageOthers ==
  ASSUME NEW w \in Workers, w # Boot, OnlyMoves(w)
  PROVE  SameStage
<1>1. pc'[Boot] = pc[Boot] /\ loc'[Boot] = loc[Boot]
  BY DEF OnlyMoves, Workers
<1> QED
  BY <1>1 DEF SameStage, Done, ToServe, Unplaced, Early, Settled

LEMMA StageKept ==
  ASSUME NEW w \in Workers, OnlyMoves(w), pc[w] \notin Stages, pc'[w] \notin Stages,
         loc'[w].op = "boot" <=> loc[w].op = "boot"
  PROVE  SameStage
<1>1. CASE w = Boot
  BY <1>1 DEF SameStage, Done, ToServe, Unplaced, Early, Settled, Stages
<1> QED
  BY <1>1, StageOthers

LEMMA GotoFar ==
  ASSUME WorkerTypes, NEW w \in Workers, NEW label, NEW x, Goto(w, label, x),
         pc[w] \notin Marks \cup Stages, label \notin Marks \cup Stages,
         x.op = loc[w].op, x.op = "create" => x.name = loc[w].name
  PROVE  FarMoves(w)
<1>1. pc'[w] = label /\ loc'[w] = x /\ OnlyMoves(w)
  BY GotoGoes
<1>2. SameStage
  BY <1>1, StageKept
<1> QED
  BY <1>1, <1>2 DEF FarMoves, NewName

LEMMA EndFar ==
  ASSUME WorkerTypes, NEW w \in Workers, End(w), pc[w] \notin Marks \cup Stages,
         loc[w].op # "boot"
  PROVE  FarMoves(w)
<1>1. pc'[w] = "idle" /\ loc'[w] = Blank /\ OnlyMoves(w) /\ Blank.op = "none"
  BY EndGoes DEF Blank
<1>2. SameStage
  BY <1>1, StageKept DEF Stages
<1> QED
  BY <1>1, <1>2 DEF FarMoves, NewName, Marks

\* A call changes no more than its own task.
LEMMA CallFar ==
  ASSUME IInv, NEW t \in Tasks, Call(t), ~Delete(t)
  PROVE  Far(t)
<1>1. /\ WorkerTypes /\ t \in Workers /\ t # Boot /\ pc[t] = "idle"
  BY ServiceAssumption DEF IInv, TypeOK, WorkerTypes, Workers, Call, OpenSession, Create, Unlock,
     Lock, SetAlias, Store, Delete, Pam, CanCall
<1>2. UNCHANGED <<collections, served, defaultServed, found, deletedAt, pending>>
  BY DEF Call, OpenSession, Create, Unlock, Lock, SetAlias, Store, Pam, busVars, ghosts
<1>3. UNCHANGED <<pc, loc>> \/ End(t) \/ \E label \in {"open", "look", "pamLock", "write"} : \E x :
        Goto(t, label, x) /\ (x.op = "create" => x.name \in NewNames)
  <2>1. CASE OpenSession(t)
    BY <2>1 DEF OpenSession, Panic
  <2>2. CASE Create(t) /\ ~Panic(t)
    <3>1. PICK n \in NewNames, a \in Aliases, s \in UNION {Typed[m] : m \in Names} :
            Goto(t, "open", [Blank EXCEPT !.op = "create", !.name = n, !.alias = a, !.secret = s])
      BY <2>2, ServiceAssumption DEF Create
    <3> DEFINE x == [Blank EXCEPT !.op = "create", !.name = n, !.alias = a, !.secret = s]
    <3>2. x.name = n
      BY DEF Blank
    <3> QED
      BY <3>1, <3>2
  <2>3. CASE Unlock(t)
    <3>1. PICK p, s : Goto(t, "look", [Blank EXCEPT !.op = "unlock", !.path = p, !.secret = s])
      BY <2>3 DEF Unlock
    <3> DEFINE x == [Blank EXCEPT !.op = "unlock", !.path = p, !.secret = s]
    <3>2. x.op = "unlock"
      BY DEF Blank
    <3> QED
      BY <3>1, <3>2
  <2>4. CASE Pam(t)
    <3>1. PICK s : Goto(t, "pamLock", [Blank EXCEPT !.op = "pam", !.secret = s])
      BY <2>4 DEF Pam
    <3> DEFINE x == [Blank EXCEPT !.op = "pam", !.secret = s]
    <3>2. x.op = "pam"
      BY DEF Blank
    <3> QED
      BY <3>1, <3>2
  <2>5. CASE Lock(t) \/ SetAlias(t)
    BY <2>5 DEF Lock, SetAlias
  <2>6. CASE Panic(t)
    BY <2>6 DEF Panic
  <2>7. CASE Store(t)
    <3>1. TypeOK
      BY DEF IInv
    <3>2. PICK y \in Local : Goto(t, "write", y) /\ y.op = "store"
      BY <2>7, <3>1, StoreGoes
    <3> QED
      BY <3>2
  <2> QED
    BY <2>1, <2>2, <2>3, <2>4, <2>5, <2>6, <2>7 DEF Call
<1>4. /\ OnlyMoves(t)
      /\ pc'[t] \in {"idle", "open", "look", "pamLock", "write"}
      /\ NewName(t)
  <2>1. CASE UNCHANGED <<pc, loc>>
    BY <1>1, <2>1 DEF OnlyMoves, NewName
  <2>2. CASE End(t)
    BY <1>1, <2>2, EndGoes DEF NewName, Blank
  <2>3. CASE \E label \in {"open", "look", "pamLock", "write"} : \E x :
               Goto(t, label, x) /\ (x.op = "create" => x.name \in NewNames)
    <3>1. PICK label \in {"open", "look", "pamLock", "write"} : \E x :
            Goto(t, label, x) /\ (x.op = "create" => x.name \in NewNames)
      BY <2>3
    <3>2. PICK x : Goto(t, label, x) /\ (x.op = "create" => x.name \in NewNames)
      BY <3>1
    <3> QED
      BY <1>1, <3>1, <3>2, GotoGoes DEF NewName
  <2> QED
    BY <1>3, <2>1, <2>2, <2>3
<1> QED
  BY <1>1, <1>2, <1>4, StageOthers DEF Far, FarMoves, Marks

LEMMA MigratingFar ==
  ASSUME IInv, NEW w \in Workers, Migrating(w)
  PROVE  Far(w)
<1> DEFINE l == loc[w]
<1>1. WorkerTypes /\ l \in Local
  BY DEF IInv, TypeOK, WorkerTypes
<1>2. UNCHANGED <<collections, served, defaultServed, found, deletedAt, pending>>
  BY DEF Migrating, Open, Stamp, busVars, ghosts
<1>3. pc[w] \in {"open", "stamp"}
  BY DEF Migrating, Open, Stamp
<1>4. ASSUME NEW o
      PROVE  [l EXCEPT !.obj = o].op = l.op /\ [l EXCEPT !.obj = o].name = l.name
  BY <1>1 DEF Local
<1>5. \E label \in {"write", "refused", "migrated"} :
        Goto(w, label, l) \/ \E o : Goto(w, label, [l EXCEPT !.obj = o])
  BY DEF Migrating, Open, Stamp
<1>6. FarMoves(w)
  <2>1. PICK label \in {"write", "refused", "migrated"} :
          Goto(w, label, l) \/ \E o : Goto(w, label, [l EXCEPT !.obj = o])
    BY <1>5
  <2>2. label \notin Marks \cup Stages /\ pc[w] \notin Marks \cup Stages
    BY <1>3 DEF Marks, Stages
  <2>3. CASE Goto(w, label, l)
    BY <1>1, <2>2, <2>3, GotoFar
  <2>4. CASE \E o : Goto(w, label, [l EXCEPT !.obj = o])
    <3>1. PICK o : Goto(w, label, [l EXCEPT !.obj = o])
      BY <2>4
    <3> DEFINE x == [l EXCEPT !.obj = o]
    <3>2. x.op = l.op /\ x.name = l.name /\ Goto(w, label, x)
      BY <1>4, <3>1
    <3> HIDE DEF x
    <3> QED
      BY <1>1, <2>2, <3>2, GotoFar
  <2> QED
    BY <2>1, <2>3, <2>4
<1> QED
  BY <1>2, <1>6 DEF Far

LEMMA WritingFar ==
  ASSUME IInv, NEW w \in Workers, Writing(w)
  PROVE  Far(w)
<1> DEFINE l == loc[w]
           x == [l EXCEPT !.obj = NoObject]
<1>1. TypeOK /\ WorkersFit /\ WorkerTypes /\ l \in Local
  BY DEF IInv, TypeOK, WorkerTypes, Control
<1>2. /\ pc[w] \in WritingAt
      /\ UNCHANGED <<collections, served, defaultServed, found, deletedAt, pending>>
  BY <1>1, WritingGoes
<1>3. x.op = l.op /\ x.name = l.name
  BY <1>1 DEF Local
<1>4. pc[w] \notin Marks \cup Stages
  BY <1>2 DEF WritingAt, Marks, Stages
<1>5. CASE l.op = "store" /\ End(w)
  <2>1. FarMoves(w)
    BY <1>1, <1>4, <1>5, EndFar
  <2> QED
    BY <1>2, <2>1 DEF Far
<1>6. CASE Unwritten(w)
  <2>1. Goto(w, "refused", x) /\ "refused" \notin Marks \cup Stages
    BY <1>6 DEF Unwritten, Marks, Stages
  <2> HIDE DEF x
  <2>2. FarMoves(w)
    BY <1>1, <1>3, <1>4, <2>1, GotoFar
  <2> QED
    BY <1>2, <2>2 DEF Far
<1>7. CASE GoesOn(w)
  <2>1. PICK label \in {"rename", "refresh", "stamp", "label"} : Goto(w, label, l)
    BY <1>7 DEF GoesOn
  <2>2. label \notin Marks \cup Stages
    BY DEF Marks, Stages
  <2>3. FarMoves(w)
    BY <1>1, <1>4, <2>1, <2>2, GotoFar
  <2> QED
    BY <1>2, <2>3 DEF Far
<1> QED
  BY <1>1, <1>5, <1>6, <1>7, WritingGoes

LEMMA AddingFar ==
  ASSUME IInv, NEW w \in Workers, Label(w) \/ (ServeAt(w) /\ pc'[w] # "insert") \/ CreateFails(w)
  PROVE  Far(w)
<1> DEFINE l == loc[w]
<1>1. WorkerTypes /\ l \in Local /\ Fits(w, pc[w], l)
  BY DEF IInv, TypeOK, WorkerTypes, Control, WorkersFit
<1>2. UNCHANGED <<collections, defaultServed, found, deletedAt, pending>>
  BY DEF Label, ServeAt, CreateFails, busVars, ghosts
<1>3. pc[w] \in {"label", "migrated", "at", "refused"}
  BY DEF Label, ServeAt, CreateFails
<1>4. pc[w] \notin Marks \cup Stages /\ "at" \notin Marks \cup Stages
  BY <1>3 DEF Marks, Stages
<1>5. CASE Label(w)
  <2>1. Goto(w, "at", l) /\ UNCHANGED served
    BY <1>5 DEF Label, busVars
  <2>2. FarMoves(w)
    BY <1>1, <1>4, <2>1, GotoFar
  <2> QED
    BY <1>2, <2>1, <2>2 DEF Far
<1>6. CASE (ServeAt(w) /\ pc'[w] # "insert") \/ CreateFails(w)
  <2>1. ~Goto(w, "insert", l) \/ CreateFails(w)
    BY <1>1, <1>6, GotoGoes
  <2>2. End(w) /\ l.op # "boot" /\ UNCHANGED served
    BY <1>1, <1>6, <2>1 DEF ServeAt, CreateFails, Panic, Fits, OpsAt, busVars
  <2>3. FarMoves(w)
    BY <1>1, <1>4, <2>2, EndFar
  <2> QED
    BY <1>2, <2>2, <2>3 DEF Far
<1> QED
  BY <1>5, <1>6

LEMMA TryingFar ==
  ASSUME IInv, NEW w \in Workers, TryingAll(w)
  PROVE  Far(w)
<1> DEFINE l == loc[w]
<1>1. TypeOK /\ WorkerTypes /\ l \in Local /\ Fits(w, pc[w], l)
  BY DEF IInv, TypeOK, WorkerTypes, Control, WorkersFit
<1>2. UNCHANGED <<collections, served, defaultServed, found, deletedAt>>
  BY DEF TryingAll, PamLock, PamNext, PamDone, UnlockAll, busVars, ghosts
<1>3. \A n \in Names : pending'[n] \in {pending[n], "none"}
  BY DEF TryingAll, PamLock, PamNext, PamDone, UnlockAll
<1>4. pc[w] \notin Marks \cup Stages /\ l.op = "pam"
  BY <1>1 DEF Marks, Stages, TryingAll, PamLock, PamNext, PamDone, UnlockAll, Fits, OpsAt
<1>5. CASE PamLock(w)
  <2> DEFINE x == [l EXCEPT !.todo = {n \in Names : pending[n] # "none"}]
  <2>1. x.op = l.op /\ Goto(w, "pamNext", x) /\ "pamNext" \notin Marks \cup Stages
    BY <1>1, <1>5 DEF Local, PamLock, Marks, Stages
  <2> HIDE DEF x
  <2>2. FarMoves(w)
    BY <1>1, <1>4, <2>1, GotoFar
  <2> QED
    BY <1>2, <1>3, <2>2 DEF Far
<1>6. CASE PamNext(w)
  <2>1. PICK n : Goto(w, "open", [l EXCEPT !.todo = @ \ {n}, !.name = n, !.kind = pending[n]])
    BY <1>6 DEF PamNext
  <2> DEFINE x == [l EXCEPT !.todo = @ \ {n}, !.name = n, !.kind = pending[n]]
  <2>2. x.op = l.op /\ Goto(w, "open", x) /\ "open" \notin Marks \cup Stages
    BY <1>1, <2>1 DEF Local, Marks, Stages
  <2> HIDE DEF x
  <2>3. FarMoves(w)
    BY <1>1, <1>4, <2>2, GotoFar
  <2> QED
    BY <1>2, <1>3, <2>3 DEF Far
<1>7. CASE PamDone(w)
  <2>1. Goto(w, "unlockAll", l) /\ "unlockAll" \notin Marks \cup Stages
    BY <1>7 DEF PamDone, Marks, Stages
  <2>2. FarMoves(w)
    BY <1>1, <1>4, <2>1, GotoFar
  <2> QED
    BY <1>2, <1>3, <2>2 DEF Far
<1>8. CASE UnlockAll(w)
  <2>1. FarMoves(w)
    BY <1>1, <1>4, <1>8, EndFar DEF UnlockAll
  <2> QED
    BY <1>2, <1>3, <2>1 DEF Far
<1> QED
  BY <1>5, <1>6, <1>7, <1>8 DEF TryingAll

LEMMA UnlockingFar ==
  ASSUME IInv, NEW w \in Workers, Unlocking(w)
  PROVE  Far(w)
<1> DEFINE l == loc[w]
<1>1. TypeOK /\ WorkerTypes /\ l \in Local /\ Fits(w, pc[w], l)
  BY DEF IInv, TypeOK, WorkerTypes, Control, WorkersFit
<1>2. UNCHANGED <<collections, served, defaultServed, found, deletedAt>>
  BY DEF Unlocking, Look, FindPending, SetLocked, ReplaceKeyring, Forget, busVars, ghosts
<1>3. \A n \in Names : pending'[n] \in {pending[n], "none"}
  <2>1. CASE Forget(w)
    BY <1>1, <2>1 DEF Forget, TypeOK
  <2>2. CASE ~Forget(w)
    BY <2>2 DEF Unlocking, Look, FindPending, SetLocked, ReplaceKeyring
  <2> QED
    BY <2>1, <2>2
<1>4. pc[w] \notin Marks \cup Stages /\ l.op = "unlock"
  BY <1>1 DEF Marks, Stages, Unlocking, Look, FindPending, SetLocked, ReplaceKeyring, Forget, Fits,
     OpsAt
<1>5. CASE End(w)
  <2>1. FarMoves(w)
    BY <1>1, <1>4, <1>5, EndFar
  <2> QED
    BY <1>2, <1>3, <2>1 DEF Far
<1>6. CASE ~End(w)
  <2>1. \E label \in {"pending", "setLocked", "open", "forget"} : \E x :
          Goto(w, label, x) /\ x.op = l.op
    <3>1. CASE Look(w)
      <4> DEFINE o == collections[l.path]
                 x == [l EXCEPT !.target = o, !.name = object[o].name]
      <4>1. x.op = l.op
        BY <1>1 DEF Local
      <4>2. Goto(w, "pending", x)
        BY <1>6, <3>1 DEF Look
      <4> QED
        BY <4>1, <4>2
    <3>2. CASE FindPending(w)
      <4> DEFINE x == [l EXCEPT !.kind = pending[l.name]]
      <4>1. x.op = l.op
        BY <1>1 DEF Local
      <4>2. Goto(w, "setLocked", l) \/ Goto(w, "open", x)
        BY <3>2 DEF FindPending, AfterPending
      <4> QED
        BY <4>1, <4>2
    <3>3. CASE ReplaceKeyring(w)
      <4> DEFINE x == [l EXCEPT !.obj = NoObject]
      <4>1. x.op = l.op
        BY <1>1 DEF Local
      <4>2. Goto(w, "forget", x)
        BY <3>3 DEF ReplaceKeyring
      <4> QED
        BY <4>1, <4>2
    <3> QED
      BY <1>6, <3>1, <3>2, <3>3 DEF Unlocking, SetLocked, Forget
  <2>2. PICK label \in {"pending", "setLocked", "open", "forget"} : \E x :
          Goto(w, label, x) /\ x.op = l.op
    BY <2>1
  <2>3. PICK x : Goto(w, label, x) /\ x.op = l.op
    BY <2>2
  <2>4. label \notin Marks \cup Stages
    BY <2>2 DEF Marks, Stages
  <2>5. FarMoves(w)
    BY <1>1, <1>4, <2>3, <2>4, GotoFar
  <2> QED
    BY <1>2, <1>3, <2>5 DEF Far
<1> QED
  BY <1>5, <1>6

LEMMA BootingFar ==
  ASSUME IInv, Start \/ NextScan \/ ScanLegacy \/ Connect \/ Replay
  PROVE  Far(Boot)
<1> DEFINE l == loc[Boot]
<1>1. /\ TypeOK /\ WorkerTypes /\ Boot \in Workers /\ l \in Local /\ Fits(Boot, pc[Boot], l)
      /\ Control
  BY DEF IInv, TypeOK, WorkerTypes, Control, WorkersFit, Workers
<1>2. UNCHANGED <<collections, served, defaultServed, found, deletedAt, pending>>
  BY DEF Start, NextScan, ScanLegacy, Connect, Replay, busVars, ghosts
<1>3. CASE Start
  <2>1. PICK s \in StartSecrets :
          Goto(Boot, "scan", [Blank EXCEPT !.op = "boot", !.secret = s,
                                           !.todo = {n \in Names : v1[n] # NoFile}])
    BY <1>3 DEF Start
  <2> DEFINE x == [Blank EXCEPT !.op = "boot", !.secret = s, !.todo = {n \in Names : v1[n] # NoFile}]
  <2>2. x.op = "boot" /\ Goto(Boot, "scan", x)
    BY <2>1 DEF Blank
  <2> HIDE DEF x
  <2>3. pc'[Boot] = "scan" /\ loc'[Boot].op = "boot" /\ OnlyMoves(Boot)
    BY <1>1, <2>2, GotoGoes
  <2>4. found = <<>> /\ pc[Boot] = "down"
    BY <1>1, <1>3 DEF Start, Control, BootSteps
  <2>5. SameStage
    BY <2>3, <2>4 DEF SameStage, Settled, Early
  <2> QED
    BY <1>2, <2>3, <2>4, <2>5 DEF Far, FarMoves, NewName, Marks
<1>4. CASE Replay
  <2> DEFINE x == [Blank EXCEPT !.op = "pam", !.secret = userSecret]
  <2>1. Blank.op = "none" /\ x.op = "pam"
    BY DEF Blank
  <2>2. Goto(Boot, "idle", Blank) \/ Goto(Boot, "pamLock", x)
    BY <1>4 DEF Replay, End
  <2> HIDE DEF x
  <2>3. /\ pc'[Boot] \in {"idle", "pamLock"} /\ loc'[Boot].op \in {"none", "pam"}
        /\ OnlyMoves(Boot) /\ pc[Boot] = "replay"
    BY <1>1, <1>4, <2>1, <2>2, GotoGoes DEF Replay
  <2>4. SameStage
    BY <2>3 DEF SameStage, Settled, Early, Done, ToServe, Unplaced
  <2> QED
    BY <1>2, <2>3, <2>4 DEF Far, FarMoves, NewName, Marks
<1>5. CASE NextScan \/ ScanLegacy \/ Connect
  <2>1. l.op = "boot" /\ pc[Boot] \in {"scan", "v0", "kwallet", "connect"}
    BY <1>1, <1>5 DEF NextScan, ScanLegacy, Connect, Fits, OpsAt
  <2>2. \E label \in {"scan", "v0", "kwallet", "connect", "register", "refused", "open"} : \E x :
          Goto(Boot, label, x) /\ x.op = "boot"
    <3>1. CASE NextScan
      <4>1. \A t : [l EXCEPT !.todo = t].op = "boot"
        BY <1>1, <2>1 DEF Local
      <4> QED
        BY <2>1, <3>1, <4>1 DEF NextScan
    <3>2. CASE ScanLegacy
      <4>1. PICK n \in Todo :
              Goto(Boot, IF ~IsDue(pc[Boot], n) THEN pc[Boot]
                         ELSE IF pc[Boot] = "kwallet" /\ l.secret = NoSecret THEN "refused"
                         ELSE "open",
                   [l EXCEPT !.todo = @ \ {n}, !.name = n, !.kind = pc[Boot]])
        BY <3>2 DEF ScanLegacy
      <4> DEFINE x == [l EXCEPT !.todo = @ \ {n}, !.name = n, !.kind = pc[Boot]]
      <4>2. x.op = "boot"
        BY <1>1, <2>1 DEF Local
      <4>3. \E label \in {"scan", "v0", "kwallet", "connect", "refused", "open"} : Goto(Boot, label, x)
        BY <2>1, <4>1
      <4> QED
        BY <4>2, <4>3
    <3>3. CASE Connect
      BY <2>1, <3>3 DEF Connect
    <3> QED
      BY <1>5, <3>1, <3>2, <3>3
  <2>3. PICK label \in {"scan", "v0", "kwallet", "connect", "register", "refused", "open"} : \E x :
          Goto(Boot, label, x) /\ x.op = "boot"
    BY <2>2
  <2>4. PICK x : Goto(Boot, label, x) /\ x.op = "boot"
    BY <2>3
  <2>5. FarMoves(Boot)
    BY <1>1, <2>1, <2>3, <2>4, GotoFar DEF Marks, Stages
  <2> QED
    BY <1>2, <2>5 DEF Far
<1> QED
  BY <1>3, <1>4, <1>5

-----------------------------------------------------------------------------
(* The list and the object server, from step to step *)

LEMMA BusKept ==
  ASSUME IInv, BusInv, NEW w \in Workers, OnlyMoves(w), Touches(w),
         UNCHANGED <<collections, served>>, deletedAt \subseteq deletedAt',
         \A i \in DOMAIN found :
           i \in DOMAIN found' /\ found'[i] = found[i] /\ (ToServe(i) => ToServe(i)'),
         \A i \in DOMAIN found' : Done(i)' => i \in DOMAIN found /\ Done(i),
         pc[w] # "insert", pc'[w] # "insert",
         pc'[w] \in {"unserve", "remove"} => loc'[w].path \in deletedAt'
  PROVE  BusInv'
<1>1. TypeOK /\ Ownership /\ WorkersFit
  BY DEF IInv, Control
<1>2. \A i \in DOMAIN found : object'[found'[i]].path = PathAt(i)
  <2>1. \A i \in DOMAIN found : found[i] \in Objects /\ Known(found[i])
    BY <1>1 DEF TypeOK, Known
  <2> QED
    BY <1>1, <2>1, KnownKept DEF Same, PathAt
<1>3. ASSUME NEW u \in Workers
      PROVE  /\ pc'[u] = "insert" <=> pc[u] = "insert"
             /\ pc[u] = "insert" => object'[loc'[u].obj].path = object[loc[u].obj].path
  <2>1. pc[u] = "insert" => loc[u].obj \in Objects
    BY <1>1 DEF WorkersFit, Fits, SharedAt
  <2> QED
    BY <1>1, <2>1, KnownKept DEF Same, OnlyMoves, SharedAt
<1>4. ListedIsServed'
  <2> SUFFICES ASSUME NEW p \in Places, p \notin deletedAt', collections'[p] # NoObject,
                      served'[p] = NoObject
               PROVE  \E i \in DOMAIN found' : ToServe(i)' /\ object'[found'[i]].path = p
    BY DEF ListedIsServed, PathAt
  <2>1. PICK i \in DOMAIN found : ToServe(i) /\ PathAt(i) = p
    BY DEF BusInv, ListedIsServed
  <2> QED
    BY <1>2, <2>1
<1>5. ServedIsListed'
  BY <1>3 DEF BusInv, ServedIsListed
<1>6. InsertIsServed'
  BY <1>3 DEF BusInv, InsertIsServed
<1>7. TakenOffIsDeleted'
  BY DEF BusInv, TakenOffIsDeleted, OnlyMoves
<1>8. DoneIsListed'
  <2> SUFFICES ASSUME NEW i \in DOMAIN found', Done(i)'
               PROVE  \/ object'[found'[i]].path \in deletedAt'
                      \/ collections'[object'[found'[i]].path] # NoObject
    BY DEF DoneIsListed, PathAt
  <2> QED
    BY <1>2 DEF BusInv, DoneIsListed
<1> QED
  BY <1>4, <1>5, <1>6, <1>7, <1>8 DEF BusInv

LEMMA FarBus ==
  ASSUME IInv, BusInv, NEW w \in Workers, Far(w), Touches(w)
  PROVE  BusInv'
BY BusKept DEF Far, FarMoves, SameStage, Marks

\* The steps that put a collection on the bus, or take it off.
LEMMA ServeAtGoes ==
  ASSUME IInv, NEW w \in Workers, ServeAt(w), pc'[w] = "insert"
  PROVE  /\ pc[w] = "at" /\ loc'[w] = loc[w] /\ loc[w].obj \in Objects
         /\ object[loc[w].obj].path \in Places
         /\ UNCHANGED <<object, collections, defaultServed, found, pending, deletedAt>>
         /\ OnlyMoves(w) /\ SameStage /\ NewName(w)
         /\ served'[object[loc[w].obj].path] # NoObject
         /\ \A p \in Places : p # object[loc[w].obj].path => served'[p] = served[p]
         /\ \A p \in Places : served[p] # NoObject => served'[p] # NoObject
<1> DEFINE l == loc[w]
           at == object[l.obj].path
<1>1. /\ TypeOK /\ WorkerTypes /\ l \in Local /\ Fits(w, pc[w], l)
      /\ pc[w] = "at" /\ l.obj \in Objects
  BY DEF IInv, TypeOK, WorkerTypes, Control, WorkersFit, ServeAt, Fits, OwnAt
<1>2. ~End(w)
  BY <1>1, EndGoes
<1>3. /\ At(at, l.obj) /\ Goto(w, "insert", l)
      /\ UNCHANGED <<object, collections, defaultServed, found, pending, deletedAt>>
  BY <1>2 DEF ServeAt, Panic
<1>4. loc'[w] = l /\ OnlyMoves(w) /\ NewName(w)
  BY <1>1, <1>3, GotoGoes DEF NewName
<1>5. SameStage
  BY <1>1, <1>4, StageKept DEF Stages
<1>6. at \in Places
  BY <1>1 DEF TypeOK, Object
<1>7. /\ served'[at] # NoObject
      /\ \A p \in Places : p # at => served'[p] = served[p]
      /\ \A p \in Places : served[p] # NoObject => served'[p] # NoObject
  BY <1>1, <1>3, <1>6, ServiceAssumption DEF At, TypeOK
<1> QED
  BY <1>1, <1>3, <1>4, <1>5, <1>6, <1>7

LEMMA ServeAtBus ==
  ASSUME IInv, BusInv, NEW w \in Workers, ServeAt(w), pc'[w] = "insert"
  PROVE  BusInv'
<1> DEFINE l == loc[w]
           at == object[l.obj].path
<1>1. /\ pc[w] = "at" /\ loc'[w] = loc[w]
      /\ UNCHANGED <<object, collections, found, deletedAt>>
      /\ OnlyMoves(w) /\ SameStage
      /\ served'[at] # NoObject
      /\ \A p \in Places : p # at => served'[p] = served[p]
      /\ \A p \in Places : served[p] # NoObject => served'[p] # NoObject
  BY ServeAtGoes
<1>8. ListedIsServed'
  BY <1>1 DEF BusInv, ListedIsServed, PathAt, SameStage
<1>9. ServedIsListed'
  <2> SUFFICES ASSUME NEW p \in Places, p \notin deletedAt', served'[p] # NoObject,
                      collections'[p] = NoObject
               PROVE  \E u \in Workers : pc'[u] = "insert" /\ object'[loc'[u].obj].path = p
    BY DEF ServedIsListed
  <2>1. CASE p = at
    BY <1>1, <2>1
  <2>2. CASE p # at
    <3>1. PICK u \in Workers : pc[u] = "insert" /\ object[loc[u].obj].path = p
      BY <1>1, <2>2 DEF BusInv, ServedIsListed
    <3>2. u # w
      BY <1>1, <3>1
    <3> QED
      BY <1>1, <3>1, <3>2 DEF OnlyMoves
  <2> QED
    BY <2>1, <2>2
<1>10. InsertIsServed'
  <2> SUFFICES ASSUME NEW u \in Workers, pc'[u] = "insert"
               PROVE  \/ object'[loc'[u].obj].path \in deletedAt'
                      \/ served'[object'[loc'[u].obj].path] # NoObject
    BY DEF InsertIsServed
  <2>1. CASE u = w
    BY <1>1, <2>1
  <2>2. CASE u # w
    <3>1. pc[u] = "insert" /\ loc'[u] = loc[u]
      BY <1>1, <2>2 DEF OnlyMoves
    <3>2. object[loc[u].obj].path \in Places
      BY <3>1 DEF IInv, Control, TypeOK, Object, WorkersFit, Fits, SharedAt
    <3> QED
      BY <1>1, <3>1, <3>2 DEF BusInv, InsertIsServed
  <2> QED
    BY <2>1, <2>2
<1>11. TakenOffIsDeleted'
  BY <1>1 DEF BusInv, TakenOffIsDeleted, OnlyMoves
<1>12. DoneIsListed'
  BY <1>1 DEF BusInv, DoneIsListed, PathAt, SameStage
<1> QED
  BY <1>8, <1>9, <1>10, <1>11, <1>12 DEF BusInv

LEMMA InsertGoes ==
  ASSUME IInv, NEW w \in Workers, Insert(w)
  PROVE  /\ pc[w] = "insert" /\ loc[w].obj \in Objects /\ object[loc[w].obj].path \in Places
         /\ loc[w].op \in {"create", "pam"}
         /\ object[loc[w].obj].name = loc[w].name
         /\ \A p \in Places :
              collections'[p] = IF p = object[loc[w].obj].path THEN loc[w].obj ELSE collections[p]
         /\ UNCHANGED <<object, found, served, defaultServed, pending, deletedAt>>
         /\ OnlyMoves(w) /\ SameStage /\ NewName(w)
         /\ loc[w].op = "create" => pc'[w] = "idle"
         /\ loc[w].op = "pam" => pc'[w] = "serveDefault" /\ loc'[w] = loc[w]
<1> DEFINE l == loc[w]
<1>1. /\ TypeOK /\ WorkerTypes /\ l \in Local /\ Fits(w, pc[w], l) /\ Ownership
  BY DEF IInv, TypeOK, WorkerTypes, Control, WorkersFit
<1>2. pc[w] = "insert" /\ l.obj \in Objects /\ l.op \in {"create", "pam"}
  BY <1>1 DEF Insert, Fits, SharedAt, OpsAt
<1>3. object[l.obj].path \in Places
  BY <1>1, <1>2 DEF TypeOK, Object
<1>4. object[l.obj].name = l.name
  BY <1>1, <1>2 DEF Ownership, HeldAreNamed, SharedAt
<1>5. /\ UNCHANGED <<object, found, served, defaultServed, pending, deletedAt>>
      /\ collections' = [collections EXCEPT ![object[l.obj].path] = l.obj]
  BY DEF Insert, ghosts
<1>6. \A p \in Places :
        collections'[p] = IF p = object[l.obj].path THEN l.obj ELSE collections[p]
  BY <1>1, <1>3, <1>5 DEF TypeOK
<1>7. CASE l.op = "create"
  <2>1. End(w)
    BY <1>7 DEF Insert
  <2>2. pc'[w] = "idle" /\ loc'[w].op = "none" /\ OnlyMoves(w)
    BY <1>1, <2>1, EndGoes DEF Blank
  <2>3. SameStage
    BY <1>2, <2>2, StageKept DEF Stages
  <2> QED
    BY <1>2, <1>3, <1>4, <1>5, <1>6, <1>7, <2>2, <2>3 DEF NewName
<1>8. CASE l.op = "pam"
  <2>1. Goto(w, "serveDefault", l)
    BY <1>8 DEF Insert
  <2>2. pc'[w] = "serveDefault" /\ loc'[w] = l /\ OnlyMoves(w)
    BY <1>1, <2>1, GotoGoes
  <2>3. SameStage
    BY <1>2, <2>2, StageKept DEF Stages
  <2> QED
    BY <1>2, <1>3, <1>4, <1>5, <1>6, <1>8, <2>2, <2>3 DEF NewName
<1> QED
  BY <1>2, <1>7, <1>8

LEMMA InsertBus ==
  ASSUME IInv, BusInv, NEW w \in Workers, Insert(w)
  PROVE  BusInv'
<1> DEFINE at == object[loc[w].obj].path
<1>1. /\ TypeOK /\ pc[w] = "insert" /\ at \in Places
      /\ \A p \in Places : collections'[p] = IF p = at THEN loc[w].obj ELSE collections[p]
      /\ UNCHANGED <<object, found, served, deletedAt>>
      /\ OnlyMoves(w) /\ SameStage
      /\ pc'[w] \in {"idle", "serveDefault"}
  BY InsertGoes DEF IInv
<1>2. loc[w].obj # NoObject
  BY InsertGoes, ServiceAssumption
<1>3. \A p \in Places : collections[p] # NoObject => collections'[p] # NoObject
  BY <1>1, <1>2
<1>4. ListedIsServed'
  <2> SUFFICES ASSUME NEW p \in Places, p \notin deletedAt', collections'[p] # NoObject,
                      served'[p] = NoObject
               PROVE  \E i \in DOMAIN found' : ToServe(i)' /\ object'[found'[i]].path = p
    BY DEF ListedIsServed, PathAt
  <2>1. p # at
    BY <1>1 DEF BusInv, InsertIsServed
  <2>2. PICK i \in DOMAIN found : ToServe(i) /\ PathAt(i) = p
    BY <1>1, <2>1 DEF BusInv, ListedIsServed
  <2> QED
    BY <1>1, <2>2 DEF SameStage, PathAt
<1>5. ServedIsListed'
  <2> SUFFICES ASSUME NEW p \in Places, p \notin deletedAt', served'[p] # NoObject,
                      collections'[p] = NoObject
               PROVE  \E u \in Workers : pc'[u] = "insert" /\ object'[loc'[u].obj].path = p
    BY DEF ServedIsListed
  <2>1. p # at /\ collections[p] = NoObject
    BY <1>1, <1>2
  <2>2. PICK u \in Workers : pc[u] = "insert" /\ object[loc[u].obj].path = p
    BY <1>1, <2>1 DEF BusInv, ServedIsListed
  <2>3. u # w
    BY <2>1, <2>2
  <2> QED
    BY <1>1, <2>2, <2>3 DEF OnlyMoves
<1>6. InsertIsServed'
  BY <1>1 DEF BusInv, InsertIsServed, OnlyMoves
<1>7. TakenOffIsDeleted'
  BY <1>1 DEF BusInv, TakenOffIsDeleted, OnlyMoves
<1>8. DoneIsListed'
  <2> SUFFICES ASSUME NEW i \in DOMAIN found, Done(i), PathAt(i) \notin deletedAt
               PROVE  collections'[PathAt(i)] # NoObject
    BY <1>1 DEF DoneIsListed, SameStage, PathAt
  <2>1. PathAt(i) \in Places
    BY <1>1 DEF TypeOK, Object, PathAt
  <2> QED
    BY <1>3, <2>1 DEF BusInv, DoneIsListed
<1> QED
  BY <1>4, <1>5, <1>6, <1>7, <1>8 DEF BusInv

LEMMA ServeDefaultGoes ==
  ASSUME IInv, NEW w \in Workers, ServeDefault(w)
  PROVE  /\ pc[w] = "serveDefault" /\ pc'[w] = "pamNext"
         /\ UNCHANGED <<object, collections, served, found, pending, deletedAt>>
         /\ OnlyMoves(w) /\ SameStage /\ NewName(w)
         /\ defaultServed # NoObject => defaultServed' # NoObject
         /\ AliasOf(loc[w].kind, loc[w].name) = "default" => defaultServed' # NoObject
         /\ <<loc[w].kind, loc[w].name>> \in Sources
<1> DEFINE l == loc[w]
           done == l.done \cup {l.name}
           x == [l EXCEPT !.obj = NoObject, !.done = done]
<1>1. WorkerTypes /\ l \in Local /\ Fits(w, pc[w], l) /\ pc[w] = "serveDefault"
  BY DEF IInv, TypeOK, WorkerTypes, Control, WorkersFit, ServeDefault
<1>2. l.op = "pam" /\ l.obj \in Objects /\ <<l.kind, l.name>> \in Sources
  BY <1>1 DEF Fits, OpsAt, SharedAt
<1>3. x.op = "pam" /\ Goto(w, "pamNext", x)
  BY <1>1, <1>2 DEF Local, ServeDefault
<1> HIDE DEF x
<1>4. pc'[w] = "pamNext" /\ loc'[w] = x /\ OnlyMoves(w)
  BY <1>1, <1>3, GotoGoes
<1>5. SameStage
  BY <1>1, <1>2, <1>3, <1>4, StageKept DEF Stages
<1>6. /\ UNCHANGED <<object, collections, served, found, pending, deletedAt>>
      /\ IF AliasOf(l.kind, l.name) = "default" THEN AtDefault(l.obj) ELSE UNCHANGED defaultServed
  BY DEF ServeDefault
<1>7. l.obj # NoObject
  BY <1>2, ServiceAssumption
<1> QED
  BY <1>1, <1>2, <1>3, <1>4, <1>5, <1>6, <1>7 DEF AtDefault, NewName

LEMMA DeleteGoes ==
  ASSUME IInv, NEW t \in Tasks, Delete(t)
  PROVE  /\ pc[t] = "idle" /\ pc'[t] \in {"idle", "unserve"}
         /\ UNCHANGED <<collections, served, defaultServed, found, pending>>
         /\ deletedAt \subseteq deletedAt'
         /\ pc'[t] = "unserve" => loc'[t].path \in deletedAt'
         /\ OnlyMoves(t) /\ SameStage /\ NewName(t)
<1>1. /\ WorkerTypes /\ t \in Workers /\ t # Boot /\ pc[t] = "idle"
  BY ServiceAssumption DEF IInv, TypeOK, WorkerTypes, Workers, Delete, CanCall
<1>2. UNCHANGED <<collections, served, defaultServed, found, pending>>
  BY DEF Delete, busVars
<1>3. PICK p : \/ UNCHANGED <<pc, loc, deletedAt>>
               \/ /\ deletedAt' = deletedAt \cup {p}
                  /\ Goto(t, "unserve", [Blank EXCEPT !.op = "delete", !.path = p])
  BY DEF Delete
<1>4. CASE UNCHANGED <<pc, loc, deletedAt>>
  <2>1. OnlyMoves(t) /\ NewName(t)
    BY <1>1, <1>4 DEF OnlyMoves, NewName
  <2> QED
    BY <1>1, <1>2, <1>4, <2>1, StageOthers
<1>5. CASE /\ deletedAt' = deletedAt \cup {p}
           /\ Goto(t, "unserve", [Blank EXCEPT !.op = "delete", !.path = p])
  <2> DEFINE x == [Blank EXCEPT !.op = "delete", !.path = p]
  <2>1. x.op = "delete" /\ x.path = p
    BY DEF Blank
  <2> HIDE DEF x
  <2>2. pc'[t] = "unserve" /\ loc'[t] = x /\ OnlyMoves(t)
    BY <1>1, <1>5, GotoGoes DEF x
  <2> QED
    BY <1>1, <1>2, <1>5, <2>1, <2>2, StageOthers DEF NewName
<1> QED
  BY <1>3, <1>4, <1>5

LEMMA TakeOffGoes ==
  ASSUME IInv, NEW t \in Tasks, Unserve(t) \/ Remove(t)
  PROVE  /\ pc[t] \in {"unserve", "remove"} /\ pc'[t] \in {"idle", "remove"}
         /\ pc'[t] = "remove" => loc'[t] = loc[t]
         /\ UNCHANGED <<object, found, defaultServed, pending, deletedAt>>
         /\ \A p \in Places : p # loc[t].path =>
              served'[p] = served[p] /\ collections'[p] = collections[p]
         /\ OnlyMoves(t) /\ SameStage /\ NewName(t)
<1>1. /\ TypeOK /\ WorkerTypes /\ t \in Workers /\ t # Boot /\ loc[t].path \in Places
  BY ServiceAssumption DEF IInv, TypeOK, WorkerTypes, Workers, Local
<1>2. /\ pc[t] \in {"unserve", "remove"}
      /\ UNCHANGED <<object, found, defaultServed, pending, deletedAt>>
      /\ UNCHANGED served \/ served' = [served EXCEPT ![loc[t].path] = NoObject]
      /\ UNCHANGED collections \/ collections' = [collections EXCEPT ![loc[t].path] = NoObject]
      /\ End(t) \/ Goto(t, "remove", loc[t])
  BY DEF Unserve, Remove, ghosts
<1>3. \A p \in Places : p # loc[t].path =>
        served'[p] = served[p] /\ collections'[p] = collections[p]
  BY <1>1, <1>2 DEF TypeOK
<1>4. CASE End(t)
  <2>1. pc'[t] = "idle" /\ loc'[t].op = "none" /\ OnlyMoves(t)
    BY <1>1, <1>4, EndGoes DEF Blank
  <2> QED
    BY <1>1, <1>2, <1>3, <2>1, StageOthers DEF NewName
<1>5. CASE Goto(t, "remove", loc[t])
  <2>1. pc'[t] = "remove" /\ loc'[t] = loc[t] /\ OnlyMoves(t)
    BY <1>1, <1>5, GotoGoes
  <2> QED
    BY <1>1, <1>2, <1>3, <2>1, StageOthers DEF NewName
<1> QED
  BY <1>2, <1>4, <1>5

\* What is found comes after what was found before, and waits for its place.
LEMMA FoundGoes ==
  ASSUME IInv, ScanV1 \/ PutOff \/ Discovered \/ Register
  PROVE  /\ UNCHANGED <<collections, served, defaultServed, deletedAt>>
         /\ OnlyMoves(Boot) /\ NewName(Boot)
         /\ pc[Boot] \notin Marks \cup Stages /\ pc'[Boot] \in {"scan", "v0", "kwallet", "place"}
         /\ Early /\ Early'
         /\ \A i \in DOMAIN found :
              i \in DOMAIN found' /\ found'[i] = found[i] /\ Unplaced(i) /\ ~Done(i)
         /\ \A i \in DOMAIN found' : Unplaced(i)' /\ ~Done(i)'
         /\ \A i \in DOMAIN found' \ DOMAIN found :
              found' = Append(found, found'[i]) /\ i = Len(found) + 1
         /\ pc'[Boot] = "place" => Register
<1> DEFINE l == loc[Boot]
<1>1. /\ TypeOK /\ WorkerTypes /\ Boot \in Workers /\ l \in Local /\ Fits(Boot, pc[Boot], l)
  BY DEF IInv, TypeOK, WorkerTypes, Control, WorkersFit, Workers
<1>2. /\ UNCHANGED <<collections, served, defaultServed, deletedAt>>
      /\ UNCHANGED found \/ \E o \in Objects : found' = Append(found, o)
      /\ pc[Boot] \in {"scan", "refused", "migrated", "register"} /\ l.op = "boot"
  <2>1. ScanV1 \/ PutOff \/ (Register /\ ~HasDefault) => Next1 \in Objects /\ found' = Append(found, Next1)
    BY FoundNew
  <2>2. Discovered => l.obj \in Objects /\ found' = Append(found, l.obj)
    BY <1>1 DEF Discovered, Fits, OwnAt
  <2>3. Register /\ HasDefault => UNCHANGED found
    BY DEF Register
  <2> QED
    BY <1>1, <2>1, <2>2, <2>3 DEF ScanV1, PutOff, Discovered, Register, Fits, OpsAt, busVars, ghosts
<1>3. /\ \A i \in DOMAIN found : i \in DOMAIN found' /\ found'[i] = found[i]
      /\ \A i \in DOMAIN found' : i \in Nat /\ i >= 1
      /\ \A i \in DOMAIN found' \ DOMAIN found :
           found' = Append(found, found'[i]) /\ i = Len(found) + 1
  <2>1. found \in Seq(Objects)
    BY <1>1 DEF TypeOK
  <2>2. CASE UNCHANGED found
    BY <2>1, <2>2
  <2>3. CASE \E o \in Objects : found' = Append(found, o)
    <3>1. PICK o \in Objects : found' = Append(found, o)
      BY <2>3
    <3>2. /\ DOMAIN found = 1 .. Len(found) /\ Len(found) \in Nat
          /\ DOMAIN found' = 1 .. Len(found) + 1
          /\ found'[Len(found) + 1] = o
          /\ \A i \in DOMAIN found : found'[i] = found[i]
      BY <2>1, <3>1
    <3> QED
      BY <3>1, <3>2
  <2> QED
    BY <1>2, <2>2, <2>3
<1>4. \E label \in {"scan", "v0", "kwallet", "place"} : \E x :
        /\ Goto(Boot, label, x) /\ x.op = "boot"
        /\ label = "place" => Register /\ x.index = 1
  <2>1. CASE ScanV1
    <3>1. PICK n \in Todo : Goto(Boot, "scan", [l EXCEPT !.todo = @ \ {n}])
      BY <2>1 DEF ScanV1
    <3>2. [l EXCEPT !.todo = @ \ {n}].op = "boot"
      BY <1>1, <1>2 DEF Local
    <3> QED
      BY <3>1, <3>2
  <2>2. CASE PutOff
    <3>1. Goto(Boot, l.kind, l) /\ l.kind \in {"v0", "kwallet"}
      BY <1>1, <2>2 DEF PutOff, Local
    <3> QED
      BY <1>2, <3>1
  <2>3. CASE Discovered
    <3>1. Goto(Boot, l.kind, [l EXCEPT !.obj = NoObject]) /\ l.kind \in {"v0", "kwallet"}
      BY <1>1, <2>3 DEF Discovered, Local
    <3>2. [l EXCEPT !.obj = NoObject].op = "boot"
      BY <1>1, <1>2 DEF Local
    <3> QED
      BY <3>1, <3>2
  <2>4. CASE Register
    <3>1. Goto(Boot, "place", [l EXCEPT !.index = 1])
      BY <2>4 DEF Register
    <3>2. [l EXCEPT !.index = 1].op = "boot" /\ [l EXCEPT !.index = 1].index = 1
      BY <1>1, <1>2 DEF Local
    <3> QED
      BY <2>4, <3>1, <3>2
  <2> QED
    BY <2>1, <2>2, <2>3, <2>4
<1>5. PICK label \in {"scan", "v0", "kwallet", "place"} : \E x :
        /\ Goto(Boot, label, x) /\ x.op = "boot"
        /\ label = "place" => Register /\ x.index = 1
  BY <1>4
<1>6. PICK x : /\ Goto(Boot, label, x) /\ x.op = "boot"
               /\ label = "place" => Register /\ x.index = 1
  BY <1>5
<1>7. pc'[Boot] = label /\ loc'[Boot] = x /\ OnlyMoves(Boot)
  BY <1>1, <1>6, GotoGoes
<1>8. \A i \in DOMAIN found' : Unplaced(i)' /\ ~Done(i)'
  <2>1. label = "place" => \A i \in DOMAIN found' : i >= loc'[Boot].index /\ ~(i < loc'[Boot].index)
    BY <1>3, <1>6, <1>7
  <2> QED
    BY <1>5, <1>6, <1>7, <2>1 DEF Unplaced, Early, Done
<1> QED
  BY <1>2, <1>3, <1>5, <1>6, <1>7, <1>8 DEF Marks, Stages, Early, Unplaced, Done, NewName

\* One keyring gets its place.
LEMMA PlaceGoes ==
  ASSUME IInv, Place, ~(loc[Boot].index > Len(found))
  PROVE  /\ UNCHANGED <<found, served, defaultServed, pending, deletedAt>>
         /\ OnlyMoves(Boot) /\ NewName(Boot)
         /\ pc[Boot] = "place" /\ pc'[Boot] = "place"
         /\ loc[Boot].op = "boot" /\ loc'[Boot].op = "boot"
         /\ loc[Boot].index \in DOMAIN found /\ loc'[Boot].index = loc[Boot].index + 1
         /\ \E o \in Objects, k \in Numbers :
              LET kr == object[o]
                  at == <<PathOf[kr.name], k>>
              IN /\ o = found[loc[Boot].index]
                 /\ at \in Places /\ collections[at] = NoObject
                 /\ \A j \in 1 .. k - 1 : collections[<<PathOf[kr.name], j>>] # NoObject
                 /\ object'[o].path = at /\ object'[o].name = kr.name
                 /\ object'[o].default = (<<kr.alias[1], k>> = <<"default", 1>>)
                 /\ \A q \in Objects : q # o => object'[q] = object[q]
                 /\ \A p \in Places : collections'[p] = IF p = at THEN o ELSE collections[p]
                 /\ \A p \in Places : collections[p] # o
                 /\ \A j \in DOMAIN found : j # loc[Boot].index => found[j] # o
                 /\ \A u \in Workers : pc[u] = "insert" => loc[u].obj \in Objects \ {o}
                 /\ k >= 1
<1> DEFINE l == loc[Boot]
           i == l.index
           o == found[i]
           alias == object[o].alias[1]
           x == [l EXCEPT !.index = i + 1]
<1>1. /\ TypeOK /\ WorkerTypes /\ Boot \in Workers /\ l \in Local /\ Fits(Boot, pc[Boot], l)
      /\ Listing /\ Ownership /\ WorkersFit
  BY DEF IInv, TypeOK, WorkerTypes, Control, WorkersFit, Workers
<1>2. /\ i \in DOMAIN found /\ o \in Objects /\ \A p \in Places : collections[p] # o
      /\ alias \in AliasNames /\ object' = Placed(o, alias)
      /\ collections' = [collections EXCEPT ![object'[o].path] = o]
  BY PlacePlaces
<1>3. /\ pc[Boot] = "place" /\ Goto(Boot, "place", x)
      /\ UNCHANGED <<found, served, defaultServed, pending, deletedAt>>
  BY DEF Place, ghosts
<1>4. l.op = "boot" /\ x.index = i + 1 /\ x.op = "boot"
  BY <1>1, <1>3 DEF Fits, OpsAt, Local
<1> HIDE DEF x
<1>5. pc'[Boot] = "place" /\ loc'[Boot] = x /\ OnlyMoves(Boot)
  BY <1>1, <1>3, GotoGoes
<1>6. PICK k : k = NumberOf(object[o].name)
  OBVIOUS
<1> DEFINE at == <<PathOf[object[o].name], k>>
<1>7. /\ \A q \in Objects : q # o => object'[q] = object[q]
      /\ object'[o].name = object[o].name /\ object'[o].path = at
      /\ object'[o].default = (<<alias, k>> = <<"default", 1>>)
      /\ at \in Places /\ collections[at] = NoObject
      /\ k \in 1 .. Cardinality(Objects)
      /\ \A j \in 1 .. k - 1 : collections[<<PathOf[object[o].name], j>>] # NoObject
  <2>1. \A p, q \in Places : collections[p] = collections[q] /\ collections[p] # NoObject => p = q
    BY <1>1, InOnePlace DEF Listing
  <2> HIDE DEF o, alias
  <2>2. /\ \A q \in Objects : q # o => Placed(o, alias)[q] = object[q]
        /\ Placed(o, alias)[o].name = object[o].name
        /\ Placed(o, alias)[o].path = <<PathOf[object[o].name], NumberOf(object[o].name)>>
        /\ Placed(o, alias)[o].default =
             (<<alias, NumberOf(object[o].name)>> = <<"default", 1>>)
        /\ Placed(o, alias)[o].path \in Places
        /\ collections[Placed(o, alias)[o].path] = NoObject
        /\ NumberOf(object[o].name) \in 1 .. Cardinality(Objects)
        /\ \A j \in 1 .. NumberOf(object[o].name) - 1 :
             collections[<<PathOf[object[o].name], j>>] # NoObject
    BY <1>1, <1>2, <2>1, PlacedType
  <2> QED
    BY <1>2, <1>6, <2>2
<1>8. \A p \in Places : collections'[p] = IF p = at THEN o ELSE collections[p]
  BY <1>1, <1>2, <1>7 DEF TypeOK
<1>9. \A j \in DOMAIN found : j # i => found[j] # o
  BY <1>1, <1>2 DEF Listing, FoundOnce
<1>10. \A u \in Workers : pc[u] = "insert" => loc[u].obj \in Objects \ {o}
  BY <1>1, <1>2 DEF Ownership, HeldAreNamed, SharedAt, WorkersFit, Fits
<1>11. k \in Numbers /\ k >= 1
  <2>1. k \in 1 .. Cardinality(Objects)
    BY <1>7
  <2> QED
    BY <2>1, Counted DEF Numbers
<1> QED
  BY <1>2, <1>3, <1>4, <1>5, <1>7, <1>8, <1>9, <1>10, <1>11 DEF NewName

LEMMA TakeOffBus ==
  ASSUME IInv, BusInv, NEW t \in Tasks, Unserve(t) \/ Remove(t)
  PROVE  BusInv'
<1> DEFINE at == loc[t].path
<1>1. /\ t \in Workers /\ TypeOK /\ pc[t] \in {"unserve", "remove"} /\ pc'[t] \in {"idle", "remove"}
      /\ pc'[t] = "remove" => loc'[t] = loc[t]
      /\ UNCHANGED <<object, found, deletedAt>>
      /\ \A p \in Places : p # at => served'[p] = served[p] /\ collections'[p] = collections[p]
      /\ OnlyMoves(t) /\ SameStage
  BY TakeOffGoes DEF Workers, IInv
<1>2. at \in deletedAt
  BY <1>1 DEF BusInv, TakenOffIsDeleted
<1>3. \A u \in Workers :
        /\ pc'[u] = "insert" <=> pc[u] = "insert"
        /\ pc[u] = "insert" => loc'[u] = loc[u]
  BY <1>1 DEF OnlyMoves
<1>4. ListedIsServed'
  <2> SUFFICES ASSUME NEW p \in Places, p \notin deletedAt', collections'[p] # NoObject,
                      served'[p] = NoObject
               PROVE  \E i \in DOMAIN found' : ToServe(i)' /\ object'[found'[i]].path = p
    BY DEF ListedIsServed, PathAt
  <2>1. PICK i \in DOMAIN found : ToServe(i) /\ PathAt(i) = p
    BY <1>1, <1>2 DEF BusInv, ListedIsServed
  <2> QED
    BY <1>1, <2>1 DEF SameStage, PathAt
<1>5. ServedIsListed'
  <2> SUFFICES ASSUME NEW p \in Places, p \notin deletedAt', served'[p] # NoObject,
                      collections'[p] = NoObject
               PROVE  \E u \in Workers : pc'[u] = "insert" /\ object'[loc'[u].obj].path = p
    BY DEF ServedIsListed
  <2>1. PICK u \in Workers : pc[u] = "insert" /\ object[loc[u].obj].path = p
    BY <1>1, <1>2 DEF BusInv, ServedIsListed
  <2> QED
    BY <1>1, <1>3, <2>1
<1>6. InsertIsServed'
  <2> SUFFICES ASSUME NEW u \in Workers, pc'[u] = "insert"
               PROVE  \/ object'[loc'[u].obj].path \in deletedAt'
                      \/ served'[object'[loc'[u].obj].path] # NoObject
    BY DEF InsertIsServed
  <2>1. pc[u] = "insert" /\ loc'[u] = loc[u]
    BY <1>3
  <2>2. object[loc[u].obj].path \in Places
    BY <2>1 DEF IInv, Control, TypeOK, Object, WorkersFit, Fits, SharedAt
  <2> QED
    BY <1>1, <1>2, <2>1, <2>2 DEF BusInv, InsertIsServed
<1>7. TakenOffIsDeleted'
  BY <1>1, <1>2 DEF BusInv, TakenOffIsDeleted, OnlyMoves
<1>8. DoneIsListed'
  <2> SUFFICES ASSUME NEW i \in DOMAIN found, Done(i), PathAt(i) \notin deletedAt
               PROVE  collections'[PathAt(i)] # NoObject
    BY <1>1 DEF DoneIsListed, SameStage, PathAt
  <2>1. PathAt(i) \in Places
    BY <1>1 DEF TypeOK, Object, PathAt
  <2> QED
    BY <1>1, <1>2, <2>1 DEF BusInv, DoneIsListed
<1> QED
  BY <1>4, <1>5, <1>6, <1>7, <1>8 DEF BusInv

LEMMA FoundBus ==
  ASSUME IInv, BusInv, ScanV1 \/ PutOff \/ Discovered \/ Register, Touches(Boot)
  PROVE  BusInv'
<1>1. Boot \in Workers
  BY DEF Workers
<1>2. \A i \in DOMAIN found : ~ToServe(i)
  BY FoundGoes DEF ToServe
<1> QED
  BY <1>1, <1>2, FoundGoes, BusKept DEF Marks

LEMMA PlaceBus ==
  ASSUME IInv, BusInv, Place, ~(loc[Boot].index > Len(found))
  PROVE  BusInv'
<1> DEFINE i == loc[Boot].index
<1>1. /\ UNCHANGED <<found, served, deletedAt>>
      /\ OnlyMoves(Boot) /\ pc[Boot] = "place" /\ pc'[Boot] = "place"
      /\ i \in DOMAIN found /\ loc'[Boot].index = i + 1
  BY PlaceGoes
<1>2. \E o \in Objects, at \in Places :
        /\ o = found[i] /\ collections[at] = NoObject /\ object'[o].path = at
        /\ \A q \in Objects : q # o => object'[q] = object[q]
        /\ \A p \in Places : collections'[p] = IF p = at THEN o ELSE collections[p]
        /\ \A j \in DOMAIN found : j # i => found[j] # o
        /\ \A u \in Workers : pc[u] = "insert" => loc[u].obj \in Objects \ {o}
  BY PlaceGoes
<1>3. PICK o \in Objects, at \in Places :
        /\ o = found[i] /\ collections[at] = NoObject /\ object'[o].path = at
        /\ \A q \in Objects : q # o => object'[q] = object[q]
        /\ \A p \in Places : collections'[p] = IF p = at THEN o ELSE collections[p]
        /\ \A j \in DOMAIN found : j # i => found[j] # o
        /\ \A u \in Workers : pc[u] = "insert" => loc[u].obj \in Objects \ {o}
  BY <1>2
<1>4. TypeOK /\ o # NoObject /\ DOMAIN found \subseteq Nat
  BY ServiceAssumption DEF IInv, TypeOK
<1>5. \A j \in DOMAIN found : found[j] \in Objects
  BY <1>4 DEF TypeOK
<1>6. /\ \A j : (Done(j) <=> j < i) /\ (ToServe(j) <=> j < i)
      /\ \A j : (Done(j)' <=> j < i + 1) /\ (ToServe(j)' <=> j < i + 1)
  BY <1>1 DEF Done, ToServe
<1>7. \A j \in DOMAIN found : j # i => object'[found'[j]].path = PathAt(j)
  BY <1>1, <1>3, <1>5 DEF PathAt
<1>8. \A j \in DOMAIN found : j < i + 1 => j = i \/ j < i
  BY <1>1, <1>4
<1>9. \A p \in Places : collections[p] # NoObject => collections'[p] # NoObject
  BY <1>3, <1>4
<1>10. \A u \in Workers :
         /\ pc'[u] = "insert" <=> pc[u] = "insert"
         /\ pc[u] = "insert" => object'[loc'[u].obj].path = object[loc[u].obj].path
  BY <1>1, <1>3 DEF OnlyMoves
<1>11. ListedIsServed'
  <2> SUFFICES ASSUME NEW p \in Places, p \notin deletedAt', collections'[p] # NoObject,
                      served'[p] = NoObject
               PROVE  \E j \in DOMAIN found' : ToServe(j)' /\ object'[found'[j]].path = p
    BY DEF ListedIsServed, PathAt
  <2>1. CASE p = at
    <3>1. i < i + 1
      BY <1>1, <1>4
    <3> QED
      BY <1>1, <1>3, <1>6, <2>1, <3>1
  <2>2. CASE p # at
    <3>1. PICK j \in DOMAIN found : ToServe(j) /\ PathAt(j) = p
      BY <1>1, <1>3, <2>2 DEF BusInv, ListedIsServed
    <3>2. j < i /\ j < i + 1 /\ j # i
      BY <1>1, <1>4, <1>6, <3>1
    <3> QED
      BY <1>1, <1>6, <1>7, <3>1, <3>2
  <2> QED
    BY <2>1, <2>2
<1>12. ServedIsListed'
  BY <1>1, <1>9, <1>10 DEF BusInv, ServedIsListed
<1>13. InsertIsServed'
  BY <1>1, <1>10 DEF BusInv, InsertIsServed
<1>14. TakenOffIsDeleted'
  BY <1>1 DEF BusInv, TakenOffIsDeleted, OnlyMoves
<1>15. DoneIsListed'
  <2> SUFFICES ASSUME NEW j \in DOMAIN found, Done(j)'
               PROVE  \/ object'[found'[j]].path \in deletedAt'
                      \/ collections'[object'[found'[j]].path] # NoObject
    BY <1>1 DEF DoneIsListed, PathAt
  <2>1. CASE j = i
    BY <1>1, <1>3, <1>4, <2>1
  <2>2. CASE j # i
    <3>1. Done(j) /\ PathAt(j) \in Places
      BY <1>4, <1>6, <1>8, <2>2 DEF PathAt, TypeOK, Object
    <3> QED
      BY <1>1, <1>7, <1>9, <2>2, <3>1 DEF BusInv, DoneIsListed
  <2> QED
    BY <2>1, <2>2
<1> QED
  BY <1>11, <1>12, <1>13, <1>14, <1>15 DEF BusInv

\* The list is complete, then the bus: the next loop begins, or none.
LEMMA LoopGoes ==
  ASSUME IInv, Place \/ Serve, loc[Boot].index > Len(found)
  PROVE  /\ UNCHANGED <<object, found, collections, served, defaultServed, pending, deletedAt>>
         /\ OnlyMoves(Boot) /\ NewName(Boot) /\ loc[Boot].op = "boot" /\ loc'[Boot].op = "boot"
         /\ pc[Boot] \in {"place", "serve"}
         /\ pc'[Boot] = IF pc[Boot] = "place" THEN "serve" ELSE "replay"
         /\ \A i \in DOMAIN found : Done(i) /\ (ToServe(i) => ToServe(i)')
<1> DEFINE l == loc[Boot]
           x == [l EXCEPT !.index = 1]
<1>1. /\ TypeOK /\ WorkerTypes /\ Boot \in Workers /\ l \in Local /\ Fits(Boot, pc[Boot], l)
  BY DEF IInv, TypeOK, WorkerTypes, Control, WorkersFit, Workers
<1>2. /\ UNCHANGED <<object, found, collections, served, defaultServed, pending, deletedAt>>
      /\ pc[Boot] \in {"place", "serve"} /\ l.op = "boot"
  BY <1>1 DEF Place, Serve, Fits, OpsAt, ghosts
<1>3. x.op = "boot" /\ x.index = 1
  BY <1>1, <1>2 DEF Local
<1>4. IF pc[Boot] = "place" THEN Goto(Boot, "serve", x) ELSE Goto(Boot, "replay", l)
  BY DEF Place, Serve
<1> HIDE DEF x
<1>5. /\ OnlyMoves(Boot)
      /\ pc[Boot] = "place" => pc'[Boot] = "serve" /\ loc'[Boot] = x
      /\ pc[Boot] = "serve" => pc'[Boot] = "replay" /\ loc'[Boot] = l
  BY <1>1, <1>2, <1>4, GotoGoes
<1>6. \A i \in DOMAIN found : i \in Nat /\ i >= 1 /\ i < l.index
  <2>1. \A i \in DOMAIN found : i \in Nat /\ i >= 1 /\ i <= Len(found)
    BY <1>1 DEF TypeOK
  <2>2. Len(found) \in Nat /\ l.index \in Nat
    BY <1>1, Counted DEF TypeOK, Local
  <2> QED
    BY <2>1, <2>2
<1>7. \A i \in DOMAIN found : Done(i) /\ (ToServe(i) => ToServe(i)')
  <2>1. CASE pc[Boot] = "place"
    BY <1>3, <1>5, <1>6, <2>1 DEF Done, ToServe
  <2>2. CASE pc[Boot] = "serve"
    <3>1. \A i \in DOMAIN found : ~ToServe(i)
      <4>1. l.index \in Nat
        BY <1>1, Counted DEF Local
      <4> QED
        BY <1>6, <2>2, <4>1 DEF ToServe
    <3> QED
      BY <2>2, <3>1 DEF Done
  <2> QED
    BY <1>2, <2>1, <2>2
<1> QED
  BY <1>2, <1>3, <1>5, <1>7 DEF NewName

LEMMA LoopBus ==
  ASSUME IInv, BusInv, Place \/ Serve, loc[Boot].index > Len(found)
  PROVE  BusInv'
<1>1. Boot \in Workers /\ Touches(Boot)
  BY LoopGoes, TouchesNothing DEF Workers
<1>2. /\ UNCHANGED <<object, found, collections, served, defaultServed, pending, deletedAt>>
      /\ OnlyMoves(Boot) /\ pc[Boot] \in {"place", "serve"} /\ pc'[Boot] \in {"serve", "replay"}
      /\ \A i \in DOMAIN found : Done(i) /\ (ToServe(i) => ToServe(i)')
  BY LoopGoes
<1> QED
  BY <1>1, <1>2, BusKept

\* One collection is put on the bus.
LEMMA ServeGoes ==
  ASSUME IInv, Serve, ~(loc[Boot].index > Len(found))
  PROVE  /\ UNCHANGED <<object, found, collections, pending, deletedAt>>
         /\ OnlyMoves(Boot) /\ NewName(Boot)
         /\ pc[Boot] = "serve" /\ pc'[Boot] = "serve"
         /\ loc[Boot].index \in DOMAIN found /\ loc'[Boot].index = loc[Boot].index + 1
         /\ loc[Boot].op = "boot" /\ loc'[Boot].op = "boot"
         /\ PathAt(loc[Boot].index) \in Places
         /\ served'[PathAt(loc[Boot].index)] # NoObject
         /\ \A p \in Places : served[p] # NoObject => served'[p] # NoObject
         /\ \A p \in Places : p # PathAt(loc[Boot].index) => served'[p] = served[p]
         /\ defaultServed # NoObject => defaultServed' # NoObject
         /\ object[found[loc[Boot].index]].default => defaultServed' # NoObject
<1> DEFINE l == loc[Boot]
           i == l.index
           at == PathAt(i)
           x == [l EXCEPT !.index = i + 1]
<1>1. /\ TypeOK /\ WorkerTypes /\ Boot \in Workers /\ l \in Local /\ Fits(Boot, pc[Boot], l)
  BY DEF IInv, TypeOK, WorkerTypes, Control, WorkersFit, Workers
<1>2. /\ UNCHANGED <<object, found, collections, pending, deletedAt>>
      /\ pc[Boot] = "serve" /\ l.op = "boot" /\ Goto(Boot, "serve", x)
      /\ At(object[found[i]].path, found[i])
      /\ IF object[found[i]].default THEN AtDefault(found[i]) ELSE UNCHANGED defaultServed
  BY <1>1 DEF Serve, Fits, OpsAt, ghosts
<1>3. x.op = "boot" /\ x.index = i + 1
  BY <1>1, <1>2 DEF Local
<1> HIDE DEF x
<1>4. OnlyMoves(Boot) /\ pc'[Boot] = "serve" /\ loc'[Boot] = x
  BY <1>1, <1>2, GotoGoes
<1>5. i \in DOMAIN found
  <2>1. i >= 1 /\ i \in Nat
    BY <1>1, <1>2, Counted DEF Fits, Local
  <2> QED
    BY <1>1, <2>1 DEF TypeOK
<1>6. found[i] \in Objects /\ at \in Places /\ found[i] # NoObject
  <2>1. found[i] \in Objects
    BY <1>1, <1>5 DEF TypeOK
  <2>2. object[found[i]] \in Object
    BY <1>1, <2>1 DEF TypeOK
  <2> QED
    BY <2>1, <2>2, ServiceAssumption DEF Object, PathAt
<1>7. /\ served'[at] # NoObject
      /\ \A p \in Places : served[p] # NoObject => served'[p] # NoObject
      /\ \A p \in Places : p # at => served'[p] = served[p]
  BY <1>1, <1>2, <1>6 DEF At, TypeOK, PathAt
<1>8. /\ defaultServed # NoObject => defaultServed' # NoObject
      /\ object[found[i]].default => defaultServed' # NoObject
  BY <1>2, <1>6 DEF AtDefault
<1> QED
  BY <1>2, <1>3, <1>4, <1>5, <1>6, <1>7, <1>8 DEF NewName

LEMMA ServeBus ==
  ASSUME IInv, BusInv, Serve, ~(loc[Boot].index > Len(found))
  PROVE  BusInv'
<1> DEFINE i == loc[Boot].index
           at == PathAt(i)
<1>1. /\ UNCHANGED <<object, found, collections, deletedAt>>
      /\ OnlyMoves(Boot) /\ pc[Boot] = "serve" /\ pc'[Boot] = "serve"
      /\ i \in DOMAIN found /\ loc'[Boot].index = i + 1
      /\ at \in Places /\ served'[at] # NoObject
      /\ \A p \in Places : served[p] # NoObject => served'[p] # NoObject
      /\ \A p \in Places : p # at => served'[p] = served[p]
  BY ServeGoes
<1>2. \A j : Done(j) /\ Done(j)' /\ (ToServe(j) <=> j >= i) /\ (ToServe(j)' <=> j >= i + 1)
  BY <1>1 DEF Done, ToServe
<1>3. DOMAIN found \subseteq Nat /\ TypeOK
  BY DEF IInv, TypeOK
<1>4. \A u \in Workers :
        /\ pc'[u] = "insert" <=> pc[u] = "insert"
        /\ pc[u] = "insert" => loc'[u] = loc[u]
  BY <1>1 DEF OnlyMoves
<1>5. ListedIsServed'
  <2> SUFFICES ASSUME NEW p \in Places, p \notin deletedAt', collections'[p] # NoObject,
                      served'[p] = NoObject
               PROVE  \E j \in DOMAIN found' : ToServe(j)' /\ object'[found'[j]].path = p
    BY DEF ListedIsServed, PathAt
  <2>1. p # at /\ served[p] = NoObject
    BY <1>1
  <2>2. PICK j \in DOMAIN found : ToServe(j) /\ PathAt(j) = p
    BY <1>1, <2>1 DEF BusInv, ListedIsServed
  <2>3. j >= i /\ j # i
    BY <1>2, <2>1, <2>2
  <2>4. j >= i + 1
    BY <1>1, <1>3, <2>3
  <2> QED
    BY <1>1, <1>2, <2>2, <2>4 DEF PathAt
<1>6. ServedIsListed'
  <2> SUFFICES ASSUME NEW p \in Places, p \notin deletedAt', served'[p] # NoObject,
                      collections'[p] = NoObject
               PROVE  \E u \in Workers : pc'[u] = "insert" /\ object'[loc'[u].obj].path = p
    BY DEF ServedIsListed
  <2>1. p # at
    BY <1>1, <1>2 DEF BusInv, DoneIsListed
  <2> QED
    BY <1>1, <1>4, <2>1 DEF BusInv, ServedIsListed
<1>7. InsertIsServed'
  <2> SUFFICES ASSUME NEW u \in Workers, pc'[u] = "insert"
               PROVE  \/ object'[loc'[u].obj].path \in deletedAt'
                      \/ served'[object'[loc'[u].obj].path] # NoObject
    BY DEF InsertIsServed
  <2>1. pc[u] = "insert" /\ loc'[u] = loc[u]
    BY <1>4
  <2>2. object[loc[u].obj].path \in Places
    BY <2>1 DEF IInv, Control, TypeOK, Object, WorkersFit, Fits, SharedAt
  <2> QED
    BY <1>1, <2>1, <2>2 DEF BusInv, InsertIsServed
<1>8. TakenOffIsDeleted'
  BY <1>1 DEF BusInv, TakenOffIsDeleted, OnlyMoves
<1>9. DoneIsListed'
  BY <1>1, <1>2 DEF BusInv, DoneIsListed, PathAt
<1> QED
  BY <1>5, <1>6, <1>7, <1>8, <1>9 DEF BusInv

\* Which steps are far, and which are not.
Near(w) ==
  \/ w \in Tasks /\ (Delete(w) \/ Unserve(w) \/ Remove(w))
  \/ (ServeAt(w) /\ pc'[w] = "insert") \/ Insert(w) \/ ServeDefault(w)
  \/ w = Boot /\ (ScanV1 \/ PutOff \/ Discovered \/ Register \/ Place \/ Serve)

LEMMA NearOrFar ==
  ASSUME IInv, NEW w \in Workers, Steps(w)
  PROVE  Near(w) \/ Far(w)
<1>1. CASE w \in Tasks /\ Call(w)
  BY <1>1, CallFar DEF Near
<1>2. CASE Adding(w) \/ CreateFails(w)
  BY <1>2, AddingFar DEF Near, Adding
<1>3. CASE w = Boot /\ (Start \/ (Booting /\ ~GiveUp))
  BY <1>3, BootingFar DEF Near, Booting
<1>4. CASE Migrating(w) \/ Writing(w) \/ TryingAll(w) \/ Unlocking(w)
  BY <1>4, MigratingFar, WritingFar, TryingFar, UnlockingFar
<1> QED
  BY <1>1, <1>2, <1>3, <1>4 DEF Steps, Near

LEMMA StepsBus ==
  ASSUME IInv, BusInv, NEW w \in Workers, Steps(w)
  PROVE  BusInv'
<1>1. CASE w = Boot /\ (Place \/ Serve)
  BY <1>1, PlaceBus, LoopBus, ServeBus
<1>2. CASE ~(w = Boot /\ (Place \/ Serve))
  <2>1. Touches(w)
    BY <1>2, StepsTouch
  <2>2. CASE w \in Tasks /\ Delete(w)
    <3>1. /\ pc[w] = "idle" /\ pc'[w] \in {"idle", "unserve"}
          /\ UNCHANGED <<collections, served, found>> /\ deletedAt \subseteq deletedAt'
          /\ pc'[w] = "unserve" => loc'[w].path \in deletedAt'
          /\ OnlyMoves(w) /\ SameStage
      BY <2>2, DeleteGoes
    <3> QED
      BY <2>1, <3>1, BusKept DEF SameStage
  <2>3. CASE ServeDefault(w)
    <3>1. /\ pc[w] = "serveDefault" /\ pc'[w] = "pamNext"
          /\ UNCHANGED <<collections, served, found, deletedAt>>
          /\ OnlyMoves(w) /\ SameStage
      BY <2>3, ServeDefaultGoes
    <3> QED
      BY <2>1, <3>1, BusKept DEF SameStage
  <2>4. CASE Far(w)
    BY <2>1, <2>4, FarBus
  <2> QED
    BY <1>2, <2>1, <2>2, <2>3, <2>4, NearOrFar, ServeAtBus, InsertBus, TakeOffBus, FoundBus DEF Near
<1> QED
  BY <1>1, <1>2

-----------------------------------------------------------------------------
(* What is waited for, from step to step *)

PathsApart == \A m, n \in Names : PathOf[m] = PathOf[n] => m = n

\* What is listed stays listed under its name, or was deleted.
StaysListed ==
  \A p \in Places : collections[p] # NoObject =>
    \/ /\ collections'[p] # NoObject
       /\ object'[collections'[p]].name = object[collections[p]].name
    \/ p \in deletedAt'

LEMMA SameListed ==
  ASSUME IInv, NEW w \in Workers, Touches(w), UNCHANGED collections
  PROVE  StaysListed
<1>1. \A p \in Places : collections[p] # NoObject => collections[p] \in Objects /\ Known(collections[p])
  BY DEF IInv, TypeOK, Known
<1> QED
  BY <1>1, KnownKept DEF StaysListed, Same, IInv

LEMMA PendKept ==
  ASSUME IInv, PendInv, StaysListed, deletedAt \subseteq deletedAt',
         \A i \in DOMAIN found : Unplaced(i) =>
           \/ /\ i \in DOMAIN found' /\ Unplaced(i)'
              /\ object'[found'[i]].name = object[found[i]].name
           \/ \E p \in Places :
                collections'[p] # NoObject /\ object'[collections'[p]].name = object[found[i]].name,
         NEW n \in Names, pending[n] # "none"
  PROVE  Reached(n)'
<1>1. CASE \E i \in DOMAIN found : Unplaced(i) /\ object[found[i]].name = n
  BY <1>1 DEF Reached
<1>2. CASE \E p \in Places : collections[p] # NoObject /\ object[collections[p]].name = n
  <2>1. PICK p \in Places : collections[p] # NoObject /\ object[collections[p]].name = n
    BY <1>2
  <2>2. p[1] = PathOf[n]
    BY <2>1 DEF IInv, Listing, ListedAtPath
  <2> QED
    BY <2>1, <2>2 DEF StaysListed, Reached
<1>3. CASE \E p \in deletedAt : p[1] = PathOf[n]
  BY <1>3 DEF Reached
<1> QED
  BY <1>1, <1>2, <1>3 DEF PendInv, Reached

\* The same when the step places nothing.
LEMMA PendSteady ==
  ASSUME IInv, PendInv, NEW w \in Workers, StaysListed, Touches(w),
         deletedAt \subseteq deletedAt',
         \A i \in DOMAIN found :
           i \in DOMAIN found' /\ found'[i] = found[i] /\ (Unplaced(i) => Unplaced(i)'),
         NEW n \in Names, pending[n] # "none"
  PROVE  Reached(n)'
<1>1. \A i \in DOMAIN found : object'[found'[i]].name = object[found[i]].name
  <2>1. \A i \in DOMAIN found : found[i] \in Objects /\ Known(found[i])
    BY DEF IInv, TypeOK, Known
  <2> QED
    BY <2>1, KnownKept DEF Same, IInv
<1> QED
  BY <1>1, PendKept

LEMMA InsertListed ==
  ASSUME IInv, PathsApart, NEW w \in Workers, Insert(w)
  PROVE  StaysListed
<1> DEFINE o == loc[w].obj
<1>1. /\ UNCHANGED object /\ o \in Objects
      /\ \A p \in Places : collections'[p] = IF p = object[o].path THEN o ELSE collections[p]
  BY InsertGoes
<1>2. \A p \in Places : collections[p] # NoObject =>
        collections[p] \in Objects /\ p[1] = PathOf[object[collections[p]].name]
  BY DEF IInv, TypeOK, Listing, ListedAtPath
<1>3. object[o].path[1] = PathOf[object[o].name]
  BY InsertGoes DEF IInv, Listing, ListedOnce
<1>4. \A q \in Objects : object[q].name \in Names
  BY DEF IInv, TypeOK, Object
<1>5. o # NoObject
  BY <1>1, ServiceAssumption
<1> QED
  BY <1>1, <1>2, <1>3, <1>4, <1>5 DEF StaysListed, PathsApart

LEMMA TakeOffListed ==
  ASSUME IInv, BusInv, NEW t \in Tasks, Unserve(t) \/ Remove(t)
  PROVE  StaysListed
<1>1. /\ t \in Workers /\ pc[t] \in {"unserve", "remove"} /\ UNCHANGED <<object, deletedAt>>
      /\ \A p \in Places : p # loc[t].path => collections'[p] = collections[p]
  BY TakeOffGoes DEF Workers
<1>2. loc[t].path \in deletedAt
  BY <1>1 DEF BusInv, TakenOffIsDeleted
<1> QED
  BY <1>1, <1>2 DEF StaysListed

LEMMA PlacePend ==
  ASSUME IInv, PendInv, Place, ~(loc[Boot].index > Len(found)), NEW n \in Names, pending[n] # "none"
  PROVE  Reached(n)'
<1> DEFINE i == loc[Boot].index
<1>1. /\ UNCHANGED <<found, deletedAt>>
      /\ pc[Boot] = "place" /\ pc'[Boot] = "place"
      /\ loc[Boot].op = "boot" /\ loc'[Boot].op = "boot"
      /\ i \in DOMAIN found /\ loc'[Boot].index = i + 1
  BY PlaceGoes
<1>2. \E o \in Objects, at \in Places :
        /\ o = found[i] /\ collections[at] = NoObject /\ object'[o].name = object[o].name
        /\ \A q \in Objects : q # o => object'[q] = object[q]
        /\ \A p \in Places : collections'[p] = IF p = at THEN o ELSE collections[p]
        /\ \A p \in Places : collections[p] # o
        /\ \A j \in DOMAIN found : j # i => found[j] # o
  BY PlaceGoes
<1>3. PICK o \in Objects, at \in Places :
        /\ o = found[i] /\ collections[at] = NoObject /\ object'[o].name = object[o].name
        /\ \A q \in Objects : q # o => object'[q] = object[q]
        /\ \A p \in Places : collections'[p] = IF p = at THEN o ELSE collections[p]
        /\ \A p \in Places : collections[p] # o
        /\ \A j \in DOMAIN found : j # i => found[j] # o
  BY <1>2
<1>4. /\ o # NoObject /\ DOMAIN found \subseteq Nat
      /\ \A j \in DOMAIN found : found[j] \in Objects
      /\ \A p \in Places : collections[p] # NoObject => collections[p] \in Objects
  BY ServiceAssumption DEF IInv, TypeOK
<1>5. StaysListed
  BY <1>3, <1>4 DEF StaysListed
<1>6. ASSUME NEW j \in DOMAIN found, Unplaced(j)
      PROVE  \/ /\ j \in DOMAIN found' /\ Unplaced(j)'
                /\ object'[found'[j]].name = object[found[j]].name
             \/ \E p \in Places :
                  collections'[p] # NoObject /\ object'[collections'[p]].name = object[found[j]].name
  <2>1. CASE j = i
    BY <1>3, <1>4, <2>1
  <2>2. CASE j # i
    <3>1. j >= i + 1
      BY <1>1, <1>4, <1>6, <2>2 DEF Unplaced
    <3> QED
      BY <1>1, <1>3, <1>4, <2>2, <3>1 DEF Unplaced, Early
  <2> QED
    BY <2>1, <2>2
<1> QED
  BY <1>1, <1>5, <1>6, PendKept

LEMMA FoundPend ==
  ASSUME IInv, PendInv, ScanV1 \/ PutOff \/ Discovered \/ Register, Touches(Boot),
         NEW n \in Names, pending'[n] # "none"
  PROVE  Reached(n)'
<1>1. Boot \in Workers /\ TypeOK
  BY DEF Workers, IInv
<1>2. CASE pending[n] # "none"
  <2>1. StaysListed
    BY <1>1, FoundGoes, SameListed
  <2> QED
    BY <1>1, <1>2, <2>1, FoundGoes, PendSteady
<1>3. CASE pending[n] = "none"
  <2>1. PutOff /\ n = loc[Boot].name
    BY <1>1, <1>3 DEF ScanV1, PutOff, Discovered, Register, TypeOK
  <2>2. Next1 \in Objects /\ found' = Append(found, Next1)
    BY <2>1, FoundNew
  <2>3. PICK y \in Object, kind \in {"v1", "v0", "kwallet"} :
          IsKeyring(y, n) /\ object' = [object EXCEPT ![Next1] = Found(y, kind)]
    BY <2>1, FoundNew
  <2>4. object'[Next1].name = n
    <3>1. object'[Next1] = Found(y, kind)
      BY <1>1, <2>2, <2>3 DEF TypeOK
    <3> QED
      BY <2>3, <3>1, FoundType DEF IsKeyring
  <2>5. Len(found) + 1 \in DOMAIN found' /\ found'[Len(found) + 1] = Next1
    BY <1>1, <2>2 DEF TypeOK
  <2>6. PICK i \in DOMAIN found' : found'[i] = Next1
    BY <2>5
  <2>7. Unplaced(i)'
    BY <2>1, FoundGoes
  <2> QED
    BY <2>4, <2>6, <2>7 DEF Reached
<1> QED
  BY <1>2, <1>3

LEMMA LoopPend ==
  ASSUME IInv, PendInv, Place \/ Serve, loc[Boot].index > Len(found),
         NEW n \in Names, pending[n] # "none"
  PROVE  Reached(n)'
<1>1. /\ UNCHANGED <<object, found, collections, deletedAt>> /\ pc[Boot] \in {"place", "serve"}
      /\ \A i \in DOMAIN found : Done(i)
  BY LoopGoes
<1>2. TypeOK /\ loc[Boot].index \in Nat
  BY Counted DEF IInv, TypeOK, Local, Workers
<1>3. \A i \in DOMAIN found : ~Unplaced(i)
  <2>1. DOMAIN found \subseteq Nat
    BY <1>2 DEF TypeOK
  <2> QED
    BY <1>1, <1>2, <2>1 DEF Done, Unplaced, Early
<1> QED
  BY <1>1, <1>3 DEF PendInv, Reached

LEMMA StepsPend ==
  ASSUME IInv, PathsApart, BusInv, PendInv, NEW w \in Workers, Steps(w)
  PROVE  PendInv'
<1> SUFFICES ASSUME NEW n \in Names, pending'[n] # "none" PROVE Reached(n)'
  BY DEF PendInv
<1>1. CASE w = Boot /\ (Place \/ Serve)
  <2>1. pending[n] # "none"
    BY <1>1 DEF Place, Serve
  <2>2. CASE Serve /\ ~(loc[Boot].index > Len(found))
    <3>1. UNCHANGED <<object, found, collections, deletedAt>> /\ pc[Boot] = "serve"
      BY <2>2, ServeGoes
    <3>2. \A i \in DOMAIN found : ~Unplaced(i)
      BY <3>1 DEF Unplaced, Early
    <3> QED
      BY <2>1, <3>1, <3>2 DEF PendInv, Reached
  <2> QED
    BY <1>1, <2>1, <2>2, PlacePend, LoopPend
<1>2. CASE ~(w = Boot /\ (Place \/ Serve))
  <2>1. Touches(w)
    BY <1>2, StepsTouch
  <2>2. ASSUME UNCHANGED found, deletedAt \subseteq deletedAt', SameStage, StaysListed,
               pending[n] # "none"
        PROVE  Reached(n)'
    BY <2>1, <2>2, PendSteady DEF SameStage
  <2>3. CASE Far(w)
    <3>1. pending[n] # "none"
      BY <2>3 DEF Far
    <3> QED
      BY <2>1, <2>2, <2>3, <3>1, SameListed DEF Far, FarMoves
  <2>4. CASE w \in Tasks /\ Delete(w)
    <3>1. /\ UNCHANGED <<collections, found, pending>> /\ deletedAt \subseteq deletedAt'
          /\ SameStage
      BY <2>4, DeleteGoes
    <3> QED
      BY <2>1, <2>2, <3>1, SameListed
  <2>5. CASE ServeDefault(w)
    <3>1. UNCHANGED <<collections, found, pending, deletedAt>> /\ SameStage
      BY <2>5, ServeDefaultGoes
    <3> QED
      BY <2>1, <2>2, <3>1, SameListed
  <2>6. CASE ServeAt(w) /\ pc'[w] = "insert"
    <3>1. UNCHANGED <<collections, found, pending, deletedAt>>
      BY <2>6 DEF ServeAt
    <3>2. SameStage
      BY <2>6, ServeAtGoes
    <3> QED
      BY <2>1, <2>2, <3>1, <3>2, SameListed
  <2>7. CASE Insert(w)
    <3>1. UNCHANGED <<found, pending, deletedAt>> /\ SameStage /\ StaysListed
      BY <2>7, InsertGoes, InsertListed
    <3> QED
      BY <2>2, <3>1
  <2>8. CASE w \in Tasks /\ (Unserve(w) \/ Remove(w))
    <3>1. UNCHANGED <<found, pending, deletedAt>> /\ SameStage /\ StaysListed
      BY <2>8, TakeOffGoes, TakeOffListed
    <3> QED
      BY <2>2, <3>1
  <2> QED
    BY <1>2, <2>1, <2>3, <2>4, <2>5, <2>6, <2>7, <2>8, NearOrFar, FoundPend DEF Near
<1> QED
  BY <1>1, <1>2

-----------------------------------------------------------------------------
(* The default collection, from step to step *)

\* What keeps a name from meaning two things: no two names go by one path, no file of
\* KWallet's is called as the login keyring, and clients create no collection that is
\* called as the default one.
NamesApart == PathsApart /\ Login \notin KWallets /\ DefaultNames \cap NewNames = {}

LEMMA AliasLabel ==
  ASSUME Login \notin KWallets, NEW n, NEW kind, kind = "kwallet" => n \in KWallets
  PROVE  /\ AliasOf(kind, n) \in DefaultNames => n \in DefaultNames
         /\ n \in DefaultNames => AliasOf(kind, n) = "default"
BY DEF AliasOf, DefaultNames

LEMMA StepsMove ==
  ASSUME IInv, NEW w \in Workers, Steps(w)
  PROVE  OnlyMoves(w) /\ NewName(w)
<1>1. CASE w \in Tasks /\ (Delete(w) \/ Unserve(w) \/ Remove(w))
  BY <1>1, DeleteGoes, TakeOffGoes
<1>2. CASE (ServeAt(w) /\ pc'[w] = "insert") \/ Insert(w) \/ ServeDefault(w)
  BY <1>2, ServeAtGoes, InsertGoes, ServeDefaultGoes
<1>3. CASE w = Boot /\ (ScanV1 \/ PutOff \/ Discovered \/ Register \/ Place \/ Serve)
  BY <1>3, FoundGoes, PlaceGoes, LoopGoes, ServeGoes
<1>4. CASE Far(w)
  BY <1>4 DEF Far, FarMoves
<1> QED
  BY <1>1, <1>2, <1>3, <1>4, NearOrFar DEF Near

LEMMA DefaultKept ==
  ASSUME IInv, HaveDefault, NEW w \in Workers, Touches(w), OnlyMoves(w),
         defaultServed # NoObject => defaultServed' # NoObject,
         \A i \in DOMAIN found :
           i \in DOMAIN found' /\ found'[i] = found[i] /\ (ToServe(i) => ToServe(i)'),
         pc[w] = "serveDefault" /\ loc[w].name \in DefaultNames => defaultServed' # NoObject
  PROVE  HaveDefault'
<1>1. CASE defaultServed # NoObject
  BY <1>1 DEF HaveDefault
<1>2. CASE \E u \in Workers : pc[u] = "serveDefault" /\ loc[u].name \in DefaultNames
  BY <1>2 DEF HaveDefault, OnlyMoves
<1>3. CASE \E i \in DOMAIN found : ToServe(i) /\ object[found[i]].default
  <2>1. PICK i \in DOMAIN found : ToServe(i) /\ object[found[i]].default
    BY <1>3
  <2>2. found[i] \in Objects /\ Known(found[i])
    BY DEF IInv, TypeOK, Known
  <2>3. object'[found'[i]].default
    BY <2>1, <2>2, KnownKept DEF Same, IInv
  <2> QED
    BY <2>1, <2>3 DEF HaveDefault
<1> QED
  BY <1>1, <1>2, <1>3 DEF HaveDefault

LEMMA StepsDefault ==
  ASSUME IInv, NamesApart, HaveDefault, NEW w \in Workers, Steps(w)
  PROVE  HaveDefault'
<1>1. CASE w = Boot /\ Place /\ ~(loc[Boot].index > Len(found))
  <2> DEFINE i == loc[Boot].index
  <2>1. /\ UNCHANGED <<found, defaultServed>> /\ OnlyMoves(Boot)
        /\ pc[Boot] = "place" /\ pc'[Boot] = "place" /\ i \in DOMAIN found /\ loc'[Boot].index = i + 1
        /\ \A q \in Objects : q # found[i] => object'[q] = object[q]
        /\ \A j \in DOMAIN found : j # i => found[j] # found[i]
    BY <1>1, PlaceGoes
  <2>2. DOMAIN found \subseteq Nat /\ \A j \in DOMAIN found : found[j] \in Objects
    BY DEF IInv, TypeOK
  <2>3. \A j \in DOMAIN found : ToServe(j) => j # i /\ ToServe(j)'
    BY <2>1, <2>2 DEF ToServe, Done
  <2>4. \A j \in DOMAIN found : ToServe(j) => object'[found'[j]] = object[found[j]]
    BY <2>1, <2>2, <2>3
  <2>5. \A u \in Workers : pc[u] = "serveDefault" => pc'[u] = pc[u] /\ loc'[u] = loc[u]
    BY <2>1 DEF OnlyMoves
  <2> QED
    BY <2>1, <2>3, <2>4, <2>5 DEF HaveDefault
<1>2. CASE w = Boot /\ Serve /\ ~(loc[Boot].index > Len(found))
  <2> DEFINE i == loc[Boot].index
  <2>1. /\ UNCHANGED <<object, found>> /\ OnlyMoves(Boot)
        /\ pc[Boot] = "serve" /\ pc'[Boot] = "serve" /\ i \in DOMAIN found /\ loc'[Boot].index = i + 1
        /\ defaultServed # NoObject => defaultServed' # NoObject
        /\ object[found[i]].default => defaultServed' # NoObject
    BY <1>2, ServeGoes
  <2>2. DOMAIN found \subseteq Nat
    BY DEF IInv, TypeOK
  <2>3. \A j \in DOMAIN found : ToServe(j) /\ j # i => ToServe(j)'
    BY <2>1, <2>2 DEF ToServe, Done
  <2>4. \A u \in Workers : pc[u] = "serveDefault" => pc'[u] = pc[u] /\ loc'[u] = loc[u]
    BY <2>1 DEF OnlyMoves
  <2> QED
    BY <2>1, <2>3, <2>4 DEF HaveDefault
<1>3. CASE w = Boot /\ (Place \/ Serve) /\ loc[Boot].index > Len(found)
  <2>1. UNCHANGED <<object, found, defaultServed>> /\ pc[Boot] \in {"place", "serve"}
    BY <1>3, LoopGoes
  <2>2. \A i \in DOMAIN found : ToServe(i) => ToServe(i)'
    BY <1>3, LoopGoes
  <2>3. Touches(Boot) /\ Boot \in Workers /\ OnlyMoves(Boot)
    BY <1>3, <2>1, TouchesNothing, LoopGoes
  <2> QED
    BY <2>1, <2>2, <2>3, DefaultKept
<1>4. CASE ~(w = Boot /\ (Place \/ Serve))
  <2>1. Touches(w) /\ OnlyMoves(w)
    BY <1>4, StepsTouch, StepsMove
  <2>2. CASE ServeDefault(w)
    <3>1. /\ pc[w] = "serveDefault" /\ UNCHANGED found /\ SameStage
          /\ defaultServed # NoObject => defaultServed' # NoObject
          /\ AliasOf(loc[w].kind, loc[w].name) = "default" => defaultServed' # NoObject
          /\ <<loc[w].kind, loc[w].name>> \in Sources
      BY <2>2, ServeDefaultGoes
    <3>2. loc[w].name \in DefaultNames => AliasOf(loc[w].kind, loc[w].name) = "default"
      BY <3>1, AliasLabel DEF NamesApart, Sources
    <3> QED
      BY <2>1, <3>1, <3>2, DefaultKept DEF SameStage
  <2>3. CASE Far(w)
    BY <2>1, <2>3, DefaultKept DEF Far, FarMoves, SameStage, Marks
  <2>4. CASE w \in Tasks /\ (Delete(w) \/ Unserve(w) \/ Remove(w))
    <3>1. UNCHANGED <<found, defaultServed>> /\ SameStage /\ pc[w] # "serveDefault"
      BY <2>4, DeleteGoes, TakeOffGoes
    <3> QED
      BY <2>1, <3>1, DefaultKept DEF SameStage
  <2>5. CASE (ServeAt(w) /\ pc'[w] = "insert") \/ Insert(w)
    <3>1. UNCHANGED <<found, defaultServed>> /\ SameStage /\ pc[w] # "serveDefault"
      BY <2>5, ServeAtGoes, InsertGoes
    <3> QED
      BY <2>1, <3>1, DefaultKept DEF SameStage
  <2>6. CASE w = Boot /\ (ScanV1 \/ PutOff \/ Discovered \/ Register)
    <3>1. /\ UNCHANGED defaultServed /\ pc[Boot] # "serveDefault"
          /\ \A i \in DOMAIN found : i \in DOMAIN found' /\ found'[i] = found[i] /\ ~Done(i)
      BY <2>6, FoundGoes DEF Marks
    <3> QED
      BY <2>1, <2>6, <3>1, DefaultKept DEF ToServe
  <2> QED
    BY <1>4, <2>2, <2>3, <2>4, <2>5, <2>6, NearOrFar DEF Near
<1> QED
  BY <1>1, <1>2, <1>3, <1>4

\* What is waiting for its place keeps its alias and its name.
LEMMA AliasKept ==
  ASSUME IInv, AliasGiven, NEW w \in Workers, Touches(w),
         NEW i \in DOMAIN found, found'[i] = found[i], Unplaced(i)
  PROVE  AliasFits(object'[found'[i]]) /\ object'[found'[i]].name = object[found[i]].name
<1>1. found[i] \in Objects /\ Known(found[i])
  BY DEF IInv, TypeOK, Known
<1>2. \A p \in Places : collections[p] # found[i]
  BY DEF IInv, Listing, ListedOnce
<1>3. object[found[i]].used /\ ~Owns(w, found[i])
  BY <1>1 DEF IInv, Ownership, KnownAreUsed, OwnIsOwn
<1>4. /\ object'[found[i]].alias = object[found[i]].alias
      /\ object'[found[i]].name = object[found[i]].name
  BY <1>1, <1>2, <1>3 DEF Touches, Same
<1> QED
  BY <1>4 DEF AliasGiven, AliasFits

LEMMA CreatedKept ==
  ASSUME CreatedAreNew, NEW w \in Workers, OnlyMoves(w), NewName(w)
  PROVE  CreatedAreNew'
BY DEF CreatedAreNew, OnlyMoves, NewName

\* A step that finds and places nothing.
LEMMA DefSteady ==
  ASSUME IInv, DefInv, NEW w \in Workers, Touches(w), OnlyMoves(w), NewName(w), SameStage,
         UNCHANGED found, HaveDefault => HaveDefault', ListedGivesDefault'
  PROVE  DefInv'
<1>1. \A i \in DOMAIN found : Unplaced(i)' => Unplaced(i)
  BY DEF SameStage
<1>2. AliasGiven'
  BY <1>1, AliasKept DEF AliasGiven, DefInv
<1>3. CreatedAreNew'
  BY CreatedKept DEF DefInv
<1>4. ASSUME pc'[Boot] = "place"
      PROVE  DefaultFound'
  <2>1. DefaultFound
    BY <1>4 DEF DefInv, SameStage
  <2>2. CASE \E i \in DOMAIN found : Unplaced(i) /\ object[found[i]].name \in DefaultNames
    <3>1. PICK i \in DOMAIN found : Unplaced(i) /\ object[found[i]].name \in DefaultNames
      BY <2>2
    <3>2. object'[found'[i]].name \in DefaultNames
      BY <3>1, AliasKept DEF DefInv
    <3> QED
      BY <3>1, <3>2 DEF DefaultFound, SameStage
  <2> QED
    BY <2>1, <2>2 DEF DefaultFound
<1>5. Settled' => HaveDefault'
  BY DEF SameStage, DefInv
<1> QED
  BY <1>2, <1>3, <1>4, <1>5 DEF DefInv

LEMMA ListedSteady ==
  ASSUME IInv, DefInv, NEW w \in Workers, Touches(w), HaveDefault => HaveDefault',
         \A p \in Places : collections'[p] \in {collections[p], NoObject}
  PROVE  ListedGivesDefault'
<1> SUFFICES ASSUME NEW p \in Places, collections'[p] # NoObject,
                    object'[collections'[p]].name \in DefaultNames
             PROVE  HaveDefault'
  BY DEF ListedGivesDefault
<1>1. collections'[p] = collections[p]
  OBVIOUS
<1>2. collections[p] \in Objects /\ Known(collections[p])
  BY <1>1 DEF IInv, TypeOK, Known
<1>3. object'[collections[p]].name = object[collections[p]].name
  BY <1>2, KnownKept DEF Same, IInv
<1> QED
  BY <1>1, <1>3 DEF DefInv, ListedGivesDefault

LEMMA InsertDef ==
  ASSUME IInv, DefInv, NamesApart, NEW w \in Workers, Insert(w), HaveDefault => HaveDefault'
  PROVE  ListedGivesDefault'
<1> DEFINE o == loc[w].obj
<1>1. /\ o \in Objects /\ object[o].name = loc[w].name /\ UNCHANGED object
      /\ loc[w].op \in {"create", "pam"}
      /\ \A p \in Places : collections'[p] = IF p = object[o].path THEN o ELSE collections[p]
      /\ loc[w].op = "pam" => pc'[w] = "serveDefault" /\ loc'[w] = loc[w]
  BY InsertGoes
<1> SUFFICES ASSUME NEW p \in Places, collections'[p] # NoObject,
                    object'[collections'[p]].name \in DefaultNames
             PROVE  HaveDefault'
  BY DEF ListedGivesDefault
<1>2. CASE p # object[o].path
  BY <1>1, <1>2 DEF DefInv, ListedGivesDefault
<1>3. CASE p = object[o].path
  <2>1. loc[w].name \in DefaultNames
    BY <1>1, <1>3
  <2>2. loc[w].op = "pam"
    BY <1>1, <2>1 DEF DefInv, CreatedAreNew, NamesApart
  <2> QED
    BY <1>1, <2>1, <2>2 DEF HaveDefault
<1> QED
  BY <1>2, <1>3

\* What is found under such a name has the alias of the default collection.
LEMMA FoundAlias ==
  ASSUME IInv, NamesApart, ScanV1 \/ PutOff \/ Discovered \/ Register,
         NEW i \in DOMAIN found' \ DOMAIN found
  PROVE  /\ AliasFits(object'[found'[i]])
         /\ Register => object'[found'[i]].name = Login
<1> DEFINE l == loc[Boot]
<1>1. /\ TypeOK /\ Objectful /\ Boot \in Workers /\ l \in Local /\ Fits(Boot, pc[Boot], l)
  BY DEF IInv, TypeOK, Control, WorkersFit, Workers, Objectful
<1>2. i = Len(found) + 1 /\ found \in Seq(Objects)
  BY <1>1, FoundGoes DEF TypeOK
<1>3. \E n \in Names, y \in Object, kind \in {"v1", "v0", "kwallet"} :
        /\ IsKeyring(y, n) /\ object'[found'[i]] = Found(y, kind)
        /\ kind = "kwallet" => n \in KWallets
        /\ Register => n = Login
  <2>1. CASE ScanV1 \/ PutOff \/ (Register /\ ~HasDefault)
    <3>1. Next1 \in Objects /\ found' = Append(found, Next1)
      BY <2>1, FoundNew
    <3>2. \E n \in Names, y \in Object, kind \in {"v1", "v0", "kwallet"} :
            /\ IsKeyring(y, n) /\ object' = [object EXCEPT ![Next1] = Found(y, kind)]
            /\ ScanV1 => kind = "v1"
            /\ PutOff => n = l.name /\ kind = l.kind
            /\ Register => n = Login /\ kind = "v1"
      BY <2>1, FoundNew
    <3>3. PICK n \in Names, y \in Object, kind \in {"v1", "v0", "kwallet"} :
            /\ IsKeyring(y, n) /\ object' = [object EXCEPT ![Next1] = Found(y, kind)]
            /\ ScanV1 => kind = "v1"
            /\ PutOff => n = l.name /\ kind = l.kind
            /\ Register => n = Login /\ kind = "v1"
      BY <3>2
    <3>4. found'[i] = Next1
      BY <1>2, <3>1
    <3>5. object'[Next1] = Found(y, kind)
      BY <1>1, <3>1, <3>3 DEF Objectful
    <3>6. PutOff => <<l.kind, l.name>> \in Sources
      BY <1>1 DEF PutOff, Fits, MigrationAt
    <3>7. kind = "kwallet" => n \in KWallets
      BY <2>1, <3>3, <3>6 DEF Sources
    <3> QED
      BY <3>3, <3>4, <3>5, <3>7
  <2>2. CASE Discovered
    <3>1. /\ pc[Boot] = "migrated" /\ l.op = "boot" /\ l.obj \in Objects
          /\ <<l.kind, l.name>> \in Sources /\ l.kind \in {"v0", "kwallet"} /\ l.name \in Names
      BY <1>1, <2>2 DEF Discovered, Fits, OwnAt, MigrationAt, Local
    <3>2. Owns(Boot, l.obj)
      BY <3>1 DEF Owns, OwnAt
    <3>3. object[l.obj].used /\ object[l.obj].name = l.name
      BY <1>1, <3>1, <3>2 DEF IInv, Ownership, OwnIsOwn
    <3>4. IsKeyring(object[l.obj], l.name)
      BY <1>1, <3>1, <3>3 DEF IsKeyring, Objectful
    <3>5. found' = Append(found, l.obj)
      BY <2>2 DEF Discovered
    <3>6. found'[i] = l.obj
      BY <1>2, <3>1, <3>5
    <3>7. object'[l.obj] = Found(object[l.obj], l.kind)
      BY <1>1, <2>2, <3>1 DEF Discovered, Objectful
    <3>8. l.kind = "kwallet" => l.name \in KWallets
      BY <3>1 DEF Sources
    <3>9. ~Register
      BY <3>1 DEF Register
    <3> DEFINE y == object[l.obj]
    <3>10. y \in Object /\ IsKeyring(y, l.name) /\ object'[found'[i]] = Found(y, l.kind)
      BY <1>1, <3>1, <3>4, <3>6, <3>7 DEF Objectful
    <3>11. l.kind \in {"v1", "v0", "kwallet"}
      BY <3>1
    <3> HIDE DEF y
    <3> QED
      BY <3>1, <3>8, <3>9, <3>10, <3>11
  <2>3. CASE Register /\ HasDefault
    <3>1. UNCHANGED found
      BY <2>3 DEF Register
    <3> QED
      BY <3>1
  <2> QED
    BY <2>1, <2>2, <2>3
<1>4. PICK n \in Names, y \in Object, kind \in {"v1", "v0", "kwallet"} :
        /\ IsKeyring(y, n) /\ object'[found'[i]] = Found(y, kind)
        /\ kind = "kwallet" => n \in KWallets
        /\ Register => n = Login
  BY <1>3
<1>5. IsKeyring(Found(y, kind), n) /\ Found(y, kind).alias[1] = AliasOf(kind, n)
  BY <1>4, FoundType
<1> QED
  BY <1>4, <1>5, AliasLabel DEF AliasFits, IsKeyring, NamesApart

LEMMA FoundDef ==
  ASSUME IInv, NamesApart, DefInv, ScanV1 \/ PutOff \/ Discovered \/ Register, Touches(Boot),
         HaveDefault => HaveDefault'
  PROVE  DefInv'
<1>1. /\ Boot \in Workers /\ UNCHANGED collections /\ OnlyMoves(Boot) /\ NewName(Boot) /\ Early'
      /\ pc'[Boot] = "place" => Register
  BY FoundGoes DEF Workers
<1>2. \A i \in DOMAIN found : i \in DOMAIN found' /\ found'[i] = found[i] /\ Unplaced(i)
  BY FoundGoes
<1>3. AliasGiven'
  <2> SUFFICES ASSUME NEW i \in DOMAIN found'
               PROVE  AliasFits(object'[found'[i]])
    BY DEF AliasGiven, AliasFits
  <2>1. CASE i \in DOMAIN found
    BY <1>1, <1>2, <2>1, AliasKept DEF DefInv
  <2>2. CASE i \notin DOMAIN found
    BY <2>2, FoundAlias
  <2> QED
    BY <2>1, <2>2
<1>4. CreatedAreNew'
  BY <1>1, CreatedKept DEF DefInv
<1>5. ListedGivesDefault'
  BY <1>1, ListedSteady
<1>6. ASSUME pc'[Boot] = "place"
      PROVE  DefaultFound'
  <2>1. Register
    BY <1>1, <1>6
  <2>2. PICK i \in DOMAIN found' : object'[found'[i]].name \in DefaultNames
    <3>1. CASE HasDefault
      <4>1. PICK i \in DOMAIN found : object[found[i]].alias[1] \in DefaultNames
        BY <3>1 DEF HasDefault, DefaultNames
      <4>2. object[found[i]].name \in DefaultNames
        BY <1>2, <4>1 DEF DefInv, AliasGiven, AliasFits
      <4>3. object'[found'[i]].name = object[found[i]].name
        BY <1>1, <1>2, AliasKept DEF DefInv
      <4> QED
        BY <1>2, <4>2, <4>3
    <3>2. CASE ~HasDefault
      <4>1. found' = Append(found, Next1) /\ Next1 \in Objects /\ found \in Seq(Objects)
        BY <2>1, <3>2, FoundNew DEF IInv, TypeOK
      <4>2. Len(found) + 1 \in DOMAIN found' \ DOMAIN found
        BY <4>1
      <4>3. PICK i \in DOMAIN found' \ DOMAIN found : TRUE
        BY <4>2
      <4>4. object'[found'[i]].name = Login
        BY <2>1, FoundAlias
      <4> QED
        BY <4>4 DEF DefaultNames
    <3> QED
      BY <3>1, <3>2
  <2>3. Unplaced(i)'
    BY <2>1, FoundGoes
  <2> QED
    BY <2>2, <2>3 DEF DefaultFound
<1>7. ~Settled'
  BY <1>1 DEF Settled
<1> QED
  BY <1>3, <1>4, <1>5, <1>6, <1>7 DEF DefInv

LEMMA PlaceDef ==
  ASSUME IInv, NamesApart, DefInv, Place, ~(loc[Boot].index > Len(found)),
         HaveDefault => HaveDefault'
  PROVE  DefInv'
<1>0. PICK i \in DOMAIN found : i = loc[Boot].index
  BY PlaceGoes
<1>1. /\ UNCHANGED found /\ OnlyMoves(Boot) /\ NewName(Boot) /\ Boot \in Workers
      /\ pc[Boot] = "place" /\ pc'[Boot] = "place"
      /\ loc[Boot].op = "boot" /\ loc'[Boot].op = "boot"
      /\ i \in DOMAIN found /\ loc'[Boot].index = i + 1
  BY <1>0, PlaceGoes DEF Workers
<1>2. \E o \in Objects, k \in Numbers :
        LET kr == object[o]
            at == <<PathOf[kr.name], k>>
        IN /\ o = found[i] /\ at \in Places
           /\ \A j \in 1 .. k - 1 : collections[<<PathOf[kr.name], j>>] # NoObject
           /\ object'[o].name = kr.name
           /\ object'[o].default = (<<kr.alias[1], k>> = <<"default", 1>>)
           /\ \A q \in Objects : q # o => object'[q] = object[q]
           /\ \A p \in Places : collections'[p] = IF p = at THEN o ELSE collections[p]
           /\ \A p \in Places : collections[p] # o
           /\ \A j \in DOMAIN found : j # i => found[j] # o
           /\ k >= 1
  BY <1>0, PlaceGoes
<1>3. PICK o \in Objects, k \in Numbers :
        LET kr == object[o]
            at == <<PathOf[kr.name], k>>
        IN /\ o = found[i] /\ at \in Places
           /\ \A j \in 1 .. k - 1 : collections[<<PathOf[kr.name], j>>] # NoObject
           /\ object'[o].name = kr.name
           /\ object'[o].default = (<<kr.alias[1], k>> = <<"default", 1>>)
           /\ \A q \in Objects : q # o => object'[q] = object[q]
           /\ \A p \in Places : collections'[p] = IF p = at THEN o ELSE collections[p]
           /\ \A p \in Places : collections[p] # o
           /\ \A j \in DOMAIN found : j # i => found[j] # o
           /\ k >= 1
  BY <1>2
<1> DEFINE kr == object[o]
           at == <<PathOf[kr.name], k>>
<1>4. /\ DOMAIN found \subseteq Nat /\ kr.name \in Names /\ o # NoObject /\ k \in Nat
      /\ \A j \in DOMAIN found : found[j] \in Objects
      /\ \A p \in Places : collections[p] # NoObject => collections[p] \in Objects
  BY ServiceAssumption, Counted DEF IInv, TypeOK, Object, Numbers
<1>5. Unplaced(i)
  BY <1>0, <1>1, <1>4 DEF Unplaced, Early
<1>6. ASSUME kr.name \in DefaultNames
      PROVE  HaveDefault'
  <2>1. kr.alias[1] = "default"
    BY <1>1, <1>3, <1>5, <1>6 DEF DefInv, AliasGiven, AliasFits
  <2>2. CASE k = 1
    <3>1. object'[o].default
      BY <1>3, <2>1, <2>2
    <3>2. ToServe(i)'
      BY <1>1, <1>4 DEF ToServe, Done
    <3> QED
      BY <1>1, <1>3, <3>1, <3>2 DEF HaveDefault
  <2>3. CASE k # 1
    <3> DEFINE first == <<PathOf[kr.name], 1>>
    <3>1. 1 \in 1 .. k - 1
      BY <1>3, <1>4, <2>3
    <3>2. collections[first] # NoObject
      BY <1>3, <3>1
    <3>3. first \in Places
      <4>1. 1 \in 0 .. Cardinality(Objects)
        BY <1>3, <1>4, <2>3, Counted DEF Numbers
      <4> QED
        BY <1>4, <4>1 DEF Places
    <3>4. PathOf[object[collections[first]].name] = PathOf[kr.name]
      BY <3>2, <3>3 DEF IInv, Listing, ListedAtPath
    <3>5. object[collections[first]].name \in Names
      BY <1>4, <3>2, <3>3 DEF IInv, TypeOK, Object
    <3>6. object[collections[first]].name = kr.name
      BY <1>4, <3>4, <3>5 DEF NamesApart, PathsApart
    <3> QED
      BY <1>6, <3>2, <3>3, <3>6 DEF DefInv, ListedGivesDefault
  <2> QED
    BY <2>2, <2>3
<1>7. AliasGiven'
  <2> SUFFICES ASSUME NEW j \in DOMAIN found, Unplaced(j)'
               PROVE  AliasFits(object'[found[j]])
    BY <1>1 DEF AliasGiven, AliasFits
  <2>1. j # i /\ Unplaced(j)
    BY <1>0, <1>1, <1>4 DEF Unplaced, Early
  <2>2. object'[found[j]] = object[found[j]]
    BY <1>3, <1>4, <2>1
  <2> QED
    BY <2>1, <2>2 DEF DefInv, AliasGiven
<1>8. CreatedAreNew'
  BY <1>1, CreatedKept DEF DefInv
<1>9. ListedGivesDefault'
  <2> SUFFICES ASSUME NEW p \in Places, collections'[p] # NoObject,
                      object'[collections'[p]].name \in DefaultNames
               PROVE  HaveDefault'
    BY DEF ListedGivesDefault
  <2>1. CASE p = at
    BY <1>3, <1>6, <2>1
  <2>2. CASE p # at
    <3>1. collections'[p] = collections[p] /\ collections[p] \in Objects /\ collections[p] # o
      BY <1>3, <1>4, <2>2
    <3>2. object'[collections[p]] = object[collections[p]]
      BY <1>3, <3>1
    <3> QED
      BY <3>1, <3>2 DEF DefInv, ListedGivesDefault
  <2> QED
    BY <2>1, <2>2
<1>10. DefaultFound'
  <2>1. DefaultFound
    BY <1>1 DEF DefInv
  <2>2. CASE \E j \in DOMAIN found : Unplaced(j) /\ object[found[j]].name \in DefaultNames
    <3>1. PICK j \in DOMAIN found : Unplaced(j) /\ object[found[j]].name \in DefaultNames
      BY <2>2
    <3>2. CASE j = i
      BY <1>3, <1>6, <3>1, <3>2 DEF DefaultFound
    <3>3. CASE j # i
      <4>1. Unplaced(j)'
        BY <1>0, <1>1, <1>4, <3>1, <3>3 DEF Unplaced, Early
      <4>2. object'[found[j]] = object[found[j]]
        BY <1>3, <1>4, <3>3
      <4> QED
        BY <1>1, <3>1, <4>1, <4>2 DEF DefaultFound
    <3> QED
      BY <3>2, <3>3
  <2> QED
    BY <2>1, <2>2 DEF DefaultFound
<1>11. ~Settled'
  BY <1>1 DEF Settled, Early
<1> QED
  BY <1>7, <1>8, <1>9, <1>10, <1>11 DEF DefInv

\* The steps of the two loops that place nothing.
LEMMA LoopDef ==
  ASSUME IInv, DefInv, Place \/ Serve, Serve \/ loc[Boot].index > Len(found),
         HaveDefault => HaveDefault'
  PROVE  DefInv'
<1>1. /\ Boot \in Workers /\ OnlyMoves(Boot) /\ NewName(Boot)
      /\ UNCHANGED <<object, found, collections>>
      /\ pc[Boot] \in {"place", "serve"} /\ pc'[Boot] \in {"serve", "replay"}
  BY LoopGoes, ServeGoes DEF Workers
<1>2. \A i : ~Unplaced(i)'
  BY <1>1 DEF Unplaced, Early
<1>3. CreatedAreNew'
  BY <1>1, CreatedKept DEF DefInv
<1>4. HaveDefault
  <2>1. CASE pc[Boot] = "serve"
    BY <2>1 DEF DefInv, Settled, Early
  <2>2. CASE pc[Boot] = "place"
    <3>1. loc[Boot].index > Len(found) /\ \A i \in DOMAIN found : Done(i)
      BY <2>2, LoopGoes DEF Serve
    <3>2. DOMAIN found \subseteq Nat /\ loc[Boot].index \in Nat
      BY <1>1, Counted DEF IInv, TypeOK, Local
    <3>3. \A i \in DOMAIN found : ~Unplaced(i)
      BY <2>2, <3>1, <3>2 DEF Done, Unplaced
    <3> QED
      BY <2>2, <3>3 DEF DefInv, DefaultFound
  <2> QED
    BY <1>1, <2>1, <2>2
<1> QED
  BY <1>1, <1>2, <1>3, <1>4 DEF DefInv, AliasGiven, ListedGivesDefault

LEMMA StepsDef ==
  ASSUME IInv, NamesApart, DefInv, NEW w \in Workers, Steps(w)
  PROVE  DefInv'
<1>1. HaveDefault => HaveDefault'
  BY StepsDefault
<1>2. CASE w = Boot /\ (Place \/ Serve)
  BY <1>1, <1>2, PlaceDef, LoopDef
<1>3. CASE ~(w = Boot /\ (Place \/ Serve))
  <2>1. Touches(w) /\ OnlyMoves(w) /\ NewName(w)
    BY <1>3, StepsTouch, StepsMove
  <2>2. ASSUME UNCHANGED found, SameStage,
               \A p \in Places : collections'[p] \in {collections[p], NoObject}
        PROVE  DefInv'
    BY <1>1, <2>1, <2>2, ListedSteady, DefSteady
  <2>3. CASE Far(w)
    BY <2>2, <2>3 DEF Far, FarMoves
  <2>4. CASE w \in Tasks /\ Delete(w)
    BY <2>2, <2>4, DeleteGoes
  <2>5. CASE w \in Tasks /\ (Unserve(w) \/ Remove(w))
    <3>1. \A p \in Places : collections'[p] \in {collections[p], NoObject}
      BY <2>5 DEF Unserve, Remove, IInv, TypeOK
    <3> QED
      BY <2>2, <2>5, <3>1, TakeOffGoes
  <2>6. CASE (ServeAt(w) /\ pc'[w] = "insert") \/ ServeDefault(w)
    BY <2>2, <2>6, ServeAtGoes, ServeDefaultGoes
  <2>7. CASE Insert(w)
    <3>1. UNCHANGED found /\ SameStage
      BY <2>7, InsertGoes
    <3> QED
      BY <1>1, <2>1, <2>7, <3>1, InsertDef, DefSteady
  <2>8. CASE w = Boot /\ (ScanV1 \/ PutOff \/ Discovered \/ Register)
    BY <1>1, <2>1, <2>8, FoundDef
  <2> QED
    BY <1>3, <2>3, <2>4, <2>5, <2>6, <2>7, <2>8, NearOrFar DEF Near
<1> QED
  BY <1>2, <1>3

-----------------------------------------------------------------------------
(* The list, the bus, what is pending and the default, together *)

ReachInv == IInv /\ BusInv
FullInv == ReachInv /\ PendInv /\ DefInv

LEMMA EmptiedReach == Emptied => BusInv /\ PendInv /\ DefInv
<1> SUFFICES ASSUME Emptied PROVE BusInv /\ PendInv /\ DefInv
  OBVIOUS
<1>1. DOMAIN found = {} /\ Boot \in Workers /\ Blank.op = "none"
  BY DEF Emptied, Workers, Blank
<1>2. \A w \in Workers : pc[w] \in {"down", "idle"} /\ loc[w] = Blank
  BY DEF Emptied
<1>3. pc[Boot] = "down"
  BY <1>1 DEF Emptied
<1>4. \A p \in Places : collections[p] = NoObject /\ served[p] = NoObject
  BY DEF Emptied
<1>5. BusInv
  BY <1>1, <1>2, <1>4
     DEF BusInv, ListedIsServed, ServedIsListed, InsertIsServed, TakenOffIsDeleted, DoneIsListed
<1>6. PendInv
  BY DEF PendInv, Emptied
<1>7. DefInv
  BY <1>1, <1>2, <1>3, <1>4 DEF DefInv, AliasGiven, CreatedAreNew, ListedGivesDefault, Settled
<1> QED
  BY <1>5, <1>6, <1>7

LEMMA EmptiedReachNext == Emptied' => BusInv' /\ PendInv' /\ DefInv'
BY EmptiedReach, PTL

LEMMA ResetEmpties ==
  ASSUME Crash \/ GiveUp
  PROVE  Emptied'
BY DEF Crash, GiveUp, Reset, Emptied

LEMMA StutterReach ==
  ASSUME UNCHANGED vars
  PROVE  /\ BusInv => BusInv'
         /\ PendInv => PendInv'
         /\ DefInv => DefInv'
<1>1. \A i : (Done(i)' <=> Done(i)) /\ (ToServe(i)' <=> ToServe(i)) /\ (Unplaced(i)' <=> Unplaced(i))
  BY DEF Done, ToServe, Unplaced, Early, vars
<1>2. BusInv => BusInv'
  BY <1>1 DEF BusInv, ListedIsServed, ServedIsListed, InsertIsServed, TakenOffIsDeleted, DoneIsListed,
     PathAt, vars
<1>3. PendInv => PendInv'
  BY <1>1 DEF PendInv, Reached, vars
<1>4. HaveDefault => HaveDefault'
  BY <1>1 DEF HaveDefault, vars
<1>5. DefaultFound => DefaultFound'
  BY <1>1, <1>4 DEF DefaultFound, vars
<1>6. DefInv => DefInv'
  BY <1>1, <1>4, <1>5 DEF DefInv, AliasGiven, CreatedAreNew, ListedGivesDefault, Settled, Early, vars
<1> QED
  BY <1>2, <1>3, <1>6

LEMMA ReachStep ==
  ASSUME ReachInv, [Next]_vars
  PROVE  ReachInv'
<1>1. IInv /\ BusInv /\ IInv'
  BY IInvStep DEF ReachInv
<1>2. CASE \E w \in Workers : Steps(w)
  BY <1>1, <1>2, StepsBus DEF ReachInv
<1>3. CASE Crash \/ GiveUp
  BY <1>1, <1>3, ResetEmpties, EmptiedReachNext DEF ReachInv
<1>4. CASE UNCHANGED vars
  BY <1>1, <1>4, StutterReach DEF ReachInv
<1> QED
  BY <1>2, <1>3, <1>4, NextSteps

LEMMA FullStep ==
  ASSUME NamesApart, FullInv, [Next]_vars
  PROVE  FullInv'
<1>1. IInv /\ BusInv /\ PendInv /\ DefInv /\ ReachInv'
  BY ReachStep DEF FullInv, ReachInv
<1>2. CASE \E w \in Workers : Steps(w)
  BY <1>1, <1>2, StepsPend, StepsDef DEF FullInv, NamesApart
<1>3. CASE Crash \/ GiveUp
  BY <1>1, <1>3, ResetEmpties, EmptiedReachNext DEF FullInv
<1>4. CASE UNCHANGED vars
  BY <1>1, <1>4, StutterReach DEF FullInv
<1> QED
  BY <1>2, <1>3, <1>4, NextSteps

LEMMA QuietFacts ==
  ASSUME Quiet
  PROVE  /\ Boot \in Workers /\ \A w \in Workers : pc[w] = "idle"
         /\ \A i : ~ToServe(i)
BY DEF Quiet, Workers, ToServe, Done

LEMMA ReachServes == ReachInv => ListedAreServed
<1> SUFFICES ASSUME ReachInv, Quiet, NEW p \in Places \ deletedAt
             PROVE  (collections[p] = NoObject) = (served[p] = NoObject)
  BY DEF ListedAreServed
<1> QED
  BY QuietFacts DEF ReachInv, BusInv, ListedIsServed, ServedIsListed

LEMMA FullForms == FullInv => WellFormed
<1> SUFFICES ASSUME FullInv PROVE WellFormed
  OBVIOUS
<1>1. TypeOK /\ ListedAreServed
  BY ReachServes DEF FullInv, ReachInv, IInv
<1>2. ASSUME Quiet
      PROVE  /\ \A i : ~Unplaced(i)
             /\ Settled
  <2>1. loc[Boot].op # "boot"
    BY <1>2, QuietFacts DEF FullInv, ReachInv, IInv, Control, WorkersFit, Fits, OpsAt
  <2> QED
    BY <1>2, <2>1 DEF Quiet, Unplaced, Early, Settled
<1>3. PendingHaveCollection
  BY <1>2 DEF PendingHaveCollection, FullInv, PendInv, Reached, Listed
<1>4. DefaultIsServed
  BY <1>2, QuietFacts DEF DefaultIsServed, FullInv, DefInv, HaveDefault
<1> QED
  BY <1>1, <1>3, <1>4 DEF WellFormed

\* When nothing is under way the collections that the service lists are on the bus, and the
\* other way round, but for those that are deleted (service/mod.rs adds a collection to the
\* two in turn and Collection.Delete takes it off in turn): for every interleaving of the
\* start, the calls, PAM's secrets and crashes.
THEOREM BusFollowsList == Spec => []ListedAreServed
<1>1. Init => ReachInv
  <2> SUFFICES ASSUME Init PROVE ReachInv
    OBVIOUS
  <2>1. Emptied
    BY DEF Init, Emptied
  <2> QED
    BY <2>1, InitInv, EmptiedReach DEF ReachInv
<1>2. ReachInv /\ [Next]_vars => ReachInv'
  BY ReachStep
<1> QED
  BY <1>1, <1>2, ReachServes, PTL DEF Spec

\* Where names are apart a migration that was put off can be reached, and something is
\* served as the default collection, whenever nothing is under way: Service::initialize
\* makes one when discovery found none, and a placeholder stays for what was put off.
THEOREM ServiceWellFormed ==
  ASSUME NamesApart
  PROVE  Spec => []WellFormed
<1>1. Init => FullInv
  <2> SUFFICES ASSUME Init PROVE FullInv
    OBVIOUS
  <2>1. Emptied
    BY DEF Init, Emptied
  <2> QED
    BY <2>1, InitInv, EmptiedReach DEF FullInv, ReachInv
<1>2. FullInv /\ [Next]_vars => FullInv'
  BY FullStep
<1> QED
  BY <1>1, <1>2, FullForms, PTL DEF Spec
===============================================================================
