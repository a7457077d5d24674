-------------------------- MODULE CollectionProofs --------------------------
(***************************************************************************)
(* What holds of Collection for all values of its constants.  The          *)
(* invariants are conjunctions of parts: where a call may be and the locks *)
(* it holds (TypeInv), and how the items are locked while a set_locked     *)
(* turns them one by one (FollowInv).                                      *)
(***************************************************************************)
EXTENDS Collection, FiniteSetTheorems, WellFoundedInduction, TLAPS

-----------------------------------------------------------------------------
(* Where a call may be, and what it then has in its variables *)

Turning == {"take", "items", "each"}
ItemCalls == {"create", "deleteItem", "lockItem", "unlockItem"}
Before == {"check", "prompt", "validate"} \cup Turning

\* derive_key, and the calls that hold the read guard of the keyring.
Keys == {"secret", "key"}
Reading == Keys \cup {"put", "remove", "turn", "readd", "rename", "retain", "snapshot",
                     "newSecret", "unset", "reset"}

\* The steps for which a call derives the key.
StepsFor(op) ==
  CASE op = "create" -> {"put", "index"}
    [] op = "deleteItem" -> {"remove"}
    [] op = "changePassword" -> {"readd"}
    [] OTHER -> {"turn"}

\* The course of each call.
Course(op, label) ==
  /\ op = "none" <=> label = "idle"
  /\ op = "create" => label \in Before \cup {"file", "secret", "key", "put", "rename", "index",
                                            "number", "search", "purge", "push", "serve"}
  /\ op = "deleteItem" => label \in Before \cup {"find", "attributes", "deleteFile", "secret",
                                                "key", "remove", "rename", "retain", "unserve"}
  /\ op = "deleteCollection" => label \in Before \cup {"recheck", "unserveAll", "removeFile",
                                                      "unregister"}
  /\ op \in {"lock", "pamUnlock"} => label \in {"service", "decide"} \cup Turning
  /\ op = "unlock" => label \in {"service", "decide", "prompt", "validate", "resolve"} \cup Turning
  /\ op = "lockItem" => label \in {"service", "decide", "itemLock", "secret", "key", "turn"}
  /\ op = "unlockItem" => label \in {"service", "decide", "prompt", "validate", "resolve",
                                    "itemLock", "secret", "key", "turn"} \cup Turning
  /\ op = "changePassword" => label \in {"service", "decide", "change", "snapshot", "newSecret",
                                        "unset", "reset", "secret", "key", "readd", "rename"}
                                       \cup Turning
  /\ op # "setAttributes"

\* Where set_locked leads, and where it returns to.
Direction(label, l) ==
  /\ l.op \in ObjectCalls /\ label \in Turning => l.target = "unlocked" /\ l.after = EntryOf(l.op)
  /\ l.op \in {"lock", "unlock", "lockItem", "unlockItem", "pamUnlock"} => l.after = "idle"
  /\ l.op \in {"lock", "lockItem"} => l.target = "locked"
  /\ l.op \in {"unlock", "unlockItem", "pamUnlock"} /\ label \in Turning \cup {"resolve", "itemLock"} \cup Keys \cup {"turn"}
       => l.target = "unlocked"
  /\ l.op = "changePassword" /\ label \in Turning
       => \/ l.target = "unlocked" /\ l.after = "change"
          \/ l.target = "locked" /\ l.after = "idle"

Shape(t, label, l) ==
  /\ label \in Labels /\ l \in Local
  /\ Course(l.op, label) /\ Direction(label, l)
  /\ label = "idle" => l = Blank
  /\ label # "idle" => l.op \in OpsOf[t]
  /\ l.op \in ItemCalls => l.item \in Items
  /\ label = "purge" => l.todo # <<>>
  /\ label \in Keys => l.for \in StepsFor(l.op)
  /\ l.op = "create" /\ (label \in {"rename", "index", "number"}
                          \/ (label \in Keys /\ l.for = "index")) => l.attrs \in Attributes

Shapes == /\ pc \in [Tasks -> Labels] /\ loc \in [Tasks -> Local]
          /\ \A t \in Tasks : Shape(t, pc[t], loc[t])

\* The locks that are held across awaits, and where their holders are.
Held ==
  /\ \A t \in Tasks : /\ writer = t <=> pc[t] \in {"items", "each"}
                      /\ dumping = t <=> pc[t] = "rename"
                      /\ t \in readers <=> pc[t] \in Reading
                      /\ itemsHolder = t => pc[t] \in {"each", "purge"}
                      /\ pc[t] = "each" => itemsHolder = t
  /\ writer # NoTask => readers = {}

-----------------------------------------------------------------------------
(* Items that are being created, and the numbers of the others *)

Creates(t) == loc[t].op = "create"
Unnumbered(t) == Creates(t) /\ pc[t] \notin {"search", "purge", "push", "serve"}
Numbered == used \ {loc[t].item : t \in {u \in Tasks : Unnumbered(u)}}

\* Every call of create has an item of its own.
Distinct ==
  /\ \A t \in Tasks : Creates(t) => loc[t].item \in used
  /\ \A t, u \in Tasks : Creates(t) /\ Creates(u) /\ loc[t].item = loc[u].item => t = u

\* A path is read for every number at most: those below it were given to other items.
Counted ==
  /\ item_index <= Cardinality(Numbered) + 1
  /\ \A t \in Tasks : pc[t] = "number" => loc[t].n <= Cardinality(Numbered) + 1

TypeInv == TypeOK /\ Secrets # {} /\ Shapes /\ Held /\ Distinct /\ Counted
-----------------------------------------------------------------------------
(* Lists.  What a recursive function returns is proved by induction on its  *)
(* argument, in the form of sets: the theorem of the least element of a     *)
(* well-founded order, for the intervals 0 .. k ordered by inclusion.       *)

Elements(s) == {s[n] : n \in DOMAIN s}
NoTwice(s) == \A m, n \in DOMAIN s : s[m] = s[n] => m = n

LEMMA UpTo ==
  ASSUME NEW n \in Nat, NEW G, 0 \in G,
         \A k \in 0 .. n : k \in G /\ k < n => k + 1 \in G
  PROVE  n \in G
<1> DEFINE Bad == {k \in 0 .. n : k \notin G}
           T == {0 .. k : k \in Bad}
<1> SUFFICES ASSUME n \notin G PROVE FALSE
  OBVIOUS
<1>1. IsWellFoundedOn(StrictSubsetOrdering(0 .. n), FiniteSubsetsOf(0 .. n))
  BY FS_StrictSubsetOrderingWellFounded
<1>2. T \subseteq FiniteSubsetsOf(0 .. n)
  <2>1. IsFiniteSet(0 .. n)
    BY FS_Interval
  <2> QED BY <2>1, FS_Subset DEF FiniteSubsetsOf
<1>3. T # {}
  OBVIOUS
<1>4. PICK x \in T : \A y \in T : ~(<<y, x>> \in StrictSubsetOrdering(0 .. n))
  <2> HIDE DEF T
  <2> QED BY <1>1, <1>2, <1>3, WFMin
<1>5. PICK k \in Bad : x = 0 .. k
  BY <1>4
<1>6. k # 0 /\ k - 1 \in Bad
  BY <1>5
<1>7. <<0 .. k - 1, 0 .. k>> \in StrictSubsetOrdering(0 .. n)
  <2>1. 0 .. (k - 1) \in SUBSET (0 .. n) /\ 0 .. k \in SUBSET (0 .. n)
    BY <1>5, <1>6
  <2>2. 0 .. (k - 1) \subseteq 0 .. k /\ k \in 0 .. k /\ k \notin 0 .. (k - 1)
    BY <1>5, <1>6
  <2> QED BY <2>1, <2>2 DEF StrictSubsetOrdering
<1> QED
  BY <1>4, <1>5, <1>6, <1>7

\* What Kept has after n elements, from what it has after n - 1.
Keeping(s, S, f, n) ==
  IF n = 0 THEN <<>> ELSE IF s[n] \in S THEN Append(f[n - 1], s[n]) ELSE f[n - 1]

LEMMA KeepingExists ==
  ASSUME NEW s, Len(s) \in Nat, NEW S
  PROVE  \E f : f = [n \in 0 .. Len(s) |-> Keeping(s, S, f, n)]
<1> DEFINE N == Len(s)
           G == {m \in 0 .. N : \E f : f = [n \in 0 .. m |-> Keeping(s, S, f, n)]}
<1>1. 0 \in G
  <2> DEFINE f == [n \in 0 .. 0 |-> <<>>]
  <2>1. f = [n \in 0 .. 0 |-> Keeping(s, S, f, n)]
    BY DEF Keeping
  <2> QED BY <2>1
<1>2. ASSUME NEW k \in 0 .. N, k \in G, k < N
      PROVE  k + 1 \in G
  <2>1. PICK f : f = [n \in 0 .. k |-> Keeping(s, S, f, n)]
    BY <1>2
  <2> DEFINE last == IF s[k + 1] \in S THEN Append(f[k], s[k + 1]) ELSE f[k]
             g == [n \in 0 .. k + 1 |-> IF n = k + 1 THEN last ELSE f[n]]
  <2>2. ASSUME NEW n \in 0 .. k + 1 PROVE g[n] = Keeping(s, S, g, n)
    <3>1. CASE n = k + 1
      <4>1. g[n - 1] = f[k] /\ n # 0 /\ g[n] = last
        BY <3>1
      <4> HIDE DEF g
      <4> QED BY <4>1, <3>1 DEF Keeping
    <3>2. CASE n # k + 1
      <4>1. n \in 0 .. k /\ g[n] = f[n] /\ (n # 0 => g[n - 1] = f[n - 1])
        BY <3>2
      <4>2. f[n] = Keeping(s, S, f, n)
        BY <2>1, <4>1
      <4> HIDE DEF g
      <4> QED BY <4>1, <4>2 DEF Keeping
    <3> QED BY <3>1, <3>2
  <2>3. g = [n \in 0 .. k + 1 |-> g[n]] /\ k + 1 \in 0 .. N
    BY <1>2
  <2> HIDE DEF g
  <2> QED BY <2>2, <2>3
<1>3. N \in G
  <2> HIDE DEF G
  <2> QED BY <1>1, <1>2, UpTo
<1> QED
  BY <1>3

LEMMA KeptSteps ==
  ASSUME NEW s, Len(s) \in Nat, NEW S
  PROVE  \E f : /\ f = [n \in 0 .. Len(s) |-> Keeping(s, S, f, n)]
                /\ Kept(s, S) = f[Len(s)]
<1> DEFINE f == CHOOSE f : f = [n \in 0 .. Len(s) |->
                  IF n = 0 THEN <<>>
                  ELSE IF s[n] \in S THEN Append(f[n - 1], s[n]) ELSE f[n - 1]]
<1>1. f = [n \in 0 .. Len(s) |-> Keeping(s, S, f, n)]
  <2> DEFINE step(g) == [n \in 0 .. Len(s) |->
                  IF n = 0 THEN <<>>
                  ELSE IF s[n] \in S THEN Append(g[n - 1], s[n]) ELSE g[n - 1]]
  <2>1. ASSUME NEW g PROVE step(g) = [n \in 0 .. Len(s) |-> Keeping(s, S, g, n)]
    BY ZenonT(30) DEF Keeping
  <2>2. \E g : g = [n \in 0 .. Len(s) |-> Keeping(s, S, g, n)]
    BY KeepingExists
  <2>3. f = CHOOSE g : g = step(g)
    OBVIOUS
  <2> HIDE DEF step, f
  <2>4. f = step(f)
    BY <2>1, <2>2, <2>3
  <2> QED
    BY <2>1, <2>4
<1>2. Kept(s, S) = f[Len(s)]
  BY DEF Kept
<1> QED
  BY <1>1, <1>2

LEMMA AppendElements ==
  ASSUME NEW T, NEW q \in Seq(T), NEW e \in T
  PROVE  /\ Append(q, e) \in Seq(T) /\ Elements(Append(q, e)) = Elements(q) \cup {e}
         /\ NoTwice(q) /\ e \notin Elements(q) => NoTwice(Append(q, e))
<1> DEFINE r == Append(q, e)
<1>1. r \in Seq(T) /\ DOMAIN r = 1 .. Len(q) + 1 /\ DOMAIN q = 1 .. Len(q) /\ Len(q) \in Nat
  OBVIOUS
<1>2. r[Len(q) + 1] = e /\ \A i \in 1 .. Len(q) : r[i] = q[i]
  OBVIOUS
<1>3. 1 .. Len(q) + 1 = (1 .. Len(q)) \cup {Len(q) + 1}
  BY <1>1
<1> HIDE DEF r
<1>4. Elements(r) = Elements(q) \cup {e}
  BY <1>1, <1>2, <1>3 DEF Elements
<1>5. ASSUME NoTwice(q), e \notin Elements(q) PROVE NoTwice(r)
  BY <1>1, <1>2, <1>3, <1>5 DEF NoTwice, Elements
<1> QED
  BY <1>1, <1>4, <1>5 DEF r

\* What is left are the elements of the list that are in S, each as often as before.
LEMMA KeptElements ==
  ASSUME NEW T, NEW s \in Seq(T), NEW S
  PROVE  /\ Kept(s, S) \in Seq(T) /\ Elements(Kept(s, S)) = Elements(s) \cap S
         /\ NoTwice(s) => NoTwice(Kept(s, S))
<1>1. Len(s) \in Nat /\ DOMAIN s = 1 .. Len(s)
  OBVIOUS
<1>2. PICK f : f = [n \in 0 .. Len(s) |-> Keeping(s, S, f, n)] /\ Kept(s, S) = f[Len(s)]
  BY <1>1, KeptSteps
<1> DEFINE G == {m \in 0 .. Len(s) : /\ f[m] \in Seq(T)
                                     /\ Elements(f[m]) = {s[i] : i \in 1 .. m} \cap S
                                     /\ NoTwice(s) => NoTwice(f[m])}
<1>3. 0 \in G
  <2>1. f[0] = <<>>
    BY <1>1, <1>2 DEF Keeping
  <2>2. Elements(<<>>) = {} /\ {s[i] : i \in 1 .. 0} = {} /\ NoTwice(<<>>)
    BY DEF Elements, NoTwice
  <2>3. <<>> \in Seq(T) /\ 0 \in 0 .. Len(s)
    OBVIOUS
  <2> QED BY <2>1, <2>2, <2>3
<1>4. ASSUME NEW k \in 0 .. Len(s), k \in G, k < Len(s)
      PROVE  k + 1 \in G
  <2>1. k + 1 \in 0 .. Len(s) /\ k + 1 # 0 /\ (k + 1) - 1 = k /\ s[k + 1] \in T
    BY <1>4
  <2>2. f[k + 1] = IF s[k + 1] \in S THEN Append(f[k], s[k + 1]) ELSE f[k]
    <3>1. f[k + 1] = Keeping(s, S, f, k + 1)
      BY <1>2, <2>1
    <3> QED BY <2>1, <3>1 DEF Keeping
  <2>3. {s[i] : i \in 1 .. k + 1} = {s[i] : i \in 1 .. k} \cup {s[k + 1]}
    BY <2>1
  <2>4. f[k] \in Seq(T) /\ Elements(f[k]) = {s[i] : i \in 1 .. k} \cap S
    BY <1>4
  <2>5. f[k + 1] \in Seq(T)
    BY <2>1, <2>2, <2>4
  <2>6. Elements(f[k + 1]) = {s[i] : i \in 1 .. k + 1} \cap S
    BY <2>1, <2>2, <2>3, <2>4, AppendElements
  <2>7. ASSUME NoTwice(s) PROVE NoTwice(f[k + 1])
    <3>1. NoTwice(f[k])
      BY <1>4, <2>7
    <3>2. s[k + 1] \notin {s[i] : i \in 1 .. k}
      BY <1>1, <2>1, <2>7 DEF NoTwice
    <3> QED
      BY <2>1, <2>2, <2>4, <3>1, <3>2, AppendElements
  <2> QED BY <2>1, <2>5, <2>6, <2>7
<1>5. Len(s) \in G
  <2> HIDE DEF G
  <2> QED BY <1>1, <1>3, <1>4, UpTo
<1> QED
  BY <1>1, <1>2, <1>5 DEF Elements

LEMMA HeadTail ==
  ASSUME NEW T, NEW s \in Seq(T), s # <<>>
  PROVE  /\ Head(s) \in T /\ Tail(s) \in Seq(T) /\ Len(s) \in Nat \ {0}
         /\ Len(s) # 1 => Tail(s) # <<>>
         /\ Elements(s) = {Head(s)} \cup Elements(Tail(s))
         /\ \A n \in DOMAIN Tail(s) : n + 1 \in DOMAIN s /\ Tail(s)[n] = s[n + 1]
<1>1. Head(s) \in T /\ Tail(s) \in Seq(T) /\ Len(s) \in Nat \ {0} /\ DOMAIN s = 1 .. Len(s) /\ Head(s) = s[1]
  OBVIOUS
<1>2. DOMAIN Tail(s) = 1 .. Len(s) - 1 /\ \A n \in 1 .. Len(s) - 1 : Tail(s)[n] = s[n + 1]
  BY <1>1
<1>3. Len(s) # 1 => Tail(s) # <<>>
  <2>1. Len(s) # 1 => 1 \in DOMAIN Tail(s)
    BY <1>1, <1>2
  <2>2. DOMAIN <<>> = {}
    OBVIOUS
  <2> QED
    BY <2>1, <2>2
<1>4. Elements(s) = {Head(s)} \cup Elements(Tail(s))
  <2>1. Elements(s) = {s[n] : n \in 1 .. Len(s)} /\ Elements(Tail(s)) = {s[n + 1] : n \in 1 .. Len(s) - 1}
    BY <1>1, <1>2 DEF Elements
  <2>2. \A n \in 1 .. Len(s) : n = 1 \/ n - 1 \in 1 .. Len(s) - 1
    BY <1>1
  <2>3. {s[n] : n \in 1 .. Len(s)} \subseteq {s[1]} \cup {s[n + 1] : n \in 1 .. Len(s) - 1}
    <3> SUFFICES ASSUME NEW n \in 1 .. Len(s) PROVE s[n] \in {s[1]} \cup {s[k + 1] : k \in 1 .. Len(s) - 1}
      OBVIOUS
    <3>1. CASE n = 1
      BY <3>1
    <3>2. CASE n # 1
      <4>1. n - 1 \in 1 .. Len(s) - 1 /\ n = (n - 1) + 1
        BY <1>1, <3>2
      <4> QED
        BY <4>1
    <3> QED
      BY <3>1, <3>2
  <2>4. {s[n + 1] : n \in 1 .. Len(s) - 1} \subseteq {s[n] : n \in 1 .. Len(s)} /\ s[1] \in {s[n] : n \in 1 .. Len(s)}
    BY <1>1
  <2> QED
    BY <1>1, <2>1, <2>3, <2>4
<1>5. \A n \in DOMAIN Tail(s) : n + 1 \in DOMAIN s /\ Tail(s)[n] = s[n + 1]
  BY <1>1, <1>2
<1> QED
  BY <1>1, <1>3, <1>4, <1>5

LEMMA NoTwiceLength ==
  ASSUME NEW T, NEW s \in Seq(T), NoTwice(s), NEW U, IsFiniteSet(U), Elements(s) \subseteq U
  PROVE  Len(s) \in Nat /\ Len(s) <= Cardinality(U)
<1>1. s \in Injection(1 .. Len(s), U) /\ Len(s) \in Nat
  BY DEF Injection, IsInjective, NoTwice, Elements
<1>2. Cardinality(1 .. Len(s)) = Len(s)
  <2>1. Cardinality(1 .. Len(s)) = IF 1 > Len(s) THEN 0 ELSE Len(s) - 1 + 1
    BY <1>1, FS_Interval
  <2> QED
    BY <1>1, <2>1
<1>3. Cardinality(1 .. Len(s)) <= Cardinality(U)
  BY <1>1, FS_Injection
<1> QED
  BY <1>1, <1>2, <1>3

-----------------------------------------------------------------------------
(* Records, and how a call goes on *)

LEMMA Sized == Cardinality(Items) \in Nat /\ 0 \in Paths /\ Paths \subseteq Nat
BY CollectionAssumption, FS_CardinalityType DEF Paths

LEMMA BlankShape ==
  ASSUME Secrets # {}, NEW t
  PROVE  Shape(t, "idle", Blank) /\ Blank.op = "none" /\ Blank.item = NoItem
<1>1. SomeSecret \in Secrets
  BY DEF SomeSecret
<1>2. Blank \in Local
  BY <1>1, Sized DEF Blank, Local, Attributes, Op, AnyKey
<1>3. Blank.op = "none" /\ Blank.item = NoItem
  BY DEF Blank
<1> QED
  BY <1>2, <1>3 DEF Shape, Course, Direction, Labels, ItemCalls, ObjectCalls, Keys

\* Local variables that are set together.
LEMMA LocalWith ==
  ASSUME NEW l \in Local
  PROVE  /\ \A s \in Secrets : [l EXCEPT !.secret = s] \in Local
         /\ \A a \in {"idle", "file", "find", "recheck", "change"} :
              [l EXCEPT !.target = "unlocked", !.after = a] \in Local
         /\ \A q \in Seq(Items) : [l EXCEPT !.todo = q] \in Local
         /\ \A d \in {"locked", "unlocked"} : [l EXCEPT !.target = d] \in Local
         /\ \A s \in Secrets : [l EXCEPT !.target = "unlocked", !.secret = s] \in Local
         /\ \A s \in Secrets, w \in BOOLEAN :
              [l EXCEPT !.target = "unlocked", !.secret = s, !.after = "change", !.was = w] \in Local
         /\ \A k \in AnyKey : [l EXCEPT !.key = k] \in Local
         /\ \A f \in {"put", "index", "remove", "turn", "readd"} : [l EXCEPT !.for = f] \in Local
         /\ \A S \in SUBSET Items : [l EXCEPT !.snap = S] \in Local
         /\ [l EXCEPT !.target = "locked", !.after = "idle"] \in Local
         /\ \A x \in Attributes, r \in BOOLEAN : [l EXCEPT !.attrs = x, !.replace = r] \in Local
         /\ \A n \in Paths : [l EXCEPT !.n = n] \in Local
         /\ \A i \in Items : [l EXCEPT !.item = i] \in Local
         /\ \A x \in Attributes : [l EXCEPT !.attrs = x] \in Local
<1>1. /\ \A s \in Secrets : [l EXCEPT !.secret = s] \in Local
      /\ \A a \in {"idle", "file", "find", "recheck", "change"} :
           [l EXCEPT !.target = "unlocked", !.after = a] \in Local
      /\ \A q \in Seq(Items) : [l EXCEPT !.todo = q] \in Local
  BY ZenonT(30) DEF Local
<1>2. /\ \A d \in {"locked", "unlocked"} : [l EXCEPT !.target = d] \in Local
      /\ \A s \in Secrets : [l EXCEPT !.target = "unlocked", !.secret = s] \in Local
      /\ [l EXCEPT !.target = "locked", !.after = "idle"] \in Local
  BY ZenonT(30) DEF Local
<1>3. \A s \in Secrets, w \in BOOLEAN :
        [l EXCEPT !.target = "unlocked", !.secret = s, !.after = "change", !.was = w] \in Local
  BY ZenonT(30) DEF Local
<1>6. /\ \A f \in {"put", "index", "remove", "turn", "readd"} : [l EXCEPT !.for = f] \in Local
      /\ \A S \in SUBSET Items : [l EXCEPT !.snap = S] \in Local
  BY ZenonT(30) DEF Local
<1>4. /\ \A k \in AnyKey : [l EXCEPT !.key = k] \in Local
      /\ \A x \in Attributes, r \in BOOLEAN : [l EXCEPT !.attrs = x, !.replace = r] \in Local
      /\ \A n \in Paths : [l EXCEPT !.n = n] \in Local
  BY ZenonT(30) DEF Local
<1>5. /\ \A i \in Items : [l EXCEPT !.item = i] \in Local
      /\ \A x \in Attributes : [l EXCEPT !.attrs = x] \in Local
  BY ZenonT(30) DEF Local
<1> QED
  BY <1>1, <1>2, <1>3, <1>4, <1>5, <1>6

\* What the fields of such a record are.
LEMMA LocalFields ==
  ASSUME NEW l \in Local
  PROVE  /\ DOMAIN l = {"op", "item", "attrs", "replace", "n", "key", "for", "todo", "target",
                        "secret", "after", "was", "snap"}
         /\ l.op \in Op \cup {"none"} /\ l.item \in Items \cup {NoItem}
         /\ l.attrs \in Attributes \cup {{}} /\ l.replace \in BOOLEAN /\ l.n \in Paths
         /\ l.key \in AnyKey /\ l.for \in {"put", "index", "remove", "turn", "readd"}
         /\ l.snap \subseteq Items /\ l.todo \in Seq(Items) /\ l.target \in {"locked", "unlocked"}
         /\ l.secret \in Secrets /\ l.was \in BOOLEAN
         /\ l.after \in {"idle", "file", "find", "recheck", "change"}
BY DEF Local

-----------------------------------------------------------------------------
(* What a step preserves whatever it does to the collection *)

DataTypes ==
  /\ keyring \in KeyringState /\ file \in File /\ salts \in Nat
  /\ items \in Seq(Items) /\ bus \in [Items -> BusItem]
  /\ served \in [Paths -> Items \cup {NoItem}] /\ registered \in BOOLEAN
  /\ used \subseteq Items /\ deleted \subseteq Items /\ late \subseteq Items /\ beside \in BOOLEAN
  /\ budget \in [{"call", "fault"} -> Nat]

LockTypes ==
  /\ writer \in Tasks \cup {NoTask} /\ dumping \in Tasks \cup {NoTask}
  /\ itemsHolder \in Tasks \cup {NoTask} /\ service \in Tasks \cup {NoTask}
  /\ readers \subseteq Tasks

LEMMA TypeParts ==
  TypeOK <=> /\ DataTypes /\ LockTypes /\ item_index \in 0 .. Cardinality(Items) + 1
             /\ pc \in [Tasks -> Labels] /\ loc \in [Tasks -> Local]
BY DEF TypeOK, DataTypes, LockTypes

LEMMA TypePartsAfter ==
  TypeOK' <=> /\ DataTypes' /\ LockTypes' /\ item_index' \in 0 .. Cardinality(Items) + 1
              /\ pc' \in [Tasks -> Labels] /\ loc' \in [Tasks -> Local]
BY DEF TypeOK, DataTypes, LockTypes

LEMMA DataStays ==
  ASSUME DataTypes, UNCHANGED <<busVars, fileVars, ghosts>>,
         budget' \in [{"call", "fault"} -> Nat]
  PROVE  DataTypes'
BY DEF DataTypes, busVars, fileVars, ghosts

\* The step is one of t, which neither starts a call nor reads or gives a number.
Plain(t) ==
  /\ UNCHANGED <<item_index, used>>
  /\ \A u \in Tasks \ {t} : pc'[u] = pc[u] /\ loc'[u] = loc[u]
  /\ loc'[t].op = "create" => /\ loc[t].op = "create" /\ loc'[t].item = loc[t].item
                              /\ Unnumbered(t)' => Unnumbered(t)
  /\ pc'[t] # "number"

LEMMA NumberedType ==
  ASSUME used \subseteq Items
  PROVE  IsFiniteSet(Numbered) /\ Cardinality(Numbered) \in Nat
         /\ Cardinality(Numbered) <= Cardinality(Items)
<1>1. Numbered \in SUBSET Items /\ IsFiniteSet(Items)
  BY CollectionAssumption DEF Numbered
<1> QED
  BY <1>1, FS_Subset, FS_CardinalityType

LEMMA PlainCounts ==
  ASSUME TypeInv, NEW t \in Tasks, Plain(t)
  PROVE  Distinct' /\ Counted'
<1>1. Numbered \subseteq Numbered'
  <2> SUFFICES ASSUME NEW u \in Tasks, Unnumbered(u)' PROVE Unnumbered(u) /\ loc'[u].item = loc[u].item
    BY DEF Numbered, Plain
  <2>1. CASE u = t
    BY <2>1 DEF Plain, Unnumbered, Creates
  <2>2. CASE u # t
    BY <2>2 DEF Plain, Unnumbered, Creates
  <2> QED
    BY <2>1, <2>2
<1>2. used' \subseteq Items /\ used \subseteq Items
  BY DEF Plain, TypeInv, TypeOK
<1>3. /\ Cardinality(Numbered) <= Cardinality(Numbered')
      /\ Cardinality(Numbered) \in Nat /\ Cardinality(Numbered') \in Nat
  <2>1. IsFiniteSet(Numbered)
    BY <1>2, NumberedType
  <2>2. IsFiniteSet(Numbered')
    <3>1. Numbered' \in SUBSET Items /\ IsFiniteSet(Items)
      BY <1>2, CollectionAssumption DEF Numbered
    <3> QED
      BY <3>1, FS_Subset
  <2> QED
    BY <1>1, <2>1, <2>2, FS_Subset, FS_CardinalityType
<1>4. item_index \in Nat /\ item_index' = item_index
  BY Sized DEF TypeInv, TypeOK, Plain
<1>5. Distinct'
  <2>1. \A u \in Tasks : Creates(u)' => Creates(u) /\ loc'[u].item = loc[u].item
    BY DEF Plain, Creates
  <2> QED
    BY <2>1 DEF Distinct, TypeInv, Plain
<1>6. \A u \in Tasks : pc'[u] = "number" => pc[u] = "number" /\ loc'[u] = loc[u]
  BY DEF Plain
<1>7. \A u \in Tasks : loc[u].n \in Nat
  BY Sized, LocalFields DEF TypeInv, TypeOK
<1>8. Counted'
  BY <1>3, <1>4, <1>6, <1>7 DEF Counted, TypeInv
<1> QED
  BY <1>5, <1>8

Listing == {"search", "purge", "push", "serve"}

\* t goes on to a label.
Onward(t, label, l) ==
  /\ Goto(t, label, l) /\ Shape(t, label, l)
  /\ label # "number"
  /\ l.op = "create" => /\ loc[t].op = "create" /\ l.item = loc[t].item
                        /\ pc[t] \in Listing => label \in Listing

LEMMA OnwardShapes ==
  ASSUME TypeInv, NEW t \in Tasks, NEW label, NEW l, Onward(t, label, l), UNCHANGED <<item_index, used>>
  PROVE  Shapes' /\ Plain(t)
<1>1. label \in Labels /\ l \in Local
  BY DEF Onward, Shape
<1>2. /\ pc' \in [Tasks -> Labels] /\ loc' \in [Tasks -> Local] /\ pc'[t] = label /\ loc'[t] = l
      /\ \A u \in Tasks \ {t} : pc'[u] = pc[u] /\ loc'[u] = loc[u]
  BY <1>1 DEF Onward, Goto, TypeInv, TypeOK
<1>3. Shapes'
  BY <1>2 DEF Onward, Shapes, TypeInv
<1>4. Shape(t, pc[t], loc[t])
  BY DEF TypeInv, Shapes
<1>5. l.op = "create" => (Unnumbered(t)' => Unnumbered(t))
  BY <1>2, <1>4 DEF Unnumbered, Creates, Onward, Listing
<1> QED
  BY <1>2, <1>3, <1>5 DEF Plain, Onward

LEMMA EndShapes ==
  ASSUME TypeInv, NEW t \in Tasks, End(t), UNCHANGED <<item_index, used>>
  PROVE  Shapes' /\ Plain(t)
<1>1. Shape(t, "idle", Blank) /\ Blank.op = "none"
  BY BlankShape DEF TypeInv
<1>2. Onward(t, "idle", Blank)
  BY <1>1 DEF Onward, End, Goto
<1> QED
  BY <1>2, OnwardShapes

\* What became of the locks of t.
LocksOf(t) ==
  /\ \A h \in Tasks : /\ h # t => /\ writer' = h <=> writer = h
                                  /\ dumping' = h <=> dumping = h
                                  /\ itemsHolder' = h <=> itemsHolder = h
                                  /\ h \in readers' <=> h \in readers
  /\ writer' = t <=> pc'[t] \in {"items", "each"}
  /\ dumping' = t <=> pc'[t] = "rename"
  /\ t \in readers' <=> pc'[t] \in Reading
  /\ itemsHolder' = t => pc'[t] \in {"each", "purge"}
  /\ pc'[t] = "each" => itemsHolder' = t
  /\ writer' # NoTask => readers' = {}

LEMMA LocksHeld ==
  ASSUME TypeInv, NEW t \in Tasks, Plain(t), LocksOf(t)
  PROVE  Held'
<1>1. \A u \in Tasks \ {t} : pc'[u] = pc[u]
  BY DEF Plain
<1> SUFFICES ASSUME NEW u \in Tasks
             PROVE  /\ writer' = u <=> pc'[u] \in {"items", "each"}
                    /\ dumping' = u <=> pc'[u] = "rename"
                    /\ u \in readers' <=> pc'[u] \in Reading
                    /\ itemsHolder' = u => pc'[u] \in {"each", "purge"}
                    /\ pc'[u] = "each" => itemsHolder' = u
  BY DEF Held, LocksOf
<1>2. CASE u = t
  BY <1>2 DEF LocksOf
<1>3. CASE u # t
  BY <1>1, <1>3 DEF LocksOf, Held, TypeInv
<1> QED
  BY <1>2, <1>3

\* A step of t that ends its call.
LEMMA EndStep ==
  ASSUME TypeInv, NEW t \in Tasks, End(t), DataTypes', UNCHANGED <<item_index, used>>
  PROVE  TypeInv'
<1>1. Shapes' /\ Plain(t)
  BY EndShapes
<1>2. LockTypes' /\ NoTask \notin Tasks
  BY CollectionAssumption DEF End, Free, LockTypes, TypeInv, TypeOK
<1>3. LocksOf(t)
  <2>1. pc'[t] = "idle"
    BY DEF End, TypeInv, TypeOK
  <2>2. writer' # NoTask => readers' = {}
    BY DEF End, Free, TypeInv, Held
  <2> QED
    BY <1>2, <2>1, <2>2 DEF LocksOf, End, Free, Reading, Keys
<1>4. Held'
  BY <1>1, <1>3, LocksHeld
<1>5. Distinct' /\ Counted'
  BY <1>1, PlainCounts
<1>6. TypeOK'
  BY <1>1, <1>2, TypePartsAfter DEF Shapes, TypeInv, TypeOK
<1> QED
  BY <1>1, <1>4, <1>5, <1>6 DEF TypeInv

\* A step of t that goes on, with the locks that the label asks for.
LEMMA OnwardStep ==
  ASSUME TypeInv, NEW t \in Tasks, NEW label, NEW l, Onward(t, label, l),
         DataTypes', LockTypes', LocksOf(t), UNCHANGED <<item_index, used>>
  PROVE  TypeInv'
<1>1. Shapes' /\ Plain(t)
  BY OnwardShapes
<1>2. Held'
  BY <1>1, LocksHeld
<1>3. Distinct' /\ Counted'
  BY <1>1, PlainCounts
<1>4. TypeOK'
  BY <1>1, TypePartsAfter DEF Shapes, TypeInv, TypeOK
<1> QED
  BY <1>1, <1>2, <1>3, <1>4 DEF TypeInv

\* Most steps take and free none of these locks.
SameLocks == UNCHANGED <<writer, readers, dumping, itemsHolder>>
Holding == {"items", "each", "purge"} \cup Reading

LEMMA QuietStep ==
  ASSUME TypeInv, NEW t \in Tasks, NEW label, NEW l, Onward(t, label, l),
         DataTypes', SameLocks, service' \in Tasks \cup {NoTask},
         pc[t] \notin Holding, label \notin Holding \/ label = "purge", UNCHANGED <<item_index, used>>
  PROVE  TypeInv'
<1>1. LockTypes'
  BY DEF LockTypes, SameLocks, TypeInv, TypeOK
<1>2. pc'[t] = label
  BY DEF Onward, Goto, TypeInv, TypeOK
<1>3. LocksOf(t)
  BY <1>2 DEF LocksOf, SameLocks, Holding, Reading, Keys, TypeInv, Held
<1> QED
  BY <1>1, <1>3, OnwardStep

\* A step that changes nothing but where its call is.
Still(t) ==
  /\ UNCHANGED <<busVars, fileVars, ghosts, budget>>
  /\ \/ End(t)
     \/ \E label, l : /\ Onward(t, label, l) /\ SameLocks /\ service' \in Tasks \cup {NoTask}
                      /\ pc[t] \notin Holding /\ (label \notin Holding \/ label = "purge")

LEMMA StillStep ==
  ASSUME TypeInv, NEW t \in Tasks, Still(t), pc[t] \notin Holding
  PROVE  TypeInv'
<1>1. DataTypes' /\ UNCHANGED <<item_index, used>>
  BY TypeParts, DataStays DEF Still, TypeInv, TypeOK, busVars, ghosts
<1>2. CASE End(t)
  BY <1>1, <1>2, EndStep
<1>3. CASE \E label, l : /\ Onward(t, label, l) /\ SameLocks /\ service' \in Tasks \cup {NoTask}
                         /\ (label \notin Holding \/ label = "purge")
  BY <1>1, <1>3, QuietStep
<1> QED
  BY <1>2, <1>3 DEF Still

LEMMA OnwardStill ==
  ASSUME TypeInv, NEW t \in Tasks, NEW label, NEW l, Goto(t, label, l), Shape(t, label, l),
         l.op = loc[t].op, l.item = loc[t].item, label # "number",
         pc[t] \notin Holding, label \notin Holding \/ label = "purge",
         pc[t] \in Listing => label \in Listing,
         UNCHANGED <<busVars, fileVars, ghosts, budget>>,
         SameLocks, service' \in {service, t, NoTask}
  PROVE  Still(t)
<1>1. service' \in Tasks \cup {NoTask}
  BY DEF TypeInv, TypeOK
<1> QED
  BY <1>1 DEF Still, Onward

LEMMA ShapeNow ==
  ASSUME TypeInv, NEW t \in Tasks
  PROVE  /\ Shape(t, pc[t], loc[t]) /\ loc[t] \in Local /\ pc[t] \in Labels
         /\ service \in Tasks \cup {NoTask} /\ NoTask \notin Tasks
         /\ DataTypes /\ LockTypes
BY TypeParts, CollectionAssumption DEF TypeInv, Shapes, TypeOK

\* Which calls may be at a label.
LEMMA OpAt ==
  ASSUME NEW t, NEW label, NEW l, Shape(t, label, l)
  PROVE  /\ l \in Local
         /\ label = "check" => l.op \in ObjectCalls
         /\ label \in {"prompt", "validate"} => l.op \in ObjectCalls \cup {"unlock", "unlockItem"}
         /\ label = "resolve" => l.op \in {"unlock", "unlockItem"}
         /\ label \in {"service", "decide"}
              => l.op \in {"lock", "unlock", "lockItem", "unlockItem", "pamUnlock", "changePassword"}
         /\ label = "itemLock" => l.op \in {"lockItem", "unlockItem"}
         /\ label = "turn" => l.op \in {"lockItem", "unlockItem"}
         /\ label \in {"change", "snapshot", "newSecret", "unset", "reset", "readd"}
              => l.op = "changePassword"
         /\ label \in {"file", "put", "index", "number"} \cup Listing => l.op = "create"
         /\ label \in {"find", "attributes", "deleteFile", "remove", "retain", "unserve"}
              => l.op = "deleteItem"
         /\ label \in Keys => l.op \in {"create", "deleteItem", "lockItem", "unlockItem",
                                        "changePassword"}
         /\ label \in {"recheck", "unserveAll", "removeFile", "unregister"} => l.op = "deleteCollection"
         /\ label = "rename" => l.op \in {"create", "deleteItem", "changePassword"}
         /\ label \in Turning => l.op \in ObjectCalls \cup {"lock", "unlock", "unlockItem", "pamUnlock",
                                                        "changePassword"}
<1>1. l \in Local /\ l.op \in Op \cup {"none"} /\ Course(l.op, label)
  BY LocalFields DEF Shape
<1> QED
  BY <1>1 DEF Course, Op, ObjectCalls, Before, Keys, Turning, Listing, Keys

LEMMA CheckStill == ASSUME TypeInv, NEW t \in Tasks, Check(t) PROVE Still(t) /\ pc[t] \notin Holding
<1>1. pc[t] = "check" /\ UNCHANGED <<busVars, fileVars, ghosts, budget>>
  BY DEF Check
<1>2. Shape(t, "check", loc[t])
  BY <1>1, ShapeNow
<1>3. Shape(t, "prompt", loc[t]) /\ Shape(t, EntryOf(loc[t].op), loc[t])
      /\ EntryOf(loc[t].op) \in {"file", "find", "recheck"}
  <2>1. loc[t].op \in ObjectCalls
    BY <1>2, OpAt
  <2> QED
    BY <1>2, <2>1 DEF Shape, Course, Direction, EntryOf, ItemCalls, ObjectCalls, Before, Keys, Turning,
                      Labels
<1>4. End(t) \/ \E label \in {"prompt", EntryOf(loc[t].op)} : Goto(t, label, loc[t]) /\ UNCHANGED lockVars
  BY DEF Check
<1> QED
  BY <1>1, <1>3, <1>4, ShapeNow DEF Still, Onward, SameLocks, lockVars, Holding, Reading, Keys, Listing

LEMMA PromptStill ==
  ASSUME TypeInv, NEW t \in Tasks, Prompt(t)
  PROVE  Still(t) /\ pc[t] \notin Holding
<1>1. pc[t] = "prompt" /\ UNCHANGED <<busVars, fileVars, ghosts, budget>> /\ pc[t] \notin Holding \cup Listing
  BY DEF Prompt, Holding, Reading, Keys, Listing
<1>2. Shape(t, "prompt", loc[t]) /\ loc[t] \in Local
  BY <1>1, ShapeNow
<1>3. ASSUME NEW s \in Secrets, Goto(t, "validate", [loc[t] EXCEPT !.secret = s]), UNCHANGED lockVars
      PROVE  Still(t)
  <2> DEFINE l == [loc[t] EXCEPT !.secret = s]
  <2>1. /\ l \in Local /\ l.op = loc[t].op /\ l.item = loc[t].item /\ l.after = loc[t].after
        /\ l.target = loc[t].target
    <3>1. l \in Local
      BY <1>2, LocalWith
    <3> QED
      BY <1>2, <3>1, LocalFields
  <2>2. Goto(t, "validate", l)
    BY <1>3
  <2> HIDE DEF l
  <2>3. Shape(t, "validate", l)
    <3>1. loc[t].op \in ObjectCalls \cup {"unlock", "unlockItem"}
      BY <1>2, OpAt
    <3> QED
      BY <1>2, <2>1, <3>1 DEF Shape, Course, Direction, EntryOf, ItemCalls, ObjectCalls, Before,
                              Keys, Turning, Labels
  <2> QED
    BY <1>1, <1>3, <2>1, <2>2, <2>3, OnwardStill, ShapeNow DEF SameLocks, lockVars, Holding, Reading, Keys
<1> QED
  BY <1>1, <1>3 DEF Prompt, Still

LEMMA ValidateStill ==
  ASSUME TypeInv, NEW t \in Tasks, Validate(t)
  PROVE  Still(t) /\ pc[t] \notin Holding
<1>1. pc[t] = "validate" /\ UNCHANGED <<busVars, fileVars, ghosts, budget>> /\ pc[t] \notin Holding \cup Listing
  BY DEF Validate, Holding, Reading, Keys, Listing
<1>2. Shape(t, "validate", loc[t]) /\ loc[t] \in Local
      /\ loc[t].op \in ObjectCalls \cup {"unlock", "unlockItem"}
  BY <1>1, ShapeNow, OpAt
<1> DEFINE l == [loc[t] EXCEPT !.target = "unlocked", !.after = EntryOf(loc[t].op)]
           label == IF loc[t].op \in {"unlock", "unlockItem"} THEN "resolve" ELSE "take"
<1>3. /\ l \in Local /\ l.op = loc[t].op /\ l.item = loc[t].item /\ l.after = EntryOf(loc[t].op)
      /\ l.target = "unlocked"
  <2>1. EntryOf(loc[t].op) \in {"idle", "file", "find", "recheck", "change"}
    BY <1>2 DEF EntryOf
  <2>2. l \in Local
    BY <1>2, <2>1, LocalWith
  <2> QED
    BY <1>2, <2>2, LocalFields
<1>4. \/ End(t)
      \/ Goto(t, label, l) /\ UNCHANGED lockVars
      \/ Goto(t, "prompt", loc[t]) /\ UNCHANGED lockVars
  BY DEF Validate
<1> HIDE DEF l
<1>5. CASE Goto(t, label, l) /\ UNCHANGED lockVars
  <2>1. Shape(t, label, l)
    BY <1>2, <1>3 DEF Shape, Course, Direction, EntryOf, ItemCalls, ObjectCalls, Before, Keys, Turning,
                      Labels
  <2>2. label \notin Holding /\ label # "number"
    BY DEF Holding, Reading, Keys
  <2> HIDE DEF label
  <2> QED
    BY <1>1, <1>3, <1>5, <2>1, <2>2, OnwardStill DEF SameLocks, lockVars
<1>6. CASE Goto(t, "prompt", loc[t]) /\ UNCHANGED lockVars
  <2>1. Shape(t, "prompt", loc[t])
    BY <1>2 DEF Shape, Course, Direction, ItemCalls, ObjectCalls, Before, Keys, Turning, Labels
  <2> QED
    BY <1>1, <1>6, <2>1, OnwardStill DEF SameLocks, lockVars, Holding, Reading, Keys
<1> QED
  BY <1>1, <1>4, <1>5, <1>6 DEF Still

LEMMA LockServiceStill ==
  ASSUME TypeInv, NEW t \in Tasks, LockService(t)
  PROVE  Still(t) /\ pc[t] \notin Holding
<1>1. /\ pc[t] = "service" /\ UNCHANGED <<busVars, fileVars, ghosts, budget>> /\ pc[t] \notin Holding \cup Listing
      /\ Goto(t, "decide", loc[t]) /\ SameLocks /\ service' = t
  BY DEF LockService, Holding, Reading, Keys, Listing, SameLocks
<1>2. Shape(t, "service", loc[t])
      /\ loc[t].op \in {"lock", "unlock", "lockItem", "unlockItem", "pamUnlock", "changePassword"}
  BY <1>1, ShapeNow, OpAt
<1>3. Shape(t, "decide", loc[t])
  BY <1>2 DEF Shape, Course, Direction, ItemCalls, ObjectCalls, Before, Keys, Turning, Labels
<1> QED
  BY <1>1, <1>3, OnwardStill DEF Holding, Reading, Keys

LEMMA DecideCollectionStill ==
  ASSUME TypeInv, NEW t \in Tasks, DecideCollection(t) PROVE Still(t) /\ pc[t] \notin Holding
<1>1. /\ pc[t] = "decide" /\ UNCHANGED <<busVars, fileVars, ghosts, budget>> /\ pc[t] \notin Holding \cup Listing
      /\ loc[t].op \in {"lock", "unlock"}
  BY DEF DecideCollection, Holding, Reading, Keys, Listing
<1>2. Shape(t, "decide", loc[t])
  BY <1>1, ShapeNow
<1>3. CASE loc[t].op = "lock" /\ Goto(t, "take", loc[t]) /\ UNCHANGED lockVars
  <2>1. Shape(t, "take", loc[t])
    BY <1>2, <1>3 DEF Shape, Course, Direction, ItemCalls, ObjectCalls, Before, Keys, Turning, Labels
  <2> QED
    BY <1>1, <1>3, <2>1, OnwardStill DEF Holding, Reading, Keys, SameLocks, lockVars
<1>4. CASE loc[t].op = "unlock" /\ Goto(t, "prompt", loc[t]) /\ SameLocks /\ service' = NoTask
  <2>1. Shape(t, "prompt", loc[t])
    BY <1>2, <1>4 DEF Shape, Course, Direction, ItemCalls, ObjectCalls, Before, Keys, Turning, Labels
  <2> QED
    BY <1>1, <1>4, <2>1, OnwardStill DEF Holding, Reading, Keys
<1> QED
  BY <1>1, <1>3, <1>4 DEF DecideCollection, Still, SameLocks

LEMMA DecideItemStill ==
  ASSUME TypeInv, NEW t \in Tasks, DecideItem(t) PROVE Still(t) /\ pc[t] \notin Holding
<1> DEFINE target == IF loc[t].op = "lockItem" THEN "locked" ELSE "unlocked"
           l == [loc[t] EXCEPT !.target = target]
<1>1. /\ pc[t] = "decide" /\ UNCHANGED <<busVars, fileVars, ghosts, budget>> /\ pc[t] \notin Holding \cup Listing
      /\ loc[t].op \in {"lockItem", "unlockItem"}
  BY DEF DecideItem, Holding, Reading, Keys, Listing
<1>2. Shape(t, "decide", loc[t]) /\ loc[t] \in Local
  BY <1>1, ShapeNow
<1>3. \/ End(t)
      \/ Goto(t, "itemLock", l) /\ UNCHANGED lockVars
      \/ target = "unlocked" /\ Goto(t, "prompt", loc[t]) /\ SameLocks /\ service' = NoTask
  BY DEF DecideItem, SameLocks
<1>4. /\ l \in Local /\ l.op = loc[t].op /\ l.item = loc[t].item /\ l.after = loc[t].after
      /\ l.target = target
  <2>1. target \in {"locked", "unlocked"}
    OBVIOUS
  <2> HIDE DEF target
  <2>2. l \in Local
    BY <1>2, <2>1, LocalWith
  <2> QED
    BY <1>2, <2>2, LocalFields
<1> HIDE DEF l
<1>5. CASE Goto(t, "itemLock", l) /\ UNCHANGED lockVars
  <2>1. Shape(t, "itemLock", l)
    BY <1>1, <1>2, <1>4 DEF Shape, Course, Direction, ItemCalls, ObjectCalls, Before, Keys, Turning,
                            Labels
  <2> QED
    BY <1>1, <1>4, <1>5, <2>1, OnwardStill DEF Holding, Reading, Keys, SameLocks, lockVars
<1>6. CASE target = "unlocked" /\ Goto(t, "prompt", loc[t]) /\ SameLocks /\ service' = NoTask
  <2>1. Shape(t, "prompt", loc[t])
    BY <1>1, <1>2, <1>6 DEF Shape, Course, Direction, ItemCalls, ObjectCalls, Before, Keys, Turning,
                            Labels
  <2> QED
    BY <1>1, <1>6, <2>1, OnwardStill DEF Holding, Reading, Keys
<1> QED
  BY <1>1, <1>3, <1>5, <1>6 DEF Still

LEMMA ResolveStill ==
  ASSUME TypeInv, NEW t \in Tasks, Resolve(t)
  PROVE  Still(t) /\ pc[t] \notin Holding
<1>1. pc[t] = "resolve" /\ UNCHANGED <<busVars, fileVars, ghosts, budget>> /\ pc[t] \notin Holding \cup Listing
  BY DEF Resolve, Holding, Reading, Keys, Listing
<1>2. Shape(t, "resolve", loc[t]) /\ loc[t].op \in {"unlock", "unlockItem"}
  BY <1>1, ShapeNow, OpAt
<1> DEFINE label == IF loc[t].op = "unlockItem" THEN "itemLock" ELSE "take"
<1>3. \/ End(t)
      \/ Goto(t, label, loc[t]) /\ UNCHANGED lockVars
  BY DEF Resolve
<1>4. Shape(t, label, loc[t])
  BY <1>2 DEF Shape, Course, Direction, ItemCalls, ObjectCalls, Before, Keys, Turning, Labels
<1>5. label \notin Holding /\ label # "number"
  BY DEF Holding, Reading, Keys
<1> HIDE DEF label
<1>6. CASE Goto(t, label, loc[t]) /\ UNCHANGED lockVars
  BY <1>1, <1>4, <1>5, <1>6, OnwardStill DEF SameLocks, lockVars
<1> QED
  BY <1>1, <1>3, <1>6 DEF Still

LEMMA PamUnlockStill ==
  ASSUME TypeInv, NEW t \in Tasks, PamUnlock(t)
  PROVE  Still(t) /\ pc[t] \notin Holding
<1>1. /\ pc[t] = "decide" /\ UNCHANGED <<busVars, fileVars, ghosts, budget>> /\ pc[t] \notin Holding \cup Listing
      /\ loc[t].op = "pamUnlock"
  BY DEF PamUnlock, Holding, Reading, Keys, Listing
<1>2. Shape(t, "decide", loc[t]) /\ loc[t] \in Local
  BY <1>1, ShapeNow
<1>3. ASSUME NEW s \in Secrets, UNCHANGED lockVars,
             Goto(t, "take", [loc[t] EXCEPT !.target = "unlocked", !.secret = s])
      PROVE  Still(t)
  <2> DEFINE l == [loc[t] EXCEPT !.target = "unlocked", !.secret = s]
  <2>1. /\ l \in Local /\ l.op = loc[t].op /\ l.item = loc[t].item /\ l.after = loc[t].after
        /\ l.target = "unlocked"
    <3>1. l \in Local
      BY <1>2, LocalWith
    <3> QED
      BY <1>2, <3>1, LocalFields
  <2>2. Goto(t, "take", l)
    BY <1>3
  <2> HIDE DEF l
  <2>3. Shape(t, "take", l)
    BY <1>1, <1>2, <2>1 DEF Shape, Course, Direction, EntryOf, ItemCalls, ObjectCalls, Before,
                            Keys, Turning, Labels
  <2> QED
    BY <1>1, <1>3, <2>1, <2>2, <2>3, OnwardStill DEF SameLocks, lockVars, Holding, Reading, Keys
<1> QED
  BY <1>1, <1>3 DEF PamUnlock, Still

LEMMA PamChangeStill ==
  ASSUME TypeInv, NEW t \in Tasks, PamChange(t)
  PROVE  Still(t) /\ pc[t] \notin Holding
<1>1. /\ pc[t] = "decide" /\ UNCHANGED <<busVars, fileVars, ghosts, budget>> /\ pc[t] \notin Holding \cup Listing
      /\ loc[t].op = "changePassword"
  BY DEF PamChange, Holding, Reading, Keys, Listing
<1>2. Shape(t, "decide", loc[t]) /\ loc[t] \in Local
  BY <1>1, ShapeNow
<1> DEFINE label == IF Unlocked THEN "change" ELSE "take"
           was == ~Unlocked
           with(s) == [loc[t] EXCEPT !.target = "unlocked", !.secret = s, !.after = "change",
                                     !.was = was]
<1>3. /\ label \in {"change", "take"} /\ was \in BOOLEAN
      /\ End(t) \/ \E s \in Secrets : Goto(t, label, with(s)) /\ UNCHANGED lockVars
  BY DEF PamChange
<1> HIDE DEF label, was
<1>4. ASSUME NEW s \in Secrets, Goto(t, label, with(s)), UNCHANGED lockVars
      PROVE  Still(t)
  <2> DEFINE l == with(s)
  <2>1. /\ l \in Local /\ l.op = loc[t].op /\ l.item = loc[t].item /\ l.after = "change"
        /\ l.target = "unlocked"
    <3>1. l \in Local
      BY <1>2, <1>3, LocalWith
    <3> QED
      BY <1>2, <3>1, LocalFields
  <2>2. Goto(t, label, l)
    BY <1>4
  <2> HIDE DEF l, with
  <2>3. Shape(t, label, l)
    BY <1>1, <1>2, <1>3, <2>1 DEF Shape, Course, Direction, EntryOf, ItemCalls, ObjectCalls,
                                  Before, Keys, Turning, Labels
  <2> QED
    BY <1>1, <1>3, <1>4, <2>1, <2>2, <2>3, OnwardStill DEF SameLocks, lockVars, Holding, Reading, Keys
<1> QED
  BY <1>1, <1>3, <1>4 DEF Still

LEMMA ReadAttributesStill ==
  ASSUME TypeInv, NEW t \in Tasks, ReadAttributes(t) PROVE Still(t) /\ pc[t] \notin Holding
<1>1. pc[t] = "attributes" /\ UNCHANGED <<busVars, fileVars, ghosts, budget>> /\ pc[t] \notin Holding \cup Listing
  BY DEF ReadAttributes, Holding, Reading, Keys, Listing
<1>2. Shape(t, "attributes", loc[t]) /\ loc[t] \in Local /\ loc[t].op = "deleteItem"
  BY <1>1, ShapeNow, OpAt
<1> DEFINE x == bus[loc[t].item].attrs
           l == [loc[t] EXCEPT !.attrs = x]
<1>3. \/ End(t)
      \/ Goto(t, "deleteFile", l) /\ UNCHANGED lockVars
  BY DEF ReadAttributes
<1>4. x \in Attributes
  BY <1>2 DEF Shape, ItemCalls, TypeInv, TypeOK, BusItem
<1> HIDE DEF x
<1>5. /\ l \in Local /\ l.op = loc[t].op /\ l.item = loc[t].item /\ l.after = loc[t].after
      /\ l.target = loc[t].target
  <2>1. l \in Local
    BY <1>2, <1>4, LocalWith
  <2> QED
    BY <1>2, <2>1, LocalFields
<1> HIDE DEF l
<1>6. CASE Goto(t, "deleteFile", l) /\ UNCHANGED lockVars
  <2>1. Shape(t, "deleteFile", l)
    BY <1>2, <1>5 DEF Shape, Course, Direction, EntryOf, ItemCalls, ObjectCalls, Before, Keys, Turning,
                      Labels
  <2> QED
    BY <1>1, <1>5, <1>6, <2>1, OnwardStill DEF SameLocks, lockVars, Holding, Reading, Keys
<1> QED
  BY <1>1, <1>3, <1>6 DEF Still

LEMMA FindStill == ASSUME TypeInv, NEW t \in Tasks, Find(t) PROVE Still(t) /\ pc[t] \notin Holding
<1>1. pc[t] = "find" /\ UNCHANGED <<busVars, fileVars, ghosts, budget>> /\ pc[t] \notin Holding \cup Listing
  BY DEF Find, Holding, Reading, Keys, Listing
<1>2. Shape(t, "find", loc[t]) /\ loc[t] \in Local /\ loc[t].op = "deleteItem"
  BY <1>1, ShapeNow, OpAt
<1> DEFINE same == Kept(items, {i \in Items : bus[i].path = bus[loc[t].item].path})
           l == [loc[t] EXCEPT !.item = Head(same)]
<1>3. \/ End(t)
      \/ same # <<>> /\ Goto(t, "attributes", l) /\ UNCHANGED lockVars
  BY DEF Find
<1>4. same \in Seq(Items)
  BY KeptElements DEF TypeInv, TypeOK
<1> HIDE DEF same
<1>5. ASSUME same # <<>>, Goto(t, "attributes", l), UNCHANGED lockVars PROVE Still(t)
  <2>1. Head(same) \in Items
    BY <1>4, <1>5
  <2>2. /\ l \in Local /\ l.op = loc[t].op /\ l.item \in Items /\ l.after = loc[t].after
        /\ l.target = loc[t].target
    <3>1. l \in Local
      BY <1>2, <2>1, LocalWith
    <3> QED
      BY <1>2, <2>1, <3>1, LocalFields
  <2> HIDE DEF l
  <2>3. Shape(t, "attributes", l)
    BY <1>2, <2>2 DEF Shape, Course, Direction, EntryOf, ItemCalls, ObjectCalls, Before, Keys, Turning,
                      Labels
  <2> QED
    BY <1>1, <1>2, <1>5, <2>2, <2>3, ShapeNow DEF Still, Onward, SameLocks, lockVars, Holding, Reading, Keys
<1> QED
  BY <1>1, <1>3, <1>5 DEF Still

LEMMA RecheckStill ==
  ASSUME TypeInv, NEW t \in Tasks, Recheck(t)
  PROVE  Still(t) /\ pc[t] \notin Holding
<1>1. pc[t] = "recheck" /\ UNCHANGED <<busVars, fileVars, ghosts, budget>> /\ pc[t] \notin Holding \cup Listing
  BY DEF Recheck, Holding, Reading, Keys, Listing
<1>2. Shape(t, "recheck", loc[t]) /\ loc[t].op = "deleteCollection"
  BY <1>1, ShapeNow, OpAt
<1>3. CASE Goto(t, "unserveAll", loc[t]) /\ UNCHANGED lockVars
  <2>1. Shape(t, "unserveAll", loc[t])
    BY <1>2 DEF Shape, Course, Direction, EntryOf, ItemCalls, ObjectCalls, Before, Keys, Turning, Labels
  <2> QED
    BY <1>1, <1>3, <2>1, OnwardStill DEF SameLocks, lockVars, Holding, Reading, Keys
<1> QED
  BY <1>1, <1>3 DEF Recheck, Still

LEMMA SearchStill ==
  ASSUME TypeInv, NEW t \in Tasks, Search(t)
  PROVE  Still(t) /\ pc[t] \notin Holding
<1>1. pc[t] = "search" /\ UNCHANGED <<busVars, fileVars, ghosts, budget>> /\ pc[t] \notin Holding
  BY DEF Search, Holding, Reading, Keys
<1>2. Shape(t, "search", loc[t]) /\ loc[t] \in Local /\ loc[t].op = "create"
  BY <1>1, ShapeNow, OpAt DEF Listing
<1> DEFINE found == Found(loc[t].attrs, loc[t].key)
           l == [loc[t] EXCEPT !.todo = found]
           label == IF found = <<>> THEN "push" ELSE "purge"
<1>3. \/ End(t)
      \/ Goto(t, label, l) /\ UNCHANGED lockVars
  BY DEF Search
<1>4. found \in Seq(Items)
  BY KeptElements DEF TypeInv, TypeOK, Found
<1> HIDE DEF found
<1>5. /\ l \in Local /\ l.op = loc[t].op /\ l.item = loc[t].item /\ l.after = loc[t].after
      /\ l.target = loc[t].target /\ l.todo = found
  <2>1. l \in Local
    BY <1>2, <1>4, LocalWith
  <2>2. DOMAIN loc[t] = {"op", "item", "attrs", "replace", "n", "key", "for", "todo", "target",
                         "secret", "after", "was", "snap"}
    BY <1>2, LocalFields
  <2> QED
    BY <2>1, <2>2
<1> HIDE DEF l
<1>6. Shape(t, label, l)
  BY <1>2, <1>5 DEF Shape, Course, Direction, EntryOf, ItemCalls, ObjectCalls, Before, Keys, Turning,
                    Labels
<1>7. label \in {"push", "purge"} /\ label \in Listing /\ label # "number" /\ (label \notin Holding \/ label = "purge")
  BY DEF Listing, Holding, Reading, Keys
<1> HIDE DEF label
<1>8. CASE Goto(t, label, l) /\ UNCHANGED lockVars
  BY <1>1, <1>5, <1>6, <1>7, <1>8, OnwardStill DEF SameLocks, lockVars
<1> QED
  BY <1>1, <1>3, <1>8 DEF Still

-----------------------------------------------------------------------------
(* Steps that edit the keyring, the file or the items *)

LEMMA SpendBudget ==
  ASSUME budget \in [{"call", "fault"} -> Nat], NEW kind \in {"call", "fault"}, Spend(kind)
  PROVE  budget' \in [{"call", "fault"} -> Nat]
BY DEF Spend

LEMMA KeyringWith ==
  ASSUME NEW kr \in KeyringState
  PROVE  /\ DOMAIN kr = {"state", "items", "under", "secret", "salt", "cached", "stamped"}
         /\ kr.state \in {"none", "locked", "unlocked"} /\ kr.items \subseteq Items
         /\ kr.under \in [Items -> AnyKey] /\ kr.secret \in Secrets /\ kr.salt \in Nat
         /\ kr.cached \in AnyKey /\ kr.stamped \in BOOLEAN
BY DEF KeyringState

LEMMA KeyringSet ==
  ASSUME NEW kr \in KeyringState
  PROVE  /\ \A S \in SUBSET Items : [kr EXCEPT !.items = S] \in KeyringState
         /\ \A b \in BOOLEAN : [kr EXCEPT !.stamped = b] \in KeyringState
         /\ \A k \in AnyKey : [kr EXCEPT !.cached = k] \in KeyringState
         /\ \A s \in Secrets : [kr EXCEPT !.secret = s] \in KeyringState
         /\ \A s \in Secrets, k \in AnyKey : [kr EXCEPT !.secret = s, !.cached = k] \in KeyringState
         /\ \A d \in {"none", "locked", "unlocked"}, k \in AnyKey :
              [kr EXCEPT !.state = d, !.cached = k] \in KeyringState
         /\ \A S \in SUBSET Items, n \in Nat : [kr EXCEPT !.items = S, !.salt = n] \in KeyringState
         /\ \A S \in SUBSET Items, u \in [Items -> AnyKey] :
              [kr EXCEPT !.items = S, !.under = u] \in KeyringState
         /\ \A S \in SUBSET Items, n \in Nat, b \in BOOLEAN :
              [kr EXCEPT !.items = S, !.salt = n, !.stamped = b] \in KeyringState
         /\ \A S \in SUBSET Items, u \in [Items -> AnyKey], n \in Nat, b \in BOOLEAN :
              [kr EXCEPT !.items = S, !.under = u, !.salt = n, !.stamped = b] \in KeyringState
         /\ [kr EXCEPT !.state = "none", !.items = {}] \in KeyringState
<1>1. /\ \A S \in SUBSET Items : [kr EXCEPT !.items = S] \in KeyringState
      /\ \A b \in BOOLEAN : [kr EXCEPT !.stamped = b] \in KeyringState
      /\ \A k \in AnyKey : [kr EXCEPT !.cached = k] \in KeyringState
  BY ZenonT(30) DEF KeyringState
<1>2. /\ \A s \in Secrets : [kr EXCEPT !.secret = s] \in KeyringState
      /\ \A s \in Secrets, k \in AnyKey : [kr EXCEPT !.secret = s, !.cached = k] \in KeyringState
      /\ \A d \in {"none", "locked", "unlocked"}, k \in AnyKey :
              [kr EXCEPT !.state = d, !.cached = k] \in KeyringState
  BY ZenonT(30) DEF KeyringState
<1>3. /\ \A S \in SUBSET Items, n \in Nat : [kr EXCEPT !.items = S, !.salt = n] \in KeyringState
      /\ \A S \in SUBSET Items, u \in [Items -> AnyKey] :
              [kr EXCEPT !.items = S, !.under = u] \in KeyringState
  BY ZenonT(30) DEF KeyringState
<1>4. \A S \in SUBSET Items, n \in Nat, b \in BOOLEAN :
        [kr EXCEPT !.items = S, !.salt = n, !.stamped = b] \in KeyringState
  BY ZenonT(30) DEF KeyringState
<1>5. \A S \in SUBSET Items, u \in [Items -> AnyKey], n \in Nat, b \in BOOLEAN :
        [kr EXCEPT !.items = S, !.under = u, !.salt = n, !.stamped = b] \in KeyringState
  BY ZenonT(30) DEF KeyringState
<1>6. [kr EXCEPT !.state = "none", !.items = {}] \in KeyringState
  BY ZenonT(30) DEF KeyringState
<1> QED
  BY <1>1, <1>2, <1>3, <1>4, <1>5, <1>6

\* A keyring that gets items under a key.
LEMMA WithType ==
  ASSUME NEW kr \in KeyringState, NEW S \in SUBSET Items, NEW key \in AnyKey
  PROVE  /\ With(kr, S, key) \in KeyringState
         /\ With(kr, S, key).items = kr.items \cup S
         /\ \A i \in Items : With(kr, S, key).under[i] = IF i \in S THEN key ELSE kr.under[i]
         /\ With(kr, S, key).state = kr.state /\ With(kr, S, key).secret = kr.secret
         /\ With(kr, S, key).salt = kr.salt /\ With(kr, S, key).cached = kr.cached
         /\ With(kr, S, key).stamped = kr.stamped
<1> DEFINE u == [i \in Items |-> IF i \in S THEN key ELSE kr.under[i]]
<1>1. With(kr, S, key) = [kr EXCEPT !.items = kr.items \cup S, !.under = u]
  BY DEF With
<1>2. u \in [Items -> AnyKey] /\ kr.items \cup S \in SUBSET Items
      /\ DOMAIN kr = {"state", "items", "under", "secret", "salt", "cached", "stamped"}
  BY KeyringWith
<1>3. \A i \in Items : u[i] = IF i \in S THEN key ELSE kr.under[i]
  OBVIOUS
<1> HIDE DEF u
<1>4. With(kr, S, key) \in KeyringState
  <2>1. [kr EXCEPT !.items = kr.items \cup S, !.under = u] \in KeyringState
    BY <1>2, KeyringSet
  <2> QED
    BY <1>1, <2>1
<1> QED
  BY <1>1, <1>2, <1>3, <1>4

LEMMA KeyForType ==
  ASSUME keyring \in KeyringState, NEW s \in Secrets
  PROVE  KeyFor(s) \in AnyKey /\ KeyFor(s) # NoKey
<1>1. keyring.cached \in AnyKey /\ keyring.salt \in Nat /\ NoKey \notin Key
  BY KeyringWith, CollectionAssumption
<1>2. <<s, keyring.salt>> \in Key
  BY <1>1 DEF Key
<1> QED
  BY <1>1, <1>2 DEF KeyFor, AnyKey

LEMMA ReloadedType ==
  ASSUME keyring \in KeyringState, file \in File, salts \in Nat
  PROVE  Reloaded \in KeyringState
<1>1. CASE ~Persistent \/ file = NoFile
  BY <1>1, KeyringSet DEF Reloaded
<1>2. CASE Persistent /\ file # NoFile
  <2>1. file \in [items : SUBSET Items, under : [Items -> AnyKey], salt : Nat]
    BY <1>2 DEF File
  <2>2. file.items \in SUBSET Items /\ file.under \in [Items -> AnyKey] /\ file.salt \in Nat
    BY <2>1
  <2>3. [keyring EXCEPT !.items = file.items, !.under = file.under, !.salt = file.salt,
                        !.stamped = TRUE] \in KeyringState
    BY <2>2, KeyringSet
  <2> QED
    BY <1>2, <2>3 DEF Reloaded
<1> QED
  BY <1>1, <1>2

LEMMA ReplacedType ==
  ASSUME keyring \in KeyringState, file \in File
  PROVE  Replaced \in File
<1>1. [items |-> keyring.items, under |-> keyring.under, salt |-> keyring.salt] \in File
  BY KeyringWith DEF File
<1> QED
  BY <1>1 DEF Replaced

LEMMA TurnedType ==
  ASSUME bus \in [Items -> BusItem], NEW i \in Items, NEW target, NEW key \in AnyKey
  PROVE  /\ Turned(i, target, key) \in BusItem
         /\ Turned(i, target, key).path = bus[i].path
         /\ Turned(i, target, key).attrs = bus[i].attrs
<1>1. bus[i] \in BusItem /\ DOMAIN bus[i] = {"path", "lock", "attrs", "key"}
  BY DEF BusItem
<1> DEFINE Fits(x) == x \in BusItem /\ x.path = bus[i].path /\ x.attrs = bus[i].attrs
<1>2. Fits(bus[i])
  BY <1>1
<1>3. \A d \in {"none", "locked", "unlocked"} : Fits([bus[i] EXCEPT !.lock = d])
  BY <1>1 DEF BusItem
<1>4. Fits([bus[i] EXCEPT !.lock = "locked", !.key = key])
  BY <1>1 DEF BusItem
<1>5. Turned(i, target, key) \in {bus[i], [bus[i] EXCEPT !.lock = "locked", !.key = key]}
                                  \cup {[bus[i] EXCEPT !.lock = d] : d \in {"none", "locked", "unlocked"}}
  BY DEF Turned
<1> HIDE DEF Fits
<1>6. Fits(Turned(i, target, key))
  BY <1>2, <1>3, <1>4, <1>5
<1> QED
  BY <1>6 DEF Fits

\* A call takes or keeps the read guard of the keyring.
LEMMA ReadingStep ==
  ASSUME TypeInv, NEW t \in Tasks, NEW label, NEW l, Onward(t, label, l), DataTypes',
         UNCHANGED lockVars, UNCHANGED <<item_index, used>>,
         pc[t] \in Reading \ {"rename"}, label \in Reading \ {"rename"}
  PROVE  TypeInv'
<1>1. LockTypes'
  BY DEF LockTypes, lockVars, TypeInv, TypeOK
<1>2. pc'[t] = label
  BY DEF Onward, Goto, TypeInv, TypeOK
<1>3. LocksOf(t)
  BY <1>2 DEF LocksOf, lockVars, Reading, Keys, TypeInv, Held
<1> QED
  BY <1>1, <1>3, OnwardStep

LEMMA GuardStep ==
  ASSUME TypeInv, NEW t \in Tasks, NEW label, NEW l, Onward(t, label, l), DataTypes',
         readers' = readers \cup {t}, UNCHANGED <<writer, dumping, itemsHolder, service>>,
         UNCHANGED <<item_index, used>>, CanRead,
         pc[t] \notin Holding, label \in Reading \ {"rename"}
  PROVE  TypeInv'
<1>1. LockTypes' /\ NoTask \notin Tasks
  BY CollectionAssumption DEF LockTypes, TypeInv, TypeOK
<1>2. pc'[t] = label
  BY DEF Onward, Goto, TypeInv, TypeOK
<1>3. LocksOf(t)
  BY <1>1, <1>2 DEF LocksOf, CanRead, Holding, Reading, Keys, TypeInv, Held
<1> QED
  BY <1>1, <1>3, OnwardStep

LEMMA GetKeyStep ==
  ASSUME TypeInv, NEW t \in Tasks, NEW step \in {"put", "remove", "turn"}, GetKey(t, step, loc[t]),
         step \in StepsFor(loc[t].op), CanRead, pc[t] \in {"file", "deleteFile", "itemLock"},
         UNCHANGED <<busVars, fileVars, budget>>
  PROVE  TypeInv'
<1> DEFINE l == [loc[t] EXCEPT !.for = step]
<1>1. /\ Shape(t, pc[t], loc[t]) /\ loc[t] \in Local /\ DataTypes /\ pc[t] \notin Holding \cup Listing
  BY ShapeNow DEF Holding, Reading, Keys, Listing
<1>2. /\ Goto(t, "secret", l) /\ readers' = readers \cup {t} /\ beside' \in BOOLEAN
      /\ UNCHANGED <<writer, dumping, itemsHolder, service, used, deleted, late>>
  BY <1>1 DEF GetKey, DataTypes
<1>3. l \in Local /\ l.op = loc[t].op /\ l.item = loc[t].item /\ l.after = loc[t].after
      /\ l.target = loc[t].target /\ l.for = step
  <2>1. l \in Local
    BY <1>1, LocalWith
  <2> QED
    BY <1>1, <2>1, LocalFields
<1>4. UNCHANGED <<item_index, used>> /\ DataTypes'
  BY <1>1, <1>2 DEF DataTypes, busVars, fileVars
<1> HIDE DEF l
<1>5. loc[t].op \in {"create", "deleteItem", "lockItem", "unlockItem"}
  BY <1>1, OpAt
<1>6. Shape(t, "secret", l)
  BY <1>1, <1>3, <1>5
  DEF Shape, Course, Direction, EntryOf, ItemCalls, ObjectCalls, Before, Keys, Turning, Labels
<1>7. Onward(t, "secret", l) /\ "secret" \in Reading \ {"rename"}
  BY <1>1, <1>2, <1>3, <1>6 DEF Onward, Reading, Keys
<1> QED
  BY <1>1, <1>2, <1>4, <1>7, GuardStep

LEMMA CreateFileTypes == ASSUME TypeInv, NEW t \in Tasks, CreateFile(t) PROVE TypeInv'
<1>1. pc[t] = "file" /\ CanRead /\ UNCHANGED <<busVars, fileVars, budget>> /\ DataTypes
  BY ShapeNow DEF CreateFile
<1>2. loc[t].op = "create" /\ "put" \in StepsFor(loc[t].op)
  BY <1>1, ShapeNow, OpAt DEF StepsFor
<1>3. CASE End(t) /\ UNCHANGED ghosts
  BY <1>1, <1>3, EndStep DEF DataTypes, busVars, fileVars, ghosts
<1>4. CASE GetKey(t, "put", loc[t])
  BY <1>1, <1>2, <1>4, GetKeyStep
<1> QED
  BY <1>3, <1>4 DEF CreateFile

LEMMA DeleteFileTypes == ASSUME TypeInv, NEW t \in Tasks, DeleteFile(t) PROVE TypeInv'
<1>1. pc[t] = "deleteFile" /\ CanRead /\ UNCHANGED <<busVars, fileVars, budget>> /\ DataTypes
  BY ShapeNow DEF DeleteFile
<1>2. loc[t].op = "deleteItem" /\ "remove" \in StepsFor(loc[t].op)
  BY <1>1, ShapeNow, OpAt DEF StepsFor
<1>3. CASE End(t) /\ UNCHANGED ghosts
  BY <1>1, <1>3, EndStep DEF DataTypes, busVars, fileVars, ghosts
<1>4. CASE GetKey(t, "remove", loc[t])
  BY <1>1, <1>2, <1>4, GetKeyStep
<1> QED
  BY <1>3, <1>4 DEF DeleteFile

LEMMA ReadSecretTypes == ASSUME TypeInv, NEW t \in Tasks, ReadSecret(t) PROVE TypeInv'
<1> DEFINE l == [loc[t] EXCEPT !.secret = keyring.secret]
<1>1. /\ pc[t] = "secret" /\ Goto(t, "key", l) /\ UNCHANGED lockVars
      /\ UNCHANGED <<busVars, fileVars, ghosts, budget>> /\ UNCHANGED <<item_index, used>>
  BY DEF ReadSecret, busVars, ghosts
<1>2. Shape(t, "secret", loc[t]) /\ loc[t] \in Local /\ DataTypes
      /\ loc[t].op \in {"create", "deleteItem", "lockItem", "unlockItem", "changePassword"}
  BY <1>1, ShapeNow, OpAt DEF Keys
<1>3. /\ l \in Local /\ l.op = loc[t].op /\ l.item = loc[t].item /\ l.after = loc[t].after
      /\ l.target = loc[t].target /\ l.for = loc[t].for /\ l.attrs = loc[t].attrs
  <2>1. keyring.secret \in Secrets
    BY <1>2, KeyringWith DEF DataTypes
  <2>2. l \in Local
    BY <1>2, <2>1, LocalWith
  <2>3. /\ l.op = loc[t].op /\ l.item = loc[t].item /\ l.after = loc[t].after
        /\ l.target = loc[t].target /\ l.for = loc[t].for /\ l.attrs = loc[t].attrs
    BY <1>2, LocalFields
  <2> QED
    BY <2>2, <2>3
<1> HIDE DEF l
<1>4. DataTypes'
  BY <1>1, <1>2, DataStays DEF DataTypes
<1>5. Shape(t, "key", l)
  BY <1>2, <1>3
  DEF Shape, Course, Direction, EntryOf, ItemCalls, ObjectCalls, Before, Keys, Turning, Labels
<1>6. Onward(t, "key", l) /\ "key" \in Reading \ {"rename"} /\ pc[t] \in Reading \ {"rename"}
  BY <1>1, <1>3, <1>5 DEF Onward, Reading, Keys, Listing
<1> QED
  BY <1>1, <1>4, <1>6, ReadingStep

LEMMA DeriveKeyTypes == ASSUME TypeInv, NEW t \in Tasks, DeriveKey(t) PROVE TypeInv'
<1> DEFINE key == KeyFor(loc[t].secret)
           l == [loc[t] EXCEPT !.key = key]
           label == loc[t].for
<1>1. /\ pc[t] = "key" /\ Goto(t, label, l)
      /\ readers' = IF label = "index" THEN readers \ {t} ELSE readers
      /\ keyring' = [keyring EXCEPT !.cached = key]
      /\ UNCHANGED <<writer, dumping, itemsHolder, service, file, salts, busVars, ghosts, budget>>
      /\ UNCHANGED <<item_index, used>>
  BY DEF DeriveKey, busVars, ghosts
<1>2. Shape(t, "key", loc[t]) /\ loc[t] \in Local /\ DataTypes /\ LockTypes /\ NoTask \notin Tasks
      /\ loc[t].op \in {"create", "deleteItem", "lockItem", "unlockItem", "changePassword"}
  BY <1>1, ShapeNow, OpAt DEF Keys
<1>3. key \in AnyKey /\ keyring \in KeyringState
  BY <1>2, KeyForType, LocalFields DEF DataTypes
<1>4. DataTypes'
  BY <1>1, <1>2, <1>3, KeyringSet DEF DataTypes, busVars, ghosts
<1> HIDE DEF key
<1>5. /\ l \in Local /\ l.op = loc[t].op /\ l.item = loc[t].item /\ l.after = loc[t].after
      /\ l.target = loc[t].target /\ l.for = loc[t].for /\ l.attrs = loc[t].attrs
  <2>1. l \in Local
    BY <1>2, <1>3, LocalWith
  <2>2. /\ l.op = loc[t].op /\ l.item = loc[t].item /\ l.after = loc[t].after
        /\ l.target = loc[t].target /\ l.for = loc[t].for /\ l.attrs = loc[t].attrs
    BY <1>2, LocalFields
  <2> QED
    BY <2>1, <2>2
<1> HIDE DEF l
<1>6. label \in {"put", "index", "remove", "turn", "readd"} /\ label \in StepsFor(loc[t].op)
  BY <1>2, LocalFields DEF Shape, Keys
<1>7. Shape(t, label, l)
  BY <1>2, <1>5, <1>6
  DEF Shape, Course, Direction, EntryOf, StepsFor, ItemCalls, ObjectCalls, Before, Keys, Turning,
      Labels
<1>8. Onward(t, label, l) /\ pc'[t] = label
  BY <1>1, <1>5, <1>6, <1>7 DEF Onward, Listing, Goto, TypeInv, TypeOK
<1> HIDE DEF label
<1>9. LockTypes' /\ LocksOf(t)
  BY <1>1, <1>2, <1>6, <1>8 DEF LockTypes, LocksOf, TypeInv, Held, Reading, Keys
<1> QED
  BY <1>1, <1>4, <1>8, <1>9, OnwardStep

LEMMA EditStep ==
  ASSUME TypeInv, NEW t \in Tasks, NEW kr \in KeyringState, NEW l, Edit(t, kr, l),
         Shape(t, "rename", l), l.op = loc[t].op, l.item = loc[t].item,
         dumping = NoTask, pc[t] \in Reading \ {"rename"}
  PROVE  TypeInv'
<1>1. /\ keyring' = kr /\ UNCHANGED <<file, salts, busVars, ghosts>> /\ UNCHANGED <<item_index, used>>
      /\ budget \in [{"call", "fault"} -> Nat] /\ DataTypes /\ LockTypes
  BY TypeParts DEF Edit, busVars, ghosts, TypeInv, TypeOK
<1>2. budget' \in [{"call", "fault"} -> Nat]
  BY <1>1, SpendBudget DEF Edit
<1>3. DataTypes'
  BY <1>1, <1>2 DEF DataTypes, busVars, ghosts
<1>4. CASE End(t)
  BY <1>1, <1>3, <1>4, EndStep
<1>5. CASE /\ Goto(t, "rename", l) /\ dumping' = t
           /\ UNCHANGED <<writer, readers, itemsHolder, service>>
  <2>1. Onward(t, "rename", l)
    BY <1>5 DEF Onward, Listing, Reading, Keys
  <2>2. LockTypes'
    BY <1>1, <1>5 DEF LockTypes
  <2>3. NoTask \notin Tasks
    BY CollectionAssumption
  <2>4. pc'[t] = "rename"
    BY <1>5 DEF Goto, TypeInv, TypeOK
  <2>5. LocksOf(t)
    BY <1>5, <2>3, <2>4 DEF LocksOf, TypeInv, Held, Reading, Keys
  <2> QED
    BY <1>1, <1>3, <2>1, <2>2, <2>5, OnwardStep
<1> QED
  BY <1>4, <1>5 DEF Edit

LEMMA PutItemTypes == ASSUME TypeInv, NEW t \in Tasks, PutItem(t) PROVE TypeInv'
<1>1. pc[t] = "put" /\ pc[t] \in Reading \ {"rename"} /\ dumping = NoTask
  BY DEF PutItem, Reading, Keys
<1>2. Shape(t, "put", loc[t]) /\ loc[t].op = "create" /\ loc[t].item \in Items /\ loc[t] \in Local
  <2>1. Shape(t, "put", loc[t]) /\ loc[t].op = "create" /\ loc[t] \in Local
    BY <1>1, ShapeNow, OpAt
  <2> QED
    BY <2>1 DEF Shape, ItemCalls
<1>3. DataTypes /\ keyring \in KeyringState /\ loc[t].key \in AnyKey
  BY <1>2, TypeParts, LocalFields DEF TypeInv, TypeOK
<1> DEFINE attrs == AttrsOf[loc[t].item]
           kept(r) == keyring.items \ (IF r THEN Matching(keyring, attrs, loc[t].key) ELSE {})
           l(r) == [loc[t] EXCEPT !.attrs = attrs, !.replace = r]
<1>4. ASSUME NEW r \in Replaces,
             \/ /\ keyring' = [keyring EXCEPT !.items = kept(r)]
                /\ End(t) /\ UNCHANGED <<file, salts, busVars, ghosts, budget>>
             \/ Edit(t, With([keyring EXCEPT !.items = kept(r)], {loc[t].item}, loc[t].key), l(r))
      PROVE  TypeInv'
  <2>1. kept(r) \in SUBSET Items
    BY <1>3, KeyringWith
  <2> HIDE DEF kept
  <2> DEFINE less == [keyring EXCEPT !.items = kept(r)]
             x == l(r)
  <2>2. less \in KeyringState
    BY <1>3, <2>1, KeyringSet
  <2> HIDE DEF less
  <2> DEFINE more == With(less, {loc[t].item}, loc[t].key)
  <2>3. more \in KeyringState
    BY <1>2, <1>3, <2>2, WithType
  <2> HIDE DEF more
  <2>4. \/ keyring' = less /\ End(t) /\ UNCHANGED <<file, salts, busVars, ghosts, budget>>
        \/ Edit(t, more, x)
    BY <1>4 DEF less, more
  <2>5. x \in Local /\ x.op = "create" /\ x.item = loc[t].item /\ x.attrs \in Attributes
    <3>1. r \in BOOLEAN /\ attrs \in Attributes
      BY <1>2, CollectionAssumption DEF Attributes
    <3> HIDE DEF attrs
    <3>2. x \in Local
      BY <1>2, <3>1, LocalWith
    <3>3. x.op = loc[t].op /\ x.item = loc[t].item /\ x.attrs = attrs
      BY <1>2, LocalFields
    <3> QED
      BY <1>2, <3>1, <3>2, <3>3
  <2> HIDE DEF l, x
  <2>6. CASE keyring' = less /\ End(t) /\ UNCHANGED <<file, salts, busVars, ghosts, budget>>
    BY <1>3, <2>2, <2>6, EndStep DEF DataTypes, busVars, ghosts
  <2>7. CASE Edit(t, more, x)
    <3>1. Shape(t, "rename", x)
      BY <1>2, <2>5 DEF Shape, Course, Direction, EntryOf, ItemCalls, ObjectCalls, Before, Keys,
                        Turning, Labels
    <3> QED
      BY <1>1, <1>2, <2>3, <2>5, <2>7, <3>1, EditStep
  <2> QED
    BY <2>4, <2>6, <2>7
<1> QED
  BY <1>4 DEF PutItem

LEMMA RemoveItemsTypes == ASSUME TypeInv, NEW t \in Tasks, RemoveItems(t) PROVE TypeInv'
<1>1. pc[t] = "remove" /\ pc[t] \in Reading \ {"rename"} /\ dumping = NoTask
  BY DEF RemoveItems, Reading, Keys
<1>2. Shape(t, "remove", loc[t]) /\ loc[t].op = "deleteItem"
  BY <1>1, ShapeNow, OpAt
<1>3. DataTypes /\ keyring \in KeyringState
  BY TypeParts DEF TypeInv, TypeOK
<1> DEFINE less == keyring.items \ Matching(keyring, loc[t].attrs, loc[t].key)
           kr == [keyring EXCEPT !.items = less]
<1>4. kr \in KeyringState
  <2>1. less \in SUBSET Items
    BY <1>3, KeyringWith
  <2> HIDE DEF less
  <2> QED
    BY <1>3, <2>1, KeyringSet
<1>5. Edit(t, kr, loc[t])
  BY DEF RemoveItems
<1> HIDE DEF kr
<1>6. Shape(t, "rename", loc[t])
  BY <1>2 DEF Shape, Course, Direction, EntryOf, ItemCalls, ObjectCalls, Before, Keys, Turning, Labels
<1> QED
  BY <1>1, <1>4, <1>5, <1>6, EditStep

-----------------------------------------------------------------------------
(* The steps of a change of the password *)

LEMMA StartChangeTypes == ASSUME TypeInv, NEW t \in Tasks, StartChange(t) PROVE TypeInv'
<1>1. /\ pc[t] = "change" /\ CanRead /\ UNCHANGED <<busVars, fileVars, budget>>
      /\ pc[t] \notin Holding \cup Listing
  BY DEF StartChange, CanUse, Holding, Reading, Keys, Listing
<1>2. Shape(t, "change", loc[t]) /\ loc[t].op = "changePassword" /\ DataTypes
  BY <1>1, ShapeNow, OpAt
<1>3. CASE End(t) /\ UNCHANGED ghosts
  BY <1>1, <1>2, <1>3, EndStep DEF DataTypes, busVars, fileVars, ghosts
<1>4. CASE /\ Goto(t, "snapshot", loc[t]) /\ readers' = readers \cup {t}
           /\ beside' = (beside \/ readers # {})
           /\ UNCHANGED <<writer, dumping, itemsHolder, service, used, deleted, late>>
  <2>1. DataTypes' /\ UNCHANGED <<item_index, used>>
    BY <1>1, <1>2, <1>4 DEF DataTypes, busVars, fileVars
  <2>2. Shape(t, "snapshot", loc[t])
    BY <1>2 DEF Shape, Course, Direction, EntryOf, ItemCalls, ObjectCalls, Before, Keys, Turning,
                Labels
  <2>3. Onward(t, "snapshot", loc[t]) /\ "snapshot" \in Reading \ {"rename"}
    BY <1>1, <1>2, <1>4, <2>2 DEF Onward, Reading
  <2> QED
    BY <1>1, <1>4, <2>1, <2>3, GuardStep
<1> QED
  BY <1>3, <1>4 DEF StartChange

\* Such a step changes at most the keyring and the salts, and goes on under the guard.
LEMMA ChangeStep ==
  ASSUME TypeInv, NEW t \in Tasks, NEW label, NEW l, Goto(t, label, l), l \in Local,
         l.op = loc[t].op, l.item = loc[t].item, label \in Keys => l.for = "readd",
         l.target = loc[t].target, l.after = loc[t].after,
         pc[t] \in {"snapshot", "newSecret", "unset", "reset"},
         label \in {"newSecret", "unset", "reset", "secret"},
         keyring' \in KeyringState, salts' \in Nat,
         UNCHANGED <<lockVars, file, busVars, ghosts, budget>>
  PROVE  TypeInv'
<1>1. Shape(t, pc[t], loc[t]) /\ loc[t].op = "changePassword" /\ DataTypes
  BY ShapeNow, OpAt
<1>2. DataTypes' /\ UNCHANGED <<item_index, used>> /\ UNCHANGED lockVars
  BY <1>1 DEF DataTypes, busVars, ghosts
<1>3. Shape(t, label, l)
  BY <1>1 DEF Shape, Course, Direction, EntryOf, StepsFor, ItemCalls, ObjectCalls, Before, Keys,
              Turning, Labels
<1>4. Onward(t, label, l) /\ label \in Reading \ {"rename"} /\ pc[t] \in Reading \ {"rename"}
  BY <1>1, <1>3 DEF Onward, Reading, Keys
<1> QED
  BY <1>2, <1>4, ReadingStep

LEMMA SnapshotTypes == ASSUME TypeInv, NEW t \in Tasks, Snapshot(t) PROVE TypeInv'
<1> DEFINE key == KeyFor(keyring.secret)
           l == [loc[t] EXCEPT !.snap = keyring.items]
<1>1. /\ pc[t] = "snapshot" /\ keyring' = [keyring EXCEPT !.cached = key]
      /\ UNCHANGED <<file, salts, busVars, ghosts, budget>>
      /\ \/ Goto(t, "newSecret", l) /\ UNCHANGED lockVars
         \/ End(t)
  BY DEF Snapshot
<1>2. DataTypes /\ loc[t] \in Local
  BY ShapeNow
<1>3. keyring' \in KeyringState /\ salts' \in Nat
  <2>1. keyring \in KeyringState /\ keyring.secret \in Secrets
    BY <1>2, KeyringWith DEF DataTypes
  <2>2. key \in AnyKey
    BY <2>1, KeyForType
  <2> HIDE DEF key
  <2> QED
    BY <1>1, <1>2, <2>1, <2>2, KeyringSet DEF DataTypes
<1> HIDE DEF key
<1>4. CASE End(t)
  BY <1>1, <1>2, <1>3, <1>4, EndStep DEF DataTypes, busVars, ghosts
<1>5. CASE Goto(t, "newSecret", l) /\ UNCHANGED lockVars
  <2>1. /\ l \in Local /\ l.op = loc[t].op /\ l.item = loc[t].item /\ l.after = loc[t].after
        /\ l.target = loc[t].target
    <3>1. keyring.items \in SUBSET Items
      BY <1>2, KeyringWith DEF DataTypes
    <3>2. l \in Local
      BY <1>2, <3>1, LocalWith
    <3> QED
      BY <1>2, <3>2, LocalFields
  <2> HIDE DEF l
  <2>2. "newSecret" \notin Keys
    BY DEF Keys
  <2> QED
    BY <1>1, <1>3, <1>5, <2>1, <2>2, ChangeStep
<1> QED
  BY <1>1, <1>4, <1>5

LEMMA NewSecretTypes == ASSUME TypeInv, NEW t \in Tasks, NewSecret(t) PROVE TypeInv'
<1>1. PICK s \in Secrets : keyring' = [keyring EXCEPT !.secret = s]
  BY DEF NewSecret
<1>2. /\ pc[t] = "newSecret" /\ Goto(t, "unset", loc[t]) /\ loc[t] \in Local /\ DataTypes
      /\ UNCHANGED <<lockVars, file, salts, busVars, ghosts, budget>>
  BY ShapeNow DEF NewSecret
<1>3. keyring' \in KeyringState /\ salts' \in Nat /\ "unset" \notin Keys
  BY <1>1, <1>2, KeyringSet DEF DataTypes, Keys
<1> QED
  BY <1>2, <1>3, ChangeStep

LEMMA UnsetKeyTypes == ASSUME TypeInv, NEW t \in Tasks, UnsetKey(t) PROVE TypeInv'
<1>1. /\ pc[t] = "unset" /\ Goto(t, "reset", loc[t]) /\ loc[t] \in Local /\ DataTypes
      /\ keyring' = [keyring EXCEPT !.cached = NoKey]
      /\ UNCHANGED <<lockVars, file, salts, busVars, ghosts, budget>>
  BY ShapeNow DEF UnsetKey
<1>2. keyring' \in KeyringState /\ salts' \in Nat /\ "reset" \notin Keys
  BY <1>1, KeyringSet DEF DataTypes, Keys, AnyKey
<1> QED
  BY <1>1, <1>2, ChangeStep

LEMMA ResetTypes == ASSUME TypeInv, NEW t \in Tasks, Reset(t) PROVE TypeInv'
<1> DEFINE l == [loc[t] EXCEPT !.for = "readd"]
<1>1. /\ pc[t] = "reset" /\ Goto(t, "secret", l) /\ loc[t] \in Local /\ DataTypes
      /\ keyring' = [keyring EXCEPT !.items = {}, !.salt = salts] /\ salts' = salts + 1
      /\ UNCHANGED <<lockVars, file, busVars, ghosts, budget>>
  BY ShapeNow DEF Reset
<1>2. keyring' \in KeyringState /\ salts' \in Nat
  <2>1. keyring \in KeyringState /\ salts \in Nat /\ {} \in SUBSET Items
    BY <1>1 DEF DataTypes
  <2>2. [keyring EXCEPT !.items = {}, !.salt = salts] \in KeyringState
    BY <2>1, KeyringSet
  <2> QED
    BY <1>1, <2>1, <2>2
<1>3. /\ l \in Local /\ l.op = loc[t].op /\ l.item = loc[t].item /\ l.after = loc[t].after
      /\ l.target = loc[t].target /\ l.for = "readd"
  <2>1. l \in Local
    BY <1>1, LocalWith
  <2> QED
    BY <1>1, <2>1, LocalFields
<1> HIDE DEF l
<1> QED
  BY <1>1, <1>2, <1>3, ChangeStep

LEMMA ReaddTypes == ASSUME TypeInv, NEW t \in Tasks, Readd(t) PROVE TypeInv'
<1> DEFINE kr == With(keyring, loc[t].snap, loc[t].key)
           l == [loc[t] EXCEPT !.snap = {}]
<1>1. /\ pc[t] = "readd" /\ pc[t] \in Reading \ {"rename"} /\ dumping = NoTask
      /\ \/ End(t) /\ UNCHANGED <<busVars, fileVars, ghosts, budget>>
         \/ Edit(t, kr, l)
  BY DEF Readd, Reading, Keys
<1>2. Shape(t, "readd", loc[t]) /\ loc[t] \in Local /\ loc[t].op = "changePassword" /\ DataTypes
  BY <1>1, ShapeNow, OpAt
<1>3. CASE End(t) /\ UNCHANGED <<busVars, fileVars, ghosts, budget>>
  BY <1>2, <1>3, EndStep DEF DataTypes, busVars, fileVars, ghosts
<1>4. CASE Edit(t, kr, l)
  <2>1. kr \in KeyringState
    <3>1. keyring \in KeyringState /\ loc[t].snap \in SUBSET Items /\ loc[t].key \in AnyKey
      BY <1>2, LocalFields DEF DataTypes
    <3> QED
      BY <3>1, WithType
  <2>2. l \in Local /\ l.op = loc[t].op /\ l.item = loc[t].item
    <3>1. l \in Local
      BY <1>2, LocalWith
    <3> QED
      BY <1>2, <3>1, LocalFields
  <2> HIDE DEF kr, l
  <2>3. Shape(t, "rename", l)
    BY <1>2, <2>2 DEF Shape, Course, Direction, EntryOf, ItemCalls, ObjectCalls, Before, Keys,
                      Turning, Labels
  <2> QED
    BY <1>1, <1>4, <2>1, <2>2, <2>3, EditStep
<1> QED
  BY <1>1, <1>3, <1>4

LEMMA RenameTypes == ASSUME TypeInv, NEW t \in Tasks, Rename(t) PROVE TypeInv'
<1> DEFINE op == loc[t].op
<1>1. pc[t] = "rename" /\ pc[t] \notin Listing /\ DataTypes /\ LockTypes /\ NoTask \notin Tasks
  BY TypeParts, CollectionAssumption DEF Rename, Listing, TypeInv
<1>2. /\ Shape(t, "rename", loc[t]) /\ op \in {"create", "deleteItem", "changePassword"}
      /\ loc[t] \in Local
  BY <1>1, ShapeNow, OpAt
<1>3. DataTypes'
  <2>1. file' \in File
    BY <1>1, ReplacedType DEF Rename, DataTypes
  <2>2. keyring' \in KeyringState
    BY <1>1, KeyringSet, CollectionAssumption DEF Rename, DataTypes
  <2> QED
    BY <1>1, <2>1, <2>2 DEF Rename, DataTypes, busVars, ghosts
<1>4. UNCHANGED <<item_index, used>>
  BY DEF Rename, busVars, ghosts
<1>5. ASSUME NEW label, NEW l, Goto(t, label, l), dumping' = NoTask,
             label \in {"secret", "retain", "take"},
             readers' = IF label = "take" THEN readers \ {t} ELSE readers,
             UNCHANGED <<writer, itemsHolder, service>>,
             Shape(t, label, l), l.op = loc[t].op, l.item = loc[t].item
      PROVE  TypeInv'
  <2>1. Onward(t, label, l)
    BY <1>1, <1>5 DEF Onward
  <2>2. LockTypes'
    BY <1>1, <1>5 DEF LockTypes
  <2>3. pc'[t] = label
    BY <1>5 DEF Goto, TypeInv, TypeOK
  <2>4. LocksOf(t)
    BY <1>1, <1>5, <2>3 DEF LocksOf, TypeInv, Held, Reading, Keys
  <2> QED
    BY <1>3, <1>4, <2>1, <2>2, <2>4, OnwardStep
<1>6. CASE End(t)
  BY <1>3, <1>4, <1>6, EndStep
<1>7. CASE op = "create" /\ ~End(t)
  <2> DEFINE l == [loc[t] EXCEPT !.for = "index"]
  <2>1. l \in Local /\ l.op = loc[t].op /\ l.item = loc[t].item /\ l.attrs = loc[t].attrs
        /\ l.for = "index"
    <3>1. l \in Local
      BY <1>2, LocalWith
    <3>2. l.op = loc[t].op /\ l.item = loc[t].item /\ l.attrs = loc[t].attrs /\ l.for = "index"
      BY <1>2, LocalFields
    <3> QED
      BY <3>1, <3>2
  <2>2. Goto(t, "secret", l) /\ dumping' = NoTask /\ readers' = readers
        /\ UNCHANGED <<writer, itemsHolder, service>>
    BY <1>7 DEF Rename
  <2> HIDE DEF l
  <2>3. Shape(t, "secret", l)
    BY <1>2, <1>7, <2>1 DEF Shape, Course, Direction, EntryOf, StepsFor, ItemCalls, ObjectCalls, Before,
                            Keys, Turning, Labels
  <2> QED
    BY <1>5, <2>1, <2>2, <2>3
<1>8. CASE op = "deleteItem" /\ ~End(t)
  <2>1. Goto(t, "retain", loc[t]) /\ dumping' = NoTask /\ readers' = readers
        /\ UNCHANGED <<writer, itemsHolder, service>>
    BY <1>8 DEF Rename
  <2>2. Shape(t, "retain", loc[t])
    BY <1>2, <1>8 DEF Shape, Course, Direction, EntryOf, ItemCalls, ObjectCalls, Before, Keys, Turning,
                      Labels
  <2> QED
    BY <1>5, <2>1, <2>2
<1>9. CASE op = "changePassword" /\ ~End(t)
  <2> DEFINE l == [loc[t] EXCEPT !.target = "locked", !.after = "idle"]
  <2>1. l \in Local /\ l.op = loc[t].op /\ l.item = loc[t].item /\ l.target = "locked" /\ l.after = "idle"
    <3>1. l \in Local
      BY <1>2, LocalWith
    <3>2. l.op = loc[t].op /\ l.item = loc[t].item /\ l.target = "locked" /\ l.after = "idle"
      BY <1>2, LocalFields
    <3> QED
      BY <3>1, <3>2
  <2>2. Goto(t, "take", l) /\ dumping' = NoTask /\ readers' = readers \ {t}
        /\ UNCHANGED <<writer, itemsHolder, service>>
    BY <1>9 DEF Rename
  <2> HIDE DEF l
  <2>3. Shape(t, "take", l)
    BY <1>2, <1>9, <2>1 DEF Shape, Course, Direction, EntryOf, ItemCalls, ObjectCalls, Before,
                            Keys, Turning, Labels
  <2> QED
    BY <1>5, <2>1, <2>2, <2>3
<1> QED
  BY <1>2, <1>6, <1>7, <1>8, <1>9

LEMMA ContinueStep ==
  ASSUME TypeInv, NEW t \in Tasks, Continue(t), pc[t] \in {"take", "each"},
         DataTypes', UNCHANGED <<item_index, used>>
  PROVE  TypeInv'
<1>1. CASE loc[t].after = "idle"
  BY <1>1, EndStep DEF Continue
<1>2. CASE loc[t].after # "idle"
  <2> DEFINE l == [loc[t] EXCEPT !.todo = <<>>]
             label == loc[t].after
  <2>1. Shape(t, pc[t], loc[t]) /\ loc[t] \in Local /\ LockTypes /\ NoTask \notin Tasks
    BY ShapeNow
  <2>2. l \in Local /\ l.op = loc[t].op /\ l.item = loc[t].item /\ l.after = loc[t].after
        /\ l.target = loc[t].target
    <3>1. l \in Local
      <4>1. <<>> \in Seq(Items)
        OBVIOUS
      <4> QED
        BY <2>1, <4>1, LocalWith
    <3>2. /\ l.op = loc[t].op /\ l.item = loc[t].item /\ l.after = loc[t].after
          /\ l.target = loc[t].target
      BY <2>1, LocalFields
    <3> QED
      BY <3>1, <3>2
  <2>3. Goto(t, label, l) /\ writer' = Free(writer, t) /\ itemsHolder' = Free(itemsHolder, t)
        /\ UNCHANGED <<readers, dumping, service>>
    BY <1>2 DEF Continue
  <2> HIDE DEF l
  <2>4. loc[t].op \in ObjectCalls \cup {"lock", "unlock", "unlockItem", "pamUnlock", "changePassword"}
    BY <2>1, OpAt DEF Turning
  <2>5. label \in {"file", "find", "recheck", "change"} /\ Shape(t, label, l)
    BY <1>2, <2>1, <2>2, <2>4
    DEF Shape, Course, Direction, EntryOf, ItemCalls, ObjectCalls, Before, Keys, Turning, Labels
  <2> HIDE DEF label
  <2>6. Onward(t, label, l) /\ pc'[t] = label
    BY <2>2, <2>3, <2>5 DEF Onward, Listing, Goto, TypeInv, TypeOK
  <2>7. LockTypes' /\ LocksOf(t)
    BY <2>1, <2>3, <2>5, <2>6 DEF LockTypes, LocksOf, Free, TypeInv, Held, Reading, Keys
  <2> QED
    BY <2>6, <2>7, OnwardStep
<1> QED
  BY <1>1, <1>2

LEMMA TakeTypes == ASSUME TypeInv, NEW t \in Tasks, Take(t) PROVE TypeInv'
<1>1. pc[t] = "take" /\ pc[t] \notin Listing /\ writer = NoTask /\ readers = {}
  BY DEF Take, Listing
<1>2. /\ Shape(t, "take", loc[t]) /\ loc[t] \in Local /\ DataTypes /\ LockTypes /\ NoTask \notin Tasks
      /\ loc[t].op \in ObjectCalls \cup {"lock", "unlock", "unlockItem", "pamUnlock", "changePassword"}
  BY <1>1, ShapeNow, OpAt DEF Turning
<1>3. UNCHANGED <<busVars, file, ghosts, budget>> /\ UNCHANGED <<item_index, used>>
  BY DEF Take, busVars, ghosts
<1>4. ASSUME keyring' \in KeyringState, salts' \in Nat PROVE DataTypes'
  BY <1>2, <1>3, <1>4 DEF DataTypes, busVars, ghosts
<1>5. CASE Continue(t) /\ UNCHANGED <<keyring, salts>>
  <2>1. DataTypes'
    BY <1>2, <1>4, <1>5 DEF DataTypes
  <2> QED
    BY <1>1, <1>3, <1>5, <2>1, ContinueStep
<1>6. CASE keyring' = Reloaded /\ End(t) /\ salts' \in {salts, salts + 1}
  <2>1. DataTypes'
    BY <1>2, <1>4, <1>6, ReloadedType DEF DataTypes
  <2> QED
    BY <1>3, <1>6, <2>1, EndStep
<1>7. CASE /\ \/ keyring' = keyring
              \/ keyring' = [keyring EXCEPT !.secret = loc[t].secret,
                                           !.cached = <<loc[t].secret, keyring.salt>>]
           /\ writer' = t
           /\ Goto(t, "items", loc[t])
           /\ UNCHANGED <<readers, dumping, itemsHolder, service, salts>>
  <2>1. DataTypes'
    <3>1. keyring \in KeyringState /\ loc[t].secret \in Secrets /\ salts \in Nat
      BY <1>2, LocalFields DEF DataTypes
    <3>2. <<loc[t].secret, keyring.salt>> \in AnyKey
      BY <3>1, KeyringWith DEF AnyKey, Key
    <3>3. [keyring EXCEPT !.secret = loc[t].secret, !.cached = <<loc[t].secret, keyring.salt>>]
            \in KeyringState
      BY <3>1, <3>2, KeyringSet
    <3>4. keyring' \in KeyringState
      BY <1>7, <3>1, <3>3
    <3> QED
      BY <1>4, <1>7, <3>1, <3>4
  <2>2. Shape(t, "items", loc[t])
    BY <1>2 DEF Shape, Course, Direction, EntryOf, ItemCalls, ObjectCalls, Before, Keys, Turning, Labels
  <2>3. Onward(t, "items", loc[t]) /\ pc'[t] = "items"
    BY <1>1, <1>7, <2>2 DEF Onward, Goto, TypeInv, TypeOK
  <2>4. LockTypes' /\ LocksOf(t)
    BY <1>1, <1>2, <1>7, <2>3 DEF LockTypes, LocksOf, TypeInv, Held, Reading, Keys
  <2> QED
    BY <1>3, <2>1, <2>3, <2>4, OnwardStep
<1> QED
  BY <1>5, <1>6, <1>7 DEF Take

LEMMA LockItemsTypes == ASSUME TypeInv, NEW t \in Tasks, LockItems(t) PROVE TypeInv'
<1>1. /\ pc[t] = "items" /\ pc[t] \notin Listing /\ itemsHolder = NoTask /\ itemsHolder' = t
      /\ late' = {}
      /\ UNCHANGED <<writer, readers, dumping, service, busVars, fileVars, used, deleted, beside,
                     budget>>
      /\ UNCHANGED <<item_index, used>>
  BY DEF LockItems, Listing, busVars
<1>2. /\ Shape(t, "items", loc[t]) /\ loc[t] \in Local /\ DataTypes /\ LockTypes /\ NoTask \notin Tasks
      /\ loc[t].op \in ObjectCalls \cup {"lock", "unlock", "unlockItem", "pamUnlock", "changePassword"}
  BY <1>1, ShapeNow, OpAt DEF Turning
<1>3. DataTypes'
  BY <1>1, <1>2 DEF DataTypes, busVars, fileVars
<1> DEFINE l == [loc[t] EXCEPT !.todo = items]
<1>4. l \in Local /\ l.op = loc[t].op /\ l.item = loc[t].item /\ l.after = loc[t].after
      /\ l.target = loc[t].target
  <2>1. items \in Seq(Items)
    BY <1>2 DEF DataTypes
  <2>2. l \in Local
    BY <1>2, <2>1, LocalWith
  <2> QED
    BY <1>2, <2>2, LocalFields
<1>5. Goto(t, "each", l)
  BY DEF LockItems
<1> HIDE DEF l
<1>6. Shape(t, "each", l)
  BY <1>2, <1>4 DEF Shape, Course, Direction, EntryOf, ItemCalls, ObjectCalls, Before, Keys, Turning,
                    Labels
<1>7. Onward(t, "each", l) /\ pc'[t] = "each"
  BY <1>1, <1>4, <1>5, <1>6 DEF Onward, Goto, TypeInv, TypeOK
<1>8. LockTypes' /\ LocksOf(t)
  BY <1>1, <1>2, <1>7 DEF LockTypes, LocksOf, TypeInv, Held, Reading, Keys
<1> QED
  BY <1>1, <1>3, <1>7, <1>8, OnwardStep

LEMMA EachItemTypes == ASSUME TypeInv, NEW t \in Tasks, EachItem(t) PROVE TypeInv'
<1> DEFINE todo == loc[t].todo
           key == KeyFor(keyring.secret)
           turned == Turned(Head(todo), loc[t].target, key)
           cached == IF loc[t].target = "locked" THEN NoKey ELSE keyring.cached
           l == [loc[t] EXCEPT !.todo = Tail(todo)]
<1>1. /\ pc[t] = "each" /\ pc[t] \notin Listing
      /\ UNCHANGED <<items, served, item_index, registered, file, salts, ghosts, budget>>
      /\ UNCHANGED <<item_index, used>>
  BY DEF EachItem, Listing, ghosts
<1>2. /\ Shape(t, "each", loc[t]) /\ loc[t] \in Local /\ DataTypes /\ LockTypes
      /\ loc[t].op \in ObjectCalls \cup {"lock", "unlock", "unlockItem", "pamUnlock", "changePassword"}
  BY <1>1, ShapeNow, OpAt DEF Turning
<1>3. todo \in Seq(Items) /\ keyring \in KeyringState /\ bus \in [Items -> BusItem]
      /\ loc[t].target \in {"locked", "unlocked"} /\ keyring.secret \in Secrets
      /\ key \in AnyKey /\ cached \in AnyKey
  <2>1. todo \in Seq(Items) /\ keyring \in KeyringState /\ bus \in [Items -> BusItem]
        /\ loc[t].target \in {"locked", "unlocked"} /\ keyring.secret \in Secrets
    BY <1>2, LocalFields, KeyringWith DEF DataTypes
  <2>2. key \in AnyKey /\ cached \in AnyKey
    BY <2>1, KeyForType, KeyringWith DEF AnyKey
  <2> QED
    BY <2>1, <2>2
<1>9. \/ /\ keyring' = [keyring EXCEPT !.state = loc[t].target, !.cached = cached]
         /\ Continue(t) /\ UNCHANGED bus
      \/ /\ todo # <<>> /\ bus' = [bus EXCEPT ![Head(todo)] = turned]
         /\ keyring' = [keyring EXCEPT !.state = "none", !.items = {}] /\ End(t)
      \/ /\ todo # <<>> /\ bus' = [bus EXCEPT ![Head(todo)] = turned]
         /\ Goto(t, "each", l) /\ UNCHANGED <<keyring, lockVars>>
  BY DEF EachItem
<1> HIDE DEF key, cached
<1>4. ASSUME keyring' \in KeyringState, bus' \in [Items -> BusItem] PROVE DataTypes'
  BY <1>1, <1>2, <1>4 DEF DataTypes, ghosts
<1>5. CASE /\ keyring' = [keyring EXCEPT !.state = loc[t].target, !.cached = cached]
           /\ Continue(t) /\ UNCHANGED bus
  <2>1. DataTypes'
    BY <1>3, <1>4, <1>5, KeyringSet
  <2> QED
    BY <1>1, <1>5, <2>1, ContinueStep
<1>6. ASSUME todo # <<>>, bus' = [bus EXCEPT ![Head(todo)] = turned] PROVE bus' \in [Items -> BusItem]
  <2>1. Head(todo) \in Items
    BY <1>3, <1>6
  <2>2. turned \in BusItem
    BY <1>3, <2>1, TurnedType
  <2> HIDE DEF turned
  <2> QED
    BY <1>3, <1>6, <2>1, <2>2
<1>7. CASE /\ todo # <<>> /\ bus' = [bus EXCEPT ![Head(todo)] = turned]
           /\ keyring' = [keyring EXCEPT !.state = "none", !.items = {}] /\ End(t)
  <2>1. DataTypes'
    BY <1>3, <1>4, <1>6, <1>7, KeyringSet
  <2> QED
    BY <1>1, <1>7, <2>1, EndStep
<1>8. CASE /\ todo # <<>> /\ bus' = [bus EXCEPT ![Head(todo)] = turned]
           /\ Goto(t, "each", l) /\ UNCHANGED <<keyring, lockVars>>
  <2>1. DataTypes'
    BY <1>3, <1>4, <1>6, <1>8
  <2>2. l \in Local /\ l.op = loc[t].op /\ l.item = loc[t].item /\ l.after = loc[t].after
        /\ l.target = loc[t].target
    <3>1. Tail(todo) \in Seq(Items)
      BY <1>3, <1>8
    <3>2. l \in Local
      BY <1>2, <3>1, LocalWith
    <3> QED
      BY <1>2, <3>2, LocalFields
  <2> HIDE DEF l
  <2>3. Shape(t, "each", l)
    BY <1>2, <2>2 DEF Shape, Course, Direction, EntryOf, ItemCalls, ObjectCalls, Before, Keys, Turning,
                      Labels
  <2>4. Onward(t, "each", l) /\ pc'[t] = "each"
    BY <1>1, <1>8, <2>2, <2>3 DEF Onward, Goto, TypeInv, TypeOK
  <2>5. LockTypes' /\ LocksOf(t)
    BY <1>1, <1>2, <1>8, <2>4 DEF LockTypes, LocksOf, TypeInv, Held, Reading, Keys, lockVars
  <2> QED
    BY <1>1, <2>1, <2>4, <2>5, OnwardStep
<1> QED
  BY <1>5, <1>7, <1>8, <1>9

LEMMA ItemLockTypes == ASSUME TypeInv, NEW t \in Tasks, ItemLock(t) PROVE TypeInv'
<1> DEFINE label == IF service = t THEN "prompt" ELSE "take"
<1>1. /\ pc[t] = "itemLock" /\ pc[t] \notin Holding \cup Listing /\ CanRead
      /\ UNCHANGED <<busVars, fileVars, budget>> /\ UNCHANGED item_index
  BY DEF ItemLock, Holding, Reading, Keys, Listing, busVars
<1>2. /\ Shape(t, "itemLock", loc[t]) /\ loc[t] \in Local /\ DataTypes /\ LockTypes
      /\ loc[t].op \in {"lockItem", "unlockItem"} /\ loc[t].item \in Items
  <2>1. /\ Shape(t, "itemLock", loc[t]) /\ loc[t] \in Local /\ DataTypes /\ LockTypes
        /\ loc[t].op \in {"lockItem", "unlockItem"}
    BY <1>1, ShapeNow, OpAt
  <2> QED
    BY <2>1 DEF Shape, ItemCalls
<1>3. ASSUME UNCHANGED ghosts PROVE DataTypes' /\ UNCHANGED used
  BY <1>1, <1>2, <1>3, DataStays DEF DataTypes, ghosts
<1>4. CASE GetKey(t, "turn", loc[t])
  <2>1. "turn" \in StepsFor(loc[t].op)
    BY <1>2 DEF StepsFor
  <2> QED
    BY <1>1, <1>4, <2>1, GetKeyStep
<1>5. CASE End(t) /\ UNCHANGED ghosts
  BY <1>1, <1>3, <1>5, EndStep
<1>6. CASE /\ loc[t].target = "unlocked" /\ Goto(t, label, loc[t]) /\ service' = Free(service, t)
           /\ UNCHANGED <<writer, readers, dumping, itemsHolder, ghosts>>
  <2>1. loc[t].op = "unlockItem"
    BY <1>2, <1>6 DEF Shape, Direction
  <2>2. Shape(t, label, loc[t])
    BY <1>2, <1>6, <2>1 DEF Shape, Course, Direction, EntryOf, ItemCalls, ObjectCalls, Before,
                            Keys, Turning, Labels
  <2>3. label \notin Holding /\ label # "number"
    BY DEF Holding, Reading, Keys
  <2> HIDE DEF label
  <2>4. DataTypes' /\ SameLocks /\ service' \in Tasks \cup {NoTask} /\ UNCHANGED used
    BY <1>2, <1>3, <1>6 DEF SameLocks, LockTypes, Free
  <2>5. Onward(t, label, loc[t])
    BY <1>1, <1>6, <2>2, <2>3 DEF Onward
  <2> QED
    BY <1>1, <2>3, <2>4, <2>5, QuietStep
<1> QED
  BY <1>4, <1>5, <1>6 DEF ItemLock

LEMMA TurnItemTypes == ASSUME TypeInv, NEW t \in Tasks, TurnItem(t) PROVE TypeInv'
<1> DEFINE turned == Turned(loc[t].item, loc[t].target, loc[t].key)
<1>1. /\ pc[t] = "turn" /\ End(t) /\ bus' = [bus EXCEPT ![loc[t].item] = turned]
      /\ UNCHANGED <<items, served, item_index, registered, fileVars, ghosts, budget>>
      /\ UNCHANGED <<item_index, used>>
  BY DEF TurnItem, ghosts
<1>2. DataTypes /\ loc[t].item \in Items /\ loc[t].key \in AnyKey
  <2>1. Shape(t, "turn", loc[t]) /\ loc[t] \in Local /\ DataTypes
        /\ loc[t].op \in {"lockItem", "unlockItem"}
    BY <1>1, ShapeNow, OpAt
  <2> QED
    BY <2>1, LocalFields DEF Shape, ItemCalls
<1>3. turned \in BusItem
  BY <1>2, TurnedType DEF DataTypes
<1> HIDE DEF turned
<1>4. DataTypes'
  BY <1>1, <1>2, <1>3 DEF DataTypes, fileVars, ghosts
<1> QED
  BY <1>1, <1>4, EndStep

-----------------------------------------------------------------------------
(* Steps that start a call, give a number, or change the list *)

LEMMA MoreNumbered ==
  ASSUME TypeInv, used' \subseteq Items, Numbered \subseteq Numbered', item_index' = item_index,
         \A u \in Tasks : pc'[u] = "number" =>
           loc'[u].n <= Cardinality(Numbered) + 1 /\ loc'[u].n \in Nat
  PROVE  Counted'
<1>1. Numbered' \in SUBSET Items /\ Numbered \in SUBSET Items /\ IsFiniteSet(Items)
  BY CollectionAssumption DEF Numbered, TypeInv, TypeOK
<1>2. /\ Cardinality(Numbered) <= Cardinality(Numbered')
      /\ Cardinality(Numbered) \in Nat /\ Cardinality(Numbered') \in Nat
  <2>1. IsFiniteSet(Numbered') /\ IsFiniteSet(Numbered)
    BY <1>1, FS_Subset
  <2> QED
    BY <1>1, <2>1, FS_Subset, FS_CardinalityType
<1>3. item_index \in Nat
  BY Sized DEF TypeInv, TypeOK
<1> QED
  BY <1>2, <1>3 DEF Counted, TypeInv

LEMMA CallTypes == ASSUME TypeInv, NEW t \in Tasks, Call(t) PROVE TypeInv'
<1>1. PICK op \in OpsOf[t], i \in Items \cup {NoItem} :
        /\ Callable(op, i)
        /\ Goto(t, IF op \in ObjectCalls THEN "check" ELSE "service",
                [Blank EXCEPT !.op = op, !.item = i])
        /\ used' = IF op = "create" THEN used \cup {i} ELSE used
  BY DEF Call
<1> DEFINE label == IF op \in ObjectCalls THEN "check" ELSE "service"
           l == [Blank EXCEPT !.op = op, !.item = i]
<1>2. /\ pc[t] = "idle" /\ Spend("call") /\ UNCHANGED <<lockVars, busVars, fileVars, deleted, late, beside>>
      /\ loc[t] = Blank /\ DataTypes /\ LockTypes /\ NoTask \notin Tasks
  BY ShapeNow DEF Call, Shape
<1>3. op \in Op \ {"setAttributes"} /\ NoItem \notin Items
  BY <1>1, CollectionAssumption DEF Callable
<1>4. /\ op \in ItemCalls => i \in Items
      /\ op = "create" => i \in Items \ used
  <2>1. /\ op = "create" => i \in Items \ used
        /\ op = "deleteItem" => i # NoItem
        /\ op \in {"lockItem", "unlockItem"} => i \in Listed
    BY <1>1 DEF Callable
  <2>2. Listed \subseteq Items
    BY <1>2 DEF Listed, DataTypes
  <2> QED
    BY <2>1, <2>2 DEF ItemCalls
<1>5. Shape(t, label, l) /\ l \in Local /\ l.op = op /\ l.item = i
  <2>1. Blank \in Local
    BY BlankShape DEF TypeInv, Shape
  <2>2. l \in Local
    BY <1>3, <2>1 DEF Local
  <2>3. l.op = op /\ l.item = i /\ l.target = "locked" /\ l.after = "idle"
    BY DEF Blank
  <2> HIDE DEF l
  <2> QED
    BY <1>3, <1>4, <2>2, <2>3
    DEF Shape, Course, Direction, EntryOf, StepsFor, ItemCalls, ObjectCalls, Before, Keys, Turning,
        Labels, Op
<1>6. Goto(t, label, l) /\ label \in {"check", "service"}
  BY <1>1
<1> HIDE DEF label, l
<1>7. /\ pc' \in [Tasks -> Labels] /\ loc' \in [Tasks -> Local] /\ pc'[t] = label /\ loc'[t] = l
      /\ \A u \in Tasks \ {t} : pc'[u] = pc[u] /\ loc'[u] = loc[u]
  BY <1>5, <1>6 DEF Goto, TypeInv, TypeOK, Shape
<1>8. Shapes'
  BY <1>5, <1>7 DEF Shapes, TypeInv
<1>9. Held'
  <2>1. \A u \in Tasks : pc'[u] # pc[u] => u = t
    BY <1>7
  <2> QED
    BY <1>2, <1>6, <1>7, <2>1 DEF Held, TypeInv, lockVars, Reading, Keys
<1>10. used' \subseteq Items /\ used \subseteq used'
  BY <1>1, <1>2, <1>4 DEF DataTypes
<1>11. Distinct'
  <2>1. loc[t].op = "none"
    BY <1>2 DEF Blank
  <2> QED
    BY <1>1, <1>4, <1>5, <1>7, <1>10, <2>1 DEF Distinct, Creates, TypeInv
<1>12. Counted'
  <2>1. Numbered \subseteq Numbered'
    <3> SUFFICES ASSUME NEW x \in Numbered, NEW u \in Tasks, Unnumbered(u)', loc'[u].item = x PROVE FALSE
      BY <1>10 DEF Numbered
    <3>1. CASE u = t
      BY <1>4, <1>5, <1>7, <3>1 DEF Numbered, Unnumbered, Creates
    <3>2. CASE u # t
      BY <1>7, <3>2 DEF Numbered, Unnumbered, Creates
    <3> QED
      BY <3>1, <3>2
  <2>2. \A u \in Tasks : pc'[u] = "number" => pc[u] = "number" /\ loc'[u].n = loc[u].n
    BY <1>6, <1>7
  <2>3. \A u \in Tasks : loc[u].n \in Nat
    BY Sized, LocalFields DEF TypeInv, TypeOK
  <2> QED
    BY <1>2, <1>10, <2>1, <2>2, <2>3, MoreNumbered DEF busVars, TypeInv, Counted
<1>13. TypeOK'
  <2>1. budget' \in [{"call", "fault"} -> Nat]
    BY <1>2, SpendBudget DEF DataTypes
  <2>2. DataTypes' /\ LockTypes'
    BY <1>2, <1>10, <2>1 DEF DataTypes, LockTypes, busVars, fileVars, lockVars
  <2>3. item_index' \in 0 .. Cardinality(Items) + 1
    BY <1>2 DEF busVars, TypeInv, TypeOK
  <2> QED
    BY <1>7, <2>2, <2>3, TypePartsAfter
<1> QED
  BY <1>8, <1>9, <1>11, <1>12, <1>13 DEF TypeInv

LEMMA SetAttributesTypes == ASSUME TypeInv, NEW t \in Tasks, SetAttributes(t) PROVE TypeInv'
<1>1. PICK p \in Paths, attrs \in Attributes :
        served[p] # NoItem /\ bus' = [bus EXCEPT ![served[p]].attrs = attrs]
  BY DEF SetAttributes
<1>2. /\ Spend("call") /\ UNCHANGED <<pc, loc>> /\ DataTypes /\ LockTypes
      /\ UNCHANGED <<lockVars, fileVars, items, served, item_index, registered, ghosts>>
  BY TypeParts DEF SetAttributes, TypeInv
<1>3. budget' \in [{"call", "fault"} -> Nat]
  BY <1>2, SpendBudget DEF DataTypes
<1>4. bus' \in [Items -> BusItem]
  <2>1. served[p] \in Items /\ bus[served[p]] \in BusItem
    BY <1>1, <1>2 DEF DataTypes
  <2>2. [bus[served[p]] EXCEPT !.attrs = attrs] \in BusItem
    BY <2>1 DEF BusItem
  <2> QED
    BY <1>1, <1>2, <2>2 DEF DataTypes
<1>5. DataTypes' /\ LockTypes'
  BY <1>2, <1>3, <1>4 DEF DataTypes, LockTypes, lockVars, fileVars, ghosts
<1>6. TypeOK'
  BY <1>2, <1>5, TypePartsAfter DEF TypeInv, TypeOK
<1>7. Shapes' /\ Held' /\ Distinct'
  BY <1>2 DEF TypeInv, Shapes, Held, Distinct, Creates, lockVars, ghosts
<1>8. Counted'
  <2>1. Numbered' = Numbered
    BY <1>2 DEF Numbered, Unnumbered, Creates, ghosts
  <2> QED
    BY <1>2, <2>1 DEF Counted, TypeInv
<1> QED
  BY <1>6, <1>7, <1>8 DEF TypeInv

\* The item that a call is creating is no numbered one.
LEMMA OwnItem ==
  ASSUME TypeInv, NEW t \in Tasks, Unnumbered(t)
  PROVE  /\ loc[t].item \in used \ Numbered /\ Cardinality(Numbered) + 1 <= Cardinality(Items)
         /\ Cardinality(Numbered) \in Nat /\ IsFiniteSet(Numbered)
<1>1. loc[t].item \in used /\ loc[t].item \notin Numbered /\ used \subseteq Items
  BY DEF TypeInv, TypeOK, Distinct, Unnumbered, Numbered
<1>2. IsFiniteSet(Numbered) /\ Cardinality(Numbered) \in Nat
  BY <1>1, NumberedType
<1>3. Numbered \cup {loc[t].item} \in SUBSET Items
  BY <1>1 DEF Numbered
<1>4. Cardinality(Numbered \cup {loc[t].item}) = Cardinality(Numbered) + 1
  BY <1>1, <1>2, FS_AddElement
<1> QED
  BY <1>1, <1>2, <1>3, <1>4, CollectionAssumption, FS_Subset

LEMMA ReadIndexTypes == ASSUME TypeInv, NEW t \in Tasks, ReadIndex(t) PROVE TypeInv'
<1> DEFINE l == [loc[t] EXCEPT !.n = item_index]
<1>1. /\ pc[t] = "index" /\ Goto(t, "number", l)
      /\ UNCHANGED <<lockVars, busVars, fileVars, ghosts, budget>>
      /\ UNCHANGED <<item_index, used>>
  BY DEF ReadIndex, busVars, ghosts
<1>2. /\ Shape(t, "index", loc[t]) /\ loc[t] \in Local /\ loc[t].op = "create"
      /\ DataTypes /\ LockTypes
  BY <1>1, ShapeNow, OpAt
<1>3. /\ item_index \in Nat /\ item_index <= Cardinality(Numbered) + 1 /\ item_index \in Paths
      /\ Unnumbered(t)
  <2>1. Unnumbered(t)
    BY <1>1, <1>2 DEF Unnumbered, Creates
  <2>2. item_index \in Nat /\ item_index <= Cardinality(Numbered) + 1
    BY Sized DEF TypeInv, TypeOK, Counted
  <2> QED
    BY <2>1, <2>2, OwnItem, Sized DEF Paths
<1>4. /\ l \in Local /\ l.op = loc[t].op /\ l.item = loc[t].item /\ l.after = loc[t].after
      /\ l.target = loc[t].target /\ l.n = item_index /\ l.attrs = loc[t].attrs
  <2>1. l \in Local
    BY <1>2, <1>3, LocalWith
  <2>2. /\ l.op = loc[t].op /\ l.item = loc[t].item /\ l.after = loc[t].after
        /\ l.target = loc[t].target /\ l.n = item_index /\ l.attrs = loc[t].attrs
    BY <1>2, LocalFields
  <2> QED
    BY <2>1, <2>2
<1> HIDE DEF l
<1>5. Shape(t, "number", l)
  BY <1>2, <1>4 DEF Shape, Course, Direction, EntryOf, ItemCalls, ObjectCalls, Before, Keys, Turning,
                    Labels
<1>6. /\ pc' \in [Tasks -> Labels] /\ loc' \in [Tasks -> Local] /\ pc'[t] = "number" /\ loc'[t] = l
      /\ \A u \in Tasks \ {t} : pc'[u] = pc[u] /\ loc'[u] = loc[u]
  BY <1>1, <1>5 DEF Goto, TypeInv, TypeOK, Shape
<1>7. Shapes'
  BY <1>5, <1>6 DEF Shapes, TypeInv
<1>8. Held'
  <2>1. \A u \in Tasks : pc'[u] # pc[u] => u = t
    BY <1>6
  <2> QED
    BY <1>1, <1>6, <2>1 DEF Held, TypeInv, lockVars, Reading, Keys
<1>9. Distinct'
  <2>1. \A u \in Tasks : loc'[u].op = loc[u].op /\ loc'[u].item = loc[u].item
    BY <1>4, <1>6
  <2> QED
    BY <1>1, <2>1 DEF Distinct, Creates, TypeInv
<1>10. Counted'
  <2>1. \A u \in Tasks : Unnumbered(u)' => Unnumbered(u) /\ loc'[u].item = loc[u].item
    BY <1>3, <1>4, <1>6 DEF Unnumbered, Creates
  <2>2. Numbered \subseteq Numbered'
    BY <1>1, <2>1 DEF Numbered
  <2>3. \A u \in Tasks : loc[u].n \in Nat
    BY Sized, LocalFields DEF TypeInv, TypeOK
  <2>4. \A u \in Tasks : pc'[u] = "number" => loc'[u].n <= Cardinality(Numbered) + 1 /\ loc'[u].n \in Nat
    BY <1>3, <1>4, <1>6, <2>3 DEF Counted, TypeInv
  <2> QED
    BY <1>1, <1>2, <2>2, <2>4, MoreNumbered DEF DataTypes
<1>11. TypeOK'
  <2>1. DataTypes' /\ LockTypes'
    BY <1>1, <1>2, DataStays DEF DataTypes, LockTypes, lockVars
  <2> QED
    BY <1>1, <1>6, <2>1, TypePartsAfter DEF TypeInv, TypeOK
<1> QED
  BY <1>7, <1>8, <1>9, <1>10, <1>11 DEF TypeInv

LEMMA NumberTypes == ASSUME TypeInv, NEW t \in Tasks, Number(t) PROVE TypeInv'
<1> DEFINE i == loc[t].item
           n == loc[t].n
           label == IF loc[t].replace THEN "search" ELSE "push"
           entry == [path |-> n, lock |-> "unlocked", attrs |-> loc[t].attrs, key |-> NoKey]
<1>1. /\ pc[t] = "number" /\ Goto(t, label, loc[t]) /\ item_index' = n + 1
      /\ bus' = [bus EXCEPT ![i] = entry]
      /\ UNCHANGED <<lockVars, items, served, registered, fileVars, ghosts, budget>>
  BY DEF Number
<1>2. /\ Shape(t, "number", loc[t]) /\ loc[t] \in Local /\ loc[t].op = "create"
      /\ DataTypes /\ LockTypes
  BY <1>1, ShapeNow, OpAt
<1>3. Shape(t, label, loc[t]) /\ label \in Listing /\ label \notin {"purge", "serve"}
  BY <1>2 DEF Shape, Course, Direction, EntryOf, ItemCalls, ObjectCalls, Before, Keys, Turning, Labels,
              Listing
<1> HIDE DEF label
<1>4. /\ pc' \in [Tasks -> Labels] /\ loc' = loc /\ pc'[t] = label
      /\ \A u \in Tasks \ {t} : pc'[u] = pc[u]
  <2>1. loc' = loc
    BY <1>1 DEF Goto, TypeInv, TypeOK
  <2> QED
    BY <1>1, <1>3, <2>1 DEF Goto, TypeInv, TypeOK, Shape
<1>5. Shapes'
  BY <1>3, <1>4 DEF Shapes, TypeInv
<1>6. Held'
  <2>1. \A u \in Tasks : pc'[u] # pc[u] => u = t
    BY <1>4
  <2> QED
    BY <1>1, <1>3, <1>4, <2>1 DEF Held, TypeInv, lockVars, Reading, Keys, Listing
<1>7. Distinct'
  BY <1>1, <1>4 DEF Distinct, Creates, TypeInv, ghosts
<1>8. /\ n \in Nat /\ n \in Paths /\ n <= Cardinality(Numbered) + 1 /\ Unnumbered(t)
  <2>1. n \in Paths
    BY <1>2, LocalFields
  <2>2. Unnumbered(t)
    BY <1>1, <1>2 DEF Unnumbered, Creates
  <2> QED
    BY <1>1, <2>1, <2>2, Sized DEF TypeInv, Counted
<1>9. /\ i \in used \ Numbered /\ Cardinality(Numbered) \in Nat /\ IsFiniteSet(Numbered)
  BY <1>8, OwnItem
<1>10. Numbered' = Numbered \cup {i}
  <2>1. \A u \in Tasks : Unnumbered(u)' <=> Unnumbered(u) /\ u # t
    BY <1>3, <1>4 DEF Unnumbered, Creates, Listing
  <2>2. \A u \in Tasks : Unnumbered(u) /\ u # t => loc[u].item # i
    BY <1>2 DEF Unnumbered, Distinct, Creates, TypeInv
  <2>3. used' = used
    BY <1>1 DEF ghosts
  <2> QED
    BY <1>4, <1>8, <1>9, <2>1, <2>2, <2>3 DEF Numbered
<1>11. Cardinality(Numbered') = Cardinality(Numbered) + 1
  BY <1>9, <1>10, FS_AddElement
<1>12. Counted'
  <2>1. \A u \in Tasks : pc'[u] = "number" => pc[u] = "number" /\ loc[u].n \in Nat
    <3>1. \A u \in Tasks : loc[u].n \in Nat
      BY Sized, LocalFields DEF TypeInv, TypeOK
    <3> QED
      BY <1>3, <1>4, <3>1 DEF Listing
  <2>2. \A u \in Tasks : pc'[u] = "number" => loc'[u].n <= Cardinality(Numbered') + 1
    BY <1>4, <1>9, <1>11, <2>1 DEF Counted, TypeInv
  <2>3. item_index' <= Cardinality(Numbered') + 1
    BY <1>1, <1>8, <1>9, <1>11
  <2> QED
    BY <2>2, <2>3 DEF Counted
<1>13. TypeOK'
  <2>1. item_index' \in 0 .. Cardinality(Items) + 1
    BY <1>1, <1>8, Sized DEF Paths
  <2>2. bus' \in [Items -> BusItem]
    <3>1. loc[t].attrs \in Attributes /\ NoKey \in AnyKey
      BY <1>2, LocalFields DEF Shape, AnyKey
    <3>2. entry \in BusItem
      BY <1>2, <1>8, <3>1 DEF BusItem
    <3> HIDE DEF entry
    <3> QED
      BY <1>1, <1>2, <3>2 DEF DataTypes
  <2>3. DataTypes' /\ LockTypes'
    BY <1>1, <1>2, <2>2 DEF DataTypes, LockTypes, lockVars, fileVars, ghosts
  <2> QED
    BY <1>4, <2>1, <2>3, TypePartsAfter DEF TypeInv, TypeOK
<1> QED
  BY <1>5, <1>6, <1>7, <1>12, <1>13 DEF TypeInv

LEMMA PathOf ==
  ASSUME TypeInv, NEW i \in Items
  PROVE  bus[i] \in BusItem /\ bus[i].path \in Paths
BY DEF TypeInv, TypeOK, BusItem

LEMMA PurgeTypes == ASSUME TypeInv, NEW t \in Tasks, Purge(t) PROVE TypeInv'
<1> DEFINE todo == loc[t].todo
           path == bus[Head(todo)].path
           l == [loc[t] EXCEPT !.todo = Tail(todo)]
           label == IF Len(todo) = 1 THEN "push" ELSE "purge"
<1>1. /\ pc[t] = "purge" /\ itemsHolder \in {NoTask, t} /\ items' = Without(path)
      /\ UNCHANGED <<bus, item_index, registered, fileVars, ghosts, budget>>
      /\ UNCHANGED <<item_index, used>>
  BY DEF Purge, ghosts
<1>2. /\ Shape(t, "purge", loc[t]) /\ loc[t] \in Local /\ loc[t].op = "create"
      /\ DataTypes /\ LockTypes /\ NoTask \notin Tasks
  BY <1>1, ShapeNow, OpAt DEF Listing
<1>3. todo \in Seq(Items) /\ todo # <<>> /\ Head(todo) \in Items /\ Tail(todo) \in Seq(Items)
      /\ (Len(todo) # 1 => Tail(todo) # <<>>)
  <2>1. todo \in Seq(Items) /\ todo # <<>>
    BY <1>2, LocalFields DEF Shape
  <2> HIDE DEF todo
  <2> QED
    BY <2>1, HeadTail
<1>4. path \in Paths
  BY <1>3, PathOf
<1>5. items' \in Seq(Items)
  BY <1>1, <1>2, KeptElements DEF Without, DataTypes
<1>6. ASSUME served' \in [Paths -> Items \cup {NoItem}] PROVE DataTypes'
  BY <1>1, <1>2, <1>5, <1>6 DEF DataTypes, fileVars, ghosts
<1> HIDE DEF path
<1>7. CASE End(t) /\ UNCHANGED served
  BY <1>1, <1>2, <1>6, <1>7, EndStep DEF DataTypes
<1>8. CASE /\ served' = [served EXCEPT ![path] = NoItem]
           /\ Goto(t, label, l)
           /\ itemsHolder' = IF Len(todo) = 1 THEN NoTask ELSE t
           /\ UNCHANGED <<writer, readers, dumping, service>>
  <2>1. DataTypes'
    BY <1>2, <1>4, <1>6, <1>8 DEF DataTypes
  <2>2. /\ l \in Local /\ l.op = loc[t].op /\ l.item = loc[t].item /\ l.after = loc[t].after
        /\ l.target = loc[t].target /\ l.todo = Tail(todo)
    <3>1. l \in Local
      BY <1>2, <1>3, LocalWith
    <3>2. /\ l.op = loc[t].op /\ l.item = loc[t].item /\ l.after = loc[t].after
          /\ l.target = loc[t].target /\ l.todo = Tail(todo)
      BY <1>2, LocalFields
    <3> QED
      BY <3>1, <3>2
  <2> HIDE DEF l
  <2>3. Shape(t, label, l) /\ label \in {"push", "purge"} /\ label \in Listing
    BY <1>2, <1>3, <2>2 DEF Shape, Course, Direction, EntryOf, ItemCalls, ObjectCalls, Before,
                            Keys, Turning,
                            Labels, Listing
  <2>4. Onward(t, label, l) /\ pc'[t] = label
    BY <1>2, <1>8, <2>2, <2>3 DEF Onward, Goto, TypeInv, TypeOK
  <2>5. LockTypes' /\ LocksOf(t)
    BY <1>1, <1>2, <1>8, <2>4 DEF LockTypes, LocksOf, TypeInv, Held, Reading, Keys
  <2> QED
    BY <1>1, <2>1, <2>4, <2>5, OnwardStep
<1> QED
  BY <1>7, <1>8 DEF Purge, path

LEMMA PushTypes == ASSUME TypeInv, NEW t \in Tasks, Push(t) PROVE TypeInv'
<1>1. /\ pc[t] = "push" /\ items' = Append(items, loc[t].item) /\ Goto(t, "serve", loc[t])
      /\ late' \in {late, late \cup {loc[t].item}}
      /\ UNCHANGED <<lockVars, bus, served, item_index, registered, fileVars, used, deleted, beside,
                     budget>>
      /\ UNCHANGED <<item_index, used>> /\ pc[t] \notin Holding
  BY DEF Push, Holding, Reading, Keys
<1>2. /\ Shape(t, "push", loc[t]) /\ loc[t].op = "create" /\ DataTypes /\ LockTypes
  BY <1>1, ShapeNow, OpAt DEF Listing
<1>3. loc[t].item \in Items
  BY <1>2 DEF Shape, ItemCalls
<1>4. DataTypes'
  BY <1>1, <1>2, <1>3 DEF DataTypes, fileVars
<1>5. Shape(t, "serve", loc[t])
  BY <1>2 DEF Shape, Course, Direction, EntryOf, ItemCalls, ObjectCalls, Before, Keys, Turning, Labels
<1>6. Onward(t, "serve", loc[t])
  BY <1>1, <1>5 DEF Onward, Listing
<1>7. SameLocks /\ service' \in Tasks \cup {NoTask} /\ "serve" \notin Holding
  BY <1>1, <1>2 DEF SameLocks, lockVars, LockTypes, Holding, Reading, Keys
<1> QED
  BY <1>1, <1>4, <1>6, <1>7, QuietStep

LEMMA ServeTypes == ASSUME TypeInv, NEW t \in Tasks, Serve(t) PROVE TypeInv'
<1>1. /\ pc[t] = "serve" /\ End(t)
      /\ UNCHANGED <<items, bus, item_index, registered, fileVars, ghosts, budget>>
      /\ UNCHANGED <<item_index, used>>
      /\ served' = IF served[bus[loc[t].item].path] = NoItem
                     THEN [served EXCEPT ![bus[loc[t].item].path] = loc[t].item] ELSE served
  BY DEF Serve, ghosts
<1>2. /\ Shape(t, "serve", loc[t]) /\ loc[t].op = "create" /\ DataTypes
  BY <1>1, ShapeNow, OpAt DEF Listing
<1>3. loc[t].item \in Items /\ bus[loc[t].item].path \in Paths
  <2>1. loc[t].item \in Items
    BY <1>2 DEF Shape, ItemCalls
  <2> QED
    BY <2>1, PathOf
<1>4. DataTypes'
  BY <1>1, <1>2, <1>3 DEF DataTypes, fileVars, ghosts
<1> QED
  BY <1>1, <1>4, EndStep

LEMMA RetainTypes == ASSUME TypeInv, NEW t \in Tasks, Retain(t) PROVE TypeInv'
<1>1. /\ pc[t] = "retain" /\ pc[t] \notin Listing /\ Goto(t, "unserve", loc[t])
      /\ items' = Without(bus[loc[t].item].path) /\ readers' = readers \ {t}
      /\ deleted' = deleted \cup {loc[t].item}
      /\ UNCHANGED <<writer, dumping, itemsHolder, service, bus, served, item_index, registered,
                     fileVars, used, late, beside, budget>>
  BY DEF Retain, Listing
<1>2. /\ Shape(t, "retain", loc[t]) /\ loc[t].op = "deleteItem" /\ DataTypes /\ LockTypes
      /\ NoTask \notin Tasks
  BY <1>1, ShapeNow, OpAt
<1>3. loc[t].item \in Items
  BY <1>2 DEF Shape, ItemCalls
<1>4. items' \in Seq(Items)
  BY <1>1, <1>2, KeptElements DEF Without, DataTypes
<1>5. DataTypes'
  BY <1>1, <1>2, <1>3, <1>4 DEF DataTypes, fileVars
<1>6. Shape(t, "unserve", loc[t])
  BY <1>2 DEF Shape, Course, Direction, EntryOf, ItemCalls, ObjectCalls, Before, Keys, Turning, Labels
<1>7. Onward(t, "unserve", loc[t]) /\ pc'[t] = "unserve"
  BY <1>1, <1>6 DEF Onward, Goto, TypeInv, TypeOK
<1>8. LockTypes' /\ LocksOf(t)
  BY <1>1, <1>2, <1>7 DEF LockTypes, LocksOf, TypeInv, Held, Reading, Keys
<1> QED
  BY <1>1, <1>5, <1>7, <1>8, OnwardStep

LEMMA UnserveTypes == ASSUME TypeInv, NEW t \in Tasks, Unserve(t) PROVE TypeInv'
<1>1. /\ pc[t] = "unserve" /\ End(t)
      /\ served' = [served EXCEPT ![bus[loc[t].item].path] = NoItem]
      /\ UNCHANGED <<items, bus, item_index, registered, fileVars, ghosts, budget>>
      /\ UNCHANGED <<item_index, used>>
  BY DEF Unserve, ghosts
<1>2. DataTypes
  BY ShapeNow
<1>3. DataTypes'
  BY <1>1, <1>2 DEF DataTypes, fileVars, ghosts
<1> QED
  BY <1>1, <1>3, EndStep

LEMMA UnserveAllTypes == ASSUME TypeInv, NEW t \in Tasks, UnserveAll(t) PROVE TypeInv'
<1> DEFINE label == IF Persistent THEN "removeFile" ELSE "unregister"
<1>1. /\ pc[t] = "unserveAll" /\ pc[t] \notin Holding \cup Listing
      /\ UNCHANGED <<items, bus, item_index, registered, fileVars, ghosts, budget>>
      /\ UNCHANGED <<item_index, used>>
      /\ \E S : served' = [p \in Paths |-> IF p \in S THEN NoItem ELSE served[p]]
      /\ \/ End(t)
         \/ Goto(t, label, loc[t]) /\ UNCHANGED lockVars
  BY DEF UnserveAll, ghosts, Holding, Reading, Keys, Listing
<1>2. /\ Shape(t, "unserveAll", loc[t]) /\ loc[t].op = "deleteCollection" /\ DataTypes /\ LockTypes
  BY <1>1, ShapeNow, OpAt
<1>3. DataTypes'
  <2>1. served' \in [Paths -> Items \cup {NoItem}]
    BY <1>1, <1>2 DEF DataTypes
  <2> QED
    BY <1>1, <1>2, <2>1 DEF DataTypes, fileVars, ghosts
<1>4. CASE End(t)
  BY <1>1, <1>3, <1>4, EndStep
<1>5. CASE Goto(t, label, loc[t]) /\ UNCHANGED lockVars
  <2>1. Shape(t, label, loc[t]) /\ label \notin Holding /\ label # "number"
    BY <1>2 DEF Shape, Course, Direction, EntryOf, ItemCalls, ObjectCalls, Before, Keys, Turning,
                Labels, Holding, Reading
  <2> HIDE DEF label
  <2>2. Onward(t, label, loc[t])
    BY <1>1, <1>2, <1>5, <2>1 DEF Onward
  <2>3. SameLocks /\ service' \in Tasks \cup {NoTask}
    BY <1>2, <1>5 DEF SameLocks, lockVars, LockTypes
  <2> QED
    BY <1>1, <1>3, <2>1, <2>2, <2>3, QuietStep
<1> QED
  BY <1>1, <1>4, <1>5

LEMMA RemoveFileTypes == ASSUME TypeInv, NEW t \in Tasks, RemoveFile(t) PROVE TypeInv'
<1>1. /\ pc[t] = "removeFile" /\ pc[t] \notin Holding \cup Listing
      /\ UNCHANGED <<busVars, keyring, salts, ghosts, budget>> /\ UNCHANGED <<item_index, used>>
      /\ file' \in {file, NoFile}
      /\ \/ End(t)
         \/ Goto(t, "unregister", loc[t]) /\ UNCHANGED lockVars
  BY DEF RemoveFile, ghosts, busVars, Holding, Reading, Keys, Listing
<1>2. /\ Shape(t, "removeFile", loc[t]) /\ loc[t].op = "deleteCollection" /\ DataTypes /\ LockTypes
  BY <1>1, ShapeNow, OpAt
<1>3. DataTypes'
  BY <1>1, <1>2 DEF DataTypes, File, busVars, ghosts
<1>4. CASE End(t)
  BY <1>1, <1>3, <1>4, EndStep
<1>5. CASE Goto(t, "unregister", loc[t]) /\ UNCHANGED lockVars
  <2>1. Shape(t, "unregister", loc[t])
    BY <1>2 DEF Shape, Course, Direction, EntryOf, ItemCalls, ObjectCalls, Before, Keys, Turning, Labels
  <2>2. Onward(t, "unregister", loc[t])
    BY <1>1, <1>2, <1>5, <2>1 DEF Onward
  <2>3. SameLocks /\ service' \in Tasks \cup {NoTask} /\ "unregister" \notin Holding
    BY <1>2, <1>5 DEF SameLocks, lockVars, LockTypes, Holding, Reading, Keys
  <2> QED
    BY <1>1, <1>3, <2>2, <2>3, QuietStep
<1> QED
  BY <1>1, <1>4, <1>5

LEMMA UnregisterTypes == ASSUME TypeInv, NEW t \in Tasks, Unregister(t) PROVE TypeInv'
<1>1. /\ registered' = FALSE /\ End(t) /\ UNCHANGED <<items, bus, served, item_index, fileVars, ghosts, budget>>
      /\ UNCHANGED <<item_index, used>>
  BY DEF Unregister, ghosts
<1>2. DataTypes
  BY ShapeNow
<1>3. DataTypes'
  BY <1>1, <1>2 DEF DataTypes, fileVars, ghosts
<1> QED
  BY <1>1, <1>3, EndStep

-----------------------------------------------------------------------------
(* The types *)

LEMMA TypeStutter == ASSUME TypeInv, UNCHANGED vars PROVE TypeInv'
<1>1. UNCHANGED <<keyring, file, salts, items, bus, served, item_index, registered, writer, readers,
                  dumping, itemsHolder, service, pc, loc, used, deleted, late, beside, budget>>
  BY DEF vars
<1>2. TypeOK' /\ Shapes' /\ Held' /\ Distinct'
  BY <1>1 DEF TypeInv, TypeOK, Shapes, Held, Distinct, Creates
<1>3. Counted'
  <2>1. Numbered' = Numbered
    BY <1>1 DEF Numbered, Unnumbered, Creates
  <2> QED
    BY <1>1, <2>1 DEF Counted, TypeInv
<1> QED
  BY <1>2, <1>3 DEF TypeInv

LEMMA TypeTask ==
  ASSUME TypeInv, NEW t \in Tasks, Call(t) \/ SetAttributes(t) \/ Prompt(t) \/ Step(t)
  PROVE  TypeInv'
<1>1. CASE Call(t) \/ SetAttributes(t)
  BY <1>1, CallTypes, SetAttributesTypes
<1>2. CASE Prompt(t) \/ Check(t) \/ Validate(t)
  BY <1>2, PromptStill, CheckStill, ValidateStill, StillStep
<1>3. CASE Locking(t) \/ Keying(t)
  BY <1>3, TakeTypes, LockItemsTypes, EachItemTypes, ReadSecretTypes, DeriveKeyTypes, RenameTypes
  DEF Locking, Keying
<1>4. CASE Serving(t)
  <2>1. CASE LockService(t) \/ DecideCollection(t) \/ DecideItem(t) \/ Resolve(t)
    BY <2>1, LockServiceStill, DecideCollectionStill, DecideItemStill, ResolveStill, StillStep
  <2>2. CASE PamUnlock(t) \/ PamChange(t)
    BY <2>2, PamUnlockStill, PamChangeStill, StillStep
  <2>3. CASE ItemLock(t) \/ TurnItem(t)
    BY <2>3, ItemLockTypes, TurnItemTypes
  <2> QED
    BY <1>4, <2>1, <2>2, <2>3 DEF Serving
<1>5. CASE Changing(t)
  BY <1>5, StartChangeTypes, SnapshotTypes, NewSecretTypes, UnsetKeyTypes, ResetTypes, ReaddTypes
  DEF Changing
<1>6. CASE Creating(t)
  <2>1. CASE Search(t)
    BY <2>1, SearchStill, StillStep
  <2> QED
    BY <1>6, <2>1, CreateFileTypes, PutItemTypes, ReadIndexTypes, NumberTypes, PurgeTypes,
       PushTypes, ServeTypes DEF Creating
<1>7. CASE Deleting(t)
  <2>1. CASE Find(t) \/ ReadAttributes(t) \/ Recheck(t)
    BY <2>1, FindStill, ReadAttributesStill, RecheckStill, StillStep
  <2> QED
    BY <1>7, <2>1, DeleteFileTypes, RemoveItemsTypes, RetainTypes, UnserveTypes, UnserveAllTypes,
       RemoveFileTypes, UnregisterTypes DEF Deleting
<1> QED
  BY <1>1, <1>2, <1>3, <1>4, <1>5, <1>6, <1>7 DEF Step

LEMMA TypeNext == TypeInv /\ [Next]_vars => TypeInv'
<1> SUFFICES ASSUME TypeInv, [Next]_vars PROVE TypeInv'
  OBVIOUS
<1>1. CASE UNCHANGED vars
  BY <1>1, TypeStutter
<1>2. CASE Next
  BY <1>2, TypeTask, TypeStutter DEF Next, Quiet
<1> QED
  BY <1>1, <1>2

\* What Init says, with the list that the daemon serves.
Start(q, s, state, c, visible) ==
  LET under == [i \in Items |-> IF i \in Elements(q) \ Broken THEN <<s, 0>> ELSE NoKey]
  IN /\ q \in Seq(Items) /\ NoTwice(q) /\ state \in {"locked", "unlocked"} /\ s \in Secrets
     /\ c \in {NoKey, <<s, 0>>} /\ (c # NoKey => state = "unlocked")
     /\ visible \in Seq(Items) /\ NoTwice(visible)
     /\ Elements(visible) = IF state = "locked" THEN Elements(q) ELSE Elements(q) \ Broken
     /\ keyring = [state |-> state, items |-> Elements(q), under |-> under, secret |-> s,
                   salt |-> 0, cached |-> c, stamped |-> Persistent]
     /\ salts = 1
     /\ file = IF Persistent THEN [items |-> Elements(q), under |-> under, salt |-> 0] ELSE NoFile
     /\ items = visible /\ registered = TRUE /\ used = Elements(q)
     /\ item_index = IF Persistent THEN Len(visible) + 1 ELSE 0
     /\ served = [p \in Paths |-> IF p \in DOMAIN visible THEN visible[p] ELSE NoItem]
     /\ bus = [i \in Items |->
          [path |-> IF \E n \in DOMAIN visible : visible[n] = i
                      THEN CHOOSE n \in DOMAIN visible : visible[n] = i ELSE 0,
           lock |-> IF \E n \in DOMAIN visible : visible[n] = i THEN state ELSE "none",
           attrs |-> AttrsOf[i], key |-> under[i]]]
     /\ writer = NoTask /\ readers = {} /\ dumping = NoTask
     /\ itemsHolder = NoTask /\ service = NoTask
     /\ pc = [t \in Tasks |-> "idle"] /\ loc = [t \in Tasks |-> Blank]
     /\ deleted = {} /\ late = {} /\ beside = FALSE /\ budget = Budget

LEMMA InitParts ==
  ASSUME Init
  PROVE  \E q \in InitialItems, s \in Secrets, state \in StartStates, c \in AnyKey,
            visible \in Seq(Items) : Start(q, s, state, c, visible)
<1>1. PICK q \in InitialItems, s \in Secrets, state \in StartStates, cached \in BOOLEAN :
        LET elements == {q[n] : n \in DOMAIN q}
            kr == [state |-> state, items |-> elements,
                   under |-> [i \in Items |-> IF i \in elements \ Broken THEN <<s, 0>> ELSE NoKey],
                   secret |-> s, salt |-> 0,
                   cached |-> IF cached /\ state = "unlocked" THEN <<s, 0>> ELSE NoKey,
                   stamped |-> Persistent]
            visible == IF state = "locked" THEN q ELSE Kept(q, Items \ Broken)
            place(i) == CHOOSE n \in DOMAIN visible : visible[n] = i
        IN /\ state = "unlocked" => Accepts(kr, s)
           /\ keyring = kr
           /\ salts = 1
           /\ file = IF Persistent THEN [items |-> kr.items, under |-> kr.under, salt |-> 0]
                                   ELSE NoFile
           /\ items = visible
           /\ bus = [i \in Items |->
                [path |-> IF \E n \in DOMAIN visible : visible[n] = i THEN place(i) ELSE 0,
                 lock |-> IF \E n \in DOMAIN visible : visible[n] = i THEN state ELSE "none",
                 attrs |-> AttrsOf[i], key |-> kr.under[i]]]
           /\ served = [p \in Paths |-> IF p \in DOMAIN visible THEN visible[p] ELSE NoItem]
           /\ item_index = IF Persistent THEN Len(visible) + 1 ELSE 0
           /\ registered = TRUE
           /\ writer = NoTask /\ readers = {} /\ dumping = NoTask
           /\ itemsHolder = NoTask /\ service = NoTask
           /\ pc = [t \in Tasks |-> "idle"] /\ loc = [t \in Tasks |-> Blank]
           /\ used = kr.items /\ deleted = {} /\ late = {} /\ beside = FALSE
           /\ budget = Budget
  BY Zenon DEF Init
<1>2. /\ writer = NoTask /\ readers = {} /\ dumping = NoTask
      /\ itemsHolder = NoTask /\ service = NoTask
      /\ pc = [t \in Tasks |-> "idle"] /\ loc = [t \in Tasks |-> Blank]
      /\ deleted = {} /\ late = {} /\ beside = FALSE /\ budget = Budget /\ salts = 1
  BY <1>1
<1> DEFINE visible == IF state = "locked" THEN q ELSE Kept(q, Items \ Broken)
           c == IF cached /\ state = "unlocked" THEN <<s, 0>> ELSE NoKey
           under == [i \in Items |-> IF i \in Elements(q) \ Broken THEN <<s, 0>> ELSE NoKey]
<1>3. /\ q \in Seq(Items) /\ NoTwice(q) /\ state \in {"locked", "unlocked"}
      /\ c \in {NoKey, <<s, 0>>} /\ (c # NoKey => state = "unlocked") /\ c \in AnyKey
  BY CollectionAssumption DEF NoTwice, AnyKey, Key
<1>4. /\ visible \in Seq(Items) /\ NoTwice(visible)
      /\ Elements(visible) = IF state = "locked" THEN Elements(q) ELSE Elements(q) \ Broken
  <2>1. Elements(q) \subseteq Items
    BY <1>3 DEF Elements
  <2>2. /\ Kept(q, Items \ Broken) \in Seq(Items) /\ NoTwice(Kept(q, Items \ Broken))
        /\ Elements(Kept(q, Items \ Broken)) = Elements(q) \cap (Items \ Broken)
    BY <1>3, KeptElements
  <2> QED
    BY <1>3, <2>1, <2>2
<1>5. /\ keyring = [state |-> state, items |-> Elements(q), under |-> under, secret |-> s,
                    salt |-> 0, cached |-> c, stamped |-> Persistent]
      /\ file = IF Persistent THEN [items |-> Elements(q), under |-> under, salt |-> 0] ELSE NoFile
      /\ items = visible /\ registered = TRUE /\ used = Elements(q)
      /\ item_index = IF Persistent THEN Len(visible) + 1 ELSE 0
      /\ served = [p \in Paths |-> IF p \in DOMAIN visible THEN visible[p] ELSE NoItem]
      /\ bus = [i \in Items |->
           [path |-> IF \E n \in DOMAIN visible : visible[n] = i
                       THEN CHOOSE n \in DOMAIN visible : visible[n] = i ELSE 0,
            lock |-> IF \E n \in DOMAIN visible : visible[n] = i THEN state ELSE "none",
            attrs |-> AttrsOf[i], key |-> under[i]]]
  <2>1. Elements(q) = {q[n] : n \in DOMAIN q}
    BY DEF Elements
  <2> QED
    BY <1>1, <2>1
<1> HIDE DEF visible, c
<1>6. Start(q, s, state, c, visible)
  BY <1>2, <1>3, <1>4, <1>5 DEF Start
<1> QED
  BY <1>3, <1>4, <1>6

LEMMA TypeInit == Init => TypeInv
<1> SUFFICES ASSUME Init PROVE TypeInv
  OBVIOUS
<1>1. PICK q \in InitialItems, s \in Secrets, state \in StartStates, c \in AnyKey,
           visible \in Seq(Items) : Start(q, s, state, c, visible)
  BY InitParts
<1> DEFINE under == [i \in Items |-> IF i \in Elements(q) \ Broken THEN <<s, 0>> ELSE NoKey]
<1>2. /\ writer = NoTask /\ readers = {} /\ dumping = NoTask
      /\ itemsHolder = NoTask /\ service = NoTask
      /\ pc = [t \in Tasks |-> "idle"] /\ loc = [t \in Tasks |-> Blank]
      /\ deleted = {} /\ late = {} /\ beside = FALSE /\ budget = Budget /\ salts = 1
  BY <1>1 DEF Start
<1>3. /\ q \in Seq(Items) /\ NoTwice(q) /\ IsFiniteSet(Items) /\ NoTask \notin Tasks
      /\ state \in {"locked", "unlocked"} /\ Persistent \in BOOLEAN /\ Budget \in [{"call", "fault"} -> Nat]
  BY <1>1, CollectionAssumption DEF Start
<1>4. /\ visible \in Seq(Items) /\ NoTwice(visible) /\ Elements(visible) \subseteq Elements(q)
  BY <1>1 DEF Start
<1>5. /\ keyring = [state |-> state, items |-> Elements(q), under |-> under, secret |-> s,
                    salt |-> 0, cached |-> c, stamped |-> Persistent]
      /\ file = IF Persistent THEN [items |-> Elements(q), under |-> under, salt |-> 0] ELSE NoFile
      /\ items = visible /\ registered = TRUE /\ used = Elements(q)
      /\ item_index = IF Persistent THEN Len(visible) + 1 ELSE 0
      /\ served = [p \in Paths |-> IF p \in DOMAIN visible THEN visible[p] ELSE NoItem]
      /\ bus = [i \in Items |->
           [path |-> IF \E n \in DOMAIN visible : visible[n] = i
                       THEN CHOOSE n \in DOMAIN visible : visible[n] = i ELSE 0,
            lock |-> IF \E n \in DOMAIN visible : visible[n] = i THEN state ELSE "none",
            attrs |-> AttrsOf[i], key |-> under[i]]]
  BY <1>1 DEF Start
<1>6. /\ Len(visible) \in Nat /\ Len(visible) <= Cardinality(Elements(q))
      /\ Cardinality(Elements(q)) <= Cardinality(Items) /\ Cardinality(Elements(q)) \in Nat
      /\ DOMAIN visible = 1 .. Len(visible)
  <2>1. Elements(q) \in SUBSET Items
    BY <1>3 DEF Elements
  <2>2. IsFiniteSet(Elements(q))
    BY <1>3, <2>1, FS_Subset
  <2> QED
    BY <1>3, <1>4, <2>1, <2>2, FS_Subset, FS_CardinalityType, NoTwiceLength
<1>7. DataTypes /\ item_index \in 0 .. Cardinality(Items) + 1
  <2>1. Elements(q) \subseteq Items /\ under \in [Items -> AnyKey]
    BY <1>3 DEF Elements, Key, AnyKey
  <2> HIDE DEF under
  <2>2. keyring \in KeyringState /\ file \in File
    BY <1>3, <1>5, <2>1 DEF KeyringState, File
  <2>3. DOMAIN visible \subseteq Paths /\ 0 \in Paths
    BY <1>6, Sized DEF Paths
  <2>4. served \in [Paths -> Items \cup {NoItem}]
    <3>1. \A p \in DOMAIN visible : visible[p] \in Items
      BY <1>4
    <3> QED
      BY <1>5, <3>1
  <2>5. bus \in [Items -> BusItem]
    <3> SUFFICES ASSUME NEW i \in Items
                 PROVE  [path |-> IF \E n \in DOMAIN visible : visible[n] = i
                                    THEN CHOOSE n \in DOMAIN visible : visible[n] = i ELSE 0,
                         lock |-> IF \E n \in DOMAIN visible : visible[n] = i THEN state ELSE "none",
                         attrs |-> AttrsOf[i], key |-> under[i]] \in BusItem
      BY <1>5
    <3> DEFINE p == IF \E n \in DOMAIN visible : visible[n] = i
                      THEN CHOOSE n \in DOMAIN visible : visible[n] = i ELSE 0
               k == IF \E n \in DOMAIN visible : visible[n] = i THEN state ELSE "none"
    <3>1. p \in Paths
      BY <2>3
    <3>2. k \in {"none", "locked", "unlocked"} /\ AttrsOf[i] \in Attributes
      BY <1>3 DEF Attributes
    <3> HIDE DEF p, k
    <3>3. [path |-> p, lock |-> k, attrs |-> AttrsOf[i], key |-> under[i]] \in BusItem
      BY <2>1, <3>1, <3>2 DEF BusItem
    <3> QED
      BY <3>3 DEF p, k
  <2>6. item_index \in 0 .. Cardinality(Items) + 1
    BY <1>3, <1>5, <1>6, Sized
  <2> QED
    BY <1>2, <1>3, <1>4, <1>5, <2>1, <2>2, <2>4, <2>5, <2>6 DEF DataTypes
<1>8. TypeOK
  <2>1. LockTypes
    BY <1>2 DEF LockTypes
  <2>2. pc \in [Tasks -> Labels] /\ loc \in [Tasks -> Local]
    BY <1>2, BlankShape DEF Shape
  <2> QED
    BY <1>7, <2>1, <2>2, TypeParts
<1>9. Shapes /\ Held
  <2>1. Shape(0, "idle", Blank) /\ \A t \in Tasks : Shape(t, "idle", Blank)
    BY BlankShape
  <2>2. Shapes
    BY <1>2, <2>1 DEF Shapes, Shape
  <2>3. Held
    BY <1>2, <1>3 DEF Held, Reading, Keys
  <2> QED
    BY <2>2, <2>3
<1>10. Distinct /\ Counted
  <2>1. \A t \in Tasks : ~Creates(t) /\ pc[t] # "number"
    BY <1>2, BlankShape DEF Creates
  <2>2. Numbered = used
    BY <2>1 DEF Numbered, Unnumbered
  <2>3. item_index <= Cardinality(Numbered) + 1
    BY <1>3, <1>5, <1>6, <2>2
  <2> QED
    BY <2>1, <2>3 DEF Distinct, Counted
<1> QED
  BY <1>8, <1>9, <1>10 DEF TypeInv

\* Every variable keeps its type: whatever the calls do, in whatever order, no number
\* runs out of the paths, no list holds anything but items, and each lock has its task.
THEOREM CollectionTypes == Spec => []TypeOK
<1>1. TypeInv => TypeOK
  BY DEF TypeInv
<1> QED
  BY <1>1, TypeInit, TypeNext, PTL DEF Spec

-----------------------------------------------------------------------------
(* What follows what, and what a step leaves alone *)

Unlocks == {"file", "find", "recheck", "change"}

\* The labels that a call may go on to.
Follows(a, b) ==
  /\ a = "check" => b \in {"prompt"} \cup Unlocks
  /\ a = "prompt" => b = "validate"
  /\ a = "validate" => b \in {"prompt", "resolve", "take"}
  /\ a = "service" => b = "decide"
  /\ a = "decide" => b \in {"take", "prompt", "itemLock", "change"}
  /\ a = "resolve" => b \in {"itemLock", "take"}
  /\ a = "itemLock" => b \in {"prompt", "take", "secret"}
  /\ a = "take" => b \in {"items"} \cup Unlocks
  /\ a = "items" => b = "each"
  /\ a = "each" => b \in {"each"} \cup Unlocks
  /\ a \in {"file", "deleteFile", "reset"} => b = "secret"
  /\ a = "secret" => b = "key"
  /\ a = "key" => b \in {"put", "index", "remove", "turn", "readd"}
  /\ a = "change" => b = "snapshot"
  /\ a = "snapshot" => b = "newSecret"
  /\ a = "newSecret" => b = "unset"
  /\ a = "unset" => b = "reset"
  /\ a \in {"put", "remove", "readd"} => b = "rename"
  /\ a = "rename" => b \in {"secret", "retain", "take"}
  /\ a = "index" => b = "number"
  /\ a = "number" => b \in {"search", "push"}
  /\ a = "search" => b \in {"push", "purge"}
  /\ a = "purge" => b \in {"push", "purge"}
  /\ a = "push" => b = "serve"
  /\ a = "find" => b = "attributes"
  /\ a = "attributes" => b = "deleteFile"
  /\ a = "retain" => b = "unserve"
  /\ a = "recheck" => b = "unserveAll"
  /\ a = "unserveAll" => b \in {"removeFile", "unregister"}
  /\ a = "removeFile" => b = "unregister"
  /\ a \notin {"idle", "serve", "unserve", "unregister", "turn"}

\* The variables that a call at a leaves as they were.
Carries(a, l, m) ==
  /\ m.op = l.op
  /\ a # "find" => m.item = l.item
  /\ a \notin {"items", "each", "take", "search", "purge"} => m.todo = l.todo
  /\ a \notin {"validate", "decide", "rename"} => m.target = l.target

Track(t) ==
  /\ \A u \in Tasks \ {t} : pc'[u] = pc[u] /\ loc'[u] = loc[u]
  /\ \/ pc'[t] = "idle" /\ loc'[t] = Blank
     \/ Follows(pc[t], pc'[t]) /\ Carries(pc[t], loc[t], loc'[t])

LEMMA EndTrack == ASSUME TypeInv, NEW t \in Tasks, End(t) PROVE Track(t)
<1>1. pc'[t] = "idle" /\ loc'[t] = Blank
  BY DEF End, TypeInv, TypeOK
<1>2. \A u \in Tasks \ {t} : pc'[u] = pc[u] /\ loc'[u] = loc[u]
  BY DEF End, TypeInv, TypeOK
<1> QED
  BY <1>1, <1>2 DEF Track

LEMMA GotoTrack ==
  ASSUME TypeInv, NEW t \in Tasks, NEW label, NEW l, Goto(t, label, l),
         Follows(pc[t], label), Carries(pc[t], loc[t], l)
  PROVE  Track(t)
<1>1. pc'[t] = label /\ loc'[t] = l
  BY DEF Goto, TypeInv, TypeOK
<1>2. \A u \in Tasks \ {t} : pc'[u] = pc[u] /\ loc'[u] = loc[u]
  BY DEF Goto, TypeInv, TypeOK
<1> QED
  BY <1>1, <1>2 DEF Track

LEMMA CarriesWith ==
  ASSUME NEW l \in Local
  PROVE  /\ \A a : /\ Carries(a, l, l)
                   /\ \A s : Carries(a, l, [l EXCEPT !.secret = s])
                   /\ \A f : Carries(a, l, [l EXCEPT !.for = f])
                   /\ \A k : Carries(a, l, [l EXCEPT !.key = k])
                   /\ \A x : Carries(a, l, [l EXCEPT !.attrs = x])
                   /\ \A x, r : Carries(a, l, [l EXCEPT !.attrs = x, !.replace = r])
                   /\ \A n : Carries(a, l, [l EXCEPT !.n = n])
                   /\ \A S : Carries(a, l, [l EXCEPT !.snap = S])
         /\ \A q : \A a \in {"items", "each", "take", "search", "purge"} : Carries(a, l, [l EXCEPT !.todo = q])
         /\ \A x : Carries("validate", l, [l EXCEPT !.target = "unlocked", !.after = x])
         /\ \A d : Carries("decide", l, [l EXCEPT !.target = d])
         /\ \A s : Carries("decide", l, [l EXCEPT !.target = "unlocked", !.secret = s])
         /\ \A s, w : Carries("decide", l, [l EXCEPT !.target = "unlocked", !.secret = s,
                                                     !.after = "change", !.was = w])
         /\ Carries("rename", l, [l EXCEPT !.target = "locked", !.after = "idle"])
         /\ \A i : Carries("find", l, [l EXCEPT !.item = i])
<1>1. DOMAIN l = {"op", "item", "attrs", "replace", "n", "key", "for", "todo", "target",
                  "secret", "after", "was", "snap"}
  BY LocalFields
<1>2. \A a : /\ Carries(a, l, l)
            /\ \A s : Carries(a, l, [l EXCEPT !.secret = s])
            /\ \A f : Carries(a, l, [l EXCEPT !.for = f])
            /\ \A k : Carries(a, l, [l EXCEPT !.key = k])
  BY <1>1 DEF Carries
<1>3. \A a : /\ \A x : Carries(a, l, [l EXCEPT !.attrs = x])
            /\ \A x, r : Carries(a, l, [l EXCEPT !.attrs = x, !.replace = r])
            /\ \A n : Carries(a, l, [l EXCEPT !.n = n])
            /\ \A S : Carries(a, l, [l EXCEPT !.snap = S])
  BY <1>1 DEF Carries
<1>4. /\ \A q : \A a \in {"items", "each", "take", "search", "purge"} : Carries(a, l, [l EXCEPT !.todo = q])
      /\ \A x : Carries("validate", l, [l EXCEPT !.target = "unlocked", !.after = x])
      /\ \A d : Carries("decide", l, [l EXCEPT !.target = d])
  BY <1>1 DEF Carries
<1>5. /\ \A s : Carries("decide", l, [l EXCEPT !.target = "unlocked", !.secret = s])
      /\ \A s, w : Carries("decide", l, [l EXCEPT !.target = "unlocked", !.secret = s,
                                                     !.after = "change", !.was = w])
      /\ Carries("rename", l, [l EXCEPT !.target = "locked", !.after = "idle"])
      /\ \A i : Carries("find", l, [l EXCEPT !.item = i])
  BY <1>1 DEF Carries
<1> QED
  BY <1>2, <1>3, <1>4, <1>5, Zenon

LEMMA EditTrack ==
  ASSUME TypeInv, NEW t \in Tasks, NEW kr, NEW l, Edit(t, kr, l),
         pc[t] \in {"put", "remove", "readd"}, Carries(pc[t], loc[t], l)
  PROVE  Track(t)
<1>1. CASE End(t)
  BY <1>1, EndTrack
<1>2. CASE Goto(t, "rename", l)
  <2>1. Follows(pc[t], "rename")
    BY DEF Follows
  <2> QED
    BY <1>2, <2>1, GotoTrack
<1> QED
  BY <1>1, <1>2 DEF Edit

LEMMA ContinueTrack ==
  ASSUME TypeInv, NEW t \in Tasks, Continue(t), pc[t] \in {"take", "each"}
  PROVE  Track(t)
<1>1. CASE loc[t].after = "idle"
  BY <1>1, EndTrack DEF Continue
<1>2. CASE loc[t].after # "idle"
  <2>1. loc[t] \in Local
    BY DEF TypeInv, TypeOK
  <2>2. loc[t].after \in Unlocks
    BY <1>2, <2>1, LocalFields DEF Unlocks
  <2>3. Follows(pc[t], loc[t].after)
    BY <2>2 DEF Follows, Unlocks
  <2>4. Carries(pc[t], loc[t], [loc[t] EXCEPT !.todo = <<>>])
    BY <2>1, CarriesWith
  <2>5. Goto(t, loc[t].after, [loc[t] EXCEPT !.todo = <<>>])
    BY <1>2 DEF Continue
  <2> QED
    BY <2>3, <2>4, <2>5, GotoTrack
<1> QED
  BY <1>1, <1>2

LEMMA TrackTask ==
  ASSUME TypeInv, NEW t \in Tasks, Prompt(t) \/ Step(t)
  PROVE  Track(t)
<1>1. loc[t] \in Local /\ Shape(t, pc[t], loc[t])
  BY ShapeNow
<1>2. CASE Check(t)
  <2>1. pc[t] = "check" /\ loc[t].op \in ObjectCalls
    BY <1>1, <1>2, OpAt DEF Check
  <2>2. Follows(pc[t], "prompt") /\ Follows(pc[t], EntryOf(loc[t].op)) /\ Carries(pc[t], loc[t], loc[t])
    BY <1>1, <2>1, CarriesWith DEF Follows, EntryOf, ObjectCalls, Unlocks
  <2>3. End(t) \/ Goto(t, "prompt", loc[t]) \/ Goto(t, EntryOf(loc[t].op), loc[t])
    BY <1>2 DEF Check
  <2> QED
    BY <2>2, <2>3, EndTrack, GotoTrack
<1>3. CASE Prompt(t)
  <2>1. pc[t] = "prompt" /\ Follows(pc[t], "validate")
    BY <1>3 DEF Prompt, Follows
  <2>2. End(t) \/ \E s \in Secrets : Goto(t, "validate", [loc[t] EXCEPT !.secret = s])
    BY <1>3 DEF Prompt
  <2>3. \A s : Carries(pc[t], loc[t], [loc[t] EXCEPT !.secret = s])
    BY <1>1, <2>1, CarriesWith
  <2> QED
    BY <2>1, <2>2, <2>3, EndTrack, GotoTrack
<1>4. CASE Validate(t)
  <2> DEFINE l == [loc[t] EXCEPT !.target = "unlocked", !.after = EntryOf(loc[t].op)]
  <2>1. pc[t] = "validate" /\ Follows(pc[t], "prompt") /\ Follows(pc[t], "resolve") /\ Follows(pc[t], "take")
    BY <1>4 DEF Validate, Follows
  <2>2. Carries(pc[t], loc[t], l) /\ Carries(pc[t], loc[t], loc[t])
    BY <1>1, <2>1, CarriesWith
  <2>3. End(t) \/ Goto(t, "resolve", l) \/ Goto(t, "take", l) \/ Goto(t, "prompt", loc[t])
    BY <1>4 DEF Validate
  <2> QED
    BY <2>1, <2>2, <2>3, EndTrack, GotoTrack
<1>5. CASE Locking(t)
  <2>1. CASE Take(t)
    <3>1. pc[t] = "take" /\ Follows(pc[t], "items") /\ Carries(pc[t], loc[t], loc[t])
      BY <1>1, <2>1, CarriesWith DEF Take, Follows
    <3>2. Continue(t) \/ End(t) \/ Goto(t, "items", loc[t])
      BY <2>1 DEF Take
    <3> QED
      BY <3>1, <3>2, EndTrack, GotoTrack, ContinueTrack
  <2>2. CASE LockItems(t)
    <3>1. pc[t] = "items" /\ Follows(pc[t], "each") /\ Carries(pc[t], loc[t], [loc[t] EXCEPT !.todo = items])
      BY <1>1, <2>2, CarriesWith DEF LockItems, Follows
    <3> QED
      BY <2>2, <3>1, GotoTrack DEF LockItems
  <2>3. CASE EachItem(t)
    <3> DEFINE l == [loc[t] EXCEPT !.todo = Tail(loc[t].todo)]
    <3>0. pc[t] = "each" /\ \A q : Carries("each", loc[t], [loc[t] EXCEPT !.todo = q])
      BY <1>1, <2>3, CarriesWith DEF EachItem
    <3>1. Follows(pc[t], "each") /\ Carries(pc[t], loc[t], l)
      BY <3>0 DEF Follows
    <3>2. Continue(t) \/ End(t) \/ Goto(t, "each", l)
      BY <2>3 DEF EachItem
    <3> QED
      BY <3>0, <3>1, <3>2, EndTrack, GotoTrack, ContinueTrack
  <2> QED
    BY <1>5, <2>1, <2>2, <2>3 DEF Locking
<1>6. CASE Serving(t)
  <2> DEFINE here == loc[t]
  <2>1. \A a : Carries(a, loc[t], loc[t])
    BY <1>1, CarriesWith
  <2>2. CASE LockService(t)
    <3>1. Follows(pc[t], "decide") /\ Goto(t, "decide", loc[t])
      BY <2>2 DEF LockService, Follows
    <3> QED
      BY <2>1, <3>1, GotoTrack
  <2>3. CASE DecideCollection(t)
    <3>1. Follows(pc[t], "take") /\ Follows(pc[t], "prompt")
          /\ (End(t) \/ Goto(t, "take", loc[t]) \/ Goto(t, "prompt", loc[t]))
      BY <2>3 DEF DecideCollection, Follows
    <3> QED
      BY <2>1, <3>1, EndTrack, GotoTrack
  <2>4. CASE DecideItem(t)
    <3> DEFINE d == IF loc[t].op = "lockItem" THEN "locked" ELSE "unlocked"
               l == [loc[t] EXCEPT !.target = d]
    <3>1. pc[t] = "decide" /\ Follows(pc[t], "itemLock") /\ Follows(pc[t], "prompt")
          /\ (End(t) \/ Goto(t, "itemLock", l) \/ Goto(t, "prompt", loc[t]))
      BY <2>4 DEF DecideItem, Follows
    <3> HIDE DEF d
    <3>2. Carries(pc[t], loc[t], l)
      BY <1>1, <3>1, CarriesWith
    <3> QED
      BY <2>1, <3>1, <3>2, EndTrack, GotoTrack
  <2>5. CASE Resolve(t)
    <3>1. Follows(pc[t], "itemLock") /\ Follows(pc[t], "take")
          /\ (End(t) \/ Goto(t, "itemLock", loc[t]) \/ Goto(t, "take", loc[t]))
      BY <2>5 DEF Resolve, Follows
    <3> QED
      BY <2>1, <3>1, EndTrack, GotoTrack
  <2>6. CASE ItemLock(t)
    <3>1. Follows(pc[t], "prompt") /\ Follows(pc[t], "take") /\ Follows(pc[t], "secret")
          /\ (End(t) \/ Goto(t, "prompt", loc[t]) \/ Goto(t, "take", loc[t])
                     \/ Goto(t, "secret", [loc[t] EXCEPT !.for = "turn"]))
      BY <2>6 DEF ItemLock, Follows, GetKey
    <3> QED
      BY <1>1, <2>1, <3>1, EndTrack, GotoTrack, CarriesWith
  <2>7. CASE PamUnlock(t)
    <3>1. pc[t] = "decide" /\ Follows(pc[t], "take")
          /\ (End(t) \/ \E s \in Secrets : Goto(t, "take", [loc[t] EXCEPT !.target = "unlocked", !.secret = s]))
      BY <2>7 DEF PamUnlock, Follows
    <3>2. \A s : Carries(pc[t], loc[t], [loc[t] EXCEPT !.target = "unlocked", !.secret = s])
      BY <1>1, <3>1, CarriesWith
    <3> QED
      BY <3>1, <3>2, EndTrack, GotoTrack
  <2>8. CASE PamChange(t)
    <3> DEFINE w == ~Unlocked
               l(s) == [loc[t] EXCEPT !.target = "unlocked", !.secret = s, !.after = "change", !.was = w]
    <3>1. pc[t] = "decide" /\ Follows(pc[t], "take") /\ Follows(pc[t], "change")
          /\ (End(t) \/ \E s \in Secrets : Goto(t, "take", l(s)) \/ Goto(t, "change", l(s)))
      BY <2>8 DEF PamChange, Follows
    <3> HIDE DEF w
    <3>2. \A s : Carries(pc[t], loc[t], l(s))
      <4>1. \A s : Carries("decide", loc[t], l(s))
        BY <1>1, CarriesWith, ZenonT(30)
      <4> QED
        BY <3>1, <4>1, ZenonT(30)
    <3> QED
      BY <3>1, <3>2, EndTrack, GotoTrack
  <2>9. CASE TurnItem(t)
    BY <2>9, EndTrack DEF TurnItem
  <2> QED
    BY <1>6, <2>2, <2>3, <2>4, <2>5, <2>6, <2>7, <2>8, <2>9 DEF Serving
<1>7. CASE Creating(t)
  <2>1. \A a : Carries(a, loc[t], loc[t])
    BY <1>1, CarriesWith
  <2>2. CASE CreateFile(t)
    <3>1. Follows(pc[t], "secret")
          /\ (End(t) \/ Goto(t, "secret", [loc[t] EXCEPT !.for = "put"]))
      BY <2>2 DEF CreateFile, Follows, GetKey
    <3> QED
      BY <1>1, <3>1, EndTrack, GotoTrack, CarriesWith
  <2>3. CASE PutItem(t)
    <3>1. pc[t] = "put" /\ (End(t) \/ \E kr, x, r : Edit(t, kr, [loc[t] EXCEPT !.attrs = x, !.replace = r]))
      BY <2>3 DEF PutItem
    <3>2. \A x, r : Carries(pc[t], loc[t], [loc[t] EXCEPT !.attrs = x, !.replace = r])
      BY <1>1, CarriesWith
    <3> QED
      BY <3>1, <3>2, EndTrack, EditTrack
  <2>4. CASE ReadIndex(t)
    <3>1. pc[t] = "index" /\ Follows(pc[t], "number") /\ Goto(t, "number", [loc[t] EXCEPT !.n = item_index])
      BY <2>4 DEF ReadIndex, Follows
    <3> QED
      BY <1>1, <3>1, CarriesWith, GotoTrack
  <2>5. CASE Number(t)
    <3>1. Follows(pc[t], "search") /\ Follows(pc[t], "push")
          /\ (Goto(t, "search", loc[t]) \/ Goto(t, "push", loc[t]))
      BY <2>5 DEF Number, Follows
    <3> QED
      BY <2>1, <3>1, GotoTrack
  <2>6. CASE Search(t)
    <3> DEFINE l == [loc[t] EXCEPT !.todo = Found(loc[t].attrs, loc[t].key)]
    <3>1. pc[t] = "search" /\ Follows(pc[t], "push") /\ Follows(pc[t], "purge")
          /\ (End(t) \/ Goto(t, "push", l) \/ Goto(t, "purge", l))
      BY <2>6 DEF Search, Follows
    <3> QED
      BY <1>1, <3>1, CarriesWith, EndTrack, GotoTrack
  <2>7. CASE Purge(t)
    <3> DEFINE l == [loc[t] EXCEPT !.todo = Tail(loc[t].todo)]
    <3>1. pc[t] = "purge" /\ Follows(pc[t], "push") /\ Follows(pc[t], "purge")
          /\ (End(t) \/ Goto(t, "push", l) \/ Goto(t, "purge", l))
      BY <2>7 DEF Purge, Follows
    <3> QED
      BY <1>1, <3>1, CarriesWith, EndTrack, GotoTrack
  <2>8. CASE Push(t) \/ Serve(t)
    <3>1. \/ End(t)
          \/ Follows(pc[t], "serve") /\ Goto(t, "serve", loc[t])
      BY <2>8 DEF Push, Serve, Follows
    <3> QED
      BY <2>1, <3>1, EndTrack, GotoTrack
  <2> QED
    BY <1>7, <2>2, <2>3, <2>4, <2>5, <2>6, <2>7, <2>8 DEF Creating
<1>8. CASE Deleting(t)
  <2>1. \A a : Carries(a, loc[t], loc[t])
    BY <1>1, CarriesWith
  <2>2. CASE Find(t)
    <3>1. pc[t] = "find" /\ Follows(pc[t], "attributes")
          /\ (End(t) \/ \E i : Goto(t, "attributes", [loc[t] EXCEPT !.item = i]))
      BY <2>2 DEF Find, Follows
    <3>2. \A i : Carries(pc[t], loc[t], [loc[t] EXCEPT !.item = i])
      BY <1>1, <3>1, CarriesWith
    <3> QED
      BY <3>1, <3>2, EndTrack, GotoTrack
  <2>3. CASE ReadAttributes(t)
    <3>1. pc[t] = "attributes" /\ Follows(pc[t], "deleteFile")
          /\ (End(t) \/ \E x : Goto(t, "deleteFile", [loc[t] EXCEPT !.attrs = x]))
      BY <2>3 DEF ReadAttributes, Follows
    <3>2. \A x : Carries(pc[t], loc[t], [loc[t] EXCEPT !.attrs = x])
      BY <1>1, <3>1, CarriesWith
    <3> QED
      BY <3>1, <3>2, EndTrack, GotoTrack
  <2>4. CASE DeleteFile(t) \/ RemoveItems(t)
    <3>1. CASE DeleteFile(t)
      <4>1. Follows(pc[t], "secret")
            /\ (End(t) \/ Goto(t, "secret", [loc[t] EXCEPT !.for = "remove"]))
        BY <3>1 DEF DeleteFile, Follows, GetKey
      <4> QED
        BY <1>1, <4>1, EndTrack, GotoTrack, CarriesWith
    <3>2. CASE RemoveItems(t)
      <4>1. pc[t] = "remove" /\ \E kr : Edit(t, kr, loc[t])
        BY <3>2 DEF RemoveItems
      <4> QED
        BY <2>1, <4>1, EditTrack
    <3> QED
      BY <2>4, <3>1, <3>2
  <2>5. CASE Retain(t)
    <3>1. Follows(pc[t], "unserve") /\ Goto(t, "unserve", loc[t])
      BY <2>5 DEF Retain, Follows
    <3> QED
      BY <2>1, <3>1, GotoTrack
  <2>6. CASE Recheck(t)
    <3>1. Follows(pc[t], "unserveAll") /\ (End(t) \/ Goto(t, "unserveAll", loc[t]))
      BY <2>6 DEF Recheck, Follows
    <3> QED
      BY <2>1, <3>1, EndTrack, GotoTrack
  <2>7. CASE UnserveAll(t)
    <3>1. Follows(pc[t], "removeFile") /\ Follows(pc[t], "unregister")
          /\ (End(t) \/ Goto(t, "removeFile", loc[t]) \/ Goto(t, "unregister", loc[t]))
      BY <2>7 DEF UnserveAll, Follows
    <3> QED
      BY <2>1, <3>1, EndTrack, GotoTrack
  <2>8. CASE RemoveFile(t)
    <3>1. Follows(pc[t], "unregister") /\ (End(t) \/ Goto(t, "unregister", loc[t]))
      BY <2>8 DEF RemoveFile, Follows
    <3> QED
      BY <2>1, <3>1, EndTrack, GotoTrack
  <2>9. CASE Unserve(t) \/ Unregister(t)
    BY <2>9, EndTrack DEF Unserve, Unregister
  <2> QED
    BY <1>8, <2>2, <2>3, <2>4, <2>5, <2>6, <2>7, <2>8, <2>9 DEF Deleting
<1>9. CASE Keying(t)
  <2>1. CASE ReadSecret(t)
    <3>1. Follows(pc[t], "key") /\ \E s : Goto(t, "key", [loc[t] EXCEPT !.secret = s])
      BY <2>1 DEF ReadSecret, Follows
    <3> QED
      BY <1>1, <3>1, GotoTrack, CarriesWith
  <2>2. CASE DeriveKey(t)
    <3>1. pc[t] = "key" /\ \E k : Goto(t, loc[t].for, [loc[t] EXCEPT !.key = k])
      BY <2>2 DEF DeriveKey
    <3>2. Follows(pc[t], loc[t].for)
      BY <1>1, <3>1, LocalFields DEF Follows
    <3> QED
      BY <1>1, <3>1, <3>2, GotoTrack, CarriesWith
  <2>3. CASE Rename(t)
    <3> DEFINE k == [loc[t] EXCEPT !.for = "index"]
               d == [loc[t] EXCEPT !.target = "locked", !.after = "idle"]
    <3>1. pc[t] = "rename" /\ loc[t].op \in {"create", "deleteItem", "changePassword"}
      BY <1>1, <2>3, OpAt DEF Rename
    <3>2. Follows(pc[t], "secret") /\ Follows(pc[t], "retain") /\ Follows(pc[t], "take")
      BY <3>1 DEF Follows
    <3>3. End(t) \/ Goto(t, "secret", k) \/ Goto(t, "retain", loc[t]) \/ Goto(t, "take", d)
      BY <2>3, <3>1 DEF Rename
    <3>4. Carries(pc[t], loc[t], k) /\ Carries(pc[t], loc[t], d) /\ Carries(pc[t], loc[t], loc[t])
      BY <1>1, <3>1, CarriesWith
    <3> HIDE DEF k, d
    <3> QED
      BY <3>2, <3>3, <3>4, EndTrack, GotoTrack
  <2> QED
    BY <1>9, <2>1, <2>2, <2>3 DEF Keying
<1>10. CASE Changing(t)
  <2>1. \A a : Carries(a, loc[t], loc[t])
    BY <1>1, CarriesWith
  <2>2. CASE StartChange(t)
    <3>1. Follows(pc[t], "snapshot") /\ (End(t) \/ Goto(t, "snapshot", loc[t]))
      BY <2>2 DEF StartChange, Follows
    <3> QED
      BY <2>1, <3>1, EndTrack, GotoTrack
  <2>3. CASE Snapshot(t)
    <3>1. Follows(pc[t], "newSecret") /\ (End(t) \/ \E S : Goto(t, "newSecret", [loc[t] EXCEPT !.snap = S]))
      BY <2>3 DEF Snapshot, Follows
    <3> QED
      BY <1>1, <3>1, EndTrack, GotoTrack, CarriesWith
  <2>4. CASE NewSecret(t)
    <3>1. Follows(pc[t], "unset") /\ Goto(t, "unset", loc[t])
      BY <2>4 DEF NewSecret, Follows
    <3> QED
      BY <2>1, <3>1, GotoTrack
  <2>5. CASE UnsetKey(t)
    <3>1. Follows(pc[t], "reset") /\ Goto(t, "reset", loc[t])
      BY <2>5 DEF UnsetKey, Follows
    <3> QED
      BY <2>1, <3>1, GotoTrack
  <2>6. CASE Reset(t)
    <3>1. Follows(pc[t], "secret") /\ Goto(t, "secret", [loc[t] EXCEPT !.for = "readd"])
      BY <2>6 DEF Reset, Follows
    <3> QED
      BY <1>1, <3>1, GotoTrack, CarriesWith
  <2>7. CASE Readd(t)
    <3>1. pc[t] = "readd" /\ (End(t) \/ \E kr, S : Edit(t, kr, [loc[t] EXCEPT !.snap = S]))
      BY <2>7 DEF Readd
    <3>2. \A S : Carries(pc[t], loc[t], [loc[t] EXCEPT !.snap = S])
      BY <1>1, CarriesWith
    <3> QED
      BY <3>1, <3>2, EndTrack, EditTrack
  <2> QED
    BY <1>10, <2>2, <2>3, <2>4, <2>5, <2>6, <2>7 DEF Changing
<1> QED
  BY <1>2, <1>3, <1>4, <1>5, <1>6, <1>7, <1>8, <1>9, <1>10 DEF Step

\* Which action changes which variable.
LEMMA Touches ==
  ASSUME NEW t, Prompt(t) \/ Step(t)
  PROVE  /\ used' = used
         /\ \/ keyring' = keyring \/ Take(t) \/ EachItem(t) \/ DeriveKey(t) \/ Rename(t)
            \/ Changing(t) \/ PutItem(t) \/ RemoveItems(t)
         /\ file' = file \/ Rename(t) \/ RemoveFile(t)
         /\ items' = items \/ Purge(t) \/ Push(t) \/ Retain(t)
         /\ bus' = bus \/ EachItem(t) \/ TurnItem(t) \/ Number(t)
         /\ late' = late \/ LockItems(t) \/ Push(t)
         /\ deleted' = deleted \/ Retain(t)
<1>1. CASE Prompt(t) \/ Check(t) \/ Validate(t)
  BY <1>1 DEF Prompt, Check, Validate, busVars, fileVars, ghosts
<1>2. CASE Locking(t)
  BY <1>2 DEF Locking, Take, LockItems, EachItem, busVars, fileVars, ghosts
<1>3. CASE Keying(t)
  BY <1>3 DEF Keying, ReadSecret, DeriveKey, Rename, busVars, fileVars, ghosts
<1>4. CASE Serving(t)
  <2>1. CASE LockService(t) \/ DecideCollection(t) \/ DecideItem(t) \/ Resolve(t)
    BY <2>1 DEF LockService, DecideCollection, DecideItem, Resolve, busVars, fileVars, ghosts
  <2>2. CASE ItemLock(t)
    BY <2>2 DEF ItemLock, GetKey, busVars, fileVars, ghosts
  <2>3. CASE TurnItem(t) \/ PamUnlock(t) \/ PamChange(t)
    BY <2>3 DEF TurnItem, PamUnlock, PamChange, busVars, fileVars, ghosts
  <2> QED
    BY <1>4, <2>1, <2>2, <2>3 DEF Serving
<1>5. CASE Changing(t)
  <2>1. CASE StartChange(t) \/ Snapshot(t) \/ NewSecret(t)
    BY <1>5, <2>1 DEF StartChange, Snapshot, NewSecret, busVars, fileVars, ghosts
  <2>2. CASE UnsetKey(t) \/ Reset(t) \/ Readd(t)
    BY <1>5, <2>2 DEF UnsetKey, Reset, Readd, Edit, busVars, fileVars, ghosts
  <2> QED
    BY <1>5, <2>1, <2>2 DEF Changing
<1>6. CASE Creating(t)
  <2>1. CASE CreateFile(t) \/ PutItem(t)
    BY <2>1 DEF CreateFile, PutItem, GetKey, Edit, busVars, fileVars, ghosts
  <2>2. CASE ReadIndex(t) \/ Number(t)
    BY <2>2 DEF ReadIndex, Number, busVars, fileVars, ghosts
  <2>3. CASE Search(t) \/ Purge(t) \/ Push(t) \/ Serve(t)
    BY <2>3 DEF Search, Purge, Push, Serve, busVars, fileVars, ghosts
  <2> QED
    BY <1>6, <2>1, <2>2, <2>3 DEF Creating
<1>7. CASE Deleting(t)
  <2>1. CASE DeleteFile(t) \/ RemoveItems(t)
    BY <2>1 DEF DeleteFile, RemoveItems, GetKey, Edit, busVars, fileVars, ghosts
  <2>2. CASE Find(t) \/ ReadAttributes(t) \/ Retain(t) \/ Unserve(t)
    BY <2>2 DEF Find, ReadAttributes, Retain, Unserve, busVars, fileVars, ghosts
  <2>3. CASE Recheck(t) \/ UnserveAll(t) \/ RemoveFile(t) \/ Unregister(t)
    BY <2>3 DEF Recheck, UnserveAll, RemoveFile, Unregister, busVars, fileVars, ghosts
  <2> QED
    BY <1>7, <2>1, <2>2, <2>3 DEF Deleting
<1> QED
  BY <1>1, <1>2, <1>3, <1>4, <1>5, <1>6, <1>7 DEF Step

\* Each action has a label of its own.
LEMMA ActionAt ==
  ASSUME NEW t, Prompt(t) \/ Step(t)
  PROVE  /\ pc[t] = "take" => Take(t)
         /\ pc[t] = "items" => LockItems(t)
         /\ pc[t] = "each" => EachItem(t)
         /\ pc[t] = "file" => CreateFile(t)
         /\ pc[t] = "deleteFile" => DeleteFile(t)
         /\ pc[t] = "itemLock" => ItemLock(t)
         /\ pc[t] = "change" => StartChange(t)
         /\ pc[t] = "number" => Number(t)
         /\ pc[t] = "push" => Push(t)
<1>1. CASE Prompt(t) \/ Check(t) \/ Validate(t)
  BY <1>1 DEF Prompt, Check, Validate
<1>2. CASE Locking(t)
  <2>1. Take(t) => pc[t] = "take"
    BY DEF Take
  <2>2. LockItems(t) => pc[t] = "items"
    BY DEF LockItems
  <2>3. EachItem(t) => pc[t] = "each"
    BY DEF EachItem
  <2> QED
    BY <1>2, <2>1, <2>2, <2>3 DEF Locking
<1>3. CASE Keying(t)
  BY <1>3 DEF Keying, ReadSecret, DeriveKey, Rename
<1>4. CASE Serving(t)
  <2>1. ItemLock(t) => pc[t] = "itemLock"
    BY DEF ItemLock
  <2> QED
    BY <1>4, <2>1 DEF Serving, LockService, DecideCollection, DecideItem, Resolve, TurnItem,
                      PamUnlock, PamChange
<1>5. CASE Changing(t)
  <2>1. StartChange(t) => pc[t] = "change"
    BY DEF StartChange
  <2> QED
    BY <1>5, <2>1 DEF Changing, Snapshot, NewSecret, UnsetKey, Reset, Readd
<1>6. CASE Creating(t)
  <2>1. CreateFile(t) => pc[t] = "file"
    BY DEF CreateFile
  <2>2. Number(t) => pc[t] = "number"
    BY DEF Number
  <2>3. Push(t) => pc[t] = "push"
    BY DEF Push
  <2>4. PutItem(t) \/ ReadIndex(t) \/ Search(t) \/ Purge(t) \/ Serve(t)
        => pc[t] \in {"put", "index", "search", "purge", "serve"}
    BY DEF PutItem, ReadIndex, Search, Purge, Serve
  <2> QED
    BY <1>6, <2>1, <2>2, <2>3, <2>4 DEF Creating
<1>7. CASE Deleting(t)
  <2>1. DeleteFile(t) => pc[t] = "deleteFile"
    BY DEF DeleteFile
  <2>2. Find(t) \/ ReadAttributes(t) \/ RemoveItems(t) \/ Retain(t) \/ Unserve(t)
        => pc[t] \in {"find", "attributes", "remove", "retain", "unserve"}
    BY DEF Find, ReadAttributes, RemoveItems, Retain, Unserve
  <2>3. Recheck(t) \/ UnserveAll(t) \/ RemoveFile(t) \/ Unregister(t)
        => pc[t] \in {"recheck", "unserveAll", "removeFile", "unregister"}
    BY DEF Recheck, UnserveAll, RemoveFile, Unregister
  <2> QED
    BY <1>7, <2>1, <2>2, <2>3 DEF Deleting
<1> QED
  BY <1>1, <1>2, <1>3, <1>4, <1>5, <1>6, <1>7 DEF Step

\* Where a call that arrives goes.
LEMMA CallTo ==
  ASSUME TypeInv, NEW t \in Tasks, Call(t)
  PROVE  \E op \in OpsOf[t], i \in Items \cup {NoItem} :
           /\ Callable(op, i) /\ op \in Op \ {"setAttributes"}
           /\ pc'[t] = IF op \in ObjectCalls THEN "check" ELSE "service"
           /\ loc'[t].op = op /\ loc'[t].item = i /\ loc'[t].was = FALSE
           /\ \A u \in Tasks \ {t} : pc'[u] = pc[u] /\ loc'[u] = loc[u]
           /\ used' = IF op = "create" THEN used \cup {i} ELSE used
           /\ op = "create" => i \in Items \ used
           /\ pc[t] = "idle" /\ loc[t].op = "none"
           /\ UNCHANGED <<lockVars, busVars, fileVars, deleted, late>>
<1>1. PICK op \in OpsOf[t], i \in Items \cup {NoItem} :
        /\ Callable(op, i)
        /\ Goto(t, IF op \in ObjectCalls THEN "check" ELSE "service",
                [Blank EXCEPT !.op = op, !.item = i])
        /\ used' = IF op = "create" THEN used \cup {i} ELSE used
  BY DEF Call
<1>2. pc[t] = "idle" /\ UNCHANGED <<lockVars, busVars, fileVars, deleted, late>> /\ loc[t] = Blank
  BY ShapeNow DEF Call, Shape
<1>3. op \in Op \ {"setAttributes"} /\ (op = "create" => i \in Items \ used)
  BY <1>1, CollectionAssumption DEF Callable
<1>4. LET l == [Blank EXCEPT !.op = op, !.item = i]
      IN l.op = op /\ l.item = i /\ l.was = FALSE
  BY DEF Blank
<1>5. /\ pc'[t] = IF op \in ObjectCalls THEN "check" ELSE "service"
      /\ loc'[t] = [Blank EXCEPT !.op = op, !.item = i]
      /\ \A u \in Tasks \ {t} : pc'[u] = pc[u] /\ loc'[u] = loc[u]
  BY <1>1 DEF Goto, TypeInv, TypeOK
<1>6. loc[t].op = "none"
  BY <1>2 DEF Blank
<1> QED
  BY <1>1, <1>2, <1>3, <1>4, <1>5, <1>6

-----------------------------------------------------------------------------
(* The items follow their collection *)

\* No item is locked by itself.
NoItemLocked == \A t \in Tasks : "lockItem" \notin OpsOf[t]

Unpushed(t) == Creates(t) /\ pc[t] # "serve"
Unlocking(t) == loc[t].op = "unlockItem"

\* An item that is being created is not in the list before it is pushed there, and no
\* call to unlock an item is for it.
UnpushedInv ==
  /\ NoTwice(items) /\ Listed \subseteq used
  /\ \A t \in Tasks : Unlocking(t) => loc[t].item \in used
  /\ \A t \in Tasks : Unpushed(t) =>
       /\ loc[t].item \notin Listed
       /\ \A u \in Tasks : Unlocking(u) => loc[u].item # loc[t].item

\* How an item of the list is when nobody turns it: as the collection, or late.
AsTurned(i) == \/ bus[i].lock = keyring.state
               \/ i \in late /\ bus[i].lock = "unlocked"

\* The read guard keeps the collection unlocked.
OpenInv == \A t \in Tasks : pc[t] \in Reading => Unlocked

\* A set_locked under way has turned the items that are not in its todo.
TurnInv ==
  /\ \A t \in Tasks : pc[t] \in {"items", "each"} => keyring.state \notin {"none", loc[t].target}
  /\ \A t \in Tasks : pc[t] = "each" =>
       /\ NoTwice(loc[t].todo) /\ Elements(loc[t].todo) \subseteq Listed
       /\ \A i \in Listed : bus[i].lock \in IF i \in Elements(loc[t].todo)
                                             THEN {keyring.state, "unlocked"} ELSE {loc[t].target}
  /\ keyring.state # "none" /\ (\A t \in Tasks : pc[t] # "each")
       => \A i \in Listed : AsTurned(i)

Numbers == {"search", "purge", "push"}

\* An item that is being created is unlocked when it was given its number.
CreateInv ==
  \A t \in Tasks : Creates(t) /\ pc[t] \in Numbers => bus[loc[t].item].lock = "unlocked"

LEMMA NowFacts ==
  ASSUME TypeInv, NEW t \in Tasks, Prompt(t) \/ Step(t)
  PROVE  /\ Track(t) /\ Shape(t, pc[t], loc[t]) /\ loc[t] \in Local /\ used' = used
         /\ \A u \in Tasks : Shape(u, pc[u], loc[u])
         /\ keyring \in KeyringState /\ bus \in [Items -> BusItem] /\ items \in Seq(Items)
         /\ Listed \subseteq Items /\ Listed = Elements(items) /\ Listed' = Elements(items')
         /\ Blank.op = "none"
         /\ \A u \in Tasks : Creates(u) \/ Unlocking(u) => loc[u].item \in Items
<1>1. /\ Track(t) /\ Shape(t, pc[t], loc[t]) /\ loc[t] \in Local /\ used' = used
      /\ \A u \in Tasks : Shape(u, pc[u], loc[u])
      /\ keyring \in KeyringState /\ bus \in [Items -> BusItem] /\ items \in Seq(Items)
      /\ Blank.op = "none"
  BY TrackTask, ShapeNow, Touches, BlankShape DEF TypeInv, TypeOK
<1>2. Listed \subseteq Items /\ Listed = Elements(items) /\ Listed' = Elements(items')
  BY <1>1 DEF Listed, Elements
<1>3. \A u \in Tasks : Creates(u) \/ Unlocking(u) => loc[u].item \in Items
  BY <1>1 DEF Shape, ItemCalls, Creates, Unlocking
<1> QED
  BY <1>1, <1>2, <1>3

\* The list gets the item that is created at the most.
Own(t, label) == {i \in Items : pc[t] = label /\ i = loc[t].item}

LEMMA ListGrows ==
  ASSUME TypeInv, NEW t \in Tasks, Prompt(t) \/ Step(t)
  PROVE  Listed' \subseteq Listed \cup Own(t, "push")
<1>1. items \in Seq(Items) /\ Listed = Elements(items) /\ Listed' = Elements(items')
  BY NowFacts
<1>2. CASE items' = items
  BY <1>1, <1>2
<1>3. CASE Purge(t) \/ Retain(t)
  <2>1. \E S : items' = Kept(items, S)
    BY <1>3 DEF Purge, Retain, Without
  <2> QED
    BY <1>1, <2>1, KeptElements
<1>4. CASE Push(t)
  <2>1. pc[t] = "push" /\ items' = Append(items, loc[t].item)
    BY <1>4 DEF Push
  <2>2. loc[t].item \in Items
    <3>1. Shape(t, pc[t], loc[t]) /\ loc[t].op = "create"
      BY <2>1, ShapeNow, OpAt DEF Listing
    <3> QED
      BY <3>1 DEF Shape, ItemCalls
  <2> QED
    BY <1>1, <2>1, <2>2, AppendElements DEF Own
<1> QED
  BY <1>2, <1>3, <1>4, Touches

LEMMA UnpushedTask ==
  ASSUME TypeInv, UnpushedInv, NEW t \in Tasks, Prompt(t) \/ Step(t)
  PROVE  UnpushedInv'
<1>1. /\ Track(t) /\ Shape(t, pc[t], loc[t]) /\ used' = used /\ items \in Seq(Items)
      /\ Listed = Elements(items) /\ Listed' = Elements(items') /\ Blank.op = "none"
      /\ \A u \in Tasks : Creates(u) \/ Unlocking(u) => loc[u].item \in Items
  BY NowFacts
<1>2. Listed' \subseteq Listed \cup Own(t, "push") /\ (Own(t, "push") # {} => Unpushed(t))
  BY <1>1, ListGrows, OpAt DEF Own, Unpushed, Creates, Listing
<1>3. ASSUME NEW u \in Tasks
      PROVE  /\ Unlocking(u)' => Unlocking(u) /\ loc'[u].item = loc[u].item
             /\ Creates(u)' => Creates(u) /\ loc'[u].item = loc[u].item
             /\ Unpushed(u)' => u # t \/ pc[t] # "push"
  <2>1. CASE u # t
    BY <1>1, <2>1 DEF Track, Unlocking, Creates
  <2>2. CASE u = t
    <3>1. pc[t] = "find" => loc[t].op = "deleteItem"
      BY <1>1, OpAt
    <3>2. loc'[t].op = "none" \/ (Follows(pc[t], pc'[t]) /\ Carries(pc[t], loc[t], loc'[t]))
      BY <1>1 DEF Track
    <3>3. /\ Unlocking(t)' => Unlocking(t) /\ loc'[t].item = loc[t].item
          /\ Creates(t)' => Creates(t) /\ loc'[t].item = loc[t].item
      BY <3>1, <3>2 DEF Carries, Unlocking, Creates
    <3>4. Unpushed(t)' => pc[t] # "push"
      BY <3>2 DEF Follows, Unpushed, Creates
    <3> QED
      BY <2>2, <3>3, <3>4
  <2> QED
    BY <2>1, <2>2
<1>4. NoTwice(items')
  <2>1. CASE items' = items
    BY <2>1 DEF UnpushedInv
  <2>2. CASE Purge(t) \/ Retain(t)
    <3>1. \E S : items' = Kept(items, S)
      BY <2>2 DEF Purge, Retain, Without
    <3> QED
      BY <1>1, <3>1, KeptElements DEF UnpushedInv
  <2>3. CASE Push(t)
    <3>1. pc[t] = "push" /\ items' = Append(items, loc[t].item)
      BY <2>3 DEF Push
    <3>2. loc[t].item \in Items /\ loc[t].item \notin Elements(items)
      <4>1. loc[t].op = "create"
        BY <1>1, <3>1, OpAt DEF Listing
      <4> QED
        BY <1>1, <3>1, <4>1 DEF UnpushedInv, Unpushed, Creates
    <3> QED
      BY <1>1, <3>1, <3>2, AppendElements DEF UnpushedInv
  <2> QED
    BY <2>1, <2>2, <2>3, Touches
<1>5. Listed' \subseteq used'
  BY <1>1, <1>2 DEF UnpushedInv, Unpushed, TypeInv, Distinct, Own
<1>6. \A u \in Tasks : Unlocking(u)' => loc'[u].item \in used'
  BY <1>1, <1>3 DEF UnpushedInv
<1>7. ASSUME NEW u \in Tasks, Unpushed(u)'
      PROVE  /\ loc'[u].item \notin Listed'
             /\ \A v \in Tasks : Unlocking(v)' => loc'[v].item # loc'[u].item
  <2>1. Unpushed(u) /\ Creates(u) /\ loc'[u].item = loc[u].item
    <3>1. Creates(u) /\ loc'[u].item = loc[u].item
      BY <1>3, <1>7 DEF Unpushed
    <3>2. pc[u] # "serve"
      <4>1. CASE u # t
        BY <1>1, <1>7, <4>1 DEF Track, Unpushed
      <4>2. CASE u = t
        BY <1>1, <1>7, <4>2 DEF Track, Unpushed, Creates, Follows
      <4> QED
        BY <4>1, <4>2
    <3> QED
      BY <3>1, <3>2 DEF Unpushed
  <2>2. loc[u].item \notin Own(t, "push")
    BY <1>2, <1>3, <1>7, <2>1 DEF Own, Unpushed, TypeInv, Distinct
  <2>3. loc'[u].item \notin Listed'
    BY <1>2, <2>1, <2>2 DEF UnpushedInv
  <2> QED
    BY <1>3, <2>1, <2>3 DEF UnpushedInv
<1> QED
  BY <1>4, <1>5, <1>6, <1>7 DEF UnpushedInv

\* Whose step turns the keyring, and what it finds.
LEMMA StateStays ==
  ASSUME TypeInv, NEW t \in Tasks, Prompt(t) \/ Step(t)
  PROVE  \/ keyring'.state = keyring.state
         \/ pc[t] = "each"
         \/ pc[t] = "take" /\ keyring.state = "locked" /\ keyring'.state \in {"none", "locked"}
<1>1. DOMAIN keyring = {"state", "items", "under", "secret", "salt", "cached", "stamped"}
  BY DEF TypeInv, TypeOK, KeyringState
<1>2. CASE keyring' = keyring
  BY <1>2
<1>3. CASE Take(t)
  <2>1. keyring'.state = keyring.state \/ (keyring' = Reloaded /\ keyring.state = "locked")
    BY <1>1, <1>3 DEF Take
  <2>2. keyring.state = "locked" => Reloaded.state \in {"none", "locked"}
    BY <1>1 DEF Reloaded
  <2> QED
    BY <1>3, <2>1, <2>2 DEF Take
<1>4. CASE EachItem(t)
  BY <1>4 DEF EachItem
<1>5. CASE DeriveKey(t) \/ Rename(t)
  BY <1>1, <1>5 DEF DeriveKey, Rename
<1>6. CASE Changing(t)
  <2>1. CASE StartChange(t) \/ Snapshot(t) \/ NewSecret(t)
    BY <1>1, <2>1 DEF StartChange, Snapshot, NewSecret, fileVars
  <2>2. CASE UnsetKey(t) \/ Reset(t)
    BY <1>1, <2>2 DEF UnsetKey, Reset
  <2>3. CASE Readd(t)
    <3>1. \A S, k : With(keyring, S, k).state = keyring.state
      BY <1>1 DEF With
    <3>2. keyring' = keyring \/ keyring' = With(keyring, loc[t].snap, loc[t].key)
      BY <2>3 DEF Readd, Edit, fileVars
    <3> QED
      BY <3>1, <3>2
  <2> QED
    BY <1>6, <2>1, <2>2, <2>3 DEF Changing
<1>7. CASE PutItem(t)
  <2> DEFINE kr(r) == [keyring EXCEPT !.items = @ \ (IF r THEN Matching(keyring, AttrsOf[loc[t].item], loc[t].key) ELSE {})]
  <2>1. \E r : keyring' = kr(r) \/ keyring' = With(kr(r), {loc[t].item}, loc[t].key)
    BY <1>7 DEF PutItem, Edit
  <2>2. \A r : kr(r).state = keyring.state /\ DOMAIN kr(r) = DOMAIN keyring
    BY <1>1
  <2> HIDE DEF kr
  <2>3. \A r, S, k : With(kr(r), S, k).state = keyring.state
    BY <1>1, <2>2 DEF With
  <2> QED
    BY <2>1, <2>2, <2>3
<1>8. CASE RemoveItems(t)
  BY <1>1, <1>8 DEF RemoveItems, Edit
<1> QED
  BY <1>2, <1>3, <1>4, <1>5, <1>6, <1>7, <1>8, Touches

LEMMA TurnedLock ==
  ASSUME bus \in [Items -> BusItem], NEW i \in Items, NEW d \in {"locked", "unlocked"}, NEW key
  PROVE  /\ bus[i].lock = d \/ bus[i].lock = "none" => Turned(i, d, key) = bus[i]
         /\ bus[i].lock # "none" => Turned(i, d, key).lock \in {d, "none"}
<1>1. bus[i].lock \in {"none", "locked", "unlocked"} /\ DOMAIN bus[i] = {"path", "lock", "attrs", "key"}
  BY DEF BusItem
<1>2. bus[i].lock = d \/ bus[i].lock = "none" => Turned(i, d, key) = bus[i]
  BY <1>1 DEF Turned
<1>3. bus[i].lock # "none" => Turned(i, d, key).lock \in {d, "none"}
  BY <1>1 DEF Turned
<1> QED
  BY <1>2, <1>3

\* Nothing but its own call and set_locked turns an item while no set_locked is under way.
LEMMA LockStays ==
  ASSUME TypeInv, UnpushedInv, OpenInv, TurnInv, NoItemLocked, NEW t \in Tasks, Prompt(t) \/ Step(t),
         pc[t] # "each"
  PROVE  /\ \A i \in Listed : keyring.state # "none" => bus'[i].lock = bus[i].lock
         /\ \A u \in Tasks : Unpushed(u) => \/ bus'[loc[u].item].lock = bus[loc[u].item].lock
                                            \/ u = t /\ pc[t] = "number"
<1>1. /\ Shape(t, pc[t], loc[t]) /\ bus \in [Items -> BusItem] /\ Listed \subseteq Items
      /\ \A u \in Tasks : Creates(u) \/ Unlocking(u) => loc[u].item \in Items
  BY NowFacts
<1>2. CASE bus' = bus
  BY <1>2
<1>3. CASE EachItem(t)
  BY <1>3 DEF EachItem
<1>4. CASE TurnItem(t)
  <2> DEFINE i == loc[t].item
  <2>1. /\ pc[t] = "turn" /\ Unlocking(t) /\ loc[t].target = "unlocked" /\ i \in Items
        /\ bus' = [bus EXCEPT ![i] = Turned(i, "unlocked", loc[t].key)]
    <3>1. loc[t].op \in {"lockItem", "unlockItem"} /\ pc[t] = "turn"
      BY <1>1, <1>4, OpAt DEF TurnItem
    <3>2. loc[t].op \in OpsOf[t]
      BY <1>1, <3>1 DEF Shape
    <3>3. Unlocking(t) /\ loc[t].target = "unlocked" /\ i \in Items
      BY <1>1, <3>1, <3>2 DEF NoItemLocked, Unlocking, Shape, Direction
    <3> QED
      BY <1>4, <3>1, <3>3 DEF TurnItem
  <2>2. keyring.state = "unlocked" /\ \A u \in Tasks : pc[u] # "each"
    <3>1. t \in readers
      BY <2>1 DEF TypeInv, Held, Reading
    <3> QED
      BY <2>1, <3>1, CollectionAssumption DEF TypeInv, Held, OpenInv, Unlocked, Reading
  <2>3. i \in Listed => bus[i].lock = "unlocked"
    BY <2>2 DEF TurnInv, AsTurned
  <2>4. i \in Listed => bus' = bus
    <3>1. i \in Listed => Turned(i, "unlocked", loc[t].key) = bus[i]
      BY <1>1, <2>1, <2>3, TurnedLock
    <3> QED
      BY <1>1, <2>1, <3>1
  <2>5. \A u \in Tasks : Unpushed(u) => loc[u].item # i
    BY <2>1 DEF UnpushedInv
  <2> QED
    BY <1>1, <2>1, <2>4, <2>5 DEF Unpushed
<1>5. CASE Number(t)
  <2>1. pc[t] = "number" /\ \E x : bus' = [bus EXCEPT ![loc[t].item] = x]
    BY <1>5 DEF Number
  <2>2. loc[t].op = "create"
    BY <1>1, <2>1, OpAt
  <2>3. Unpushed(t) /\ loc[t].item \in Items /\ loc[t].item \notin Listed
    BY <1>1, <2>1, <2>2 DEF Unpushed, Creates, UnpushedInv
  <2>4. \A u \in Tasks : Unpushed(u) /\ loc[u].item = loc[t].item => u = t
    BY <2>3 DEF Unpushed, TypeInv, Distinct
  <2> QED
    BY <1>1, <2>1, <2>3, <2>4 DEF Unpushed
<1> QED
  BY <1>2, <1>3, <1>4, <1>5, Touches

\* One set_locked at a time.
LEMMA Alone ==
  ASSUME TypeInv, NEW t \in Tasks
  PROVE  /\ writer = NoTask => pc[t] \notin {"items", "each"}
         /\ pc[t] \in {"items", "each"} =>
              /\ writer = t /\ writer # NoTask
              /\ \A u \in Tasks : pc[u] \in {"items", "each"} => u = t
         /\ pc[t] = "each" => itemsHolder = t /\ itemsHolder # NoTask
  BY CollectionAssumption DEF TypeInv, Held

LEMMA TailAt ==
  ASSUME NEW T, NEW s \in Seq(T), s # <<>>
  PROVE  \A n \in DOMAIN Tail(s) : n \in Nat \ {0} /\ n + 1 \in DOMAIN s /\ Tail(s)[n] = s[n + 1]
  OBVIOUS

\* What is left of a list in which nothing is twice.
LEMMA TailOnce ==
  ASSUME NEW T, NEW s \in Seq(T), s # <<>>, NoTwice(s)
  PROVE  NoTwice(Tail(s)) /\ Elements(Tail(s)) = Elements(s) \ {Head(s)}
<1>1. DOMAIN s = 1 .. Len(s) /\ Len(s) \in Nat /\ Head(s) = s[1] /\ 1 \in DOMAIN s
  OBVIOUS
<1>2. \A n \in DOMAIN Tail(s) : n \in Nat \ {0} /\ n + 1 \in DOMAIN s /\ Tail(s)[n] = s[n + 1]
  BY TailAt
<1>3. NoTwice(Tail(s))
  <2> SUFFICES ASSUME NEW m \in DOMAIN Tail(s), NEW n \in DOMAIN Tail(s), Tail(s)[m] = Tail(s)[n]
               PROVE  m = n
    BY DEF NoTwice
  <2>1. m + 1 = n + 1
    BY <1>2 DEF NoTwice
  <2> QED
    BY <1>2, <2>1
<1>4. Head(s) \notin Elements(Tail(s))
  <2> SUFFICES ASSUME NEW n \in DOMAIN Tail(s), Tail(s)[n] = Head(s) PROVE FALSE
    BY DEF Elements
  <2>1. n + 1 = 1
    BY <1>1, <1>2 DEF NoTwice
  <2> QED
    BY <1>2, <2>1
<1> QED
  BY <1>3, <1>4, HeadTail

LEMMA LastTail ==
  ASSUME NEW T, NEW s \in Seq(T), s # <<>>, Len(s) = 1
  PROVE  Elements(Tail(s)) = {}
<1>1. DOMAIN s = 1 .. Len(s)
  OBVIOUS
<1>2. \A n \in DOMAIN Tail(s) : n \in Nat \ {0} /\ n + 1 \in DOMAIN s /\ Tail(s)[n] = s[n + 1]
  BY TailAt
<1>3. DOMAIN Tail(s) = {}
  BY <1>1, <1>2
<1> QED
  BY <1>3 DEF Elements

LEMMA EachTurns ==
  ASSUME TypeInv, TurnInv, NEW t \in Tasks, EachItem(t)
  PROVE  /\ items' = items
         /\ \A i \in Items \ Listed : bus'[i] = bus[i]
         /\ \/ /\ keyring'.state \in {loc[t].target, "none"} /\ pc'[t] \notin {"items", "each"}
               /\ keyring'.state # "none" => \A i \in Listed : bus'[i].lock = keyring'.state
            \/ /\ keyring' = keyring /\ pc'[t] = "each" /\ loc'[t].target = loc[t].target
               /\ NoTwice(loc'[t].todo) /\ Elements(loc'[t].todo) \subseteq Listed
               /\ \A i \in Listed : bus'[i].lock \in IF i \in Elements(loc'[t].todo)
                                                      THEN {keyring.state, "unlocked"}
                                                      ELSE {loc[t].target}
<1> DEFINE todo == loc[t].todo
           i == Head(todo)
           turned == Turned(i, loc[t].target, KeyFor(keyring.secret))
           l == [loc[t] EXCEPT !.todo = Tail(todo)]
<1>1. /\ pc[t] = "each" /\ items' = items
      /\ \/ /\ todo = <<>> /\ Continue(t) /\ bus' = bus
            /\ keyring' = [keyring EXCEPT !.state = loc[t].target,
                             !.cached = IF loc[t].target = "locked" THEN NoKey ELSE @]
         \/ /\ todo # <<>> /\ bus' = [bus EXCEPT ![i] = turned]
            /\ \/ keyring' = [keyring EXCEPT !.state = "none", !.items = {}] /\ End(t)
               \/ /\ turned.lock # "none" \/ bus[i].lock = "none"
                  /\ Goto(t, "each", l) /\ keyring' = keyring
  BY DEF EachItem
<1>2. /\ loc[t] \in Local /\ bus \in [Items -> BusItem] /\ Listed \subseteq Items
      /\ DOMAIN keyring = {"state", "items", "under", "secret", "salt", "cached", "stamped"}
      /\ keyring.state \in {"none", "locked", "unlocked"}
      /\ pc \in [Tasks -> Labels] /\ loc \in [Tasks -> Local]
  BY DEF TypeInv, TypeOK, KeyringState, Listed
<1>3. todo \in Seq(Items) /\ loc[t].target \in {"locked", "unlocked"} /\ loc[t].after \in {"idle", "file", "find", "recheck", "change"}
  BY <1>2, LocalFields
<1>4. /\ NoTwice(todo) /\ Elements(todo) \subseteq Listed /\ keyring.state \notin {"none", loc[t].target}
      /\ \A j \in Listed : bus[j].lock \in IF j \in Elements(todo) THEN {keyring.state, "unlocked"}
                                                                  ELSE {loc[t].target}
  BY <1>1 DEF TurnInv
<1> HIDE DEF todo, turned, l
<1>5. CASE todo = <<>>
  <2>1. Elements(todo) = {}
    BY <1>5 DEF Elements
  <2>2. keyring'.state = loc[t].target /\ bus' = bus
    BY <1>1, <1>2, <1>5
  <2>3. pc'[t] \in {"idle", loc[t].after}
    BY <1>1, <1>2, <1>5 DEF Continue, Goto, End
  <2> QED
    BY <1>1, <1>3, <1>4, <2>1, <2>2, <2>3
<1>6. CASE todo # <<>>
  <2>1. i \in Items /\ i \in Elements(todo) /\ Elements(Tail(todo)) = Elements(todo) \ {i}
        /\ NoTwice(Tail(todo))
    BY <1>3, <1>4, <1>6, HeadTail, TailOnce
  <2>2. bus' = [bus EXCEPT ![i] = turned] /\ \A j \in Items \ Listed : bus'[j] = bus[j]
    BY <1>1, <1>2, <1>4, <1>6, <2>1
  <2>3. CASE keyring' = [keyring EXCEPT !.state = "none", !.items = {}] /\ End(t)
    <3>1. keyring'.state = "none" /\ pc'[t] = "idle"
      BY <1>2, <2>3 DEF End
    <3> QED
      BY <1>1, <2>2, <3>1
  <2>4. CASE (turned.lock # "none" \/ bus[i].lock = "none") /\ Goto(t, "each", l) /\ keyring' = keyring
    <3>1. l.todo = Tail(todo) /\ l.target = loc[t].target
      BY <1>2, LocalFields DEF l
    <3>2. pc'[t] = "each" /\ loc'[t] = l
      BY <1>2, <2>4 DEF Goto
    <3>3. bus[i].lock \in {keyring.state, "unlocked"} /\ bus[i].lock # "none"
      BY <1>4, <2>1
    <3>4. turned.lock = loc[t].target
      BY <1>2, <1>3, <1>4, <2>1, <2>4, <3>3, TurnedLock DEF turned
    <3>5. \A j \in Listed : bus'[j].lock \in IF j \in Elements(Tail(todo)) THEN {keyring.state, "unlocked"}
                                                                         ELSE {loc[t].target}
      BY <1>2, <1>4, <2>1, <2>2, <3>4
    <3> QED
      BY <1>1, <1>4, <2>1, <2>2, <2>4, <3>1, <3>2, <3>5
  <2> QED
    BY <1>1, <1>6, <2>3, <2>4
<1> QED
  BY <1>5, <1>6

LEMMA OpenTask ==
  ASSUME TypeInv, OpenInv, NEW t \in Tasks, Prompt(t) \/ Step(t)
  PROVE  OpenInv'
<1>1. Track(t) /\ pc[t] \in Labels
  BY NowFacts, ShapeNow
<1>2. \A u \in Tasks \ {t} : pc'[u] = pc[u]
  BY <1>1 DEF Track
<1>3. CASE pc[t] \in {"take", "each"}
  <2>1. readers = {}
    BY <1>3, CollectionAssumption, ActionAt DEF Take, TypeInv, Held
  <2>2. \A u \in Tasks : pc[u] \notin Reading
    BY <2>1 DEF TypeInv, Held
  <2>3. pc'[t] \notin Reading
    BY <1>1, <1>3 DEF Track, Follows, Unlocks, Reading, Keys
  <2> QED
    BY <1>2, <2>2, <2>3 DEF OpenInv
<1>4. CASE pc[t] \notin {"take", "each"}
  <2>1. keyring'.state = keyring.state
    BY <1>4, StateStays
  <2>2. ASSUME pc'[t] \in Reading PROVE Unlocked
    <3>1. pc[t] \in Reading \cup {"file", "deleteFile", "itemLock", "change"}
      BY <1>1, <1>4, <2>2 DEF Track, Follows, Unlocks, Reading, Keys, Labels
    <3>2. CASE pc[t] \in Reading
      BY <3>2 DEF OpenInv
    <3>3. CASE pc[t] = "file"
      BY <2>2, <3>3, ActionAt DEF CreateFile, End, Reading, Keys, TypeInv, TypeOK
    <3>4. CASE pc[t] = "deleteFile"
      BY <2>2, <3>4, ActionAt DEF DeleteFile, End, Reading, Keys, TypeInv, TypeOK
    <3>5. CASE pc[t] = "itemLock"
      <4>1. Unlocked \/ End(t) \/ \E l : Goto(t, "prompt", l) \/ Goto(t, "take", l)
        BY <3>5, ActionAt DEF ItemLock
      <4> QED
        BY <2>2, <4>1 DEF End, Goto, Reading, Keys, TypeInv, TypeOK
    <3>6. CASE pc[t] = "change"
      BY <2>2, <3>6, ActionAt DEF StartChange, End, Reading, Keys, TypeInv, TypeOK
    <3> QED
      BY <3>1, <3>2, <3>3, <3>4, <3>5, <3>6
  <2> QED
    BY <1>2, <2>1, <2>2 DEF OpenInv, Unlocked
<1> QED
  BY <1>3, <1>4

LEMMA TurnTask ==
  ASSUME TypeInv, UnpushedInv, OpenInv, TurnInv, CreateInv, NoItemLocked,
         NEW t \in Tasks, Prompt(t) \/ Step(t)
  PROVE  TurnInv'
<1>1. /\ Track(t) /\ items \in Seq(Items) /\ bus \in [Items -> BusItem] /\ Listed \subseteq Items
      /\ Listed = Elements(items) /\ Listed' = Elements(items')
  BY NowFacts
<1>2. \A u \in Tasks \ {t} : pc'[u] = pc[u] /\ loc'[u] = loc[u]
  BY <1>1 DEF Track
<1>3. \/ pc'[t] = "idle"
      \/ Follows(pc[t], pc'[t]) /\ Carries(pc[t], loc[t], loc'[t])
  BY <1>1 DEF Track
<1>4. CASE pc[t] = "each"
  <2>1. /\ items' = items
        /\ \/ /\ keyring'.state \in {loc[t].target, "none"} /\ pc'[t] \notin {"items", "each"}
              /\ keyring'.state # "none" => \A i \in Listed : bus'[i].lock = keyring'.state
           \/ /\ keyring' = keyring /\ pc'[t] = "each" /\ loc'[t].target = loc[t].target
              /\ NoTwice(loc'[t].todo) /\ Elements(loc'[t].todo) \subseteq Listed
              /\ \A i \in Listed : bus'[i].lock \in IF i \in Elements(loc'[t].todo)
                                                     THEN {keyring.state, "unlocked"}
                                                     ELSE {loc[t].target}
    BY <1>4, ActionAt, EachTurns
  <2>2. Listed' = Listed
    BY <1>1, <2>1
  <2>3. \A u \in Tasks \ {t} : pc'[u] \notin {"items", "each"}
    BY <1>2, <1>4, Alone
  <2>4. keyring.state \notin {"none", loc[t].target}
    BY <1>4 DEF TurnInv
  <2> QED
    BY <2>1, <2>2, <2>3, <2>4 DEF TurnInv, AsTurned
<1>5. CASE pc[t] = "take"
  <2>1. Take(t) /\ writer = NoTask /\ bus' = bus /\ items' = items /\ late' = late
    BY <1>5, ActionAt DEF Take, busVars, ghosts
  <2>2. \A u \in Tasks : pc[u] \notin {"items", "each"}
    BY <2>1, Alone
  <2>3. /\ keyring'.state = "none" \/ keyring'.state = keyring.state
        /\ pc'[t] = "items" => keyring'.state \notin {"none", loc'[t].target}
    <3>1. DOMAIN keyring = {"state", "items", "under", "secret", "salt", "cached", "stamped"} /\ pc \in [Tasks -> Labels] /\ loc \in [Tasks -> Local]
      BY DEF TypeInv, TypeOK, KeyringState
    <3>2. CASE keyring' = keyring /\ Continue(t)
      <4>1. pc'[t] \in {"idle", loc[t].after}
        BY <3>1, <3>2 DEF Continue, Goto, End
      <4>2. loc[t].after # "items"
        BY <3>1, LocalFields
      <4> QED
        BY <3>2, <4>1, <4>2
    <3>3. CASE keyring' = Reloaded /\ keyring.state = "locked" /\ End(t)
      <4>1. pc'[t] = "idle" /\ Reloaded.state \in {"none", "locked"}
        BY <3>1, <3>3 DEF Reloaded, End
      <4> QED
        BY <3>3, <4>1
    <3>4. CASE /\ Goto(t, "items", loc[t]) /\ keyring'.state = keyring.state
               /\ keyring.state \notin {"none", loc[t].target}
      BY <3>1, <3>4 DEF Goto
    <3> QED
      BY <2>1, <3>1, <3>2, <3>3, <3>4 DEF Take
  <2>4. \A u \in Tasks : pc'[u] # "each" /\ (pc'[u] = "items" => u = t)
    BY <1>2, <1>3, <1>5, <2>2 DEF Follows, Unlocks
  <2>5. Listed' = Listed
    BY <1>1, <2>1
  <2>6. keyring.state # "none" => \A i \in Listed : AsTurned(i)
    BY <2>2 DEF TurnInv
  <2> QED
    BY <2>1, <2>3, <2>4, <2>5, <2>6 DEF TurnInv, AsTurned
<1>6. CASE pc[t] = "items"
  <2>1. bus' = bus /\ items' = items /\ keyring' = keyring
    BY <1>6, ActionAt DEF LockItems, busVars, fileVars
  <2>2. pc'[t] = "each" /\ loc'[t].todo = items /\ loc'[t].target = loc[t].target
    <3>1. loc'[t] = [loc[t] EXCEPT !.todo = items] /\ pc'[t] = "each"
      BY <1>6, ActionAt DEF LockItems, Goto, TypeInv, TypeOK
    <3> QED
      BY <3>1, LocalFields DEF TypeInv, TypeOK
  <2>3. \A u \in Tasks \ {t} : pc[u] \notin {"items", "each"}
    BY <1>6, Alone
  <2>4. /\ keyring.state \notin {"none", loc[t].target}
        /\ \A i \in Listed : bus[i].lock \in {keyring.state, "unlocked"}
    BY <1>6, <2>3 DEF TurnInv, AsTurned
  <2>5. NoTwice(items) /\ Listed' = Listed
    BY <1>1, <2>1 DEF UnpushedInv
  <2> QED
    BY <1>1, <1>2, <2>1, <2>2, <2>3, <2>4, <2>5 DEF TurnInv
<1>7. CASE pc[t] \notin {"take", "items", "each"}
  <2>1. keyring'.state = keyring.state
    BY <1>7, StateStays
  <2>2. pc'[t] \notin {"items", "each"}
    <3>1. pc[t] \in Labels
      BY DEF TypeInv, TypeOK
    <3> QED
      BY <1>3, <1>7, <3>1 DEF Follows, Unlocks, Labels
  <2>3. keyring.state # "none" => \A i \in Listed : bus'[i].lock = bus[i].lock
    BY <1>7, LockStays
  <2>4. \A u \in Tasks : pc'[u] \in {"items", "each"} =>
          u # t /\ pc[u] = pc'[u] /\ loc'[u] = loc[u] /\ keyring.state \notin {"none", loc[u].target}
    BY <1>2, <2>2 DEF TurnInv
  <2>5. ASSUME NEW u \in Tasks, pc'[u] = "each" PROVE items' = items
    <3>1. u # t /\ itemsHolder = u /\ itemsHolder # NoTask
      BY <2>4, <2>5, Alone
    <3> QED
      BY <3>1, Touches DEF Purge, Push, Retain
  <2>6. ASSUME NEW u \in Tasks, pc'[u] = "each"
        PROVE  /\ NoTwice(loc'[u].todo) /\ Elements(loc'[u].todo) \subseteq Listed'
               /\ \A i \in Listed' : bus'[i].lock \in IF i \in Elements(loc'[u].todo)
                                                       THEN {keyring'.state, "unlocked"}
                                                       ELSE {loc'[u].target}
    <3>1. Listed' = Listed /\ pc[u] = "each" /\ loc'[u] = loc[u] /\ keyring.state # "none"
      BY <1>1, <2>4, <2>5, <2>6
    <3> QED
      BY <2>1, <2>3, <3>1 DEF TurnInv
  <2>7. ASSUME keyring'.state # "none", \A u \in Tasks : pc'[u] # "each", NEW i \in Listed'
        PROVE  AsTurned(i)'
    <3>1. (\A u \in Tasks : pc[u] # "each") /\ late \subseteq late'
      BY <1>2, <1>7, <2>7, Touches DEF LockItems, Push
    <3>2. CASE i \in Listed
      BY <2>1, <2>3, <2>7, <3>1, <3>2 DEF TurnInv, AsTurned
    <3>3. CASE i \notin Listed
      <4>1. pc[t] = "push" /\ i = loc[t].item
        BY <2>7, <3>3, ListGrows DEF Own
      <4>2. bus' = bus /\ Creates(t) /\ (Unlocked \/ i \in late')
        BY <4>1, ActionAt, ShapeNow, OpAt DEF Push, Creates, Listing
      <4>3. bus[i].lock = "unlocked"
        BY <4>1, <4>2 DEF CreateInv, Numbers
      <4> QED
        BY <2>1, <4>2, <4>3 DEF AsTurned, Unlocked
    <3> QED
      BY <3>2, <3>3
  <2> QED
    BY <2>1, <2>4, <2>6, <2>7 DEF TurnInv
<1> QED
  BY <1>4, <1>5, <1>6, <1>7

LEMMA CreateTask ==
  ASSUME TypeInv, UnpushedInv, OpenInv, TurnInv, CreateInv, NoItemLocked,
         NEW t \in Tasks, Prompt(t) \/ Step(t)
  PROVE  CreateInv'
<1>1. Track(t) /\ Shape(t, pc[t], loc[t]) /\ Blank.op = "none" /\ pc[t] \in Labels
  BY NowFacts, ShapeNow
<1>2. \A u \in Tasks \ {t} : pc'[u] = pc[u] /\ loc'[u] = loc[u]
  BY <1>1 DEF Track
<1>3. ASSUME NEW u \in Tasks, Unpushed(u), bus[loc[u].item].lock = "unlocked",
             u # t \/ pc[t] # "number"
      PROVE  bus'[loc[u].item].lock = "unlocked"
  <2>1. CASE pc[t] = "each"
    <3>1. loc[u].item \in Items \ Listed
      BY <1>3, NowFacts DEF UnpushedInv, Unpushed
    <3> QED
      BY <1>3, <2>1, <3>1, ActionAt, EachTurns
  <2>2. CASE pc[t] # "each"
    BY <1>3, <2>2, LockStays
  <2> QED
    BY <2>1, <2>2
<1>4. ASSUME Creates(t)', pc'[t] \in Numbers
      PROVE  bus'[loc'[t].item].lock = "unlocked"
  <2>1. Follows(pc[t], pc'[t]) /\ Carries(pc[t], loc[t], loc'[t]) /\ loc[t].op = "create"
    BY <1>1, <1>4 DEF Track, Creates, Carries
  <2>2. pc[t] \in {"number"} \cup Numbers
    BY <1>1, <1>4, <2>1 DEF Follows, Numbers, Unlocks, Labels
  <2>3. loc'[t].item = loc[t].item
    BY <2>1, <2>2 DEF Carries, Numbers
  <2>4. CASE pc[t] = "number"
    <3> DEFINE x == [path |-> loc[t].n, lock |-> "unlocked", attrs |-> loc[t].attrs, key |-> NoKey]
    <3>1. x.lock = "unlocked"
      OBVIOUS
    <3>2. bus' = [bus EXCEPT ![loc[t].item] = x]
      BY <2>4, ActionAt DEF Number
    <3>3. loc[t].item \in Items /\ bus \in [Items -> BusItem]
      BY <1>1, <2>1, NowFacts DEF Creates
    <3> HIDE DEF x
    <3> QED
      BY <2>3, <3>1, <3>2, <3>3
  <2>5. CASE pc[t] \in Numbers
    BY <1>3, <2>1, <2>3, <2>5 DEF CreateInv, Creates, Unpushed, Numbers
  <2> QED
    BY <2>2, <2>4, <2>5
<1>5. ASSUME NEW u \in Tasks, Creates(u)', pc'[u] \in Numbers
      PROVE  bus'[loc'[u].item].lock = "unlocked"
  <2>1. CASE u = t
    BY <1>4, <1>5, <2>1
  <2>2. CASE u # t
    BY <1>2, <1>3, <1>5, <2>2 DEF Creates, CreateInv, Unpushed, Numbers
  <2> QED
    BY <2>1, <2>2
<1> QED
  BY <1>5 DEF CreateInv

FollowInv == TypeInv /\ UnpushedInv /\ OpenInv /\ TurnInv /\ CreateInv

LEMMA FollowInit == Init => FollowInv
<1> SUFFICES ASSUME Init PROVE FollowInv
  OBVIOUS
<1>1. PICK q \in InitialItems, s \in Secrets, state \in StartStates, c \in AnyKey,
           visible \in Seq(Items) : Start(q, s, state, c, visible)
  BY InitParts
<1>2. /\ visible \in Seq(Items) /\ NoTwice(visible) /\ Elements(visible) \subseteq Elements(q)
      /\ items = visible /\ used = Elements(q) /\ keyring.state = state
      /\ pc = [t \in Tasks |-> "idle"] /\ loc = [t \in Tasks |-> Blank]
  BY <1>1 DEF Start
<1>3. TypeInv
  BY TypeInit
<1>4. Listed = Elements(visible)
  BY <1>2 DEF Listed, Elements
<1>5. \A t \in Tasks : pc[t] = "idle" /\ ~Creates(t) /\ ~Unlocking(t)
  BY <1>2, BlankShape DEF Creates, Unlocking
<1>6. ASSUME NEW i \in Listed PROVE bus[i].lock = state
  <2>1. i \in Items /\ \E n \in DOMAIN visible : visible[n] = i
    BY <1>2, <1>4, <1>6 DEF Elements
  <2>2. bus = [j \in Items |->
       [path |-> IF \E n \in DOMAIN visible : visible[n] = j
                   THEN CHOOSE n \in DOMAIN visible : visible[n] = j ELSE 0,
        lock |-> IF \E n \in DOMAIN visible : visible[n] = j THEN state ELSE "none",
        attrs |-> AttrsOf[j],
        key |-> [k \in Items |-> IF k \in Elements(q) \ Broken THEN <<s, 0>> ELSE NoKey][j]]]
    BY <1>1 DEF Start
  <2> QED
    BY <2>1, <2>2
<1>7. UnpushedInv
  BY <1>2, <1>4, <1>5 DEF UnpushedInv, Unpushed
<1>8. OpenInv /\ TurnInv
  BY <1>2, <1>5, <1>6 DEF OpenInv, TurnInv, AsTurned, Reading, Keys
<1>9. CreateInv
  BY <1>5 DEF CreateInv
<1> QED
  BY <1>3, <1>7, <1>8, <1>9 DEF FollowInv

LEMMA UnpushedCall ==
  ASSUME TypeInv, UnpushedInv, NEW t \in Tasks, Call(t) \/ SetAttributes(t)
  PROVE  UnpushedInv'
<1>1. CASE SetAttributes(t)
  <2>1. UNCHANGED <<items, Listed, pc, loc, used>>
    BY <1>1 DEF SetAttributes, ghosts, Listed
  <2> QED
    BY <2>1 DEF UnpushedInv, Unpushed, Unlocking, Creates
<1>2. CASE Call(t)
  <2>1. PICK op \in OpsOf[t], i \in Items \cup {NoItem} :
             /\ Callable(op, i)
             /\ loc'[t].op = op /\ loc'[t].item = i
             /\ \A u \in Tasks \ {t} : pc'[u] = pc[u] /\ loc'[u] = loc[u]
             /\ used' = IF op = "create" THEN used \cup {i} ELSE used
             /\ op = "create" => i \in Items \ used
             /\ items' = items
    BY <1>2, CallTo DEF busVars
  <2>2. op = "unlockItem" => i \in Listed
    BY <2>1 DEF Callable
  <2>3. NoTwice(items') /\ Listed' = Listed /\ Listed \subseteq used /\ used \subseteq used'
    BY <2>1 DEF UnpushedInv, Listed
  <2>4. ASSUME NEW u \in Tasks, Unlocking(u)' PROVE loc'[u].item \in used
    BY <2>1, <2>2, <2>3, <2>4 DEF UnpushedInv, Unlocking
  <2>5. ASSUME NEW u \in Tasks, Unpushed(u)'
        PROVE  /\ loc'[u].item \notin Listed
               /\ \A v \in Tasks : Unlocking(v)' => loc'[v].item # loc'[u].item
    <3>1. CASE u = t
      BY <2>1, <2>3, <2>4, <2>5, <3>1 DEF Unpushed, Creates
    <3>2. CASE u # t
      <4>1. Unpushed(u) /\ loc'[u].item = loc[u].item
        BY <2>1, <2>5, <3>2 DEF Unpushed, Creates
      <4> QED
        BY <2>1, <2>2, <4>1 DEF UnpushedInv, Unlocking
    <3> QED
      BY <3>1, <3>2
  <2> QED
    BY <2>3, <2>4, <2>5 DEF UnpushedInv
<1> QED
  BY <1>1, <1>2

\* A call that arrives turns nothing, and attributes are nothing to the locks.
LEMMA FollowCall ==
  ASSUME FollowInv, NEW t \in Tasks, Call(t) \/ SetAttributes(t)
  PROVE  OpenInv' /\ TurnInv' /\ CreateInv'
<1>1. CASE Call(t)
  <2>1. /\ pc'[t] \in {"check", "service"}
        /\ \A u \in Tasks \ {t} : pc'[u] = pc[u] /\ loc'[u] = loc[u]
        /\ pc[t] = "idle" /\ UNCHANGED <<keyring, bus, items, late>>
    BY <1>1, CallTo DEF FollowInv, busVars, fileVars
  <2>2. Listed' = Listed
    BY <2>1 DEF Listed
  <2>3. OpenInv' /\ TurnInv'
    <3>1. OpenInv'
      BY <2>1 DEF FollowInv, OpenInv, Unlocked, Reading, Keys
    <3> QED
      BY <2>1, <2>2, <3>1 DEF FollowInv, TurnInv, AsTurned
  <2>4. CreateInv'
    BY <2>1 DEF FollowInv, CreateInv, Creates, Numbers
  <2> QED
    BY <2>3, <2>4
<1>2. CASE SetAttributes(t)
  <2>1. /\ \E x, a : bus' = [bus EXCEPT ![x].attrs = a]
        /\ UNCHANGED <<keyring, items, Listed, pc, loc, late>>
    BY <1>2 DEF SetAttributes, fileVars, ghosts, Listed
  <2>2. bus \in [Items -> BusItem] /\ Listed \subseteq Items
    BY DEF FollowInv, TypeInv, TypeOK, Listed
  <2>3. \A i \in Items : bus'[i].lock = bus[i].lock
    BY <2>1, <2>2 DEF BusItem
  <2>4. \A u \in Tasks : Creates(u) => loc[u].item \in Items
    BY ShapeNow DEF FollowInv, Shape, ItemCalls, Creates
  <2>5. OpenInv' /\ TurnInv'
    BY <2>1, <2>2, <2>3 DEF FollowInv, OpenInv, TurnInv, AsTurned, Unlocked
  <2>6. CreateInv'
    BY <2>1, <2>3, <2>4 DEF FollowInv, CreateInv, Creates
  <2> QED
    BY <2>5, <2>6
<1> QED
  BY <1>1, <1>2

LEMMA FollowNext ==
  ASSUME NoItemLocked, FollowInv, [Next]_vars
  PROVE  FollowInv'
<1>1. TypeInv'
  BY TypeNext DEF FollowInv
<1>2. CASE UNCHANGED vars
  <2>1. UNCHANGED <<keyring, items, Listed, bus, pc, loc, used, late>>
    BY <1>2 DEF vars, Listed
  <2>2. UnpushedInv'
    BY <2>1 DEF FollowInv, UnpushedInv, Unpushed, Unlocking, Creates
  <2>3. OpenInv' /\ TurnInv'
    BY <2>1 DEF FollowInv, OpenInv, TurnInv, AsTurned, Unlocked
  <2>4. CreateInv'
    BY <2>1 DEF FollowInv, CreateInv, Creates
  <2> QED
    BY <1>1, <2>2, <2>3, <2>4 DEF FollowInv
<1>3. ASSUME NEW t \in Tasks, Call(t) \/ SetAttributes(t) PROVE FollowInv'
  BY <1>1, <1>3, FollowCall, UnpushedCall DEF FollowInv
<1>4. ASSUME NEW t \in Tasks, Prompt(t) \/ Step(t) PROVE FollowInv'
  BY <1>1, <1>4, UnpushedTask, OpenTask, TurnTask, CreateTask DEF FollowInv
<1> QED
  BY <1>2, <1>3, <1>4 DEF Next, Quiet

\* When no set_locked is under way, every item of the list is locked or unlocked as the
\* collection is, whoever creates, replaces, deletes, locks and unlocks meanwhile; but
\* for an item that was added while the collection was not unlocked, which is unlocked
\* until the next set_locked.  No item may be locked by itself.
THEOREM ItemsFollow ==
  ASSUME NoItemLocked
  PROVE  Spec => []ItemsFollowCollection
<1>1. FollowInv => ItemsFollowCollection
  <2> SUFFICES ASSUME FollowInv PROVE ItemsFollowCollection
    OBVIOUS
  <2>1. writer = NoTask => \A t \in Tasks : pc[t] # "each"
    BY Alone DEF FollowInv
  <2> QED
    BY <2>1 DEF FollowInv, TurnInv, AsTurned, ItemsFollowCollection, LockedWithCollection,
                UnlockedWithCollection, Unlocked
<1>2. Init => FollowInv
  BY FollowInit
<1>3. FollowInv /\ [Next]_vars => FollowInv'
  BY FollowNext
<1> QED
  BY <1>1, <1>2, <1>3, PTL DEF Spec
===============================================================================
