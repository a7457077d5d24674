------------------------- MODULE ClientMigrationProofs -------------------------
(***************************************************************************)
(* What holds of ClientMigration for all values of its constants.          *)
(***************************************************************************)
EXTENDS ClientMigration, FiniteSetTheorems, WellFoundedInduction, TLAPS

(* Induction over the numbers, and functions defined by recursion *)

Less == {ss \in Nat \X Nat : ss[1] < ss[2]}

LEMMA LessWellFounded == IsWellFoundedOn(Less, Nat)
BY NatLessThanWellFounded DEF OpToRel, Less

LEMMA Least ==
  ASSUME NEW T \in SUBSET Nat, T # {}
  PROVE  \E n \in T : \A m \in T : n <= m
<1>1. PICK x \in T : \A y \in T : <<y, x>> \notin Less
  BY LessWellFounded, WFMin
<1>2. ASSUME NEW y \in T, y < x PROVE <<y, x>> \in Less
  BY <1>2 DEF Less
<1>3. \A y \in T : ~(y < x)
  BY <1>1, <1>2
<1> QED
  BY <1>3

LEMMA Induction ==
  ASSUME NEW S \in SUBSET Nat, 0 \in S, \A n \in S : n + 1 \in S
  PROVE  S = Nat
<1>1. ASSUME NEW n \in Nat \ S, \A m \in Nat \ S : n <= m PROVE FALSE
  <2>1. n # 0 /\ n - 1 \in Nat
    BY <1>1
  <2>2. n - 1 \in S
    BY <2>1, <1>1
  <2>3. (n - 1) + 1 \in S
    BY <2>2
  <2> QED
    BY <2>3
<1>2. Nat \ S \in SUBSET Nat
  OBVIOUS
<1> QED
  BY <1>1, <1>2, Least

\* There are the values that step, taken N times from base, goes through.
Steps(f, N, base, step) == f[0] = base /\ \A n \in 1 .. N : f[n] = step[n][f[n - 1]]

Iterates(T, N, base, step) == \E f \in [0 .. N -> T] : Steps(f, N, base, step)

LEMMA Recursion ==
  ASSUME NEW T, NEW N \in Nat, NEW base \in T, NEW step \in [1 .. N -> [T -> T]]
  PROVE  Iterates(T, N, base, step)
<1> USE DEF Steps
<1> DEFINE
  Good(m, f) == f \in [0 .. m -> T] /\ Steps(f, m, base, step)
  S == {m \in Nat : m <= N => \E f : Good(m, f)}
<1>1. 0 \in S
  <2>1. Good(0, [n \in 0 .. 0 |-> base])
    OBVIOUS
  <2> QED
    BY <2>1
<1>2. ASSUME NEW m \in S PROVE m + 1 \in S
  <2> SUFFICES ASSUME m + 1 <= N PROVE \E f : Good(m + 1, f)
    OBVIOUS
  <2>1. PICK f : Good(m, f)
    BY <1>2
  <2> DEFINE g == [n \in 0 .. m + 1 |-> IF n <= m THEN f[n] ELSE step[m + 1][f[m]]]
  <2>2. f[m] \in T /\ step[m + 1][f[m]] \in T
    BY <2>1
  <2>3. g \in [0 .. m + 1 -> T] /\ g[0] = base
    BY <2>1, <2>2
  <2>4. ASSUME NEW n \in 1 .. m + 1 PROVE g[n] = step[n][g[n - 1]]
    <3>1. g[n - 1] = f[n - 1]
      OBVIOUS
    <3>2. CASE n <= m
      BY <2>1, <3>1, <3>2
    <3>3. CASE n = m + 1
      BY <3>1, <3>3
    <3> QED
      BY <3>2, <3>3
  <2> QED
    BY <2>3, <2>4
<1>3. S = Nat
  BY <1>1, <1>2, Induction
<1>4. PICK f : Good(N, f)
  BY <1>3
<1> QED
  BY <1>4 DEF Iterates

-----------------------------------------------------------------------------
(* What is put into the keyring *)

\* The entries that an item with the attributes of e does not replace.
Stays(x, e) == ~(e.attributes \subseteq x.attributes)

OneEach(entries) ==
  \A i, j \in DOMAIN entries :
    entries[i].attributes = entries[j].attributes /\ entries[i] # OtherItem => i = j

Among(e, entries) == \E i \in DOMAIN entries : entries[i] = e

\* kept has, in their order, those of the first n entries that stay.
Kept(kept, n, entries, e) ==
  /\ kept \in Seq(Entry)
  /\ \A i \in DOMAIN kept : Stays(kept[i], e) /\ \E m \in 1 .. n : kept[i] = entries[m]
  /\ \A m \in 1 .. n : Stays(entries[m], e) => Among(entries[m], kept)
  /\ OneEach(entries) => OneEach(kept)

LEMMA KeptMore ==
  ASSUME NEW entries \in Seq(Entry), NEW e, NEW n \in Nat, n + 1 \in DOMAIN entries,
         NEW kept, Kept(kept, n, entries, e), Stays(entries[n + 1], e)
  PROVE  Kept(Append(kept, entries[n + 1]), n + 1, entries, e)
<1> DEFINE new == Append(kept, entries[n + 1])
<1>1. /\ kept \in Seq(Entry) /\ entries[n + 1] \in Entry
      /\ new \in Seq(Entry) /\ Len(new) = Len(kept) + 1 /\ new[Len(new)] = entries[n + 1]
      /\ \A i \in DOMAIN kept : i \in DOMAIN new /\ new[i] = kept[i]
  BY DEF Kept
<1>2. \A i \in DOMAIN new : i \in DOMAIN kept \/ i = Len(new)
  BY <1>1
<1>3. \A i \in DOMAIN kept : \E m \in 1 .. n : kept[i] = entries[m]
  BY DEF Kept
<1> HIDE DEF new
<1>4. ASSUME NEW i \in DOMAIN new
      PROVE  Stays(new[i], e) /\ \E m \in 1 .. n + 1 : new[i] = entries[m]
  <2>1. CASE i \in DOMAIN kept
    <3>1. new[i] = kept[i]
      BY <1>1, <2>1
    <3>2. Stays(kept[i], e)
      BY <2>1 DEF Kept
    <3>3. PICK m \in 1 .. n : kept[i] = entries[m]
      BY <1>3, <2>1
    <3> QED
      BY <3>1, <3>2, <3>3
  <2>2. CASE i = Len(new)
    BY <1>1, <2>2
  <2> QED
    BY <1>2, <2>1, <2>2
<1>5. ASSUME NEW m \in 1 .. n + 1, Stays(entries[m], e) PROVE Among(entries[m], new)
  <2>1. CASE m <= n
    BY <1>1, <1>5, <2>1 DEF Kept, Among
  <2>2. CASE m = n + 1
    BY <1>1, <2>2 DEF Among
  <2> QED
    BY <2>1, <2>2
<1>6. ASSUME OneEach(entries) PROVE OneEach(new)
  <2>1. OneEach(kept)
    BY <1>6 DEF Kept
  <2>2. ASSUME NEW i \in DOMAIN kept,
               kept[i].attributes = entries[n + 1].attributes,
               kept[i] # OtherItem \/ entries[n + 1] # OtherItem
        PROVE  FALSE
    <3>1. PICK m \in 1 .. n : kept[i] = entries[m]
      BY <1>3
    <3>2. m \in DOMAIN entries /\ m # n + 1
      OBVIOUS
    <3> QED
      BY <1>6, <2>2, <3>1, <3>2 DEF OneEach
  <2> QED
    BY <1>1, <1>2, <2>1, <2>2 DEF OneEach
<1> QED
  BY <1>1, <1>4, <1>5, <1>6 DEF Kept, new

LEMMA WithoutKeeps ==
  ASSUME NEW entries \in Seq(Entry), NEW e
  PROVE  Kept(Without(entries, e), Len(entries), entries, e)
<1> DEFINE
  N == Len(entries)
  step == [n \in 1 .. N |-> [x \in Seq(Entry) |->
             IF e.attributes \subseteq entries[n].attributes THEN x
             ELSE Append(x, entries[n])]]
<1>1. N \in Nat /\ \A n \in 1 .. N : entries[n] \in Entry
  OBVIOUS
<1>2. step \in [1 .. N -> [Seq(Entry) -> Seq(Entry)]]
  BY <1>1
<1>3. <<>> \in Seq(Entry)
  OBVIOUS
<1>4. \E f \in [0 .. N -> Seq(Entry)] :
        f = [n \in 0 .. N |-> IF n = 0 THEN <<>> ELSE step[n][f[n - 1]]]
  <2> DEFINE T == Seq(Entry)
             base == <<>>
  <2>1. N \in Nat /\ base \in T /\ step \in [1 .. N -> [T -> T]]
    BY <1>1, <1>2, <1>3
  <2> HIDE DEF step, N, T, base
  <2>2. Iterates(T, N, base, step)
    BY <2>1, Recursion
  <2>3. PICK f \in [0 .. N -> T] : Steps(f, N, base, step)
    BY <2>2 DEF Iterates
  <2>4. f = [n \in 0 .. N |-> IF n = 0 THEN base ELSE step[n][f[n - 1]]]
    BY <2>1, <2>3 DEF Steps
  <2> QED
    BY <2>3, <2>4 DEF T, base
<1>5. PICK f \in [0 .. N -> Seq(Entry)] :
        f = [n \in 0 .. N |-> IF n = 0 THEN <<>> ELSE step[n][f[n - 1]]]
  BY <1>4
<1>6. f = [n \in 0 .. N |->
             IF n = 0 THEN <<>>
             ELSE IF e.attributes \subseteq entries[n].attributes THEN f[n - 1]
             ELSE Append(f[n - 1], entries[n])]
  <2>1. ASSUME NEW n \in 1 .. N
        PROVE  step[n][f[n - 1]] = IF e.attributes \subseteq entries[n].attributes THEN f[n - 1]
             ELSE Append(f[n - 1], entries[n])
    BY <1>1
  <2> HIDE DEF step
  <2>2. ASSUME NEW n \in 1 .. N PROVE n # 0 /\ n - 1 \in 0 .. N
    BY <1>1
  <2>3. ASSUME NEW n \in 0 .. N
        PROVE  f[n] = IF n = 0 THEN <<>>
             ELSE IF e.attributes \subseteq entries[n].attributes THEN f[n - 1]
             ELSE Append(f[n - 1], entries[n])
    <3>1. CASE n = 0
      BY <1>5, <3>1
    <3>2. CASE n # 0
      <4>1. n \in 1 .. N
        BY <1>1, <3>2
      <4>2. f[n] = step[n][f[n - 1]]
        BY <1>5, <3>2
      <4> QED
        BY <2>1, <3>2, <4>1, <4>2
    <3> QED
      BY <3>1, <3>2
  <2> HIDE DEF N
  <2> QED
    BY <2>3
<1> DEFINE
  w == CHOOSE w : w = [n \in 0 .. N |->
             IF n = 0 THEN <<>>
             ELSE IF e.attributes \subseteq entries[n].attributes THEN w[n - 1]
             ELSE Append(w[n - 1], entries[n])]
  S == {n \in Nat : n <= N => Kept(w[n], n, entries, e)}
<1>7. Without(entries, e) = w[N]
  BY DEF Without
<1>8. w = [n \in 0 .. N |->
             IF n = 0 THEN <<>>
             ELSE IF e.attributes \subseteq entries[n].attributes THEN w[n - 1]
             ELSE Append(w[n - 1], entries[n])]
  BY <1>6
<1> HIDE DEF w
<1>9. 0 \in S
  <2>1. w[0] = <<>>
    BY <1>1, <1>8
  <2>2. <<>> \in Seq(Entry) /\ DOMAIN <<>> = {} /\ 1 .. 0 = {}
    OBVIOUS
  <2>3. Kept(<<>>, 0, entries, e)
    BY <2>2, ZenonT(30) DEF Kept, OneEach
  <2> QED
    BY <2>1, <2>3
<1>10. ASSUME NEW n \in S PROVE n + 1 \in S
  <2> SUFFICES ASSUME n + 1 <= N PROVE Kept(w[n + 1], n + 1, entries, e)
    OBVIOUS
  <2>1. n + 1 \in 1 .. N /\ (n + 1) - 1 = n /\ Kept(w[n], n, entries, e)
    BY <1>1, <1>10
  <2>2. w[n + 1] = IF e.attributes \subseteq entries[n + 1].attributes THEN w[n]
                   ELSE Append(w[n], entries[n + 1])
    <3>1. n + 1 \in 0 .. N /\ n + 1 # 0
      BY <1>1, <2>1
    <3>2. \A k \in 0 .. N : w[k] =
             IF k = 0 THEN <<>>
             ELSE IF e.attributes \subseteq entries[k].attributes THEN w[k - 1]
             ELSE Append(w[k - 1], entries[k])
      BY <1>8
    <3> HIDE DEF N
    <3> QED
      BY <2>1, <3>1, <3>2
  <2>3. CASE ~Stays(entries[n + 1], e)
    <3>1. w[n + 1] = w[n]
      BY <2>2, <2>3 DEF Stays
    <3> QED
      BY <2>1, <2>3, <3>1 DEF Kept
  <2>4. CASE Stays(entries[n + 1], e)
    <3>1. w[n + 1] = Append(w[n], entries[n + 1])
      BY <2>2, <2>4 DEF Stays
    <3> QED
      BY <1>1, <2>1, <2>4, <3>1, KeptMore
  <2> QED
    BY <2>3, <2>4
<1>11. N \in S
  BY <1>1, <1>9, <1>10, Induction
<1> QED
  BY <1>1, <1>7, <1>11

LEMMA AddedKeeps ==
  ASSUME NEW entries \in Seq(Entry), NEW e \in Entry
  PROVE  /\ Added(entries, e) \in Seq(Entry)
         /\ Among(e, Added(entries, e))
         /\ \A x : Among(x, entries) /\ (Stays(x, e) \/ x = e) => Among(x, Added(entries, e))
         /\ \A x : Among(x, Added(entries, e)) => Among(x, entries) \/ x = e
         /\ loc.replace /\ OneEach(entries) => OneEach(Added(entries, e))
<1> DEFINE rest == IF loc.replace THEN Without(entries, e) ELSE entries
           new == Append(rest, e)
<1>1. Kept(Without(entries, e), Len(entries), entries, e)
  BY WithoutKeeps
<1>2. Added(entries, e) = new /\ rest \in Seq(Entry)
  BY <1>1 DEF Added, Kept
<1>3. /\ \A x : Among(x, entries) /\ Stays(x, e) => Among(x, rest)
      /\ \A x : Among(x, rest) => Among(x, entries)
  <2>1. CASE loc.replace
    <3>1. rest = Without(entries, e)
      BY <2>1
    <3>2. /\ \A i \in DOMAIN rest : \E m \in 1 .. Len(entries) : rest[i] = entries[m]
          /\ \A m \in 1 .. Len(entries) : Stays(entries[m], e) => Among(entries[m], rest)
      BY <1>1, <3>1 DEF Kept
    <3> HIDE DEF rest
    <3> QED
      BY <3>2 DEF Among
  <2>2. CASE ~loc.replace
    BY <2>2
  <2> QED
    BY <2>1, <2>2
<1>4. loc.replace =>
        /\ \A i \in DOMAIN rest : Stays(rest[i], e)
        /\ OneEach(entries) => OneEach(rest)
  BY <1>1 DEF Kept
<1> HIDE DEF rest
<1>5. /\ new \in Seq(Entry) /\ Len(new) = Len(rest) + 1 /\ new[Len(new)] = e
      /\ \A i \in DOMAIN rest : i \in DOMAIN new /\ new[i] = rest[i]
      /\ \A i \in DOMAIN new : i \in DOMAIN rest \/ i = Len(new)
      /\ Len(new) \in DOMAIN new
  BY <1>2
<1> HIDE DEF new
<1>6. Among(e, new) /\ \A x : Among(x, rest) => Among(x, new)
  BY <1>5 DEF Among
<1>7. \A x : Among(x, new) => Among(x, rest) \/ x = e
  BY <1>5 DEF Among
<1>8. ASSUME loc.replace, OneEach(entries) PROVE OneEach(new)
  <2>1. \A i \in DOMAIN rest : rest[i].attributes # e.attributes
    BY <1>4, <1>8 DEF Stays
  <2> QED
    BY <1>4, <1>5, <1>8, <2>1 DEF OneEach
<1> QED
  BY <1>2, <1>3, <1>5, <1>6, <1>7, <1>8

\* None of the new items after the i-th replaces x by another entry.
Lasts(x, i, n) == \A j \in i + 1 .. n : Stays(x, loc.new[j]) \/ x = loc.new[j]

\* after is the keyring when the first n of the new items are put in.
PutIn(after, n) ==
  /\ after \in Seq(Entry)
  /\ \A x : Among(x, loc.memory) /\ Lasts(x, 0, n) => Among(x, after)
  /\ \A i \in 1 .. n : Lasts(loc.new[i], i, n) => Among(loc.new[i], after)
  /\ \A x : Among(x, after) => Among(x, loc.memory) \/ \E i \in 1 .. n : x = loc.new[i]
  /\ loc.replace /\ OneEach(loc.memory) => OneEach(after)

LEMMA PutInMore ==
  ASSUME loc \in Local, NEW n \in Nat, n + 1 \in DOMAIN loc.new, NEW after, PutIn(after, n)
  PROVE  PutIn(Added(after, loc.new[n + 1]), n + 1)
<1> DEFINE e == loc.new[n + 1]
           more == Added(after, e)
<1>1. after \in Seq(Entry) /\ e \in Entry
  BY DEF PutIn, Local
<1>2. /\ more \in Seq(Entry)
      /\ Among(e, more)
      /\ \A x : Among(x, after) /\ (Stays(x, e) \/ x = e) => Among(x, more)
      /\ \A x : Among(x, more) => Among(x, after) \/ x = e
      /\ loc.replace /\ OneEach(after) => OneEach(more)
  BY <1>1, AddedKeeps
<1>3. ASSUME NEW x, NEW i \in 0 .. n, Lasts(x, i, n + 1)
      PROVE  Lasts(x, i, n) /\ (Stays(x, e) \/ x = e)
  BY <1>3 DEF Lasts
<1> HIDE DEF more
<1>4. ASSUME NEW x, Among(x, loc.memory), Lasts(x, 0, n + 1) PROVE Among(x, more)
  BY <1>2, <1>3, <1>4 DEF PutIn
<1>5. ASSUME NEW i \in 1 .. n + 1, Lasts(loc.new[i], i, n + 1) PROVE Among(loc.new[i], more)
  <2>1. CASE i = n + 1
    BY <1>2, <2>1
  <2>2. CASE i <= n
    BY <1>2, <1>3, <1>5, <2>2 DEF PutIn
  <2> QED
    BY <2>1, <2>2
<1>6. ASSUME NEW x, Among(x, more)
      PROVE  Among(x, loc.memory) \/ \E i \in 1 .. n + 1 : x = loc.new[i]
  BY <1>2, <1>6 DEF PutIn
<1>7. loc.replace /\ OneEach(loc.memory) => OneEach(more)
  BY <1>2 DEF PutIn
<1>8. PutIn(more, n + 1)
  BY <1>2, <1>4, <1>5, <1>6, <1>7 DEF PutIn
<1> QED
  BY <1>8 DEF more

LEMMA WrittenKeeps ==
  ASSUME loc \in Local
  PROVE  PutIn(Written, Len(loc.new))
<1> DEFINE
  N == Len(loc.new)
  step == [n \in 1 .. N |-> [x \in Seq(Entry) |-> Added(x, loc.new[n])]]
<1>1. N \in Nat /\ (\A n \in 1 .. N : loc.new[n] \in Entry) /\ loc.memory \in Seq(Entry)
  BY DEF Local
<1>2. step \in [1 .. N -> [Seq(Entry) -> Seq(Entry)]]
  BY <1>1, AddedKeeps
<1>3. PICK f \in [0 .. N -> Seq(Entry)] : Steps(f, N, loc.memory, step)
  <2> DEFINE T == Seq(Entry)
             base == loc.memory
  <2>1. N \in Nat /\ base \in T /\ step \in [1 .. N -> [T -> T]]
    BY <1>1, <1>2
  <2> HIDE DEF step, N, T, base
  <2>2. Iterates(T, N, base, step)
    BY <2>1, Recursion
  <2> QED
    BY <2>2 DEF Iterates, T, base
<1>4. f = [n \in 0 .. N |-> IF n = 0 THEN loc.memory ELSE Added(f[n - 1], loc.new[n])]
  <2>1. ASSUME NEW n \in 1 .. N PROVE step[n][f[n - 1]] = Added(f[n - 1], loc.new[n])
    <3>1. f[n - 1] \in Seq(Entry)
      <4>1. n - 1 \in 0 .. N
        BY <1>1
      <4> HIDE DEF N, step
      <4> QED
        BY <1>3, <4>1
    <3>2. step[n] = [x \in Seq(Entry) |-> Added(x, loc.new[n])]
      OBVIOUS
    <3> HIDE DEF step
    <3> QED
      BY <3>1, <3>2, Zenon
  <2> HIDE DEF step
  <2> QED
    BY <1>1, <1>3, <2>1 DEF Steps
<1> DEFINE
  w == CHOOSE w : w = [n \in 0 .. N |->
             IF n = 0 THEN loc.memory ELSE Added(w[n - 1], loc.new[n])]
  S == {n \in Nat : n <= N => PutIn(w[n], n)}
<1>5. Written = w[N]
  BY DEF Written
<1>6. w = [n \in 0 .. N |-> IF n = 0 THEN loc.memory ELSE Added(w[n - 1], loc.new[n])]
  BY <1>4
<1> HIDE DEF w
<1>7. 0 \in S
  <2>1. w[0] = loc.memory
    BY <1>1, <1>6
  <2> QED
    BY <1>1, <2>1 DEF PutIn
<1>8. ASSUME NEW n \in S PROVE n + 1 \in S
  <2> SUFFICES ASSUME n + 1 <= N PROVE PutIn(w[n + 1], n + 1)
    OBVIOUS
  <2>1. n + 1 \in 0 .. N /\ n + 1 # 0 /\ (n + 1) - 1 = n /\ PutIn(w[n], n)
    BY <1>1, <1>8
  <2>2. \A k \in 0 .. N : w[k] = IF k = 0 THEN loc.memory ELSE Added(w[k - 1], loc.new[k])
    BY <1>6
  <2>3. w[n + 1] = Added(w[n], loc.new[n + 1])
    <3> HIDE DEF N
    <3> QED
      BY <2>1, <2>2
  <2>4. n + 1 \in DOMAIN loc.new
    BY <1>1, <2>1
  <2> QED
    BY <2>1, <2>3, <2>4, PutInMore
<1>9. N \in S
  BY <1>1, <1>7, <1>8, Induction
<1> QED
  BY <1>1, <1>5, <1>9

-----------------------------------------------------------------------------
(* Types *)

Amounts == [{"call", "fault", "kill", "edit", "write"} -> Nat]

LEMMA SpendType ==
  ASSUME TypeOK, NEW k \in {"call", "fault", "kill", "edit", "write"}, Spend(k)
  PROVE  budget' \in Amounts
BY DEF TypeOK, Spend, Amounts

LEMMA FoundType ==
  ASSUME NEW q, NEW found \in SetToSeqs(Found(q))
  PROVE  found \in Seq(Paths) /\ \A i \in DOMAIN found : source[found[i]] # NoValue
<1>1. IsFiniteSet(Found(q)) /\ Found(q) \subseteq Paths
  BY MigrationAssumption, FS_Subset DEF Found
<1>2. Cardinality(Found(q)) \in Nat
  BY <1>1, FS_CardinalityType
<1>3. found \in [1 .. Cardinality(Found(q)) -> Found(q)]
  BY DEF SetToSeqs
<1> DEFINE F == Found(q)
           c == Cardinality(F)
<1>4. \A p \in F : p \in Paths /\ source[p] # NoValue
  BY DEF Found
<1> HIDE DEF F, c
<1>5. found \in [1 .. c -> F] /\ c \in Nat
  BY <1>2, <1>3 DEF F, c
<1>6. found \in Seq(Paths)
  BY <1>4, <1>5
<1>7. \A i \in DOMAIN found : found[i] \in F
  BY <1>5
<1> QED
  BY <1>4, <1>6, <1>7

LEMMA WriteType ==
  ASSUME TypeOK, Write
  PROVE  file' \in Seq(Entry) /\ plain' \in BOOLEAN
<1>1. loc \in Local
  BY DEF TypeOK
<1>2. Written \in Seq(Entry)
  BY <1>1, WrittenKeeps DEF PutIn
<1> QED
  BY <1>1, <1>2 DEF TypeOK, Write, Local

\* What a migration has in hand when one of its variables is assigned.
LEMMA LocalType ==
  ASSUME NEW x \in Local
  PROVE  /\ \A g \in Nat, b \in BOOLEAN : [x EXCEPT !.gone = g, !.failed = b] \in Local
         /\ \A g \in Nat : [x EXCEPT !.gone = g] \in Local
         /\ \A s \in Seq(Entry) : [x EXCEPT !.new = s] \in Local
BY DEF Local

LEMMA BlankType == Blank \in Local
BY DEF Blank, Local

\* Every step keeps the types.
LEMMA NextType == TypeOK /\ [Next]_vars => TypeOK'
<1> SUFFICES ASSUME TypeOK, [Next]_vars PROVE TypeOK'
  OBVIOUS
<1> USE DEF Amounts
<1>1. CASE Start
  <2>1. budget' \in Amounts
    BY <1>1, SpendType DEF Start
  <2>2. Queries \in Seq(Range(Queries))
    BY MigrationAssumption
  <2>3. ASSUME NEW r \in BOOLEAN
        PROVE  [Blank EXCEPT !.replace = r, !.left = Queries] \in Local
    <3>1. \A x \in Local : [x EXCEPT !.replace = r, !.left = Queries] \in Local
      BY <2>2 DEF Local
    <3> QED
      BY <3>1, BlankType
  <2>4. loc' \in Local
    BY <1>1, <2>3 DEF Start
  <2> QED
    BY <1>1, <2>1, <2>4 DEF TypeOK, Start
<1>2. CASE NoPortal
  <2>1. budget' \in Amounts
    BY <1>2, SpendType DEF NoPortal
  <2> QED
    BY <1>2, <2>1, BlankType DEF TypeOK, NoPortal
<1>3. CASE Load
  <2>1. loc' \in Local
    BY <1>3 DEF TypeOK, Load, Local
  <2> QED
    BY <1>3, <2>1 DEF TypeOK, Load
<1>4. CASE Search
  <2>1. loc' \in Local
    <3>1. CASE loc.left = <<>>
      BY <1>4, <3>1 DEF TypeOK, Search
    <3>2. CASE loc.left # <<>>
      <4>1. PICK found \in SetToSeqs(Found(Head(loc.left))) :
              loc' = [loc EXCEPT !.left = Tail(@), !.found = @ \o found]
        BY <1>4, <3>2 DEF Search
      <4>2. loc \in Local /\ found \in Seq(Paths)
        BY FoundType DEF TypeOK
      <4>3. Tail(loc.left) \in Seq(Range(Queries)) /\ loc.found \o found \in Seq(Paths)
        BY <3>2, <4>2 DEF Local
      <4> QED
        BY <4>1, <4>2, <4>3 DEF Local
    <3> QED
      BY <3>1, <3>2
  <2> QED
    BY <1>4, <2>1 DEF TypeOK, Search
<1>5. CASE Read
  <2>1. loc' \in Local
    <3> DEFINE n == Len(loc.new) + 1
    <3>1. CASE n > Len(loc.found) \/ source[loc.found[n]] = NoValue
      BY <1>5, <3>1 DEF TypeOK, Read
    <3>2. CASE n <= Len(loc.found) /\ source[loc.found[n]] # NoValue
      <4>1. loc \in Local /\ n \in DOMAIN loc.found
        BY <3>2 DEF TypeOK, Local
      <4>2. EntryOf(loc.found[n]) \in Entry
        BY <3>2, <4>1 DEF EntryOf, Entry, TypeOK, Local
      <4>3. loc' = [loc EXCEPT !.new = Append(@, EntryOf(loc.found[n]))]
        BY <1>5, <3>2, <4>1 DEF Read, Local
      <4>4. Append(loc.new, EntryOf(loc.found[n])) \in Seq(Entry)
        BY <4>1, <4>2 DEF Local
      <4> HIDE DEF n
      <4> QED
        BY <4>1, <4>3, <4>4, LocalType
    <3>3. n \in Nat /\ Len(loc.found) \in Nat
      BY DEF TypeOK, Local
    <3> HIDE DEF n
    <3> QED
      BY <3>1, <3>2, <3>3
  <2>2. pc' \in {"read", "create", "idle"} /\ answer' \in {answer, "error"}
    BY <1>5 DEF Read, Fail
  <2> QED
    BY <1>5, <2>1, <2>2 DEF TypeOK, Read
<1>6. CASE CreateItems
  <2>1. pc' \in {"delete", "idle"} /\ answer' \in {answer, "error"}
    BY <1>6 DEF CreateItems, GiveUp, Fail
  <2>2. budget' \in Amounts
    BY <1>6, SpendType DEF CreateItems, TypeOK
  <2>3. file' \in Seq(Entry) /\ plain' \in BOOLEAN
    BY <1>6, WriteType DEF CreateItems, TypeOK
  <2> QED
    BY <1>6, <2>1, <2>2, <2>3 DEF TypeOK, CreateItems
<1>7. CASE Delete
  <2>1. pc' \in {"delete", "idle"} /\ answer' \in {answer, "ok", "error"}
    BY <1>7 DEF Delete, Answer
  <2>2. source' \in [Paths -> Values \cup {NoValue}]
    BY <1>7 DEF Delete, TypeOK
  <2>3. loc' \in Local
    <3>1. \/ loc' = loc
          \/ loc' = [loc EXCEPT !.gone = @ + 1]
          \/ loc' = [loc EXCEPT !.gone = @ + 1, !.failed = TRUE]
      BY <1>7 DEF Delete
    <3>2. loc \in Local /\ loc.gone + 1 \in Nat
      BY DEF TypeOK, Local
    <3> QED
      BY <3>1, <3>2, LocalType
  <2>4. budget' \in Amounts
    BY <1>7, SpendType DEF Delete, TypeOK
  <2> QED
    BY <1>7, <2>1, <2>2, <2>3, <2>4 DEF TypeOK, Delete
<1>8. CASE CallFails
  <2>1. budget' \in Amounts
    BY <1>8, SpendType DEF CallFails
  <2> QED
    BY <1>8, <2>1 DEF TypeOK, CallFails, Fail
<1>9. CASE Killed
  <2>1. budget' \in Amounts
    BY <1>9, SpendType DEF Killed
  <2> QED
    BY <1>9, <2>1, BlankType DEF TypeOK, Killed
<1>10. CASE OtherWrites
  <2>1. budget' \in Amounts
    BY <1>10, SpendType DEF OtherWrites
  <2>2. file' \in Seq(Entry)
    BY <1>10, MigrationAssumption DEF OtherWrites, TypeOK
  <2> QED
    BY <1>10, <2>1, <2>2 DEF TypeOK, OtherWrites
<1>11. ASSUME NEW p \in Paths, NEW v \in Values \cup {NoValue}, Edit(p, v) PROVE TypeOK'
  <2>1. budget' \in Amounts
    BY <1>11, SpendType DEF Edit
  <2> QED
    BY <1>11, <2>1 DEF TypeOK, Edit
<1>12. CASE UNCHANGED vars
  BY <1>12 DEF TypeOK, vars
<1> QED
  BY <1>1, <1>2, <1>3, <1>4, <1>5, <1>6, <1>7, <1>8, <1>9, <1>10, <1>11, <1>12
  DEF Next, Migrate

LEMMA InitType == Init => TypeOK
<1> SUFFICES ASSUME Init PROVE TypeOK
  OBVIOUS
<1>1. source \in [Paths -> Values \cup {NoValue}] /\ owed \in [Paths -> Values \cup {NoValue}]
  BY DEF Init
<1>2. budget \in Amounts
  BY MigrationAssumption DEF Init, Amounts
<1>3. file \in Seq(Entry)
  BY DEF Init
<1> QED
  BY <1>1, <1>2, <1>3, BlankType DEF Init, TypeOK, Amounts

-----------------------------------------------------------------------------
(* What the steps do to the variables of migrate *)

\* The items found, those of them that were read, and how many were gone through.
Items(l) == <<l.found, l.new, l.gone, l.failed>>

ReadsOne ==
  LET n == Len(loc.new) + 1
  IN /\ n <= Len(loc.found) /\ source[loc.found[n]] # NoValue
     /\ Items(loc') = <<loc.found, Append(loc.new, EntryOf(loc.found[n])), loc.gone, loc.failed>>
     /\ pc' = pc /\ answer' = answer

LEMMA BlankItems ==
  /\ Items(Blank) = << <<>>, <<>>, 0, FALSE>>
  /\ \A r : Items([Blank EXCEPT !.replace = r, !.left = Queries]) = << <<>>, <<>>, 0, FALSE>>
BY DEF Items, Blank

LEMMA LocalItems ==
  ASSUME NEW x \in Local
  PROVE  /\ x.found \in Seq(Paths) /\ x.new \in Seq(Entry) /\ x.gone \in Nat
         /\ x.failed \in BOOLEAN
BY DEF Local

LEMMA LoadItems ==
  ASSUME TypeOK, Load
  PROVE  Items(loc') = Items(loc)
BY DEF TypeOK, Load, Items, Local

LEMMA SearchItems ==
  ASSUME TypeOK, Search
  PROVE  \/ loc' = loc /\ pc' = "read"
         \/ /\ pc' = pc /\ loc'.new = loc.new /\ loc'.gone = loc.gone
            /\ loc'.failed = loc.failed
            /\ loc'.replace = loc.replace
BY DEF TypeOK, Search, Local

LEMMA ReadItems ==
  ASSUME TypeOK, Read
  PROVE  \/ loc' = loc /\ pc' = "create" /\ answer' = answer /\ Len(loc.new) >= Len(loc.found)
         \/ loc' = loc /\ pc' = "idle" /\ answer' = "error"
         \/ ReadsOne
<1> DEFINE n == Len(loc.new) + 1
<1>1. loc \in Local /\ n \in Nat /\ Len(loc.found) \in Nat /\ Len(loc.new) \in Nat
  BY LocalItems DEF TypeOK
<1>2. CASE n > Len(loc.found)
  BY <1>1, <1>2 DEF Read
<1>3. CASE n <= Len(loc.found) /\ source[loc.found[n]] = NoValue
  BY <1>1, <1>3 DEF Read, Fail
<1>4. CASE n <= Len(loc.found) /\ source[loc.found[n]] # NoValue
  <2>1. /\ loc' = [loc EXCEPT !.new = Append(@, EntryOf(loc.found[n]))]
        /\ pc' = pc /\ answer' = answer
    BY <1>1, <1>4 DEF Read
  <2>2. \A s : Items([loc EXCEPT !.new = s]) = <<loc.found, s, loc.gone, loc.failed>>
    BY <1>1 DEF Items, Local
  <2> QED
    BY <1>4, <2>1, <2>2 DEF ReadsOne
<1> QED
  BY <1>1, <1>2, <1>3, <1>4

\* A deletion goes on to the next item; only the last step of all returns.
Deletes ==
  LET p == loc.found[loc.gone + 1]
  IN /\ loc.gone # Len(loc.found) /\ pc' = pc /\ answer' = answer
     /\ loc'.found = loc.found /\ loc'.new = loc.new /\ loc'.gone = loc.gone + 1
     /\ \/ /\ source[p] # NoValue /\ source' = [source EXCEPT ![p] = NoValue]
           /\ loc'.failed = loc.failed
        \/ loc'.failed /\ source' = source

LEMMA DeleteItems ==
  ASSUME TypeOK, Delete
  PROVE  \/ /\ loc.gone = Len(loc.found) /\ pc' = "idle" /\ answer' = Answer
            /\ loc' = loc /\ source' = source
         \/ Deletes
<1>1. loc \in Local
  BY DEF TypeOK
<1>2. CASE loc.gone = Len(loc.found)
  BY <1>2 DEF Delete
<1>3. CASE loc.gone # Len(loc.found)
  <2>1. /\ Items([loc EXCEPT !.gone = @ + 1]) = <<loc.found, loc.new, loc.gone + 1, loc.failed>>
        /\ Items([loc EXCEPT !.gone = @ + 1, !.failed = TRUE])
             = <<loc.found, loc.new, loc.gone + 1, TRUE>>
    BY <1>1 DEF Local, Items
  <2> DEFINE p == loc.found[loc.gone + 1]
  <2>2. /\ pc' = pc /\ answer' = answer
        /\ \/ /\ source[p] # NoValue /\ source' = [source EXCEPT ![p] = NoValue]
              /\ loc' = [loc EXCEPT !.gone = @ + 1]
           \/ /\ loc' = [loc EXCEPT !.gone = @ + 1, !.failed = TRUE]
              /\ source' = source
    BY <1>3 DEF Delete
  <2> HIDE DEF p
  <2>3. CASE /\ source[p] # NoValue /\ source' = [source EXCEPT ![p] = NoValue]
             /\ loc' = [loc EXCEPT !.gone = @ + 1]
    <3>1. Items(loc') = <<loc.found, loc.new, loc.gone + 1, loc.failed>>
      BY <2>1, <2>3
    <3> QED
      BY <1>3, <2>2, <2>3, <3>1 DEF Deletes, p, Items
  <2>4. CASE loc' = [loc EXCEPT !.gone = @ + 1, !.failed = TRUE] /\ source' = source
    <3>1. Items(loc') = <<loc.found, loc.new, loc.gone + 1, TRUE>>
      BY <2>1, <2>4
    <3> QED
      BY <1>3, <2>2, <2>4, <3>1 DEF Deletes, p, Items
  <2> QED
    BY <2>2, <2>3, <2>4
<1> QED
  BY <1>2, <1>3

-----------------------------------------------------------------------------
(* One item in the file for each in the service *)

\* What migrate has read when.
Shape ==
  /\ pc \in {"load", "search"} => loc.new = <<>>
  /\ pc \in {"load", "search", "read", "create"} => loc.gone = 0 /\ ~loc.failed
  /\ pc = "create" => Len(loc.new) = Len(loc.found)
  /\ pc = "delete" => Len(loc.new) = Len(loc.found)
  /\ Len(loc.new) <= Len(loc.found) /\ loc.gone <= Len(loc.found)

SameAttributes == \A i \in DOMAIN loc.new : loc.new[i].attributes = AttrsOf[loc.found[i]]

ReadInv == Shape /\ SameAttributes

\* A step that forgets what was read, or leaves it.
Forgets == loc'.new = <<>> /\ loc'.found = <<>> /\ loc'.gone = 0 /\ ~loc'.failed

KeepsItems == Items(loc') = Items(loc)

LEMMA ForgetsRead ==
  ASSUME Forgets, pc' # "create", pc' # "delete"
  PROVE  ReadInv'
BY DEF Forgets, ReadInv, Shape, SameAttributes

LEMMA KeepsRead ==
  ASSUME ReadInv, KeepsItems, pc' = pc \/ pc' = "idle"
  PROVE  ReadInv'
BY DEF KeepsItems, Items, ReadInv, Shape, SameAttributes

LEMMA ReadsOneRead ==
  ASSUME TypeOK, ReadInv, ReadsOne, pc = "read"
  PROVE  ReadInv'
<1> DEFINE n == Len(loc.new) + 1
           e == EntryOf(loc.found[n])
<1>1. /\ loc.new \in Seq(Entry) /\ loc.found \in Seq(Paths)
  BY LocalItems DEF TypeOK
<1>2. /\ loc'.found = loc.found /\ loc'.new = Append(loc.new, e)
      /\ loc'.gone = loc.gone /\ loc'.failed = loc.failed /\ pc' = "read"
      /\ n <= Len(loc.found)
  BY DEF ReadsOne, Items
<1>3. e.attributes = AttrsOf[loc.found[n]]
  BY DEF EntryOf
<1> HIDE DEF e
<1>4. Len(loc'.new) = n /\ loc'.new[n] = e
  BY <1>1, <1>2
<1>5. \A i \in DOMAIN loc'.new :
        i = n \/ (i \in DOMAIN loc.new /\ loc'.new[i] = loc.new[i])
  BY <1>1, <1>2
<1>6. SameAttributes'
  BY <1>2, <1>3, <1>4, <1>5 DEF ReadInv, SameAttributes
<1>7. Shape'
  BY <1>1, <1>2, <1>4 DEF ReadInv, Shape
<1> QED
  BY <1>6, <1>7 DEF ReadInv

LEMMA NextRead == TypeOK /\ ReadInv /\ [Next]_vars => ReadInv'
<1> SUFFICES ASSUME TypeOK, ReadInv, [Next]_vars PROVE ReadInv'
  OBVIOUS
<1>0. loc \in Local
  BY DEF TypeOK
<1>1. CASE Start
  <2>1. Forgets
    BY <1>1, BlankItems DEF Start, Forgets, Items
  <2> QED
    BY <1>1, <2>1, ForgetsRead DEF Start
<1>2. CASE NoPortal \/ Killed
  <2>1. Forgets
    BY <1>2, BlankItems DEF NoPortal, Killed, Forgets, Items
  <2> QED
    BY <1>2, <2>1, ForgetsRead DEF NoPortal, Killed
<1>3. CASE Load
  <2>1. Items(loc') = Items(loc)
    BY <1>3, LoadItems
  <2> QED
    BY <1>3, <2>1 DEF Load, Items, ReadInv, Shape, SameAttributes
<1>4. CASE Search
  <2>1. CASE loc' = loc /\ pc' = "read"
    BY <1>4, <2>1 DEF Search, ReadInv, Shape, SameAttributes
  <2>2. CASE /\ pc' = pc /\ loc'.new = loc.new /\ loc'.gone = loc.gone
             /\ loc'.failed = loc.failed
    <3>1. loc' \in Local
      BY <1>4, NextType DEF Next, Migrate, TypeOK
    <3>2. Len(loc'.found) \in Nat
      BY <3>1, LocalItems
    <3>3. pc = "search" /\ pc' = "search" /\ loc'.new = <<>> /\ loc'.gone = 0 /\ ~loc'.failed
      BY <1>4, <2>2 DEF Search, ReadInv, Shape
    <3>4. Len(loc'.new) = 0 /\ DOMAIN loc'.new = {}
      BY <3>3
    <3> QED
      BY <3>2, <3>3, <3>4 DEF ReadInv, Shape, SameAttributes
  <2> QED
    BY <1>4, <2>1, <2>2, SearchItems
<1>5. CASE Read
  <2>1. CASE loc' = loc /\ pc' = "create" /\ Len(loc.new) >= Len(loc.found)
    <3>1. Len(loc.new) \in Nat /\ Len(loc.found) \in Nat
      BY <1>0, LocalItems
    <3> QED
      BY <1>5, <2>1, <3>1 DEF Read, ReadInv, Shape, SameAttributes
  <2>2. CASE loc' = loc /\ pc' = "idle"
    BY <2>2, KeepsRead DEF KeepsItems
  <2>3. CASE ReadsOne
    BY <1>5, <2>3, ReadsOneRead DEF Read
  <2> QED
    BY <1>5, <2>1, <2>2, <2>3, ReadItems
<1>6. CASE CreateItems
  <2>1. pc = "create" /\ loc' = loc /\ pc' \in {"delete", "idle"}
    BY <1>6 DEF CreateItems, GiveUp, Fail
  <2>2. CASE pc' = "idle"
    BY <2>1, <2>2, KeepsRead DEF KeepsItems
  <2>3. CASE pc' = "delete"
    BY <2>1, <2>3 DEF ReadInv, Shape, SameAttributes
  <2> QED
    BY <2>1, <2>2, <2>3
<1>7. CASE Delete
  <2>1. CASE loc' = loc /\ pc' = "idle"
    BY <2>1, KeepsRead DEF KeepsItems
  <2>2. CASE Deletes
    <3>1. Len(loc.found) \in Nat /\ loc.gone \in Nat
      BY <1>0, LocalItems
    <3> QED
      BY <1>7, <2>2, <3>1 DEF Delete, Deletes, ReadInv, Shape, SameAttributes
  <2> QED
    BY <1>7, <2>1, <2>2, DeleteItems
<1>8. CASE CallFails
  BY <1>8, KeepsRead DEF CallFails, Fail, KeepsItems
<1>9. CASE OtherWrites
  BY <1>9, KeepsRead DEF OtherWrites, KeepsItems
<1>10. ASSUME NEW p \in Paths, NEW v \in Values \cup {NoValue}, Edit(p, v) PROVE ReadInv'
  BY <1>10, KeepsRead DEF Edit, KeepsItems
<1>11. CASE UNCHANGED vars
  BY <1>11, KeepsRead DEF vars, KeepsItems
<1> QED
  BY <1>1, <1>2, <1>3, <1>4, <1>5, <1>6, <1>7, <1>8, <1>9, <1>10, <1>11 DEF Next, Migrate

LEMMA InitRead == Init => ReadInv
BY DEF Init, Blank, ReadInv, Shape, SameAttributes

\* The other process stores an item that is none of the service's.
Foreign == \A p \in Paths : AttrsOf[p] # OtherItem.attributes

Origin ==
  \A x : Among(x, file) => x = OtherItem \/ \E p \in Paths : x.attributes = AttrsOf[p]

OneInv == Origin /\ ReplaceKeepsOne

LEMMA WriteOne ==
  ASSUME TypeOK, ReadInv, OneInv, pc = "create", file = loc.memory, Write
  PROVE  OneInv'
<1>1. loc \in Local
  BY DEF TypeOK
<1>2. PutIn(file', Len(loc.new))
  BY <1>1, WrittenKeeps DEF Write
<1>3. Origin'
  <2>1. ASSUME NEW i \in 1 .. Len(loc.new)
        PROVE  \E p \in Paths : loc.new[i].attributes = AttrsOf[p]
    <3>1. /\ loc.new \in Seq(Entry) /\ loc.found \in Seq(Paths)
          /\ Len(loc.new) = Len(loc.found)
      BY <1>1, LocalItems DEF ReadInv, Shape
    <3> QED
      BY <3>1 DEF ReadInv, SameAttributes
  <2> QED
    BY <1>2, <2>1 DEF PutIn, OneInv, Origin
<1>4. ReplaceKeepsOne'
  <2> SUFFICES ASSUME ~plain' PROVE OneEach(file')
    BY DEF ReplaceKeepsOne, OneEach
  <2>1. ~plain /\ loc.replace
    BY <1>1 DEF Write, TypeOK, Local
  <2>2. OneEach(loc.memory)
    BY <2>1 DEF OneInv, ReplaceKeepsOne, OneEach
  <2> QED
    BY <1>2, <2>1, <2>2 DEF PutIn
<1> QED
  BY <1>3, <1>4 DEF OneInv

LEMMA OtherWritesOne ==
  ASSUME Foreign, TypeOK, OneInv, OtherWrites
  PROVE  OneInv'
<1>1. file \in Seq(Entry) /\ file' = Append(file, OtherItem) /\ plain' = plain
  BY DEF TypeOK, OtherWrites
<1>2. /\ \A i \in DOMAIN file : i \in DOMAIN file' /\ file'[i] = file[i]
      /\ \A i \in DOMAIN file' : i \in DOMAIN file \/ i = Len(file')
      /\ file'[Len(file')] = OtherItem
  BY <1>1
<1>3. Origin'
  BY <1>2 DEF OneInv, Origin, Among
<1>4. ReplaceKeepsOne'
  <2>1. ASSUME NEW i \in DOMAIN file, file[i].attributes = OtherItem.attributes
        PROVE  file[i] = OtherItem
    BY <2>1 DEF Foreign, OneInv, Origin, Among
  <2> QED
    BY <1>1, <1>2, <2>1 DEF OneInv, ReplaceKeepsOne
<1> QED
  BY <1>3, <1>4 DEF OneInv

\* The types, and one item in the file for each in the service that was migrated there.
THEOREM MigratesOnce == ASSUME Foreign PROVE Spec => []WellFormed
<1>1. Init => OneInv
  BY DEF Init, OneInv, Origin, Among, ReplaceKeepsOne
<1>2. TypeOK /\ ReadInv /\ OneInv /\ [Next]_vars => OneInv'
  <2> SUFFICES ASSUME TypeOK, ReadInv, OneInv, [Next]_vars PROVE OneInv'
    OBVIOUS
  <2>1. CASE CreateItems
    <3>1. CASE UNCHANGED <<file, plain>>
      BY <3>1 DEF OneInv, Origin, ReplaceKeepsOne
    <3>2. CASE file = loc.memory /\ Write
      BY <2>1, <3>2, WriteOne DEF CreateItems
    <3> QED
      BY <2>1, <3>1, <3>2 DEF CreateItems
  <2>2. CASE OtherWrites
    BY <2>2, OtherWritesOne
  <2>3. CASE UNCHANGED <<file, plain>>
    BY <2>3 DEF OneInv, Origin, ReplaceKeepsOne
  <2> QED
    BY <2>1, <2>2, <2>3
    DEF Next, Migrate, Start, NoPortal, Load, Search, Read, Delete, CallFails, Killed, Edit, vars
<1>3. TypeOK /\ OneInv => WellFormed
  BY DEF OneInv, WellFormed
<1> QED
  BY <1>1, <1>2, <1>3, InitType, NextType, InitRead, NextRead, PTL DEF Spec

-----------------------------------------------------------------------------
(* Nothing is lost *)

\* No item of the service has all the attributes of another.
Separate == \A p, q \in Paths : AttrsOf[p] \subseteq AttrsOf[q] => p = q

Current == \A p \in Paths : source[p] \in {owed[p], NoValue}

\* An item that was found twice is read the same twice.
Same ==
  pc \in {"read", "create"} =>
    \A i, j \in DOMAIN loc.new : loc.found[i] = loc.found[j] => loc.new[i] = loc.new[j]

\* What was read is what the service has, until it is deleted there ...
Fresh ==
  pc # "idle" =>
    \A i \in DOMAIN loc.new :
      i > loc.gone => source[loc.found[i]] \in {NoValue, loc.new[i].value}

\* ... by a client, or when it is in the file.
Taken ==
  pc \in {"read", "create"} =>
    \A i \in DOMAIN loc.new :
      source[loc.found[i]] = NoValue => owed[loc.found[i]] = NoValue

Filed == pc = "delete" => \A i \in DOMAIN loc.new : Among(loc.new[i], file)

LossInv == Current /\ Same /\ Fresh /\ Taken /\ Filed /\ NothingLost

FileGrows == \A x : Among(x, file) => Among(x, file')

LEMMA GrowsLoss ==
  ASSUME NothingLost, FileGrows, UNCHANGED <<source, owed>>
  PROVE  NothingLost'
BY DEF NothingLost, FileGrows, Among, InFile

\* A migration that has read nothing.
LEMMA EmptyLoss ==
  ASSUME LossInv, UNCHANGED <<source, owed, file>>, loc'.new = <<>>
  PROVE  LossInv'
<1>1. DOMAIN loc'.new = {}
  OBVIOUS
<1>2. NothingLost'
  BY GrowsLoss DEF LossInv, FileGrows
<1> QED
  BY <1>1, <1>2 DEF LossInv, Current, Same, Fresh, Taken, Filed

LEMMA QuietLoss ==
  ASSUME LossInv, FileGrows, UNCHANGED <<source, owed>>, KeepsItems,
         pc' = pc \/ pc' = "idle" \/ (pc = "read" /\ pc' = "create")
  PROVE  LossInv'
<1>1. NothingLost'
  BY GrowsLoss DEF LossInv
<1>2. loc'.found = loc.found /\ loc'.new = loc.new /\ loc'.gone = loc.gone
  BY DEF KeepsItems, Items
<1>3. Filed'
  BY <1>2 DEF LossInv, Filed, FileGrows
<1> QED
  BY <1>1, <1>2, <1>3 DEF LossInv, Current, Same, Fresh, Taken

LEMMA ReadLoss ==
  ASSUME TypeOK, ReadInv, LossInv, pc = "read", ReadsOne, UNCHANGED <<source, owed, file>>
  PROVE  LossInv'
<1> DEFINE n == Len(loc.new) + 1
           e == EntryOf(loc.found[n])
<1>1. /\ loc.new \in Seq(Entry) /\ loc.found \in Seq(Paths)
  BY LocalItems DEF TypeOK
<1>2. /\ loc'.found = loc.found /\ loc'.new = Append(loc.new, e)
      /\ loc'.gone = loc.gone /\ pc' = "read"
      /\ source[loc.found[n]] # NoValue
  BY DEF ReadsOne, Items
<1>3. e.attributes = AttrsOf[loc.found[n]] /\ e.value = source[loc.found[n]]
  BY DEF EntryOf
<1>4. \A i \in DOMAIN loc.new : loc.found[i] = loc.found[n] => loc.new[i] = e
  <2> SUFFICES ASSUME NEW i \in DOMAIN loc.new, loc.found[i] = loc.found[n]
               PROVE  loc.new[i] = e
    OBVIOUS
  <2>1. loc.new[i] \in Entry /\ i > 0
    BY <1>1
  <2>2. loc.new[i].value = source[loc.found[n]]
    BY <1>2, <2>1 DEF ReadInv, Shape, LossInv, Fresh
  <2>3. loc.new[i].attributes = AttrsOf[loc.found[n]]
    BY DEF ReadInv, SameAttributes
  <2> QED
    BY <2>1, <2>2, <2>3 DEF Entry, EntryOf
<1> HIDE DEF e
<1>5. /\ Len(loc'.new) = n /\ loc'.new[n] = e
      /\ \A i \in DOMAIN loc'.new :
           i = n \/ (i \in DOMAIN loc.new /\ loc'.new[i] = loc.new[i])
  BY <1>1, <1>2
<1> HIDE DEF n
<1>6. Same'
  BY <1>2, <1>4, <1>5 DEF LossInv, Same
<1>7. Fresh' /\ Taken'
  BY <1>2, <1>3, <1>5 DEF LossInv, Fresh, Taken
<1>8. NothingLost'
  BY GrowsLoss DEF LossInv, FileGrows
<1> QED
  BY <1>2, <1>6, <1>7, <1>8 DEF LossInv, Current, Filed

\* All that was read is in the file, and what was there and is owed still is.
LEMMA WriteLoss ==
  ASSUME Separate, TypeOK, ReadInv, LossInv, pc = "create", pc' \in {"delete", "idle"},
         file = loc.memory, Write, UNCHANGED <<source, owed, loc>>
  PROVE  LossInv'
<1>1. /\ loc \in Local /\ loc.new \in Seq(Entry) /\ loc.found \in Seq(Paths)
      /\ Len(loc.new) = Len(loc.found)
  BY LocalItems DEF TypeOK, ReadInv, Shape
<1>2. PutIn(file', Len(loc.new))
  BY <1>1, WrittenKeeps DEF Write
<1>3. ASSUME NEW x, NEW p \in Paths, x.attributes = AttrsOf[p],
             NEW i \in 1 .. Len(loc.new), ~Stays(x, loc.new[i])
      PROVE  loc.found[i] = p
  <2>1. loc.found[i] \in Paths /\ AttrsOf[loc.found[i]] \subseteq AttrsOf[p]
    BY <1>1, <1>3 DEF Stays, ReadInv, SameAttributes
  <2> QED
    BY <2>1 DEF Separate
<1>4. ASSUME NEW i \in DOMAIN loc.new PROVE Among(loc.new[i], file')
  <2>1. loc.found[i] \in Paths /\ loc.new[i].attributes = AttrsOf[loc.found[i]]
    BY <1>1 DEF ReadInv, SameAttributes
  <2>2. Lasts(loc.new[i], i, Len(loc.new))
    <3>1. ASSUME NEW j \in i + 1 .. Len(loc.new), ~Stays(loc.new[i], loc.new[j])
          PROVE  loc.new[i] = loc.new[j]
      <4>1. j \in 1 .. Len(loc.new) /\ i \in DOMAIN loc.new /\ j \in DOMAIN loc.new
        BY <1>1
      <4>2. loc.found[j] = loc.found[i]
        BY <1>3, <2>1, <3>1, <4>1
      <4> QED
        BY <4>1, <4>2 DEF LossInv, Same
    <3> QED
      BY <3>1 DEF Lasts
  <2> QED
    BY <1>1, <1>2, <2>2 DEF PutIn
<1>5. ASSUME NEW p \in Paths, owed[p] # NoValue, source[p] # owed[p]
      PROVE  Among([attributes |-> AttrsOf[p], value |-> owed[p]], file')
  <2> DEFINE x == [attributes |-> AttrsOf[p], value |-> owed[p]]
  <2>1. Among(x, loc.memory) /\ x.attributes = AttrsOf[p]
    BY <1>5 DEF LossInv, NothingLost, InFile, Among
  <2> HIDE DEF x
  <2>2. ASSUME NEW i \in 1 .. Len(loc.new), ~Stays(x, loc.new[i]) PROVE FALSE
    <3>1. loc.found[i] = p
      BY <1>3, <2>1, <2>2
    <3>2. source[p] = NoValue
      BY <1>5 DEF LossInv, Current
    <3> QED
      BY <1>1, <1>5, <3>1, <3>2 DEF LossInv, Taken
  <2>3. Lasts(x, 0, Len(loc.new))
    BY <2>2 DEF Lasts
  <2> QED
    BY <1>2, <2>1, <2>3 DEF PutIn, x
<1>6. NothingLost'
  BY <1>5 DEF NothingLost, InFile, Among
<1>7. Filed'
  BY <1>4 DEF Filed
<1> QED
  BY <1>6, <1>7 DEF LossInv, Current, Same, Fresh, Taken

\* What is deleted from the service is in the file.
LEMMA DeleteLoss ==
  ASSUME TypeOK, ReadInv, LossInv, pc = "delete", Deletes, UNCHANGED <<owed, file>>
  PROVE  LossInv'
<1> DEFINE i == loc.gone + 1
           p == loc.found[i]
<1>1. /\ loc.new \in Seq(Entry) /\ loc.found \in Seq(Paths) /\ loc.gone \in Nat
      /\ Len(loc.new) = Len(loc.found)
  BY LocalItems DEF TypeOK, ReadInv, Shape
<1>2. /\ loc'.found = loc.found /\ loc'.new = loc.new /\ loc'.gone = i /\ pc' = "delete"
      /\ loc.gone # Len(loc.found)
  BY DEF Deletes
<1>3. i \in DOMAIN loc.new /\ i > loc.gone /\ p \in Paths
  BY <1>1, <1>2 DEF ReadInv, Shape
<1>4. CASE source' = source
  BY <1>1, <1>2, <1>4 DEF LossInv, Current, Same, Fresh, Taken, Filed, NothingLost, InFile, Among
<1>5. CASE source[p] # NoValue /\ source' = [source EXCEPT ![p] = NoValue]
  <2>1. source' \in [Paths -> Values \cup {NoValue}]
        /\ \A q \in Paths : source'[q] = IF q = p THEN NoValue ELSE source[q]
    BY <1>3, <1>5 DEF TypeOK
  <2>2. loc.new[i].value = source[p] /\ source[p] = owed[p]
    BY <1>3, <1>5 DEF LossInv, Fresh, Current
  <2>3. loc.new[i] = [attributes |-> AttrsOf[p], value |-> owed[p]]
    <3>1. loc.new[i] \in Entry /\ loc.new[i].attributes = AttrsOf[p]
      BY <1>1, <1>3 DEF ReadInv, SameAttributes
    <3> QED
      BY <2>2, <3>1 DEF Entry
  <2>4. InFile([attributes |-> AttrsOf[p], value |-> owed[p]])
    BY <1>3, <2>3 DEF LossInv, Filed, Among, InFile
  <2> HIDE DEF p
  <2>5. NothingLost'
    BY <1>2, <2>1, <2>4 DEF LossInv, NothingLost, InFile
  <2>6. Current'
    BY <2>1 DEF LossInv, Current
  <2>7. \A j \in DOMAIN loc.new : loc.found[j] \in Paths
    BY <1>1
  <2>8. Fresh'
    BY <1>1, <1>2, <2>1, <2>7 DEF LossInv, Fresh
  <2> QED
    BY <1>2, <2>5, <2>6, <2>8 DEF LossInv, Same, Taken, Filed, Among
<1> QED
  BY <1>4, <1>5 DEF Deletes

\* Another client does not change what the migration has in hand.
LEMMA EditLoss ==
  ASSUME ~LateEdits, TypeOK, ReadInv, LossInv,
         NEW p \in Paths, NEW v \in Values \cup {NoValue}, Edit(p, v)
  PROVE  LossInv'
<1>1. /\ loc.new \in Seq(Entry) /\ loc.found \in Seq(Paths) /\ loc.gone \in Nat
      /\ Len(loc.new) <= Len(loc.found)
  BY LocalItems DEF TypeOK, ReadInv, Shape
<1>2. /\ \A q \in Paths : source'[q] = IF q = p THEN v ELSE source[q]
      /\ \A q \in Paths : owed'[q] = IF q = p THEN v ELSE owed[q]
      /\ loc' = loc /\ pc' = pc /\ file' = file
  BY DEF Edit, TypeOK
<1>3. v = NoValue \/ ~InHand(p)
  BY DEF Edit
<1>4. \A i \in DOMAIN loc.new : loc.found[i] \in Paths
  BY <1>1
<1>5. Current'
  BY <1>2 DEF LossInv, Current
<1>6. Fresh'
  BY <1>2, <1>3, <1>4 DEF LossInv, Fresh, InHand
<1>7. Taken'
  BY <1>2, <1>4 DEF LossInv, Taken
<1>8. NothingLost'
  BY <1>2 DEF LossInv, NothingLost, InFile
<1> QED
  BY <1>2, <1>5, <1>6, <1>7, <1>8 DEF LossInv, Same, Filed, Among

LEMMA NextLoss ==
  ASSUME Separate, ~LateEdits
  PROVE  TypeOK /\ ReadInv /\ LossInv /\ [Next]_vars => LossInv'
<1> SUFFICES ASSUME TypeOK, ReadInv, LossInv, [Next]_vars PROVE LossInv'
  OBVIOUS
<1>0. file' = file => FileGrows
  BY DEF FileGrows
<1>1. CASE Start \/ NoPortal \/ Killed
  <2>1. loc'.new = <<>>
    BY <1>1, BlankItems DEF Start, NoPortal, Killed, Items
  <2> QED
    BY <1>1, <2>1, EmptyLoss DEF Start, NoPortal, Killed
<1>2. CASE Load \/ Search
  <2>1. loc'.new = loc.new
    BY <1>2, LoadItems, SearchItems DEF Items
  <2>2. loc.new = <<>>
    BY <1>2 DEF Load, Search, ReadInv, Shape
  <2> QED
    BY <1>2, <2>1, <2>2, EmptyLoss DEF Load, Search
<1>3. CASE Read
  <2>1. UNCHANGED <<source, owed, file>> /\ pc = "read"
    BY <1>3 DEF Read
  <2>2. CASE loc' = loc /\ pc' \in {"create", "idle"}
    BY <1>0, <2>1, <2>2, QuietLoss DEF KeepsItems
  <2> QED
    BY <1>3, <2>1, <2>2, ReadItems, ReadLoss
<1>4. CASE CreateItems
  <2>1. UNCHANGED <<source, loc, owed>> /\ pc = "create" /\ pc' \in {"delete", "idle"}
    BY <1>4 DEF CreateItems, GiveUp, Fail
  <2>2. CASE file = loc.memory /\ Write
    BY <2>1, <2>2, WriteLoss
  <2>3. CASE GiveUp /\ file' = file
    <3>1. pc' = "idle"
      BY <2>3 DEF GiveUp, Fail
    <3> QED
      BY <1>0, <2>1, <2>3, <3>1, QuietLoss DEF KeepsItems
  <2> QED
    BY <1>4, <2>2, <2>3 DEF CreateItems
<1>5. CASE Delete
  <2>1. UNCHANGED <<owed, file>> /\ pc = "delete"
    BY <1>5 DEF Delete
  <2>2. CASE loc' = loc /\ source' = source /\ pc' = "idle"
    BY <1>0, <2>1, <2>2, QuietLoss DEF KeepsItems
  <2> QED
    BY <1>5, <2>1, <2>2, DeleteItems, DeleteLoss
<1>6. CASE CallFails
  BY <1>0, <1>6, QuietLoss DEF CallFails, Fail, KeepsItems
<1>7. CASE OtherWrites
  <2>1. file' = Append(file, OtherItem) /\ file \in Seq(Entry)
    BY <1>7 DEF OtherWrites, TypeOK
  <2>2. \A i \in DOMAIN file : i \in DOMAIN file' /\ file'[i] = file[i]
    BY <2>1
  <2>3. FileGrows
    BY <2>2 DEF FileGrows, Among
  <2> QED
    BY <1>7, <2>3, QuietLoss DEF OtherWrites, KeepsItems
<1>8. ASSUME NEW p \in Paths, NEW v \in Values \cup {NoValue}, Edit(p, v) PROVE LossInv'
  BY <1>8, EditLoss
<1>9. CASE UNCHANGED vars
  BY <1>0, <1>9, QuietLoss DEF vars, KeepsItems
<1> QED
  BY <1>1, <1>2, <1>3, <1>4, <1>5, <1>6, <1>7, <1>8, <1>9 DEF Next, Migrate

LEMMA InitLoss == Init => LossInv
<1> SUFFICES ASSUME Init PROVE LossInv
  OBVIOUS
<1>1. loc.new = <<>>
  BY DEF Init, Blank
<1> QED
  BY <1>1 DEF Init, LossInv, Current, Same, Fresh, Taken, Filed, NothingLost

\* What a client stored and nobody deleted is in the service or in the file.
THEOREM MigrationLosesNothing ==
  ASSUME Separate, ~LateEdits PROVE Spec => []NothingLost
<1>1. LossInv => NothingLost
  BY DEF LossInv
<1> QED
  BY <1>1, InitType, NextType, InitRead, NextRead, InitLoss, NextLoss, PTL DEF Spec

-----------------------------------------------------------------------------
(* Ok means that everything was moved *)

Gone ==
  pc = "delete" /\ ~loc.failed => \A i \in 1 .. loc.gone : source[loc.found[i]] = NoValue

OkInv == Gone /\ (answer = "ok" => pc = "idle") /\ OkMeansMoved

LEMMA DeletesOk ==
  ASSUME TypeOK, ReadInv, OkInv, pc = "delete", Deletes
  PROVE  Gone'
<1>1. /\ loc.found \in Seq(Paths) /\ loc.gone \in Nat /\ loc.gone < Len(loc.found)
      /\ loc'.found = loc.found /\ loc'.gone = loc.gone + 1
  BY LocalItems DEF TypeOK, ReadInv, Shape, Deletes
<1> SUFFICES ASSUME ~loc'.failed, NEW i \in 1 .. loc.gone + 1
             PROVE  source'[loc.found[i]] = NoValue
  BY <1>1 DEF Gone
<1> DEFINE p == loc.found[loc.gone + 1]
<1>2. ~loc.failed /\ source' = [source EXCEPT ![p] = NoValue]
  BY DEF Deletes
<1>3. loc.found[i] \in Paths
  BY <1>1
<1>4. loc.found[i] = p \/ source[loc.found[i]] = NoValue
  BY <1>1, <1>2 DEF OkInv, Gone
<1> HIDE DEF p
<1> QED
  BY <1>2, <1>3, <1>4 DEF TypeOK

LEMMA ReturnOk ==
  ASSUME TypeOK, ReadInv, LossInv, OkInv, pc = "delete", loc.gone = Len(loc.found),
         pc' = "idle", answer' = Answer, UNCHANGED <<source, loc, file>>
  PROVE  OkInv'
<1>1. /\ loc.new \in Seq(Entry) /\ loc.found \in Seq(Paths)
      /\ Len(loc.new) = Len(loc.found)
  BY LocalItems DEF TypeOK, ReadInv, Shape
<1>2. OkMeansMoved'
  BY <1>1 DEF OkMeansMoved, OkInv, Gone, Answer, LossInv, Filed, Among, InFile
<1> QED
  BY <1>2 DEF OkInv, Gone

LEMMA NextOk == TypeOK /\ ReadInv /\ LossInv /\ OkInv /\ [Next]_vars => OkInv'
<1> SUFFICES ASSUME TypeOK, ReadInv, LossInv, OkInv, [Next]_vars PROVE OkInv'
  OBVIOUS
<1>1. CASE Start
  BY <1>1 DEF Start, OkInv, Gone, OkMeansMoved
<1>2. CASE NoPortal
  <2>1. loc'.new = <<>> /\ loc'.found = <<>>
    BY <1>2, BlankItems DEF NoPortal, Items
  <2> QED
    BY <1>2, <2>1 DEF NoPortal, OkInv, Gone, OkMeansMoved
<1>3. CASE \/ Load \/ Search \/ CallFails \/ Killed
  BY <1>3 DEF Load, Search, CallFails, Killed, Fail, OkInv, Gone, OkMeansMoved
<1>4. CASE Read
  <2>1. pc = "read" /\ pc' # "delete" /\ answer' # "ok"
    BY <1>4 DEF Read, Fail, OkInv
  <2> QED
    BY <2>1 DEF OkInv, Gone, OkMeansMoved
<1>5. CASE CreateItems
  <2>1. pc = "create" /\ loc' = loc /\ answer' # "ok"
    BY <1>5 DEF CreateItems, GiveUp, Fail, OkInv
  <2>2. loc.gone = 0
    BY <2>1 DEF ReadInv, Shape
  <2> QED
    BY <2>1, <2>2 DEF OkInv, Gone, OkMeansMoved
<1>6. CASE Delete
  <2>1. pc = "delete" /\ UNCHANGED file
    BY <1>6 DEF Delete
  <2>2. CASE Deletes
    <3>1. pc' = "delete" /\ answer' # "ok"
      BY <2>1, <2>2 DEF Deletes, OkInv
    <3> QED
      BY <2>1, <2>2, <3>1, DeletesOk DEF OkInv, OkMeansMoved
  <2> QED
    BY <1>6, <2>1, <2>2, DeleteItems, ReturnOk
<1>7. CASE OtherWrites
  <2>1. \A x : InFile(x) => Among(x, file')
    <3>1. file' = Append(file, OtherItem) /\ file \in Seq(Entry)
      BY <1>7 DEF OtherWrites, TypeOK
    <3>2. \A i \in DOMAIN file : i \in DOMAIN file' /\ file'[i] = file[i]
      BY <3>1
    <3> QED
      BY <3>2 DEF InFile, Among
  <2>2. UNCHANGED <<source, pc, loc, answer>>
    BY <1>7 DEF OtherWrites
  <2> QED
    BY <2>1, <2>2 DEF OkInv, Gone, OkMeansMoved, InFile, Among
<1>8. ASSUME NEW p \in Paths, NEW v \in Values \cup {NoValue}, Edit(p, v) PROVE OkInv'
  <2>1. UNCHANGED <<pc, loc, answer, file>>
    BY <1>8 DEF Edit
  <2>2. \A q : source[q] = NoValue => source'[q] = NoValue
    BY <1>8 DEF Edit, TypeOK
  <2> QED
    BY <2>1, <2>2 DEF OkInv, Gone, OkMeansMoved, InFile
<1>9. CASE UNCHANGED vars
  BY <1>9 DEF vars, OkInv, Gone, OkMeansMoved, InFile
<1> QED
  BY <1>1, <1>2, <1>3, <1>4, <1>5, <1>6, <1>7, <1>8, <1>9 DEF Next, Migrate

\* Ok means that all that was found left the service, and all that was read is in the file.
THEOREM OkIsMoved ==
  ASSUME Separate, ~LateEdits PROVE Spec => []OkMeansMoved
<1>1. Init => OkInv
  BY DEF Init, OkInv, Gone, OkMeansMoved
<1>2. OkInv => OkMeansMoved
  BY DEF OkInv
<1> QED
  BY <1>1, <1>2, InitType, NextType, InitRead, NextRead, InitLoss, NextLoss, NextOk, PTL DEF Spec
===============================================================================
