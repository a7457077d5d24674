------------------------- MODULE UnlockedKeyringProofs -------------------------
(***************************************************************************)
(* What holds of UnlockedKeyring for all values of its constants.          *)
(*                                                                         *)
(*   TypeInv    the types, and what the temporary file of a dump is at the *)
(*              steps that use it                                          *)
(*   DiskWhole  the file and the copy a power loss may bring back          *)
(*   MtimeInv   who holds the mtime mutex at which step, and that the      *)
(*              time stamp only differs from the file's after a rename     *)
(*   StrongInv  no new item under a weak key, in memory or in a file       *)
(*   KeyInv     which key a call works with, and when the cached one is    *)
(*              out of date                                                *)
(*   DecryptedInv  change_secret erases only what its key decrypts         *)
(*   OneKeyInv  the items of memory and of every file are under one key    *)
(*   AckedInv   where the items are that were acknowledged                 *)
(*   StoreInv   that a dump writes what is in memory, and which calls are  *)
(*              at which steps, for the refinement of KeyringStore         *)
(*                                                                         *)
(* TypeInv and DiskWhole hold of every instance; the others are inductive  *)
(* relative to TypeInv, DecryptedInv, OneKeyInv and StoreInv also to       *)
(* KeyInv, AckedInv to KeyInv and OneKeyInv.                               *)
(***************************************************************************)
EXTENDS KeyringStoreRefinement, TLAPS, SequenceTheorems, FiniteSetTheorems

\* sync_all works on the file that write_all wrote, rename on a synced one.
TmpWritten ==
  \A t \in Tasks :
    /\ pc[t] \in {"sync", "check", "rename"} => loc[t].tmp \in KeyringFile
    /\ pc[t] \in {"check", "rename"} => loc[t].tmp.synced

LocalsTyped ==
  /\ pc \in [Tasks -> Labels]
  /\ loc \in [Tasks -> Local]
  /\ TmpWritten

TypeInv == TypeOK /\ TmpWritten

-----------------------------------------------------------------------------
(* Types of the operators of KeyringEntries *)

LEMMA KeyOfType ==
  ASSUME NEW s \in Secrets \cup {NoSecret}, NEW n \in Salt
  PROVE  KeyOf(s, n) \in Key \cup {NoKey}
BY DEF KeyOf, Key

LEMMA EncryptType ==
  ASSUME NEW i \in Items, NEW k \in Key \cup {NoKey}
  PROVE  Encrypt(i, k) \in Entry
BY DEF Encrypt, Entry

LEMMA ValidType ==
  ASSUME NEW S \in SUBSET Entry, NEW k
  PROVE  Valid(S, k) \in SUBSET Entry
BY DEF Valid

LEMMA PutType ==
  ASSUME NEW S \in SUBSET Entry, NEW i \in Items, NEW replace \in BOOLEAN,
         NEW k \in Key \cup {NoKey}
  PROVE  AfterPut(S, i, replace, k) \in SUBSET Entry
BY EncryptType DEF AfterPut, AfterReplace, Remaining

LEMMA ItemsOfType ==
  ASSUME NEW S \in SUBSET Entry
  PROVE  ItemsOf(S) \in SUBSET Items
BY DEF ItemsOf, Entry

LEMMA FileParts ==
  ASSUME NEW f \in File
  PROVE  /\ Mtime(f) \in Stamp
         /\ Entries(f) \in SUBSET Entry
         /\ f # NoFile /\ f # Torn => f \in KeyringFile
BY DEF File, KeyringFile, Mtime, Entries, Stamp

LEMMA BlankType ==
  ASSUME NEW r \in Answer
  PROVE  Blank(r) \in Local
BY DEF Blank, Local, File, Answer

LEMMA LocalType ==
  ASSUME NEW l \in Local
  PROVE  /\ \A k \in Key \cup {NoKey} : [l EXCEPT !.key = k] \in Local
         /\ \A s \in Secrets \cup {NoSecret} : [l EXCEPT !.sec = s] \in Local
         /\ \A S \in SUBSET Items : [l EXCEPT !.snap = S] \in Local
         /\ \A f \in File : [l EXCEPT !.tmp = f] \in Local
         /\ [l EXCEPT !.ret = "reencrypt"] \in Local
BY DEF Local

LEMMA DequeueType ==
  ASSUME queue \in Seq(Tasks), Dequeue
  PROVE  queue' \in Seq(Tasks)
BY HeadTailProperties DEF Dequeue

-----------------------------------------------------------------------------
(* Types of the variables, one lemma for each group of actions *)

\* A task goes to a label with new local variables.
LEMMA MoveTyped ==
  ASSUME LocalsTyped, NEW t \in Tasks, NEW l \in Local, NEW label \in Labels,
         label \in {"sync", "check", "rename"} => l.tmp \in KeyringFile,
         label \in {"check", "rename"} => l.tmp.synced,
         loc' = [loc EXCEPT ![t] = l], pc' = [pc EXCEPT ![t] = label]
  PROVE  LocalsTyped'
BY DEF LocalsTyped, TmpWritten

LEMMA ReturnTyped ==
  ASSUME LocalsTyped, NEW t \in Tasks, NEW r \in Answer, Return(t, r)
  PROVE  LocalsTyped'
<1>1. "idle" \in Labels
  BY DEF Labels
<1> QED
  BY <1>1, MoveTyped, BlankType DEF Return

LEMMA GotoTyped ==
  ASSUME LocalsTyped, NEW t \in Tasks, NEW label \in Labels, Goto(t, label),
         label \in {"check", "rename"} => pc[t] \in {"check", "rename"},
         label # "sync"
  PROVE  LocalsTyped'
BY DEF LocalsTyped, TmpWritten, Goto

LEMMA InitTyped == Init => TypeInv
<1> SUFFICES ASSUME Init PROVE TypeInv
  OBVIOUS
<1> USE UnlockedKeyringAssumption
<1>1. file \in File /\ flushed \in File
  BY DEF Init, File
<1>2. clock \in Stamp /\ nextSalt \in Salt
  BY <1>1 DEF Init, File, Mtime, KeyringFile, Stamp, Salt
<1>3. used \in SUBSET Items /\ acked \in SUBSET Items /\ dropped \in SUBSET Items
  BY <1>1, FileParts, ItemsOfType DEF Init
<1>4. loc \in [Tasks -> Local]
  BY BlankType DEF Init, Answer
<1>5. pc \in [Tasks -> Labels]
  BY DEF Init, Labels
<1>6. queue \in Seq(Tasks)
  BY DEF Init
<1>7. TypeOK
  BY <1>1, <1>2, <1>3, <1>4, <1>5, <1>6 DEF Init, TypeOK, Stamp, Salt
<1>8. TmpWritten
  BY DEF Init, TmpWritten
<1> QED
  BY <1>7, <1>8 DEF TypeInv

LEMMA KeyStepsTyped ==
  ASSUME TypeInv, NEW t \in Tasks,
         CloneSecret(t) \/ LockKey(t) \/ DeriveKey(t) \/ Read(t)
  PROVE  TypeInv'
<1> USE DEF secretVars, rwVars, mtimeVars, diskVars, openVars, ghostVars
<1>0. LocalsTyped /\ loc[t] \in Local /\ loc[t].ret \in Labels
          /\ loc[t].ret \notin {"sync", "check", "rename"}
  BY DEF TypeInv, TypeOK, LocalsTyped, Local, Labels
<1>1. CASE CloneSecret(t)
  <2>1. CASE secret = NoSecret
    <3>1. loc' = [loc EXCEPT ![t] = [loc[t] EXCEPT !.key = NoKey]]
      BY <1>1, <2>1, UnlockedKeyringAssumption DEF CloneSecret
    <3> QED
      BY <1>0, <1>1, <2>1, <3>1, MoveTyped, LocalType DEF CloneSecret, TypeInv, TypeOK, LocalsTyped
  <2>2. CASE secret # NoSecret
    <3>1. loc' = [loc EXCEPT ![t] = [loc[t] EXCEPT !.sec = secret]]
      BY <1>1, <2>2 DEF CloneSecret
    <3>2. "key" \in Labels 
      BY DEF Labels
    <3>3. LocalsTyped'
      BY <1>0, <1>1, <2>2, <3>1, <3>2, MoveTyped, LocalType DEF CloneSecret, TypeInv, TypeOK
    <3> QED
      BY <3>3, <1>1 DEF CloneSecret, TypeInv, TypeOK, LocalsTyped
  <2> QED
    BY <2>1, <2>2
<1>2. CASE LockKey(t)
  <2>1. CASE key # NoKey
    <3>1. loc' = [loc EXCEPT ![t] = [loc[t] EXCEPT !.key = key]]
      BY <1>2, <2>1 DEF LockKey
    <3>2. LocalsTyped'
      BY <1>0, <1>2, <2>1, <3>1, MoveTyped, LocalType DEF LockKey, TypeInv, TypeOK
    <3> QED
      BY <3>2, <1>2, <2>1 DEF LockKey, TypeInv, TypeOK, LocalsTyped
  <2>2. CASE key = NoKey
    <3>1. "kdf" \in Labels
      BY DEF Labels
    <3>2. LocalsTyped'
      BY <1>0, <1>2, <2>2, <3>1, GotoTyped DEF LockKey
    <3> QED
      BY <3>2, <1>2, <2>2 DEF LockKey, TypeInv, TypeOK, LocalsTyped
  <2> QED
    BY <2>1, <2>2
<1>3. CASE DeriveKey(t)
  <2>1. KeyOf(loc[t].sec, salt) \in Key \cup {NoKey}
    BY <1>0, KeyOfType DEF TypeInv, TypeOK, Local
  <2>2. loc' = [loc EXCEPT ![t] = [loc[t] EXCEPT !.key = KeyOf(loc[t].sec, salt)]]
    BY <1>3 DEF DeriveKey
  <2>3. LocalsTyped'
    BY <1>0, <1>3, <2>1, <2>2, MoveTyped, LocalType DEF DeriveKey
  <2>4. queue' \in Seq(Tasks)
    BY <1>3, DequeueType DEF DeriveKey, TypeInv, TypeOK
  <2> QED
    BY <1>3, <2>1, <2>3, <2>4 DEF DeriveKey, TypeInv, TypeOK, LocalsTyped
<1>4. CASE Read(t)
  <2>1. LocalsTyped'
    BY <1>0, <1>4, ReturnTyped DEF Read, Answer
  <2>2. queue' \in Seq(Tasks)
    BY <1>4, DequeueType DEF Read, TypeInv, TypeOK
  <2> QED
    BY <1>4, <2>1, <2>2 DEF Read, TypeInv, TypeOK, LocalsTyped
<1> QED
  BY <1>1, <1>2, <1>3, <1>4

LEMMA EditsTyped ==
  ASSUME TypeInv, NEW t \in Tasks, Edits(t)
  PROVE  TypeInv'
<1> USE DEF secretVars, rwVars, mtimeVars, diskVars, openVars, ghostVars
<1>0. /\ LocalsTyped /\ loc[t] \in Local /\ loc[t].key \in Key \cup {NoKey}
      /\ loc[t].new \in SUBSET Items /\ "mtime" \in Labels /\ "err" \in Answer
  BY DEF TypeInv, TypeOK, LocalsTyped, Local, Labels, Answer
<1>1. ASSUME NEW o, Edit(t, o), items' \in SUBSET Entry,
             Return(t, "err") \/ Goto(t, "mtime"),
             Drop(t) \/ UNCHANGED dropped
      PROVE  TypeInv'
  <2>1. LocalsTyped'
    BY <1>0, <1>1, ReturnTyped, GotoTyped
  <2>2. queue' \in Seq(Tasks)
    BY <1>1, DequeueType DEF Edit, TypeInv, TypeOK
  <2>3. dropped' \in SUBSET Items
    BY <1>0, <1>1, ItemsOfType DEF Drop, TypeInv, TypeOK
  <2> QED
    BY <1>1, <2>1, <2>2, <2>3 DEF Edit, TypeInv, TypeOK, LocalsTyped
<1>2. items \in SUBSET Entry
  BY DEF TypeInv, TypeOK
<1>3. CASE CreateItem(t)
  <2>1. items' \in SUBSET Entry
    BY <1>0, <1>2, <1>3, PutType DEF CreateItem
  <2> QED
    BY <1>1, <1>3, <2>1 DEF CreateItem
<1>4. CASE Delete(t)
  <2>1. items' \in SUBSET Entry
    BY <1>2, <1>4 DEF Delete, Remaining
  <2> QED
    BY <1>1, <1>4, <2>1 DEF Delete
<1>5. CASE ReplaceItemIndex(t)
  <2>1. items' \in SUBSET Entry
    BY <1>0, <1>2, <1>5, EncryptType DEF ReplaceItemIndex
  <2> QED
    BY <1>1, <1>5, <2>1 DEF ReplaceItemIndex
<1>6. CASE DeleteItemIndex(t)
  <2>1. items' \in SUBSET Entry
    BY <1>2, <1>6 DEF DeleteItemIndex
  <2> QED
    BY <1>1, <1>6, <2>1 DEF DeleteItemIndex
<1>7. CASE DeleteBrokenItems(t)
  <2>1. items' \in SUBSET Entry
    BY <1>2, <1>7, ValidType DEF DeleteBrokenItems
  <2> QED
    BY <1>1, <1>7, <2>1 DEF DeleteBrokenItems
<1> QED
  BY <1>3, <1>4, <1>5, <1>6, <1>7 DEF Edits

LEMMA ChangeTyped ==
  ASSUME TypeInv, NEW t \in Tasks, Change(t)
  PROVE  TypeInv'
<1> USE DEF secretVars, rwVars, mtimeVars, diskVars, openVars, ghostVars
<1>0. /\ LocalsTyped /\ loc[t] \in Local /\ loc[t].key \in Key \cup {NoKey}
      /\ loc[t].snap \in SUBSET Items /\ "err" \in Answer
      /\ {"secret", "setSecret", "unsetKey", "reset", "mtime"} \subseteq Labels
  BY DEF TypeInv, TypeOK, LocalsTyped, Local, Labels, Answer
<1>1. CASE Snapshot(t)
  <2>1. LocalsTyped'
    BY <1>0, <1>1, GotoTyped DEF Snapshot
  <2>2. queue' \in Seq(Tasks)
    BY <1>1, DequeueType DEF Snapshot, TypeInv, TypeOK
  <2> QED
    BY <1>1, <2>1, <2>2 DEF Snapshot, TypeInv, TypeOK, LocalsTyped
<1>2. CASE Decrypt(t)
  <2>1. CASE items = Valid(items, loc[t].key)
    <3>1. ItemsOf(items) \in SUBSET Items
      BY ItemsOfType DEF TypeInv, TypeOK
    <3>2. loc' = [loc EXCEPT ![t] = [loc[t] EXCEPT !.snap = ItemsOf(items)]]
      BY <1>2, <2>1 DEF Decrypt
    <3>3. LocalsTyped'
      BY <1>0, <1>2, <2>1, <3>1, <3>2, MoveTyped, LocalType DEF Decrypt
    <3> QED
      BY <1>2, <3>3 DEF Decrypt, TypeInv, TypeOK, LocalsTyped
  <2>2. CASE items # Valid(items, loc[t].key)
    <3>1. LocalsTyped'
      BY <1>0, <1>2, <2>2, ReturnTyped DEF Decrypt
    <3> QED
      BY <1>2, <3>1 DEF Decrypt, TypeInv, TypeOK, LocalsTyped
  <2> QED
    BY <2>1, <2>2
<1>3. CASE SetSecret(t)
  <2>1. LocalsTyped'
    BY <1>0, <1>3, GotoTyped DEF SetSecret
  <2> QED
    BY <1>3, <2>1 DEF SetSecret, TypeInv, TypeOK, LocalsTyped
<1>4. CASE UnsetKey(t)
  <2>1. LocalsTyped'
    BY <1>0, <1>4, GotoTyped DEF UnsetKey
  <2> QED
    BY <1>4, <2>1 DEF UnsetKey, TypeInv, TypeOK, LocalsTyped
<1>5. CASE Reset(t)
  <2>1. loc' = [loc EXCEPT ![t] = [loc[t] EXCEPT !.ret = "reencrypt"]]
    BY <1>5 DEF Reset
  <2>2. LocalsTyped'
    BY <1>0, <1>5, <2>1, MoveTyped, LocalType DEF Reset
  <2>3. queue' \in Seq(Tasks)
    BY <1>5, DequeueType DEF Reset, TypeInv, TypeOK
  <2> QED
    BY <1>5, <2>2, <2>3 DEF Reset, TypeInv, TypeOK, LocalsTyped, Salt
<1>6. CASE Reencrypt(t)
  <2>1. LocalsTyped'
    BY <1>0, <1>6, ReturnTyped, GotoTyped DEF Reencrypt
  <2>2. queue' \in Seq(Tasks)
    BY <1>6, DequeueType DEF Reencrypt, TypeInv, TypeOK
  <2>3. items' \in SUBSET Entry
    BY <1>0, <1>6, EncryptType DEF Reencrypt, TypeInv, TypeOK
  <2> QED
    BY <1>6, <2>1, <2>2, <2>3 DEF Reencrypt, TypeInv, TypeOK, LocalsTyped
<1> QED
  BY <1>1, <1>2, <1>3, <1>4, <1>5, <1>6 DEF Change

LEMMA StartDumpTyped ==
  ASSUME TypeInv, NEW t \in Tasks, StartDump(t)
  PROVE  /\ LocalsTyped'
         /\ writer' \in Tasks \cup {NoTask} /\ mtimeHolder' \in Tasks \cup {NoTask}
<1>1. LocalsTyped /\ "ok" \in Answer /\ "tmp" \in Labels
  BY DEF TypeInv, TypeOK, LocalsTyped, Answer, Labels, DumpLabels
<1>2. LocalsTyped'
  BY <1>1, ReturnTyped, GotoTyped DEF StartDump
<1> QED
  BY <1>2 DEF StartDump, TypeInv, TypeOK

LEMMA AbortTyped ==
  ASSUME TypeInv, NEW t \in Tasks, NEW r \in Answer, Abort(t, r),
         budget' \in [BudgetKinds -> Nat]
  PROVE  TypeInv'
<1> USE DEF secretVars, rwVars, mtimeVars, diskVars, openVars, ghostVars
<1>1. LocalsTyped'
  BY ReturnTyped DEF Abort, TypeInv, TypeOK, LocalsTyped
<1> QED
  BY <1>1 DEF Abort, FreeWriter, TypeInv, TypeOK, LocalsTyped

LEMMA SpendTyped ==
  ASSUME budget \in [BudgetKinds -> Nat], NEW kind \in BudgetKinds, Spend(kind)
  PROVE  budget' \in [BudgetKinds -> Nat]
<1>1. budget[kind] \in Nat /\ budget[kind] - 1 \in Nat
  BY DEF Spend
<1> QED
  BY <1>1 DEF Spend

LEMMA DumpTyped ==
  ASSUME TypeInv, NEW t \in Tasks, Dump(t)
  PROVE  TypeInv'
<1> USE DEF secretVars, rwVars, mtimeVars, diskVars, openVars, ghostVars
<1>0. /\ LocalsTyped /\ loc[t] \in Local /\ loc[t].key \in Key \cup {NoKey}
      /\ loc[t].new \in SUBSET Items /\ {"err", "ok", "TargetFileChanged"} \subseteq Answer
      /\ {"keyring", "tmp", "sync", "check", "rename", "stat"} \subseteq Labels
  BY DEF TypeInv, TypeOK, LocalsTyped, Local, Labels, DumpLabels, Answer
<1>1. CASE LockMtime(t)
  <2>1. LocalsTyped'
    BY <1>0, <1>1, GotoTyped DEF LockMtime
  <2> QED
    BY <1>1, <2>1 DEF LockMtime, TypeInv, TypeOK, LocalsTyped
<1>2. CASE LockKeyring(t)
  <2>1. queue' \in Seq(Tasks)
    BY <1>2, DequeueType DEF LockKeyring, TypeInv, TypeOK
  <2> QED
    BY <1>2, <2>1, StartDumpTyped DEF LockKeyring, TypeInv, TypeOK, LocalsTyped
<1>3. CASE CreateItems(t)
  <2> DEFINE k == loc[t].key
  <2>1. queue' \in Seq(Tasks)
    BY <1>3, DequeueType DEF CreateItems, TypeInv, TypeOK
  <2>2. PICK i \in loc[t].new, j \in loc[t].new, replace \in BOOLEAN :
          LET one == AfterPut(items, i, replace, k) IN
          /\ items' \in {one, AfterPut(one, j, replace, k)}
          /\ \/ mtimeHolder' = NoTask /\ Return(t, "err") /\ UNCHANGED <<writer, dropped>>
             \/ StartDump(t) /\ Drop(t)
    BY <1>3 DEF CreateItems
  <2>3. items' \in SUBSET Entry
    <3>1. AfterPut(items, i, replace, k) \in SUBSET Entry
      BY <1>0, PutType DEF TypeInv, TypeOK
    <3>2. AfterPut(AfterPut(items, i, replace, k), j, replace, k) \in SUBSET Entry
      BY <1>0, <3>1, PutType
    <3> QED
      BY <2>2, <3>1, <3>2
  <2>4. CASE mtimeHolder' = NoTask /\ Return(t, "err") /\ UNCHANGED <<writer, dropped>>
    <3>1. LocalsTyped'
      BY <1>0, <2>4, ReturnTyped
    <3> QED
      BY <1>3, <2>1, <2>3, <2>4, <3>1 DEF CreateItems, TypeInv, TypeOK, LocalsTyped
  <2>5. CASE StartDump(t) /\ Drop(t)
    <3>1. dropped' \in SUBSET Items
      BY <1>0, <2>5, ItemsOfType DEF Drop, TypeInv, TypeOK
    <3>2. /\ LocalsTyped'
          /\ writer' \in Tasks \cup {NoTask} /\ mtimeHolder' \in Tasks \cup {NoTask}
      BY <2>5, StartDumpTyped
    <3> QED
      BY <1>3, <2>1, <2>3, <3>1, <3>2 DEF CreateItems, TypeInv, TypeOK, LocalsTyped
  <2> QED
    BY <2>2, <2>4, <2>5
<1>4. CASE WriteTmp(t)
  <2> DEFINE f == [salt |-> salt, entries |-> items, mtime |-> clock + 1, synced |-> FALSE]
  <2>1. f \in KeyringFile
    BY DEF KeyringFile, Stamp, TypeInv, TypeOK
  <2>2. loc' = [loc EXCEPT ![t] = [loc[t] EXCEPT !.tmp = f]]
    BY <1>4 DEF WriteTmp
  <2>3. [loc[t] EXCEPT !.tmp = f] \in Local /\ [loc[t] EXCEPT !.tmp = f].tmp = f
    BY <1>0, <2>1, LocalType DEF File, Local
  <2>4. LocalsTyped'
    BY <1>0, <1>4, <2>1, <2>2, <2>3, MoveTyped DEF WriteTmp
  <2> QED
    BY <1>4, <2>4 DEF WriteTmp, TypeInv, TypeOK, LocalsTyped, Stamp
<1>5. CASE SyncAll(t)
  <2> DEFINE f == [loc[t].tmp EXCEPT !.synced = TRUE]
  <2>1. f \in KeyringFile /\ f.synced
    BY <1>0, <1>5 DEF SyncAll, LocalsTyped, TmpWritten, KeyringFile
  <2>2. loc' = [loc EXCEPT ![t] = [loc[t] EXCEPT !.tmp = f]]
    BY <1>5 DEF SyncAll
  <2>3. [loc[t] EXCEPT !.tmp = f] \in Local /\ [loc[t] EXCEPT !.tmp = f].tmp = f
    BY <1>0, <2>1, LocalType DEF File, Local
  <2>4. LocalsTyped'
    <3>1. pc' = [pc EXCEPT ![t] = "check"] /\ "check" \in Labels
      BY <1>5 DEF SyncAll, Labels, DumpLabels
    <3> DEFINE l == [loc[t] EXCEPT !.tmp = f]
    <3>2. l \in Local /\ l.tmp \in KeyringFile /\ l.tmp.synced /\ loc' = [loc EXCEPT ![t] = l]
      BY <2>1, <2>2, <2>3
    <3> HIDE DEF l, f
    <3> QED
      BY <1>0, <3>1, <3>2, MoveTyped
  <2> QED
    BY <1>5, <2>4 DEF SyncAll, TypeInv, TypeOK, LocalsTyped
<1>6. CASE CheckTarget(t)
  <2>1. CASE mtime = Mtime(file)
    <3>1. LocalsTyped'
      BY <1>0, <1>6, <2>1, GotoTyped DEF CheckTarget
    <3> QED
      BY <1>6, <2>1, <3>1 DEF CheckTarget, TypeInv, TypeOK, LocalsTyped
  <2>2. CASE mtime # Mtime(file)
    BY <1>0, <1>6, <2>2, AbortTyped DEF CheckTarget, TypeInv, TypeOK
  <2> QED
    BY <2>1, <2>2
<1>7. CASE Rename(t)
  <2>1. LocalsTyped'
    BY <1>0, <1>7, GotoTyped DEF Rename
  <2>2. loc[t].tmp \in File
    BY <1>0 DEF Local
  <2> QED
    BY <1>7, <2>1, <2>2 DEF Rename, TypeInv, TypeOK, LocalsTyped
<1>8. CASE UpdateMtime(t)
  <2>1. LocalsTyped'
    BY <1>0, <1>8, ReturnTyped DEF UpdateMtime
  <2>2. mtime' \in Stamp
    BY <1>8, FileParts DEF UpdateMtime, TypeInv, TypeOK
  <2> QED
    BY <1>0, <1>8, <2>1, <2>2 DEF UpdateMtime, FreeWriter, TypeInv, TypeOK, LocalsTyped
<1> QED
  BY <1>1, <1>2, <1>3, <1>4, <1>5, <1>6, <1>7, <1>8 DEF Dump

LEMMA CallTyped ==
  ASSUME TypeInv, NEW t \in Tasks, NEW o \in Op, Call(t, o)
  PROVE  TypeInv'
<1> USE DEF secretVars, rwVars, mtimeVars, diskVars, openVars, ghostVars
<1>1. PICK new \in SUBSET Fresh :
        /\ used' = used \cup new
        /\ loc' = [loc EXCEPT ![t] = [Blank("none") EXCEPT !.op = o, !.ret = AfterKey(o),
                                                           !.new = new]]
  BY DEF Call
<1>2. [Blank("none") EXCEPT !.op = o, !.ret = AfterKey(o), !.new = new] \in Local
  BY DEF Blank, Local, File, Answer, AfterKey, Fresh, TypeInv, TypeOK
<1>3. /\ FirstLabel(o) \in Labels /\ FirstLabel(o) \notin {"sync", "check", "rename"}
  BY DEF FirstLabel, Labels
<1>4. LocalsTyped'
  BY <1>1, <1>2, <1>3, MoveTyped DEF Call, TypeInv, TypeOK, LocalsTyped
<1>5. budget' \in [BudgetKinds -> Nat]
  BY SpendTyped DEF Call, TypeInv, TypeOK, BudgetKinds
<1>6. used' \in SUBSET Items
  BY <1>1 DEF Fresh, TypeInv, TypeOK
<1> QED
  BY <1>4, <1>5, <1>6 DEF Call, TypeInv, TypeOK, LocalsTyped

LEMMA EnqueueTyped ==
  ASSUME TypeInv, NEW t \in Tasks, Enqueue(t)
  PROVE  TypeInv'
<1> USE DEF secretVars, rwVars, mtimeVars, diskVars, openVars, ghostVars
<1>1. queue' \in Seq(Tasks)
  BY DEF Enqueue, TypeInv, TypeOK
<1> QED
  BY <1>1 DEF Enqueue, TypeInv, TypeOK, TmpWritten

LEMMA NewKeyringTyped ==
  ASSUME TypeInv, NEW S \in SUBSET Entry, NewKeyring(S)
  PROVE  /\ salt' \in Salt /\ nextSalt' \in Salt /\ items' \in SUBSET Entry
         /\ mtime' \in Stamp /\ budget' \in [BudgetKinds -> Nat]
<1>1. budget' \in [BudgetKinds -> Nat]
  BY SpendTyped DEF NewKeyring, TypeInv, TypeOK, BudgetKinds
<1> QED
  BY <1>1 DEF NewKeyring, TypeInv, TypeOK, Salt, Stamp

LEMMA InstallTyped ==
  ASSUME TypeInv, NEW m \in {"down", "locked", "unlocked"}, NEW path \in BOOLEAN,
         NEW s \in Secrets \cup {NoSecret}, NEW k \in Key \cup {NoKey},
         Install(m, path, s, k),
         salt' \in Salt, nextSalt' \in Salt, items' \in SUBSET Entry, mtime' \in Stamp,
         budget' \in [BudgetKinds -> Nat]
  PROVE  TypeInv'
<1>1. dropped' \in SUBSET Items
  BY DEF Install, Withdraw, TypeInv, TypeOK
<1> QED
  BY <1>1 DEF Install, TypeInv, TypeOK, TmpWritten, rwVars, diskVars, ghostVars

LEMMA OwnershipTyped ==
  ASSUME TypeInv, Ownership
  PROVE  TypeInv'
<1>0. /\ NoSecret \in Secrets \cup {NoSecret} /\ NoKey \in Key \cup {NoKey}
      /\ salt \in Salt /\ nextSalt \in Salt /\ items \in SUBSET Entry /\ mtime \in Stamp
      /\ hasPath \in BOOLEAN /\ budget \in [BudgetKinds -> Nat] /\ {} \in SUBSET Entry
      /\ 0 \in Nat
  BY DEF TypeInv, TypeOK
<1>1. CASE Load
  <2>1. CASE file = NoFile
    BY <1>0, <1>1, <2>1, NewKeyringTyped, InstallTyped DEF Load
  <2>2. CASE file # NoFile
    <3>1. file \in KeyringFile
      BY <1>1, <2>2, FileParts DEF Load, TypeInv, TypeOK
    <3>2. salt' \in Salt /\ items' \in SUBSET Entry /\ mtime' \in Stamp
      BY <1>1, <2>2, <3>1 DEF Load, KeyringFile
    <3> QED
      BY <1>0, <1>1, <2>2, <3>2, InstallTyped DEF Load
  <2> QED
    BY <2>1, <2>2
<1>2. ASSUME Refused
      PROVE  TypeInv'
  BY <1>0, <1>2, InstallTyped DEF Refused, Salt, Stamp
<1>3. CASE Unlock
  <2>1. PICK s \in Secrets :
          \/ /\ Install("unlocked", hasPath, s, KeyOf(s, salt))
             /\ UNCHANGED <<salt, items, mtime, nextSalt, budget>>
          \/ Refused
    BY <1>3 DEF Unlock
  <2>2. KeyOf(s, salt) \in Key \cup {NoKey}
    BY <1>0, KeyOfType
  <2> QED
    BY <1>0, <1>2, <2>1, <2>2, InstallTyped
<1>4. CASE UnlockUnchecked
  BY <1>0, <1>4, InstallTyped DEF UnlockUnchecked
<1>5. CASE UnlockUnencrypted
  BY <1>0, <1>2, <1>5, InstallTyped DEF UnlockUnencrypted
<1>6. CASE Lock
  BY <1>0, <1>6, InstallTyped DEF Lock
<1>7. CASE Open
  <2>1. PICK s \in Secrets \cup {NoSecret}, owner \in Secrets \cup {NoSecret} :
          /\ Install("unlocked", TRUE, s, NoKey)
          /\ NewKeyring({Encrypt(i, KeyOf(owner, nextSalt)) : i \in LegacyItems})
    BY <1>7 DEF Open
  <2>2. KeyOf(owner, nextSalt) \in Key \cup {NoKey}
    BY <1>0, KeyOfType
  <2>3. {Encrypt(i, KeyOf(owner, nextSalt)) : i \in LegacyItems} \in SUBSET Entry
    BY <2>2, EncryptType, UnlockedKeyringAssumption
  <2> QED
    BY <1>0, <2>1, <2>3, NewKeyringTyped, InstallTyped
<1>8. CASE Temporary
  BY <1>0, <1>8, NewKeyringTyped, InstallTyped DEF Temporary
<1> QED
  BY <1>1, <1>3, <1>4, <1>5, <1>6, <1>7, <1>8 DEF Ownership

LEMMA StopTyped ==
  ASSUME TypeInv, Stop, file' \in File, flushed' \in File, acked' \in SUBSET Items,
         NEW f, Withdraw(f)
  PROVE  TypeInv'
<1>1. budget' \in [BudgetKinds -> Nat]
  BY SpendTyped DEF Stop, TypeInv, TypeOK, BudgetKinds
<1>2. pc' \in [Tasks -> Labels] /\ TmpWritten'
  BY DEF Stop, Labels, TmpWritten
<1>3. loc' \in [Tasks -> Local]
  BY BlankType DEF Stop, Answer
<1>4. queue' \in Seq(Tasks)
  BY DEF Stop
<1>5. dropped' \in SUBSET Items
  BY DEF Withdraw, TypeInv, TypeOK
<1> QED
  BY <1>1, <1>2, <1>3, <1>4, <1>5 DEF Stop, TypeInv, TypeOK, Stamp, Salt

LEMMA SurvivingType ==
  ASSUME NEW f \in File
  PROVE  Surviving(f) \in File
BY DEF Surviving, File

LEMMA ExternalFile ==
  ASSUME TypeInv, ExternalWrite
  PROVE  file' \in KeyringFile /\ file'.synced
<1>1. PICK i \in Fresh, s \in Secrets \ WeakSecrets,
           fileSalt \in {IF file = NoFile THEN nextSalt ELSE file.salt} :
        file' = [salt |-> fileSalt, mtime |-> clock + 1, synced |-> TRUE,
                 entries |-> Entries(file) \cup {Encrypt(i, KeyOf(s, fileSalt))}]
  BY DEF ExternalWrite
<1>2. fileSalt \in Salt
  <2>1. CASE file = NoFile
    BY <1>1, <2>1 DEF TypeInv, TypeOK
  <2>2. CASE file # NoFile
    BY <1>1, <2>2, FileParts DEF ExternalWrite, KeyringFile, TypeInv, TypeOK
  <2> QED
    BY <2>1, <2>2
<1>3. Encrypt(i, KeyOf(s, fileSalt)) \in Entry
  BY <1>2, KeyOfType, EncryptType DEF Fresh
<1> QED
  BY <1>1, <1>2, <1>3, FileParts DEF KeyringFile, Stamp, TypeInv, TypeOK

LEMMA EnvironmentTyped ==
  ASSUME TypeInv, Environment
  PROVE  TypeInv'
<1> USE DEF secretVars, rwVars, mtimeVars, diskVars, openVars, ghostVars
<1>0. file \in File /\ flushed \in File /\ acked \in SUBSET Items
  BY DEF TypeInv, TypeOK
<1>1. CASE Crash
  BY <1>0, <1>1, StopTyped DEF Crash
<1>2. CASE PowerLoss
  <2>1. file' \in File /\ flushed' \in File
    BY <1>0, <1>2, SurvivingType DEF PowerLoss
  <2>2. acked' \in SUBSET Items
    BY <1>0, <1>2 DEF PowerLoss
  <2> QED
    BY <1>2, <2>1, <2>2, StopTyped DEF PowerLoss
<1>3. CASE Flush
  BY <1>0, <1>3 DEF Flush, TypeInv, TypeOK, TmpWritten
<1>4. CASE ExternalWrite
  <2>1. file' \in File
    BY <1>4, ExternalFile DEF File
  <2>2. used' \in SUBSET Items
    BY <1>4 DEF ExternalWrite, Fresh, TypeInv, TypeOK
  <2>3. budget' \in [BudgetKinds -> Nat]
    BY <1>4, SpendTyped DEF ExternalWrite, TypeInv, TypeOK, BudgetKinds
  <2>4. clock' \in Stamp /\ nextSalt' \in Salt
    BY <1>4 DEF ExternalWrite, TypeInv, TypeOK, Stamp, Salt
  <2> QED
    BY <1>4, <2>1, <2>2, <2>3, <2>4 DEF ExternalWrite, TypeInv, TypeOK, TmpWritten
<1>5. CASE Closed
  BY <1>5 DEF Closed, vars, TypeInv, TypeOK, TmpWritten
<1> QED
  BY <1>1, <1>2, <1>3, <1>4, <1>5 DEF Environment

LEMMA IoErrorTyped ==
  ASSUME TypeInv, NEW t \in Tasks, IoError(t)
  PROVE  TypeInv'
<1>1. budget' \in [BudgetKinds -> Nat]
  BY SpendTyped DEF IoError, TypeInv, TypeOK, BudgetKinds
<1> QED
  BY <1>1, AbortTyped DEF IoError, Answer

LEMMA NextTyped == TypeInv /\ [Next]_vars => TypeInv'
<1> SUFFICES ASSUME TypeInv, [Next]_vars PROVE TypeInv'
  OBVIOUS
<1>1. ASSUME NEW t \in Tasks, NEW o \in Op, Call(t, o) PROVE TypeInv'
  BY <1>1, CallTyped
<1>2. ASSUME NEW t \in Tasks, Step(t) PROVE TypeInv'
  BY <1>2, EnqueueTyped, KeyStepsTyped, EditsTyped, ChangeTyped, DumpTyped DEF Step
<1>3. ASSUME NEW t \in Tasks, IoError(t) PROVE TypeInv'
  BY <1>3, IoErrorTyped
<1>4. CASE Ownership
  BY <1>4, OwnershipTyped
<1>5. CASE Environment
  BY <1>5, EnvironmentTyped
<1>6. CASE UNCHANGED vars
  BY <1>6 DEF vars, TypeInv, TypeOK, TmpWritten
<1> QED
  BY <1>1, <1>2, <1>3, <1>4, <1>5, <1>6 DEF Next

LEMMA TypeInvariant == Spec => []TypeInv
BY InitTyped, NextTyped, PTL DEF Spec

\* Whatever the calls, failures, crashes and foreign writes, every variable keeps its
\* type: keys are derived keys, queues hold tasks, a dump has a file at hand.
THEOREM TypeCorrect == Spec => []TypeOK
BY TypeInvariant, PTL DEF TypeInv

-----------------------------------------------------------------------------
(* The file *)

Whole(f) == f = NoFile \/ (f \in KeyringFile /\ f.synced)

DiskWhole == Whole(file) /\ Whole(flushed)

LEMMA StepsKeepFile ==
  ASSUME NEW t \in Tasks, Step(t) \/ IoError(t) \/ \E o \in Op : Call(t, o), ~Rename(t)
  PROVE  UNCHANGED <<file, flushed>>
<1> USE DEF diskVars
<1>1. CASE IoError(t) \/ \E o \in Op : Call(t, o)
  BY <1>1 DEF IoError, Abort, Call
<1>2. CASE Enqueue(t) \/ CloneSecret(t) \/ LockKey(t) \/ DeriveKey(t) \/ Read(t)
  BY <1>2 DEF Enqueue, CloneSecret, LockKey, DeriveKey, Read
<1>3. CASE Edits(t)
  BY <1>3 DEF Edits, Edit, CreateItem, Delete, ReplaceItemIndex, DeleteItemIndex,
              DeleteBrokenItems
<1>4. CASE Change(t)
  BY <1>4 DEF Change, Snapshot, Decrypt, SetSecret, UnsetKey, Reset, Reencrypt
<1>5. CASE Dump(t)
  BY <1>5 DEF Dump, LockMtime, LockKeyring, CreateItems, WriteTmp, SyncAll, CheckTarget,
              Abort, UpdateMtime
<1> QED
  BY <1>1, <1>2, <1>3, <1>4, <1>5 DEF Step

LEMMA OwnershipKeepsFile ==
  ASSUME Ownership
  PROVE  UNCHANGED diskVars
BY DEF Ownership, Load, Unlock, UnlockUnchecked, UnlockUnencrypted, Lock, Open, Temporary,
       Refused, Install

LEMMA DiskStaysWhole == TypeInv /\ DiskWhole /\ [Next]_vars => DiskWhole'
<1> SUFFICES ASSUME TypeInv, DiskWhole, [Next]_vars PROVE DiskWhole'
  OBVIOUS
<1> USE DEF DiskWhole
<1>1. ASSUME NEW t \in Tasks, Rename(t) PROVE DiskWhole'
  BY <1>1 DEF Rename, Whole, TypeInv, TmpWritten
<1>2. ASSUME NEW t \in Tasks, Step(t) \/ IoError(t) \/ \E o \in Op : Call(t, o), ~Rename(t)
      PROVE  DiskWhole'
  BY <1>2, StepsKeepFile DEF diskVars
<1>3. CASE Ownership
  BY <1>3, OwnershipKeepsFile DEF diskVars
<1>4. CASE Crash \/ Flush \/ Closed
  BY <1>4 DEF Crash, Flush, Closed, vars
<1>5. CASE PowerLoss
  <2>1. Surviving(file) = file /\ Surviving(flushed) = flushed
    BY DEF Whole, Surviving
  <2> QED
    BY <1>5, <2>1 DEF PowerLoss
<1>6. CASE ExternalWrite
  <2>1. UNCHANGED flushed
    BY <1>6 DEF ExternalWrite
  <2> QED
    BY <1>6, <2>1, ExternalFile DEF Whole
<1>7. CASE UNCHANGED vars
  BY <1>7 DEF vars
<1> QED
  BY <1>1, <1>2, <1>3, <1>4, <1>5, <1>6, <1>7 DEF Next, Environment

\* No crash and no power loss, at any moment, leaves a file without its data under
\* the keyring's name: write and sync_all come before rename (api/mod.rs:168-185).
THEOREM FileNeverTorn == Spec => []NeverTorn
<1>1. Init => DiskWhole
  BY UnlockedKeyringAssumption DEF Init, DiskWhole, Whole
<1>2. DiskWhole => NeverTorn
  BY UnlockedKeyringAssumption DEF DiskWhole, Whole, NeverTorn
<1> QED
  BY <1>1, <1>2, TypeInvariant, DiskStaysWhole, PTL DEF Spec

-----------------------------------------------------------------------------
(* The time stamp *)

HoldsMtime == {"keyring"} \cup DumpLabels

MtimeInv ==
  /\ mode # "unlocked" => Idle
  /\ \A t \in Tasks : pc[t] \in HoldsMtime => mtimeHolder = t
  /\ mtimeHolder # NoTask => pc[mtimeHolder] \in HoldsMtime
  /\ \A t \in Tasks : pc[t] \in DumpLabels => hasPath
  /\ mode # "down" /\ hasPath /\ mtime # Mtime(file) => \E t \in Tasks : pc[t] = "stat"
  /\ NoSelfConflict
  /\ budget["external"] = 0

LEMMA StopMtime ==
  ASSUME TypeInv, MtimeInv, Stop
  PROVE  MtimeInv'
<1>1. Idle' /\ NoSelfConflict'
  BY DEF Stop, Idle, NoSelfConflict, Blank
<1>2. budget'["external"] = 0
  BY DEF Stop, Spend, MtimeInv, TypeInv, TypeOK, BudgetKinds
<1> QED
  BY <1>1, <1>2 DEF Stop, MtimeInv, Idle, HoldsMtime, DumpLabels

LEMMA InstallMtime ==
  ASSUME TypeInv, MtimeInv, Idle,
         NEW m \in {"down", "locked", "unlocked"}, NEW path \in BOOLEAN, NEW s, NEW k,
         Install(m, path, s, k), m # "down" /\ path => mtime' = Mtime(file),
         budget'["external"] = 0
  PROVE  MtimeInv'
<1>1. UNCHANGED <<pc, loc, mtimeHolder, file>> /\ mode' = m /\ hasPath' = path
  BY DEF Install, diskVars
<1>2. \A t \in Tasks : pc[t] \notin HoldsMtime
  BY DEF Idle, HoldsMtime, DumpLabels
<1>3. mtimeHolder = NoTask
  BY <1>2 DEF MtimeInv, TypeInv, TypeOK
<1> QED
  BY <1>1, <1>2, <1>3 DEF MtimeInv, Idle, NoSelfConflict, HoldsMtime, Mtime

LEMMA OwnershipMtime ==
  ASSUME TypeInv, MtimeInv, Ownership
  PROVE  MtimeInv'
<1>0. /\ hasPath \in BOOLEAN /\ budget["external"] = 0
      /\ mode # "unlocked" => Idle
  BY DEF MtimeInv, TypeInv, TypeOK
<1>1. ASSUME NEW S, NewKeyring(S) PROVE budget'["external"] = 0 /\ mtime' = 0
  BY <1>0, <1>1 DEF NewKeyring, Spend, TypeInv, TypeOK, BudgetKinds
<1>2. mode = "locked" \/ (mode = "unlocked" /\ Idle) => (hasPath => mtime = Mtime(file))
  BY <1>0 DEF MtimeInv, Idle
<1>3. CASE Load
  <2>1. mtime' = Mtime(file) /\ budget'["external"] = 0
    BY <1>0, <1>1, <1>3 DEF Load, Mtime
  <2> QED
    BY <1>0, <1>3, <2>1, InstallMtime DEF Load
<1>4. ASSUME Refused, Idle PROVE MtimeInv'
  BY <1>0, <1>4, InstallMtime DEF Refused
<1>5. CASE Unlock \/ UnlockUnchecked \/ UnlockUnencrypted
  <2>1. mode = "locked" /\ Idle
    BY <1>0, <1>5 DEF Unlock, UnlockUnchecked, UnlockUnencrypted
  <2>2. \/ Refused
        \/ /\ \E s \in Secrets \cup {NoSecret} : \E k : Install("unlocked", hasPath, s, k)
           /\ UNCHANGED <<mtime, budget>>
    BY <1>5 DEF Unlock, UnlockUnchecked, UnlockUnencrypted
  <2> QED
    BY <1>0, <1>2, <1>4, <2>1, <2>2, InstallMtime
<1>6. CASE Lock
  BY <1>0, <1>2, <1>6, InstallMtime DEF Lock
<1>7. CASE Open
  BY <1>0, <1>1, <1>7, InstallMtime DEF Open, Mtime
<1>8. CASE Temporary
  BY <1>0, <1>1, <1>8, InstallMtime DEF Temporary
<1> QED
  BY <1>3, <1>5, <1>6, <1>7, <1>8 DEF Ownership

LEMMA OtherStepsMtime ==
  ASSUME TypeInv, MtimeInv, NEW t \in Tasks, pc[t] # "idle",
         mode' = mode /\ hasPath' = hasPath /\ mtime' = mtime /\ file' = file,
         mtimeHolder' = mtimeHolder, budget' = budget,
         NEW label \in Labels \ HoldsMtime, pc' = [pc EXCEPT ![t] = label],
         pc[t] \notin HoldsMtime, loc' \in [Tasks -> Local],
         \A u \in Tasks : loc'[u].res # "TargetFileChanged"
  PROVE  MtimeInv'
<1>1. mode' = "unlocked"
  BY DEF MtimeInv, Idle
<1> QED
  BY <1>1 DEF MtimeInv, NoSelfConflict, HoldsMtime, DumpLabels, TypeInv, TypeOK, Mtime

\* The steps before the mtime mutex is taken.
LEMMA EarlyStepsMtime ==
  ASSUME TypeInv, TypeInv', MtimeInv, NEW t \in Tasks,
         CloneSecret(t) \/ LockKey(t) \/ DeriveKey(t) \/ Read(t) \/ Edits(t) \/ Change(t)
  PROVE  MtimeInv'
<1> USE DEF secretVars, rwVars, mtimeVars, diskVars, openVars, ghostVars
<1>0. loc \in [Tasks -> Local] /\ loc[t] \in Local
  BY DEF TypeInv, TypeOK
<1>1. UNCHANGED <<mode, hasPath, mtime, file, mtimeHolder, budget>>
  BY DEF CloneSecret, LockKey, DeriveKey, Read, Edits, Edit, CreateItem, Delete,
         ReplaceItemIndex, DeleteItemIndex, DeleteBrokenItems,
         Change, Snapshot, Decrypt, SetSecret, UnsetKey, Reset, Reencrypt
<1>2. pc[t] \in Labels \ HoldsMtime /\ pc[t] # "idle"
  BY DEF CloneSecret, LockKey, DeriveKey, Read, Edits, Edit, CreateItem, Delete,
         ReplaceItemIndex, DeleteItemIndex, DeleteBrokenItems,
         Change, Snapshot, Decrypt, SetSecret, UnsetKey, Reset, Reencrypt,
         HoldsMtime, DumpLabels, Labels
<1>3. loc[t].ret \in Labels \ HoldsMtime
  BY DEF TypeInv, TypeOK, Local, Labels, HoldsMtime, DumpLabels
<1>4. \E label \in Labels \ HoldsMtime : pc' = [pc EXCEPT ![t] = label]
  <2>1. {"idle", "key", "kdf", "mtime", "secret", "setSecret", "unsetKey", "reset"}
           \subseteq Labels \ HoldsMtime
    BY DEF Labels, HoldsMtime, DumpLabels
  <2>2. CASE CloneSecret(t) \/ LockKey(t) \/ DeriveKey(t) \/ Read(t)
    BY <1>3, <2>1, <2>2 DEF CloneSecret, LockKey, DeriveKey, Read, Goto, Return
  <2>3. CASE Edits(t)
    BY <2>1, <2>3 DEF Edits, CreateItem, Delete, ReplaceItemIndex, DeleteItemIndex,
                      DeleteBrokenItems, Goto, Return
  <2>4. CASE Change(t)
    BY <2>1, <2>4 DEF Change, Snapshot, Decrypt, SetSecret, UnsetKey, Reset, Reencrypt,
                      Goto, Return
  <2> QED
    BY <2>2, <2>3, <2>4
<1>5. \A u \in Tasks : loc'[u].res # "TargetFileChanged"
  <2>1. \A u \in Tasks : loc[u].res # "TargetFileChanged"
    BY DEF MtimeInv, NoSelfConflict
  <2>2. ASSUME NEW r \in {"ok", "err"}, Return(t, r)
        PROVE  \A u \in Tasks : loc'[u].res # "TargetFileChanged"
    BY <2>1, <2>2 DEF Return, Blank, TypeInv, TypeOK
  <2>3. CASE CloneSecret(t) \/ LockKey(t) \/ DeriveKey(t) \/ Read(t)
    <3>1. CASE Read(t)
      BY <2>2, <3>1 DEF Read
    <3>2. CASE CloneSecret(t) \/ LockKey(t) \/ DeriveKey(t)
      <4>1. /\ \E k, s : \/ loc' = loc
                        \/ loc' = [loc EXCEPT ![t] = [loc[t] EXCEPT !.key = k]]
                        \/ loc' = [loc EXCEPT ![t] = [loc[t] EXCEPT !.sec = s]]
        BY <3>2 DEF CloneSecret, LockKey, DeriveKey, Goto
      <4>2. \A k, s : /\ [loc[t] EXCEPT !.key = k].res = loc[t].res
                     /\ [loc[t] EXCEPT !.sec = s].res = loc[t].res
        BY <1>0, ZenonT(30) DEF Local
      <4>3. ASSUME NEW l, l.res = loc[t].res, loc' = [loc EXCEPT ![t] = l]
            PROVE  \A u \in Tasks : loc'[u].res # "TargetFileChanged"
        BY <1>0, <2>1, <4>3
      <4> QED
        BY <2>1, <4>1, <4>2, <4>3
    <3> QED
      BY <2>3, <3>1, <3>2
  <2>4. CASE Edits(t)
    BY <2>1, <2>2, <2>4 DEF Edits, CreateItem, Delete, ReplaceItemIndex, DeleteItemIndex,
                            DeleteBrokenItems, Goto
  <2>5. CASE Change(t)
    <3>1. CASE Snapshot(t)
      BY <2>1, <2>2, <3>1 DEF Snapshot, Goto, TypeInv, TypeOK, Local
    <3>2. CASE Decrypt(t)
      <4>1. CASE loc' = [loc EXCEPT ![t] = [loc[t] EXCEPT !.snap = ItemsOf(items)]]
        <5>1. [loc[t] EXCEPT !.snap = ItemsOf(items)].res = loc[t].res
          BY <1>0, ZenonT(30) DEF Local
        <5> QED
          BY <1>0, <2>1, <4>1, <5>1
      <4> QED
        BY <2>2, <3>2, <4>1 DEF Decrypt
    <3>3. CASE SetSecret(t)
      BY <2>1, <3>3 DEF SetSecret, Goto, TypeInv, TypeOK, Local
    <3>4. CASE UnsetKey(t)
      BY <2>1, <3>4 DEF UnsetKey, Goto, TypeInv, TypeOK, Local
    <3>5. CASE Reset(t)
      BY <2>1, <3>5 DEF Reset, Goto, TypeInv, TypeOK, Local
    <3>6. CASE Reencrypt(t)
      BY <2>1, <2>2, <3>6 DEF Reencrypt, Goto, TypeInv, TypeOK, Local
    <3> QED
      BY <2>5, <3>1, <3>2, <3>3, <3>4, <3>5, <3>6 DEF Change
  <2> QED
    BY <2>3, <2>4, <2>5
<1>6. loc' \in [Tasks -> Local]
  BY DEF TypeInv, TypeOK
<1> QED
  BY <1>1, <1>2, <1>4, <1>5, <1>6, OtherStepsMtime

\* The holder of the mutex moves on and keeps it.
LEMMA HolderMoves ==
  ASSUME TypeInv, TypeInv', MtimeInv, NEW t \in Tasks, mtimeHolder' = t,
         mtimeHolder = t \/ mtimeHolder = NoTask, pc[t] # "idle",
         UNCHANGED <<mode, hasPath, mtime, budget>>,
         NEW label \in HoldsMtime, pc' = [pc EXCEPT ![t] = label],
         label \in DumpLabels => hasPath,
         label = "stat" \/ (UNCHANGED file /\ pc[t] # "stat"),
         \A u \in Tasks : loc'[u].res = loc[u].res
  PROVE  MtimeInv'
<1>1. mode = "unlocked"
  BY DEF MtimeInv, Idle
<1>2. \A u \in Tasks : u # t => pc[u] \notin HoldsMtime
  BY UnlockedKeyringAssumption DEF MtimeInv
<1>3. pc'[t] = label /\ \A u \in Tasks : u # t => pc'[u] = pc[u]
  BY DEF TypeInv, TypeOK
<1>4. hasPath /\ mtime # Mtime(file') => \E u \in Tasks : pc'[u] = "stat"
  <2>1. CASE label = "stat"
    BY <1>3, <2>1
  <2>2. CASE UNCHANGED file /\ pc[t] # "stat"
    BY <1>1, <1>3, <2>2 DEF MtimeInv
  <2> QED
    BY <2>1, <2>2
<1>5. NoSelfConflict'
  BY DEF MtimeInv, NoSelfConflict
<1> QED
  BY <1>1, <1>2, <1>3, <1>4, <1>5 DEF MtimeInv, Mtime

\* The holder of the mutex returns and releases it.
LEMMA HolderReturns ==
  ASSUME TypeInv, TypeInv', MtimeInv, NEW t \in Tasks, mtimeHolder = t,
         mtimeHolder' = NoTask, NEW r \in {"ok", "err"}, Return(t, r),
         UNCHANGED <<mode, hasPath, file>>, budget'["external"] = budget["external"],
         mtime' = Mtime(file) \/ (UNCHANGED mtime /\ pc[t] # "stat"), pc[t] # "idle"
  PROVE  MtimeInv'
<1>1. mode = "unlocked"
  BY DEF MtimeInv, Idle
<1>2. \A u \in Tasks : u # t => pc[u] \notin HoldsMtime
  BY DEF MtimeInv
<1>3. pc' = [pc EXCEPT ![t] = "idle"] /\ "idle" \notin HoldsMtime /\ "stat" \in HoldsMtime
  BY DEF Return, HoldsMtime, DumpLabels
<1>4. NoSelfConflict'
  BY DEF MtimeInv, NoSelfConflict, Return, Blank, TypeInv, TypeOK
<1>5. \A u \in Tasks : pc'[u] \notin HoldsMtime
  BY <1>2, <1>3 DEF TypeInv, TypeOK
<1>6. mtime' = Mtime(file') \/ ~hasPath
  BY <1>1, <1>2, <1>3 DEF MtimeInv, Mtime
<1> QED
  BY <1>1, <1>4, <1>5, <1>6 DEF MtimeInv, HoldsMtime

LEMMA DumpMtime ==
  ASSUME TypeInv, TypeInv', MtimeInv, NEW t \in Tasks, Dump(t)
  PROVE  MtimeInv'
<1> USE DEF secretVars, rwVars, mtimeVars, diskVars, openVars, ghostVars
<1>0. /\ {"keyring", "tmp", "sync", "check", "rename", "stat"} = HoldsMtime
      /\ pc[t] \in HoldsMtime => mtimeHolder = t
  BY DEF HoldsMtime, DumpLabels, MtimeInv
<1>1. CASE LockMtime(t)
  BY <1>0, <1>1, HolderMoves DEF LockMtime, Goto, DumpLabels
<1>2. CASE LockKeyring(t) \/ CreateItems(t)
  <2>1. /\ pc[t] = "keyring" /\ mtimeHolder = t
        /\ UNCHANGED <<mode, hasPath, mtime, budget, file>>
    BY <1>0, <1>2 DEF LockKeyring, CreateItems
  <2>2. \/ StartDump(t)
        \/ mtimeHolder' = NoTask /\ Return(t, "err")
    BY <1>2 DEF LockKeyring, CreateItems
  <2>3. CASE StartDump(t) /\ hasPath
    BY <1>0, <2>1, <2>3, HolderMoves DEF StartDump, Goto
  <2>4. CASE StartDump(t) /\ ~hasPath
    BY <2>1, <2>4, HolderReturns DEF StartDump
  <2>5. CASE mtimeHolder' = NoTask /\ Return(t, "err")
    BY <2>1, <2>5, HolderReturns
  <2> QED
    BY <2>2, <2>3, <2>4, <2>5
<1>3. CASE WriteTmp(t) \/ SyncAll(t) \/ Rename(t)
  <2>1. /\ pc[t] \in DumpLabels /\ pc[t] # "stat" /\ mtimeHolder = t /\ hasPath
        /\ UNCHANGED <<mode, hasPath, mtime, budget, mtimeHolder>>
    BY <1>0, <1>3 DEF WriteTmp, SyncAll, Rename, DumpLabels, MtimeInv
  <2>2. \A u \in Tasks : loc'[u].res = loc[u].res
    BY <1>3 DEF WriteTmp, SyncAll, Rename, Goto, TypeInv, TypeOK, Local
  <2>3. \E label \in HoldsMtime : /\ pc' = [pc EXCEPT ![t] = label]
                                  /\ label = "stat" \/ UNCHANGED file
    BY <1>0, <1>3 DEF WriteTmp, SyncAll, Rename, Goto
  <2> QED
    BY <2>1, <2>2, <2>3, HolderMoves DEF DumpLabels
<1>4. CASE CheckTarget(t)
  <2>1. pc[t] = "check" /\ mtimeHolder = t /\ hasPath
    BY <1>0, <1>4 DEF CheckTarget, DumpLabels, MtimeInv
  <2>2. mode = "unlocked"
    BY <2>1 DEF MtimeInv, Idle
  <2>3. mtime = Mtime(file)
    <3>1. ASSUME NEW u \in Tasks, pc[u] = "stat" PROVE FALSE
      BY <1>0, <2>1, <3>1 DEF MtimeInv
    <3> QED
      BY <2>1, <2>2, <3>1 DEF MtimeInv
  <2> QED
    BY <1>0, <1>4, <2>1, <2>3, HolderMoves DEF CheckTarget, Goto
<1>5. CASE UpdateMtime(t)
  BY <1>0, <1>5, HolderReturns DEF UpdateMtime
<1> QED
  BY <1>1, <1>2, <1>3, <1>4, <1>5 DEF Dump

LEMMA NextMtime ==
  ASSUME Budget["external"] = 0, "stat" \notin FaultPoints
  PROVE  TypeInv /\ TypeInv' /\ MtimeInv /\ [Next]_vars => MtimeInv'
<1> SUFFICES ASSUME TypeInv, TypeInv', MtimeInv, [Next]_vars PROVE MtimeInv'
  OBVIOUS
<1> USE DEF secretVars, rwVars, mtimeVars, diskVars, openVars, ghostVars
<1>1. ASSUME NEW t \in Tasks, NEW o \in Op, Call(t, o) PROVE MtimeInv'
  <2>1. budget'["external"] = 0
    BY <1>1 DEF Call, Spend, MtimeInv, TypeInv, TypeOK, BudgetKinds
  <2>2. \A u \in Tasks : loc'[u].res # "TargetFileChanged"
    BY <1>1 DEF Call, Blank, MtimeInv, NoSelfConflict, TypeInv, TypeOK
  <2>3. FirstLabel(o) \in Labels \ HoldsMtime /\ pc[t] \notin HoldsMtime
    BY <1>1 DEF Call, FirstLabel, HoldsMtime, DumpLabels, Labels
  <2>4. UNCHANGED <<mode, hasPath, mtime, file, mtimeHolder>> /\ mode = "unlocked"
        /\ pc' = [pc EXCEPT ![t] = FirstLabel(o)] /\ pc[t] = "idle"
    BY <1>1 DEF Call
  <2> QED
    BY <2>1, <2>2, <2>3, <2>4
    DEF MtimeInv, NoSelfConflict, HoldsMtime, DumpLabels, TypeInv, TypeOK, Mtime
<1>2. ASSUME NEW t \in Tasks, Enqueue(t) PROVE MtimeInv'
  BY <1>2 DEF Enqueue, MtimeInv, Idle, NoSelfConflict, Mtime
<1>3. ASSUME NEW t \in Tasks, Step(t), ~Enqueue(t) PROVE MtimeInv'
  BY <1>3, EarlyStepsMtime, DumpMtime DEF Step
<1>4. ASSUME NEW t \in Tasks, IoError(t) PROVE MtimeInv'
  <2>1. /\ pc[t] \in DumpLabels /\ pc[t] \notin {"stat", "idle"}
        /\ mtimeHolder = t /\ mtimeHolder' = NoTask
    BY <1>4, UnlockedKeyringAssumption DEF IoError, Abort, DumpLabels, HoldsMtime, MtimeInv
  <2>2. budget'["external"] = budget["external"]
    BY <1>4 DEF IoError, Spend, TypeInv, TypeOK, BudgetKinds
  <2> QED
    BY <1>4, <2>1, <2>2, HolderReturns DEF IoError, Abort
<1>5. CASE Ownership
  BY <1>5, OwnershipMtime
<1>6. CASE Crash \/ PowerLoss
  BY <1>6, StopMtime DEF Crash, PowerLoss
<1>7. CASE Flush \/ Closed \/ UNCHANGED vars
  BY <1>7 DEF Flush, Closed, vars, MtimeInv, Idle, NoSelfConflict, Mtime
<1>8. ~ExternalWrite
  BY DEF ExternalWrite, Spend, MtimeInv
<1> QED
  BY <1>1, <1>2, <1>3, <1>4, <1>5, <1>6, <1>7, <1>8 DEF Next, Environment

LEMMA InitMtime ==
  ASSUME Budget["external"] = 0
  PROVE  Init => MtimeInv
BY DEF Init, MtimeInv, Idle, NoSelfConflict, Blank, HoldsMtime, DumpLabels

LEMMA MtimeInvariant ==
  ASSUME Budget["external"] = 0, "stat" \notin FaultPoints
  PROVE  Spec => []MtimeInv
BY InitMtime, NextMtime, TypeInvariant, PTL DEF Spec

\* As long as no other process writes the file and reading back its time stamp does
\* not fail, the remembered time stamp is the file's whenever the mtime mutex is
\* free, however the calls of this keyring interleave.
THEOREM TimeStampTracksFile ==
  ASSUME Budget["external"] = 0, "stat" \notin FaultPoints
  PROVE  Spec => []MtimeTracksFile
<1>1. MtimeInv => MtimeTracksFile
  <2> SUFFICES ASSUME MtimeInv, mode # "down", hasPath, mtimeHolder = NoTask
               PROVE  mtime = Mtime(file)
    BY DEF MtimeTracksFile
  <2>1. \A t \in Tasks : pc[t] # "stat"
    BY UnlockedKeyringAssumption DEF MtimeInv, HoldsMtime, DumpLabels
  <2> QED
    BY <2>1 DEF MtimeInv
<1> QED
  BY <1>1, MtimeInvariant, PTL

\* Under the same assumptions no write of this keyring is ever refused because of
\* another write of this keyring.
THEOREM NoCallConflicts ==
  ASSUME Budget["external"] = 0, "stat" \notin FaultPoints
  PROVE  Spec => []NoSelfConflict
<1>1. MtimeInv => NoSelfConflict
  BY DEF MtimeInv
<1> QED
  BY <1>1, MtimeInvariant, PTL

-----------------------------------------------------------------------------
(* How the steps of a task move it *)

Others(t) == \A u \in Tasks \ {t} : pc'[u] = pc[u] /\ loc'[u] = loc[u]

Ends(t) == Others(t) /\ pc'[t] = "idle" /\ loc'[t].op = "none"

Goes(t, label) == Others(t) /\ pc'[t] = label /\ loc'[t] = loc[t]

\* The parts of the local state that derive_key leaves alone.
SameCall(t) ==
  /\ Others(t)
  /\ loc'[t].op = loc[t].op /\ loc'[t].new = loc[t].new
  /\ loc'[t].ret = loc[t].ret /\ loc'[t].snap = loc[t].snap /\ loc'[t].tmp = loc[t].tmp

LEMMA Returns ==
  ASSUME TypeInv, NEW t \in Tasks, NEW r, Return(t, r)
  PROVE  Ends(t)
BY DEF Return, Ends, Others, Blank, TypeInv, TypeOK

LEMMA Goings ==
  ASSUME TypeInv, NEW t \in Tasks, NEW label, Goto(t, label)
  PROVE  Goes(t, label)
BY DEF Goto, Goes, Others, TypeInv, TypeOK

LEMMA CloneSecretMoves ==
  ASSUME TypeInv, NEW t \in Tasks, CloneSecret(t)
  PROVE  /\ pc[t] = "secret" /\ SameCall(t) /\ UNCHANGED key
         /\ \/ pc'[t] = loc[t].ret /\ loc'[t].key = KeyOf(secret, salt)
            \/ pc'[t] = "key" /\ loc'[t].sec = secret
<1>1. loc[t] \in Local /\ loc \in [Tasks -> Local] /\ pc \in [Tasks -> Labels]
  BY DEF TypeInv, TypeOK
<1>2. CASE secret = NoSecret
  BY <1>1, <1>2 DEF CloneSecret, SameCall, Others, KeyOf, Local, secretVars
<1>3. CASE secret # NoSecret
  BY <1>1, <1>3 DEF CloneSecret, SameCall, Others, Local, secretVars
<1> QED
  BY <1>2, <1>3

LEMMA LockKeyMoves ==
  ASSUME TypeInv, NEW t \in Tasks, LockKey(t)
  PROVE  /\ pc[t] = "key" /\ SameCall(t) /\ UNCHANGED key
         /\ \/ pc'[t] = loc[t].ret /\ key # NoKey /\ loc'[t].key = key
            \/ pc'[t] = "kdf" /\ loc'[t].sec = loc[t].sec
<1>1. loc[t] \in Local /\ loc \in [Tasks -> Local] /\ pc \in [Tasks -> Labels]
  BY DEF TypeInv, TypeOK
<1>2. CASE key # NoKey
  BY <1>1, <1>2 DEF LockKey, SameCall, Others, Local
<1>3. CASE key = NoKey
  BY <1>1, <1>3 DEF LockKey, Goto, SameCall, Others
<1> QED
  BY <1>2, <1>3

LEMMA DeriveKeyMoves ==
  ASSUME TypeInv, NEW t \in Tasks, DeriveKey(t)
  PROVE  /\ pc[t] = "kdf" /\ SameCall(t) /\ pc'[t] = loc[t].ret
         /\ key' = KeyOf(loc[t].sec, salt) /\ loc'[t].key = KeyOf(loc[t].sec, salt)
<1>1. loc[t] \in Local /\ loc \in [Tasks -> Local] /\ pc \in [Tasks -> Labels]
  BY DEF TypeInv, TypeOK
<1> QED
  BY <1>1 DEF DeriveKey, SameCall, Others, Local

LEMMA CallMoves ==
  ASSUME TypeInv, NEW t \in Tasks, NEW o \in Op, Call(t, o)
  PROVE  /\ pc[t] = "idle" /\ Others(t) /\ pc'[t] = FirstLabel(o) /\ o \in OpsOf[t]
         /\ loc'[t].op = o /\ loc'[t].ret = AfterKey(o) /\ loc'[t].key = NoKey
         /\ IsFiniteSet(Items) /\ o \notin {"create", "replaceIndex", "bulk"} => loc'[t].new = {}
<1>1. loc \in [Tasks -> Local] /\ pc \in [Tasks -> Labels]
  BY DEF TypeInv, TypeOK
<1>2. PICK new \in SUBSET Fresh :
        /\ Cardinality(new) = Brings(o)
        /\ loc' = [loc EXCEPT ![t] = [Blank("none") EXCEPT !.op = o, !.ret = AfterKey(o),
                                                           !.new = new]]
  BY DEF Call
<1>3. PICK l : l = [Blank("none") EXCEPT !.op = o, !.ret = AfterKey(o), !.new = new]
  OBVIOUS
<1>4. l.op = o /\ l.ret = AfterKey(o) /\ l.new = new /\ l.key = NoKey
  BY <1>3 DEF Blank
<1>5. loc'[t] = l /\ \A u \in Tasks \ {t} : loc'[u] = loc[u]
  BY <1>1, <1>2, <1>3
<1>6. ASSUME IsFiniteSet(Items), o \notin {"create", "replaceIndex", "bulk"} PROVE new = {}
  <2>1. new \subseteq Items
    BY DEF Fresh
  <2>2. IsFiniteSet(new) /\ Cardinality(new) = 0
    BY <1>2, <1>6, <2>1, FS_Subset DEF Brings
  <2> QED
    BY <2>2, FS_EmptySet
<1> QED
  BY <1>1, <1>2, <1>4, <1>5, <1>6 DEF Call, Others

Under(S, k) == \A e \in S : e.key = k

\* An edit takes items away or adds the call's own under a key that is strong enough,
Adds(t) ==
  \/ items' \subseteq items
  \/ /\ ~IsWeak(loc[t].key) /\ loc[t].op # "deleteIndex"
     /\ items' \subseteq items \cup {Encrypt(i, loc[t].key) : i \in loc[t].new}

\* and one that fails takes nothing away, unless the key is weak or is not the items'.
Fails(t) ==
  /\ UNCHANGED dropped
  /\ \/ items' = items
     \/ loc[t].op # "deleteIndex" /\ (IsWeak(loc[t].key) \/ ~Under(items, loc[t].key))

LEMMA PutAdds ==
  ASSUME NEW S, NEW i, NEW replace, NEW k
  PROVE  /\ PutFails(S, i, replace, k) => AfterPut(S, i, replace, k) \subseteq S
         /\ PutFails(S, i, replace, k) /\ ~IsWeak(k) => /\ AfterPut(S, i, replace, k) = S
                                                        /\ ~Under(S, k)
         /\ ~PutFails(S, i, replace, k) => /\ ~IsWeak(k)
                                           /\ AfterPut(S, i, replace, k) \subseteq S \cup {Encrypt(i, k)}
BY DEF PutFails, AfterPut, AfterReplace, Remaining, Removable, IsValid, Under

LEMMA EditsMove ==
  ASSUME TypeInv, NEW t \in Tasks, Edits(t)
  PROVE  /\ pc[t] = "edit" /\ Adds(t)
         /\ (Goes(t, "mtime") /\ Drop(t)) \/ (Ends(t) /\ Fails(t))
         /\ UNCHANGED <<mode, hasPath, secret, key, salt, file, flushed, acked, budget, mtimeHolder>>
<1>0. /\ pc[t] = "edit"
      /\ UNCHANGED <<mode, hasPath, secret, key, salt, file, flushed, acked, budget, mtimeHolder>>
  BY DEF Edits, Edit, CreateItem, Delete, ReplaceItemIndex, DeleteItemIndex, DeleteBrokenItems,
         secretVars, mtimeVars, diskVars, openVars
<1>1. (Goto(t, "mtime") => Goes(t, "mtime")) /\ (Return(t, "err") => Ends(t))
  BY Goings, Returns
<1>2. CASE CreateItem(t)
  <2>1. PICK i \in loc[t].new, replace \in BOOLEAN :
          /\ items' = AfterPut(items, i, replace, loc[t].key)
          /\ \/ PutFails(items, i, replace, loc[t].key) /\ Return(t, "err") /\ UNCHANGED dropped
             \/ ~PutFails(items, i, replace, loc[t].key) /\ Goto(t, "mtime") /\ Drop(t)
    BY <1>2 DEF CreateItem
  <2>2. loc[t].op = "create"
    BY <1>2 DEF CreateItem, Edit
  <2>3. Adds(t)
    BY <2>1, <2>2, PutAdds DEF Adds
  <2> QED
    BY <1>0, <1>1, <2>1, <2>2, <2>3, PutAdds DEF Fails
<1>3. CASE Delete(t)
  BY <1>0, <1>1, <1>3 DEF Delete, Adds, Fails, Remaining
<1>4. CASE ReplaceItemIndex(t)
  <2>1. loc[t].op = "replaceIndex"
    BY <1>4 DEF ReplaceItemIndex, Edit
  <2> QED
    BY <1>0, <1>1, <1>4, <2>1 DEF ReplaceItemIndex, Adds, Fails
<1>5. CASE DeleteItemIndex(t)
  BY <1>0, <1>1, <1>5 DEF DeleteItemIndex, Adds, Fails
<1>6. CASE DeleteBrokenItems(t)
  BY <1>0, <1>1, <1>6 DEF DeleteBrokenItems, Adds, Valid
<1> QED
  BY <1>2, <1>3, <1>4, <1>5, <1>6 DEF Edits

\* A dump starts, or a keyring without a path has nothing to write.
Starts(t) ==
  \/ hasPath /\ Goes(t, "tmp") /\ UNCHANGED mtimeHolder
  \/ ~hasPath /\ Ends(t) /\ mtimeHolder' = NoTask

LEMMA CreateItemsMove ==
  ASSUME TypeInv, NEW t \in Tasks, CreateItems(t)
  PROVE  /\ pc[t] = "keyring" /\ loc[t].op = "bulk" /\ Adds(t)
         /\ (Starts(t) /\ Drop(t)) \/ (Ends(t) /\ mtimeHolder' = NoTask /\ Fails(t))
         /\ UNCHANGED <<mode, hasPath, secret, key, salt, file, flushed, acked, budget>>
<1> PICK k : k = loc[t].key
  OBVIOUS
<1>0. /\ pc[t] = "keyring" /\ loc[t].op = "bulk"
      /\ UNCHANGED <<mode, hasPath, secret, key, salt, file, flushed, acked, budget>>
  BY DEF CreateItems, secretVars, diskVars, openVars
<1>1. (StartDump(t) => Starts(t)) /\ (Return(t, "err") => Ends(t))
  BY Goings, Returns DEF StartDump, Starts, mtimeVars
<1>5. PICK i \in loc[t].new, j \in loc[t].new, replace \in BOOLEAN :
        \/ /\ PutFails(items, i, replace, k) /\ items' = AfterPut(items, i, replace, k)
           /\ mtimeHolder' = NoTask /\ Return(t, "err") /\ UNCHANGED dropped
        \/ /\ ~PutFails(items, i, replace, k)
           /\ items' = AfterPut(AfterPut(items, i, replace, k), j, replace, k)
           /\ \/ /\ PutFails(AfterPut(items, i, replace, k), j, replace, k)
                 /\ mtimeHolder' = NoTask /\ Return(t, "err") /\ UNCHANGED dropped
              \/ /\ ~PutFails(AfterPut(items, i, replace, k), j, replace, k)
                 /\ StartDump(t) /\ Drop(t)
  BY DEF CreateItems
<1> PICK one : one = AfterPut(items, i, replace, k)
  OBVIOUS
<1>2. \/ /\ PutFails(items, i, replace, k) /\ items' = one
         /\ mtimeHolder' = NoTask /\ Return(t, "err") /\ UNCHANGED dropped
      \/ /\ ~PutFails(items, i, replace, k) /\ items' = AfterPut(one, j, replace, k)
         /\ \/ /\ PutFails(one, j, replace, k)
               /\ mtimeHolder' = NoTask /\ Return(t, "err") /\ UNCHANGED dropped
            \/ ~PutFails(one, j, replace, k) /\ StartDump(t) /\ Drop(t)
  BY <1>5
<1>3. CASE PutFails(items, i, replace, k)
  <2>1. items' \subseteq items /\ (items' = items \/ IsWeak(k))
    BY <1>2, <1>3, PutAdds
  <2> QED
    BY <1>0, <1>1, <1>2, <1>3, <2>1 DEF Adds, Fails
<1>4. CASE ~PutFails(items, i, replace, k)
  <2>1. ~IsWeak(k) /\ one \subseteq items \cup {Encrypt(i, k)}
    BY <1>2, <1>4, PutAdds
  <2>2. items' \subseteq one \cup {Encrypt(j, k)}
    BY <1>2, <1>4, PutAdds
  <2>3. Adds(t)
    BY <1>0, <2>1, <2>2 DEF Adds
  <2>4. CASE PutFails(one, j, replace, k)
    <3>1. ~Under(one, k)
      BY <2>1, <2>4, PutAdds
    <3>2. ~Under(items, k)
      BY <2>1, <3>1 DEF Under, Encrypt
    <3> QED
      BY <1>0, <1>1, <1>2, <1>4, <2>3, <2>4, <3>2 DEF Fails
  <2>5. CASE ~PutFails(one, j, replace, k)
    BY <1>0, <1>1, <1>2, <1>4, <2>3, <2>5
  <2> QED
    BY <2>4, <2>5
<1> QED
  BY <1>3, <1>4

LEMMA LockKeyringMoves ==
  ASSUME TypeInv, NEW t \in Tasks, LockKeyring(t)
  PROVE  /\ pc[t] = "keyring" /\ loc[t].op # "bulk" /\ Starts(t)
         /\ UNCHANGED <<mode, hasPath, secret, key, salt, items, file, flushed, acked, dropped,
                        budget>>
BY Goings, Returns DEF LockKeyring, StartDump, Starts, mtimeVars, secretVars, diskVars, openVars,
                       ghostVars

LEMMA WriteTmpMoves ==
  ASSUME TypeInv, NEW t \in Tasks, WriteTmp(t)
  PROVE  /\ pc[t] = "tmp" /\ pc'[t] = "sync" /\ Others(t)
         /\ loc'[t].tmp.entries = items /\ loc'[t].tmp.salt = salt
         /\ loc'[t].op = loc[t].op /\ loc'[t].new = loc[t].new
<1>1. loc[t] \in Local /\ loc \in [Tasks -> Local] /\ pc \in [Tasks -> Labels]
  BY DEF TypeInv, TypeOK
<1>2. PICK f : f = [salt |-> salt, entries |-> items, mtime |-> clock + 1, synced |-> FALSE]
  OBVIOUS
<1>3. loc' = [loc EXCEPT ![t].tmp = f] /\ f.entries = items /\ f.salt = salt
  BY <1>2 DEF WriteTmp
<1> QED
  BY <1>1, <1>3 DEF WriteTmp, Others, Local

LEMMA SyncAllMoves ==
  ASSUME TypeInv, NEW t \in Tasks, SyncAll(t)
  PROVE  /\ pc[t] = "sync" /\ pc'[t] = "check" /\ Others(t)
         /\ loc'[t].tmp.entries = loc[t].tmp.entries /\ loc'[t].tmp.salt = loc[t].tmp.salt
         /\ loc'[t].op = loc[t].op /\ loc'[t].new = loc[t].new
<1>1. /\ loc[t] \in Local /\ loc \in [Tasks -> Local] /\ pc \in [Tasks -> Labels]
      /\ loc[t].tmp \in KeyringFile
  BY DEF TypeInv, TypeOK, TmpWritten, SyncAll
<1>2. PICK f : f = [loc[t].tmp EXCEPT !.synced = TRUE]
  OBVIOUS
<1>3. loc' = [loc EXCEPT ![t].tmp = f] /\ f.entries = loc[t].tmp.entries /\ f.salt = loc[t].tmp.salt
  BY <1>1, <1>2 DEF SyncAll, KeyringFile
<1> QED
  BY <1>1, <1>3 DEF SyncAll, Others, Local

LEMMA DecryptMoves ==
  ASSUME TypeInv, NEW t \in Tasks, Decrypt(t)
  PROVE  /\ pc[t] = "decrypt"
         /\ \/ Ends(t)
            \/ /\ Others(t) /\ pc'[t] = "setSecret" /\ loc'[t].op = loc[t].op
               /\ loc'[t].new = loc[t].new /\ loc'[t].snap = ItemsOf(items)
<1>1. loc[t] \in Local /\ loc \in [Tasks -> Local] /\ pc \in [Tasks -> Labels]
  BY DEF TypeInv, TypeOK
<1> QED
  BY <1>1, Returns DEF Decrypt, Others, Local

LEMMA ResetMoves ==
  ASSUME TypeInv, NEW t \in Tasks, Reset(t)
  PROVE  /\ pc[t] = "reset" /\ Others(t) /\ pc'[t] = "secret" /\ loc'[t].ret = "reencrypt"
         /\ loc'[t].op = loc[t].op /\ loc'[t].new = loc[t].new /\ loc'[t].snap = loc[t].snap
<1>1. loc[t] \in Local /\ loc \in [Tasks -> Local] /\ pc \in [Tasks -> Labels]
  BY DEF TypeInv, TypeOK
<1> QED
  BY <1>1 DEF Reset, Others, Local

-----------------------------------------------------------------------------
(* Weak keys *)

Strong(S) == \A e \in S : IsWeak(e.key) => e.item \in LegacyItems

Dumps == {"sync", "check", "rename"}

\* Neither in memory nor in a file, be it a temporary one.
StrongInv ==
  /\ Strong(items) /\ Strong(Entries(file)) /\ Strong(Entries(flushed))
  /\ \A t \in Tasks : pc[t] \in Dumps => Strong(loc[t].tmp.entries)

LEMMA AddsStrong ==
  ASSUME NEW t \in Tasks, Adds(t), Strong(items)
  PROVE  Strong(items')
BY DEF Adds, Strong, Encrypt

LEMMA StepStrong ==
  ASSUME TypeInv, StrongInv, NEW t \in Tasks, Step(t) \/ IoError(t) \/ \E o \in Op : Call(t, o)
  PROVE  StrongInv'
<1>1. ASSUME UNCHANGED <<file, flushed>>, Strong(items'), Others(t),
             pc'[t] \in Dumps => Strong(loc'[t].tmp.entries)
      PROVE  StrongInv'
  BY <1>1 DEF StrongInv, Others, Entries
<1>2. Strong(items) /\ (pc[t] \in Dumps => Strong(loc[t].tmp.entries))
  BY DEF StrongInv
<1>3. CASE IoError(t) \/ Read(t) \/ UpdateMtime(t)
  <2>1. Ends(t)
    BY <1>3, Returns DEF IoError, Abort, Read, UpdateMtime
  <2> QED
    BY <1>1, <1>2, <1>3, <2>1 DEF IoError, Abort, Read, UpdateMtime, diskVars, Ends, Dumps
<1>4. ASSUME NEW o \in Op, Call(t, o) PROVE StrongInv'
  <2>1. pc'[t] \notin Dumps /\ Others(t)
    BY <1>4, CallMoves DEF FirstLabel, Dumps
  <2> QED
    BY <1>1, <1>2, <1>4, <2>1 DEF Call, diskVars
<1>5. CASE Enqueue(t)
  BY <1>1, <1>2, <1>5 DEF Enqueue, diskVars, Others
<1>6. CASE CloneSecret(t) \/ LockKey(t) \/ DeriveKey(t)
  <2>1. Others(t) /\ pc'[t] \notin Dumps
    BY <1>6, CloneSecretMoves, LockKeyMoves, DeriveKeyMoves DEF SameCall, Dumps, TypeInv, TypeOK, Local
  <2> QED
    BY <1>1, <1>2, <1>6, <2>1 DEF CloneSecret, LockKey, DeriveKey, diskVars
<1>7. CASE Edits(t)
  <2>1. Others(t) /\ pc'[t] \notin Dumps /\ Strong(items') /\ UNCHANGED <<file, flushed>>
    BY <1>2, <1>7, EditsMove, AddsStrong DEF Ends, Goes, Dumps
  <2> QED
    BY <1>1, <2>1
<1>8. CASE Change(t)
  <2>1. Others(t) /\ pc'[t] \notin Dumps
    <3>1. CASE Snapshot(t) \/ SetSecret(t) \/ UnsetKey(t)
      BY <3>1, Goings DEF Snapshot, SetSecret, UnsetKey, Goes, Dumps
    <3>2. CASE Decrypt(t) \/ Reset(t)
      BY <3>2, DecryptMoves, ResetMoves DEF Ends, Dumps
    <3>3. CASE Reencrypt(t)
      BY <3>3, Goings, Returns DEF Reencrypt, Goes, Ends, Dumps
    <3> QED
      BY <1>8, <3>1, <3>2, <3>3 DEF Change
  <2>2. UNCHANGED <<file, flushed>>
    BY <1>8 DEF Change, Snapshot, Decrypt, SetSecret, UnsetKey, Reset, Reencrypt, diskVars
  <2>3. Strong(items')
    <3>1. CASE Reencrypt(t)
      BY <1>2, <3>1 DEF Reencrypt, Strong, Encrypt
    <3>2. CASE Reset(t)
      BY <3>2 DEF Reset, Strong
    <3> QED
      BY <1>2, <1>8, <3>1, <3>2 DEF Change, Snapshot, Decrypt, SetSecret, UnsetKey
  <2> QED
    BY <1>1, <2>1, <2>2, <2>3
<1>9. CASE LockMtime(t) \/ LockKeyring(t) \/ CreateItems(t)
  <2>1. Others(t) /\ pc'[t] \notin Dumps
    BY <1>9, Goings, LockKeyringMoves, CreateItemsMove DEF LockMtime, Starts, Goes, Ends, Dumps
  <2>2. Strong(items') /\ UNCHANGED <<file, flushed>>
    BY <1>2, <1>9, LockKeyringMoves, CreateItemsMove, AddsStrong DEF LockMtime, diskVars
  <2> QED
    BY <1>1, <2>1, <2>2
<1>10. CASE WriteTmp(t) \/ SyncAll(t)
  <2>1. Others(t) /\ Strong(loc'[t].tmp.entries)
    BY <1>2, <1>10, WriteTmpMoves, SyncAllMoves DEF Dumps
  <2> QED
    BY <1>1, <1>2, <1>10, <2>1 DEF WriteTmp, SyncAll, diskVars
<1>11. CASE CheckTarget(t)
  <2>1. \/ Ends(t)
        \/ Goes(t, "rename") /\ pc[t] = "check"
    BY <1>11, Goings, Returns DEF CheckTarget, Abort
  <2> QED
    BY <1>1, <1>2, <1>11, <2>1 DEF CheckTarget, Abort, diskVars, Ends, Goes, Dumps
<1>12. CASE Rename(t)
  <2>1. Goes(t, "stat") /\ pc[t] = "rename" /\ file' = loc[t].tmp /\ loc[t].tmp \in KeyringFile
        /\ UNCHANGED <<items, flushed>>
    BY <1>12, Goings DEF Rename, TypeInv, TmpWritten
  <2>2. Strong(Entries(file'))
    BY <1>2, <2>1, UnlockedKeyringAssumption DEF Entries, Dumps
  <2> QED
    BY <2>1, <2>2 DEF StrongInv, Goes, Others, Dumps
<1> QED
  BY <1>3, <1>4, <1>5, <1>6, <1>7, <1>8, <1>9, <1>10, <1>11, <1>12 DEF Step, Dump

LEMMA NextStrong == TypeInv /\ StrongInv /\ [Next]_vars => StrongInv'
<1> SUFFICES ASSUME TypeInv, StrongInv, [Next]_vars PROVE StrongInv'
  OBVIOUS
<1>0. Strong(items) /\ Strong(Entries(file)) /\ Strong(Entries(flushed)) /\ Strong({})
  BY DEF StrongInv, Strong
<1>1. ASSUME NEW t \in Tasks, Step(t) \/ IoError(t) \/ \E o \in Op : Call(t, o) PROVE StrongInv'
  BY <1>1, StepStrong
<1>2. CASE Ownership
  <2>1. UNCHANGED <<file, flushed, pc, loc>>
    BY <1>2 DEF Ownership, Load, Unlock, UnlockUnchecked, UnlockUnencrypted, Lock, Open, Temporary,
                Refused, Install, diskVars
  <2>2. Strong(items')
    <3>1. CASE Load
      BY <1>0, <3>1, UnlockedKeyringAssumption DEF Load, NewKeyring, Entries
    <3>2. CASE Open
      BY <3>2 DEF Open, NewKeyring, Strong, Encrypt
    <3> QED
      BY <1>0, <1>2, <3>1, <3>2 DEF Ownership, Unlock, UnlockUnchecked, UnlockUnencrypted, Lock,
                                    Temporary, Refused, NewKeyring
  <2> QED
    BY <2>1, <2>2 DEF StrongInv, Entries
<1>3. CASE Crash \/ PowerLoss
  <2>1. items' = {} /\ \A t \in Tasks : pc'[t] = "idle"
    BY <1>3 DEF Crash, PowerLoss, Stop
  <2>2. Strong(Entries(file')) /\ Strong(Entries(flushed'))
    <3>1. Strong(Entries(Surviving(file))) /\ Strong(Entries(Surviving(flushed)))
      BY <1>0 DEF Surviving, Entries
    <3>2. CASE Crash
      BY <1>0, <3>2 DEF Crash, Entries
    <3>3. CASE PowerLoss
      BY <3>1, <3>3 DEF PowerLoss
    <3> QED
      BY <1>3, <3>2, <3>3
  <2> QED
    BY <1>0, <2>1, <2>2 DEF StrongInv, Dumps
<1>4. CASE Flush
  BY <1>0, <1>4 DEF Flush, StrongInv, Entries
<1>5. CASE ExternalWrite
  <2>1. PICK i \in Fresh, s \in Secrets \ WeakSecrets,
             n \in {IF file = NoFile THEN nextSalt ELSE file.salt} :
          file' = [salt |-> n, mtime |-> clock + 1, synced |-> TRUE,
                   entries |-> Entries(file) \cup {Encrypt(i, KeyOf(s, n))}]
    BY <1>5 DEF ExternalWrite
  <2>3. Entries(file') = Entries(file) \cup {Encrypt(i, KeyOf(s, n))}
    <3>1. file' \in KeyringFile
      BY <1>5, ExternalFile
    <3> QED
      BY <2>1, <3>1, UnlockedKeyringAssumption DEF Entries
  <2>2. ~IsWeak(KeyOf(s, n))
    BY EntriesAssumption DEF IsWeak, KeyOf
  <2> QED
    BY <1>0, <1>5, <2>2, <2>3 DEF ExternalWrite, StrongInv, Strong, Encrypt, Entries
<1>6. CASE Closed \/ UNCHANGED vars
  BY <1>6 DEF Closed, vars, StrongInv, Entries
<1> QED
  BY <1>1, <1>2, <1>3, <1>4, <1>5, <1>6 DEF Next, Environment

\* No call, and no sequence of failures and crashes, writes an item under a key too weak to
\* encrypt with, if the first file has none: items are checked in create_item, create_items,
\* replace_item_index and change_secret.
THEOREM NoItemUnderWeakKey ==
  ASSUME \A f \in InitialFiles : Strong(Entries(f))
  PROVE  Spec => []NoWeakKeyWrites
<1>1. Init => StrongInv
  BY DEF Init, StrongInv, Strong, Dumps, Entries
<1>2. StrongInv => NoWeakKeyWrites
  BY DEF StrongInv, Strong, NoWeakKeyWrites
<1> QED
  BY <1>1, <1>2, TypeInvariant, NextStrong, PTL DEF Spec

-----------------------------------------------------------------------------
(* The cached key *)

\* A task that changes the secret is the only one.
ChangesAlone == \A t, u \in Tasks : "change" \in OpsOf[t] => u = t

\* The call has its key.
Uses(t) ==
  \/ pc[t] \in {"edit", "decrypt", "reencrypt"} /\ loc[t].op # "deleteIndex"
  \/ pc[t] \in {"mtime", "keyring"} /\ loc[t].op = "bulk"

KeyTask(t) ==
  /\ pc[t] # "idle" => loc[t].op \in OpsOf[t]
  /\ pc[t] \in {"snapshot", "decrypt", "setSecret", "unsetKey", "reset", "reencrypt"} =>
       loc[t].op = "change"
  /\ pc[t] \in {"snapshot", "secret", "key", "kdf"} /\ loc[t].ret = "mtime" => loc[t].op = "bulk"
  /\ pc[t] \in {"snapshot", "secret", "key", "kdf"} /\ loc[t].ret \in {"decrypt", "reencrypt"} =>
       loc[t].op = "change"
  /\ pc[t] \in {"key", "kdf"} => loc[t].sec = secret
  /\ Uses(t) => loc[t].key = KeyOf(secret, salt)
  /\ pc[t] = "reset" => key = NoKey

\* Between the change of the secret and the next step the cached key is the old one.
KeyInv ==
  /\ mode # "unlocked" => Idle
  /\ \A t \in Tasks : KeyTask(t)
  /\ (\A t \in Tasks : pc[t] # "unsetKey") => key \in {NoKey, KeyOf(secret, salt)}

LEMMA Alone ==
  ASSUME ChangesAlone, KeyInv, NEW t \in Tasks, NEW u \in Tasks,
         pc[t] \in {"snapshot", "decrypt", "setSecret", "unsetKey", "reset", "reencrypt"}
  PROVE  u = t
BY DEF KeyInv, KeyTask, ChangesAlone

LEMMA KeyKept ==
  ASSUME ChangesAlone, KeyInv, NEW t \in Tasks, Others(t), mode = "unlocked",
         UNCHANGED <<mode, secret, salt>>, KeyTask(t)',
         pc'[t] = "unsetKey" \/ key' \in {NoKey, KeyOf(secret, salt)}
  PROVE  KeyInv'
<1>1. ASSUME NEW u \in Tasks \ {t} PROVE KeyTask(u)'
  <2>1. pc[u] # "reset"
    BY Alone
  <2> QED
    BY <2>1 DEF KeyInv, KeyTask, Others, Uses
<1> QED
  BY <1>1 DEF KeyInv

LEMMA KeyNow ==
  ASSUME ChangesAlone, KeyInv, NEW t \in Tasks, pc[t] # "unsetKey"
  PROVE  key \in {NoKey, KeyOf(secret, salt)}
<1>1. \A u \in Tasks : pc[u] # "unsetKey"
  BY Alone
<1> QED
  BY <1>1 DEF KeyInv

LEMMA StepKey ==
  ASSUME ChangesAlone, TypeInv, KeyInv, NEW t \in Tasks,
         Step(t) \/ IoError(t) \/ \E o \in Op : Call(t, o)
  PROVE  KeyInv'
<1>0. KeyTask(t) /\ loc[t].ret \in {"idle", "read", "edit", "decrypt", "mtime", "reencrypt"}
  BY DEF KeyInv, TypeInv, TypeOK, Local
<1>1. pc[t] # "idle" => mode = "unlocked"
  BY DEF KeyInv, Idle
<1>2. ASSUME Ends(t), pc[t] # "unsetKey", mode = "unlocked", UNCHANGED <<mode, secret, key, salt>>
      PROVE  KeyInv'
  <2>1. KeyTask(t)'
    BY <1>2 DEF Ends, KeyTask, Uses
  <2> QED
    BY <1>2, <2>1, KeyKept, KeyNow DEF Ends
<1>3. ASSUME NEW label, Goes(t, label), pc[t] # "unsetKey", mode = "unlocked",
             UNCHANGED <<mode, secret, key, salt>>, KeyTask(t)'
      PROVE  KeyInv'
  BY <1>3, KeyKept, KeyNow DEF Goes
<1>4. CASE IoError(t) \/ Read(t) \/ UpdateMtime(t)
  <2>1. Ends(t) /\ pc[t] \notin {"idle", "unsetKey"} /\ UNCHANGED <<mode, secret, key, salt>>
    BY <1>4, Returns, UnlockedKeyringAssumption
       DEF IoError, Abort, Read, UpdateMtime, DumpLabels, secretVars, openVars
  <2> QED
    BY <1>1, <1>2, <2>1
<1>5. ASSUME NEW o \in Op, Call(t, o) PROVE KeyInv'
  <2>1. mode = "unlocked" /\ UNCHANGED <<mode, secret, key, salt>>
    BY <1>5 DEF Call, secretVars, openVars
  <2>2. KeyTask(t)'
    BY <1>5, CallMoves DEF KeyTask, Uses, FirstLabel, AfterKey
  <2>3. Others(t) /\ pc[t] # "unsetKey"
    BY <1>5, CallMoves
  <2> QED
    BY <2>1, <2>2, <2>3, KeyKept, KeyNow
<1>6. CASE Enqueue(t)
  <2>1. UNCHANGED <<mode, secret, key, salt, pc, loc>>
    BY <1>6 DEF Enqueue, secretVars, openVars
  <2> QED
    BY <2>1 DEF KeyInv, KeyTask, Uses, Idle
<1>7. CASE CloneSecret(t)
  <2>1. UNCHANGED <<mode, secret, key, salt>>
    BY <1>7 DEF CloneSecret, secretVars, openVars
  <2>2. KeyTask(t)'
    BY <1>0, <1>7, <2>1, CloneSecretMoves DEF KeyTask, Uses, SameCall
  <2> QED
    BY <1>1, <1>7, <2>1, <2>2, CloneSecretMoves, KeyKept, KeyNow DEF SameCall
<1>8. CASE LockKey(t)
  <2>1. UNCHANGED <<mode, secret, key, salt>>
    BY <1>8 DEF LockKey, openVars
  <2>2. key \in {NoKey, KeyOf(secret, salt)}
    BY <1>8, LockKeyMoves, KeyNow
  <2>3. KeyTask(t)'
    BY <1>0, <1>8, <2>1, <2>2, LockKeyMoves DEF KeyTask, Uses, SameCall
  <2> QED
    BY <1>1, <1>8, <2>1, <2>2, <2>3, LockKeyMoves, KeyKept DEF SameCall
<1>9. CASE DeriveKey(t)
  <2>1. UNCHANGED <<mode, secret, salt>>
    BY <1>9 DEF DeriveKey, openVars
  <2>2. key' = KeyOf(secret, salt) /\ loc[t].sec = secret
    BY <1>0, <1>9, DeriveKeyMoves DEF KeyTask
  <2>3. KeyTask(t)'
    BY <1>0, <1>9, <2>1, <2>2, DeriveKeyMoves DEF KeyTask, Uses, SameCall
  <2> QED
    BY <1>1, <1>9, <2>1, <2>2, <2>3, DeriveKeyMoves, KeyKept DEF SameCall
<1>10. CASE Edits(t)
  <2>1. Goes(t, "mtime") => KeyTask(t)'
    BY <1>0, <1>10, EditsMove DEF Goes, KeyTask, Uses
  <2> QED
    BY <1>1, <1>2, <1>3, <1>10, <2>1, EditsMove
<1>11. CASE Snapshot(t)
  <2>1. Goes(t, "secret") /\ pc[t] = "snapshot" /\ UNCHANGED <<mode, secret, key, salt>>
    BY <1>11, Goings DEF Snapshot, secretVars, openVars
  <2>2. KeyTask(t)'
    BY <1>0, <2>1 DEF Goes, KeyTask, Uses
  <2> QED
    BY <1>1, <1>3, <2>1, <2>2
<1>12. CASE Decrypt(t)
  <2>1. UNCHANGED <<mode, secret, key, salt>>
    BY <1>12 DEF Decrypt, secretVars, openVars
  <2>2. ~Ends(t) => KeyTask(t)' /\ Others(t)
    BY <1>0, <1>12, DecryptMoves DEF KeyTask, Uses
  <2> QED
    BY <1>1, <1>2, <1>12, <2>1, <2>2, DecryptMoves, KeyKept, KeyNow
<1>13. CASE SetSecret(t)
  <2>1. Goes(t, "unsetKey") /\ pc[t] = "setSecret" /\ UNCHANGED <<mode, key, salt>>
    BY <1>13, Goings DEF SetSecret, openVars
  <2>2. KeyTask(t)' /\ \A u \in Tasks : u = t
    BY <1>0, <2>1, Alone DEF Goes, KeyTask, Uses
  <2> QED
    BY <1>1, <2>1, <2>2 DEF KeyInv, Goes
<1>14. CASE UnsetKey(t)
  <2>1. Goes(t, "reset") /\ pc[t] = "unsetKey" /\ UNCHANGED <<mode, secret, salt>> /\ key' = NoKey
    BY <1>14, Goings DEF UnsetKey, openVars
  <2>2. KeyTask(t)'
    BY <1>0, <2>1 DEF Goes, KeyTask, Uses
  <2> QED
    BY <1>1, <2>1, <2>2, KeyKept DEF Goes
<1>15. CASE Reset(t)
  <2>1. UNCHANGED <<mode, secret, key>> /\ pc[t] = "reset" /\ key = NoKey
    BY <1>0, <1>15 DEF Reset, secretVars, openVars, KeyTask
  <2>2. KeyTask(t)' /\ \A u \in Tasks : u = t
    BY <1>0, <1>15, <2>1, ResetMoves, Alone DEF KeyTask, Uses
  <2> QED
    BY <1>1, <2>1, <2>2 DEF KeyInv
<1>16. CASE Reencrypt(t)
  <2>1. /\ Ends(t) \/ Goes(t, "mtime")
        /\ pc[t] = "reencrypt" /\ UNCHANGED <<mode, secret, key, salt>>
    BY <1>16, Goings, Returns DEF Reencrypt, secretVars, openVars
  <2>2. Goes(t, "mtime") => KeyTask(t)'
    BY <1>0, <2>1 DEF Goes, KeyTask, Uses
  <2> QED
    BY <1>1, <1>2, <1>3, <2>1, <2>2
<1>17. CASE LockMtime(t)
  <2>1. Goes(t, "keyring") /\ pc[t] = "mtime" /\ UNCHANGED <<mode, secret, key, salt>>
    BY <1>17, Goings DEF LockMtime, secretVars, openVars
  <2>2. KeyTask(t)'
    BY <1>0, <2>1 DEF Goes, KeyTask, Uses
  <2> QED
    BY <1>1, <1>3, <2>1, <2>2
<1>18. CASE LockKeyring(t) \/ CreateItems(t)
  <2>1. /\ Ends(t) \/ Goes(t, "tmp")
        /\ pc[t] = "keyring" /\ UNCHANGED <<mode, secret, key, salt>>
    BY <1>18, LockKeyringMoves, CreateItemsMove DEF Starts
  <2>2. Goes(t, "tmp") => KeyTask(t)'
    BY <1>0, <2>1 DEF Goes, KeyTask, Uses
  <2> QED
    BY <1>1, <1>2, <1>3, <2>1, <2>2
<1>19. CASE WriteTmp(t) \/ SyncAll(t)
  <2>1. UNCHANGED <<mode, secret, key, salt>> /\ Others(t) /\ pc[t] \in {"tmp", "sync"}
    BY <1>19, WriteTmpMoves, SyncAllMoves DEF WriteTmp, SyncAll, secretVars, openVars
  <2>2. KeyTask(t)'
    BY <1>0, <1>19, WriteTmpMoves, SyncAllMoves DEF KeyTask, Uses
  <2> QED
    BY <1>1, <2>1, <2>2, KeyKept, KeyNow
<1>20. CASE CheckTarget(t) \/ Rename(t)
  <2>1. /\ Ends(t) \/ Goes(t, "rename") \/ Goes(t, "stat")
        /\ pc[t] \in {"check", "rename"} /\ UNCHANGED <<mode, secret, key, salt>>
    BY <1>20, Goings, Returns DEF CheckTarget, Abort, Rename, secretVars, openVars
  <2>2. Goes(t, "rename") \/ Goes(t, "stat") => KeyTask(t)'
    BY <1>0, <2>1 DEF Goes, KeyTask, Uses
  <2> QED
    BY <1>1, <1>2, <1>3, <2>1, <2>2
<1> QED
  BY <1>4, <1>5, <1>6, <1>7, <1>8, <1>9, <1>10, <1>11, <1>12, <1>13, <1>14, <1>15, <1>16, <1>17,
     <1>18, <1>19, <1>20 DEF Step, Change, Dump

LEMMA NextKey == ChangesAlone /\ TypeInv /\ KeyInv /\ [Next]_vars => KeyInv'
<1> SUFFICES ASSUME ChangesAlone, TypeInv, KeyInv, [Next]_vars PROVE KeyInv'
  OBVIOUS
<1>1. ASSUME NEW t \in Tasks, Step(t) \/ IoError(t) \/ \E o \in Op : Call(t, o) PROVE KeyInv'
  BY <1>1, StepKey
<1>2. CASE Ownership
  <2>1. Idle /\ UNCHANGED pc
    BY <1>2 DEF Ownership, Load, Unlock, UnlockUnchecked, UnlockUnencrypted, Lock, Open, Temporary,
                Refused, Install, KeyInv
  <2>2. key' \in {NoKey, KeyOf(secret', salt')}
    BY <1>2 DEF Ownership, Load, Unlock, UnlockUnchecked, UnlockUnencrypted, Lock, Open, Temporary,
                Refused, Install
  <2> QED
    BY <2>1, <2>2 DEF KeyInv, KeyTask, Uses, Idle
<1>3. CASE Crash \/ PowerLoss
  BY <1>3 DEF Crash, PowerLoss, Stop, KeyInv, KeyTask, Uses, Idle
<1>4. CASE Flush \/ ExternalWrite \/ Closed \/ UNCHANGED vars
  <2>1. UNCHANGED <<mode, secret, key, salt, pc, loc>>
    BY <1>4 DEF Flush, ExternalWrite, Closed, vars, secretVars, openVars
  <2> QED
    BY <2>1 DEF KeyInv, KeyTask, Uses, Idle
<1> QED
  BY <1>1, <1>2, <1>3, <1>4 DEF Next, Environment

LEMMA InitKey == Init => KeyInv
BY DEF Init, KeyInv, KeyTask, Uses, Idle

LEMMA KeyInvariant == ASSUME ChangesAlone PROVE Spec => []KeyInv
BY InitKey, NextKey, TypeInvariant, PTL DEF Spec

-----------------------------------------------------------------------------
(* Items under another key *)

\* change_secret has read the items and has not yet erased them.
Decrypted(t) == pc[t] \in {"setSecret", "unsetKey", "reset"}

\* All that it is going to erase it could decrypt.
DecryptedInv == \A t \in Tasks : Decrypted(t) => Under(items, loc[t].key)

\* What a step of the task removes it could decrypt, or was asked to remove unseen.
Spares(t) ==
  \A e \in items \ items' :
    \/ IsValid(e, loc[t].key)
    \/ loc[t].op \in {"deleteBroken", "deleteIndex", "replaceIndex"}

LEMMA PutSpares ==
  ASSUME NEW S, NEW i, NEW replace, NEW k, NEW e \in S \ AfterPut(S, i, replace, k)
  PROVE  IsValid(e, k)
BY DEF AfterPut, AfterReplace, Remaining, Removable

LEMMA EditsSpare ==
  ASSUME NEW t \in Tasks, Edits(t)
  PROVE  Spares(t)
<1>1. CASE CreateItem(t)
  <2>1. PICK i \in loc[t].new, replace \in BOOLEAN : items' = AfterPut(items, i, replace, loc[t].key)
    BY <1>1 DEF CreateItem
  <2> QED
    BY <2>1, PutSpares DEF Spares
<1>2. CASE Delete(t)
  BY <1>2 DEF Delete, Remaining, Removable, Spares
<1>3. CASE ReplaceItemIndex(t) \/ DeleteItemIndex(t) \/ DeleteBrokenItems(t)
  BY <1>3 DEF ReplaceItemIndex, DeleteItemIndex, DeleteBrokenItems, Edit, Spares
<1> QED
  BY <1>1, <1>2, <1>3 DEF Edits

LEMMA CreateItemsSpare ==
  ASSUME NEW t \in Tasks, CreateItems(t)
  PROVE  Spares(t)
<1> PICK k : k = loc[t].key
  OBVIOUS
<1>1. PICK i \in loc[t].new, j \in loc[t].new, replace \in BOOLEAN :
        \/ items' = AfterPut(items, i, replace, k)
        \/ items' = AfterPut(AfterPut(items, i, replace, k), j, replace, k)
  BY DEF CreateItems
<1> PICK one : one = AfterPut(items, i, replace, k)
  OBVIOUS
<1>2. \A e \in items \ one : IsValid(e, k)
  BY PutSpares
<1>3. \A e \in one \ AfterPut(one, j, replace, k) : IsValid(e, k)
  BY PutSpares
<1> QED
  BY <1>1, <1>2, <1>3 DEF Spares

\* Any step of a task: it spares the items, and it leaves the other tasks where they are.
LEMMA StepSpares ==
  ASSUME TypeInv, DecryptedInv, NEW t \in Tasks, Step(t) \/ IoError(t)
  PROVE  Spares(t) /\ \A u \in Tasks \ {t} : pc'[u] = pc[u]
<1>0. /\ pc \in [Tasks -> Labels] /\ loc \in [Tasks -> Local]
      /\ \A r : Return(t, r) => Ends(t)
      /\ \A label : Goto(t, label) => Goes(t, label)
  BY Returns, Goings DEF TypeInv, TypeOK
<1>1. CASE IoError(t) \/ Enqueue(t) \/ Read(t)
  BY <1>0, <1>1 DEF IoError, Abort, Enqueue, Read, Spares, Ends, Others
<1>2. CASE CloneSecret(t) \/ LockKey(t) \/ DeriveKey(t)
  <2>1. UNCHANGED items
    BY <1>2 DEF CloneSecret, LockKey, DeriveKey
  <2> QED
    BY <1>2, <2>1, CloneSecretMoves, LockKeyMoves, DeriveKeyMoves DEF SameCall, Others, Spares
<1>3. CASE Edits(t)
  BY <1>3, EditsMove, EditsSpare DEF Goes, Ends, Others
<1>4. CASE Snapshot(t) \/ SetSecret(t) \/ UnsetKey(t)
  BY <1>0, <1>4 DEF Snapshot, SetSecret, UnsetKey, Spares, Goes, Others
<1>5. CASE Decrypt(t)
  <2>1. UNCHANGED items
    BY <1>5 DEF Decrypt
  <2> QED
    BY <1>5, <2>1, DecryptMoves DEF Ends, Others, Spares
<1>6. CASE Reset(t)
  <2>1. Under(items, loc[t].key)
    BY <1>6 DEF Reset, DecryptedInv, Decrypted
  <2> QED
    BY <1>6, <2>1, ResetMoves DEF Under, Others, Spares, IsValid
<1>7. CASE Reencrypt(t)
  BY <1>0, <1>7 DEF Reencrypt, Spares, Ends, Goes, Others
<1>8. CASE LockKeyring(t)
  BY <1>8, LockKeyringMoves DEF Starts, Goes, Ends, Others, Spares
<1>9. CASE CreateItems(t)
  BY <1>9, CreateItemsMove, CreateItemsSpare DEF Starts, Goes, Ends, Others
<1>10. CASE WriteTmp(t) \/ SyncAll(t)
  <2>1. UNCHANGED items
    BY <1>10 DEF WriteTmp, SyncAll
  <2> QED
    BY <1>10, <2>1, WriteTmpMoves, SyncAllMoves DEF Others, Spares
<1>11. CASE LockMtime(t) \/ CheckTarget(t) \/ Rename(t) \/ UpdateMtime(t)
  BY <1>0, <1>11 DEF LockMtime, CheckTarget, Abort, Rename, UpdateMtime, Spares, Ends, Goes, Others
<1> QED
  BY <1>1, <1>2, <1>3, <1>4, <1>5, <1>6, <1>7, <1>8, <1>9, <1>10, <1>11 DEF Step, Change, Dump

\* Where a step leads.
LEMMA StepDecrypted ==
  ASSUME TypeInv, KeyInv, DecryptedInv, NEW t \in Tasks,
         Step(t) \/ IoError(t) \/ \E o \in Op : Call(t, o), Decrypted(t)'
  PROVE  Under(items', loc'[t].key)
<1>0. /\ pc \in [Tasks -> Labels] /\ loc \in [Tasks -> Local] /\ loc[t] \in Local
      /\ loc[t].ret \in {"idle", "read", "edit", "decrypt", "mtime", "reencrypt"}
      /\ \A r : Return(t, r) => Ends(t)
      /\ \A label : Goto(t, label) => Goes(t, label)
  BY Returns, Goings DEF TypeInv, TypeOK, Local
<1>1. ASSUME NEW o \in Op, Call(t, o) PROVE FALSE
  BY <1>1, CallMoves DEF FirstLabel, Decrypted
<1>2. CASE IoError(t) \/ Read(t) \/ UpdateMtime(t)
  BY <1>0, <1>2 DEF IoError, Abort, Read, UpdateMtime, Ends, Decrypted
<1>3. CASE Enqueue(t)
  BY <1>3 DEF Enqueue, DecryptedInv, Decrypted
<1>4. CASE CloneSecret(t) \/ LockKey(t) \/ DeriveKey(t)
  BY <1>0, <1>4, CloneSecretMoves, LockKeyMoves, DeriveKeyMoves DEF Decrypted
<1>5. CASE Edits(t)
  BY <1>5, EditsMove DEF Goes, Ends, Decrypted
<1>6. CASE Snapshot(t) \/ Reencrypt(t) \/ LockMtime(t)
  BY <1>0, <1>6 DEF Snapshot, Reencrypt, LockMtime, Ends, Goes, Decrypted
<1>7. CASE Decrypt(t)
  <2>1. items = Valid(items, loc[t].key) /\ loc' = [loc EXCEPT ![t].snap = ItemsOf(items)]
    BY <1>0, <1>7 DEF Decrypt, Ends, Decrypted
  <2>2. loc'[t].key = loc[t].key /\ UNCHANGED items
    BY <1>0, <1>7, <2>1 DEF Decrypt, Local
  <2> QED
    BY <2>1, <2>2 DEF Under, Valid, IsValid
<1>8. CASE SetSecret(t) \/ UnsetKey(t)
  <2>1. Decrypted(t) /\ loc'[t] = loc[t] /\ UNCHANGED items
    BY <1>0, <1>8 DEF SetSecret, UnsetKey, Goes, Decrypted
  <2> QED
    BY <2>1 DEF DecryptedInv
<1>9. CASE Reset(t)
  BY <1>9, ResetMoves DEF Decrypted
<1>10. CASE LockKeyring(t) \/ CreateItems(t)
  BY <1>10, LockKeyringMoves, CreateItemsMove DEF Starts, Goes, Ends, Decrypted
<1>11. CASE WriteTmp(t) \/ SyncAll(t)
  BY <1>11, WriteTmpMoves, SyncAllMoves DEF Decrypted
<1>12. CASE CheckTarget(t) \/ Rename(t)
  BY <1>0, <1>12 DEF CheckTarget, Abort, Rename, Ends, Goes, Decrypted
<1> QED
  BY <1>1, <1>2, <1>3, <1>4, <1>5, <1>6, <1>7, <1>8, <1>9, <1>10, <1>11, <1>12
     DEF Step, Change, Dump

LEMMA NextDecrypted ==
  ASSUME ChangesAlone
  PROVE  TypeInv /\ KeyInv /\ KeyInv' /\ DecryptedInv /\ [Next]_vars => DecryptedInv'
<1> SUFFICES ASSUME TypeInv, KeyInv, KeyInv', DecryptedInv, [Next]_vars,
                    NEW u \in Tasks, Decrypted(u)'
             PROVE  Under(items', loc'[u].key)
  BY DEF DecryptedInv
<1>1. \A t \in Tasks : t = u
  BY DEF KeyInv, KeyTask, ChangesAlone, Decrypted
<1>2. ASSUME NEW t \in Tasks, Step(t) \/ IoError(t) \/ \E o \in Op : Call(t, o)
      PROVE  Under(items', loc'[u].key)
  BY <1>1, <1>2, StepDecrypted
<1>3. CASE Ownership
  <2>1. Idle /\ UNCHANGED pc
    BY <1>3 DEF Ownership, Load, Unlock, UnlockUnchecked, UnlockUnencrypted, Lock, Open, Temporary,
                Refused, Install, KeyInv
  <2> QED
    BY <2>1 DEF Idle, Decrypted
<1>4. CASE Crash \/ PowerLoss
  BY <1>4 DEF Crash, PowerLoss, Stop, Decrypted
<1>5. CASE Flush \/ ExternalWrite \/ Closed \/ UNCHANGED vars
  <2>1. UNCHANGED <<items, pc, loc>>
    BY <1>5 DEF Flush, ExternalWrite, Closed, vars
  <2> QED
    BY <2>1 DEF DecryptedInv, Decrypted
<1> QED
  BY <1>2, <1>3, <1>4, <1>5 DEF Next, Environment

\* An item that the key of a call does not decrypt is removed by no call but those made for
\* it: delete and a replacing create_item or create_items refuse to run over it, a batch that
\* fails in the middle included, and change_secret decrypts everything before it erases
\* anything.  A second caller beside change_secret could store an item between the two.
THEOREM UndecryptableKept == ASSUME ChangesAlone PROVE Spec => UndecryptableItemsStay
<1> DEFINE Inv == TypeInv /\ KeyInv /\ DecryptedInv
<1>1. Init => DecryptedInv
  BY DEF Init, DecryptedInv, Decrypted
<1>2. Inv /\ [Next]_vars =>
        [\A t \in Tasks : pc[t] # "idle" /\ pc[t] # pc'[t] /\ mode' = "unlocked" =>
           Spares(t)]_vars
  <2> SUFFICES ASSUME Inv, Next, NEW t \in Tasks, pc[t] # "idle", pc[t] # pc'[t],
                      mode' = "unlocked"
               PROVE  Spares(t)
    OBVIOUS
  <2>1. ASSUME NEW u \in Tasks, Step(u) \/ IoError(u) PROVE Spares(t)
    BY <2>1, StepSpares
  <2>2. ASSUME NEW u \in Tasks, NEW o \in Op, Call(u, o) PROVE FALSE
    BY <2>2, CallMoves DEF Others
  <2>3. CASE Ownership
    BY <2>3 DEF Ownership, Load, Unlock, UnlockUnchecked, UnlockUnencrypted, Lock, Open, Temporary,
                Refused, Install
  <2>4. CASE Environment
    BY <2>4 DEF Environment, Crash, PowerLoss, Stop, Flush, ExternalWrite, Closed, vars
  <2> QED
    BY <2>1, <2>2, <2>3, <2>4 DEF Next
<1>3. Spec => []Inv
  BY <1>1, TypeInvariant, KeyInvariant, NextDecrypted, PTL DEF Spec
<1>4. Spec => [][\A t \in Tasks : pc[t] # "idle" /\ pc[t] # pc'[t] /\ mode' = "unlocked" =>
                  Spares(t)]_vars
  BY <1>2, <1>3, PTL DEF Spec
<1> QED
  BY <1>4 DEF UndecryptableItemsStay, Spares

-----------------------------------------------------------------------------
(* One key for one file *)

OneKeyed(f) ==
  f \in KeyringFile => \E s \in Secrets \cup {NoSecret} : Under(f.entries, KeyOf(s, f.salt))

\* Nobody else writes the file, and the secret the keyring is opened with is the one of its
\* items: it is checked, or they are encrypted anew.
OneWriter ==
  /\ ChangesAlone
  /\ Budget["external"] = 0
  /\ {"unchecked", "moved"} \cap Openings = {}
  /\ IsFiniteSet(Items)
  /\ \A f \in InitialFiles : OneKeyed(f)

Resetting(t) == pc[t] \in {"unsetKey", "reset"}

\* Between the change of the secret and the reset the items have the key of the old one.
OneKeyInv ==
  /\ mode = "unlocked" /\ (\A t \in Tasks : ~Resetting(t)) => Under(items, KeyOf(secret, salt))
  /\ mode = "locked" => \E s \in Secrets \cup {NoSecret} : Under(items, KeyOf(s, salt))
  /\ OneKeyed(file) /\ OneKeyed(flushed)
  /\ \A t \in Tasks : pc[t] \in Dumps => OneKeyed(loc[t].tmp)
  /\ budget["external"] = 0

LEMMA SpendKeeps ==
  ASSUME TypeInv, NEW kind \in BudgetKinds \ {"external"}, Spend(kind)
  PROVE  budget'["external"] = budget["external"]
BY DEF Spend, TypeInv, TypeOK, BudgetKinds

\* The secret is refused when items are encrypted under another one: all of them are broken.
LEMMA UnlockFindsTheKey ==
  ASSUME IsFiniteSet(Items), NEW S \in SUBSET Entry, NEW k, Under(S, k),
         NEW l, UnlockVerdict(S, l) = "ok"
  PROVE  Under(S, l)
<1> SUFFICES ASSUME S # {}, k # l PROVE FALSE
  BY DEF Under
<1>1. Valid(S, l) = {} /\ S \ Valid(S, l) = S
  BY DEF Under, Valid, IsValid
<1>2. IsFiniteSet(S)
  <2> DEFINE E == {Encrypt(i, k) : i \in Items}
  <2>1. [i \in Items |-> Encrypt(i, k)] \in Surjection(Items, E)
    BY DEF Surjection
  <2>3. IsFiniteSet(E)
    BY <2>1, FS_Surjection
  <2>2. S \subseteq E
    BY DEF Under, Encrypt, Entry
  <2> QED
    BY <2>2, <2>3, FS_Subset
<1>3. Cardinality(S) # 0 /\ Cardinality({}) = 0
  BY <1>2, FS_EmptySet
<1> QED
  BY <1>1, <1>3 DEF UnlockVerdict

LEMMA OneKeyNow ==
  ASSUME ChangesAlone, KeyInv, OneKeyInv, NEW t \in Tasks, mode = "unlocked", ~Resetting(t)
  PROVE  Under(items, KeyOf(secret, salt))
<1>1. \A u \in Tasks : ~Resetting(u)
  BY Alone DEF Resetting
<1> QED
  BY <1>1 DEF OneKeyInv

LEMMA OneKeyKept ==
  ASSUME OneKeyInv, NEW t \in Tasks, Others(t), mode' = "unlocked",
         UNCHANGED <<file, flushed>>, budget'["external"] = 0,
         Resetting(t)' \/ Under(items', KeyOf(secret', salt')),
         pc'[t] \in Dumps => OneKeyed(loc'[t].tmp)
  PROVE  OneKeyInv'
<1>1. OneKeyed(file') /\ OneKeyed(flushed')
  BY DEF OneKeyInv
<1>2. \A u \in Tasks : pc'[u] \in Dumps => OneKeyed(loc'[u].tmp)
  BY DEF OneKeyInv, Others
<1> QED
  BY <1>1, <1>2 DEF OneKeyInv, OneKeyed

LEMMA StepOneKey ==
  ASSUME ChangesAlone, TypeInv, TypeInv', KeyInv, OneKeyInv, NEW t \in Tasks,
         Step(t) \/ IoError(t) \/ \E o \in Op : Call(t, o)
  PROVE  OneKeyInv'
<1>0. KeyTask(t) /\ budget["external"] = 0 /\ (pc[t] \in Dumps => OneKeyed(loc[t].tmp))
  BY DEF KeyInv, OneKeyInv
<1>1. pc[t] # "idle" => mode = "unlocked"
  BY DEF KeyInv, Idle
<1>2. ASSUME Others(t), mode = "unlocked", pc[t] \notin {"unsetKey", "reset"}, pc'[t] \notin Dumps,
             UNCHANGED <<mode, secret, salt, items, file, flushed>>, budget'["external"] = 0
      PROVE  OneKeyInv'
  BY <1>2, OneKeyKept, OneKeyNow DEF Resetting
<1>3. CASE Read(t) \/ UpdateMtime(t)
  <2>1. Ends(t) /\ pc[t] \notin {"idle", "unsetKey", "reset"}
        /\ UNCHANGED <<mode, secret, salt, items, file, flushed, budget>>
    BY <1>3, Returns DEF Read, UpdateMtime, secretVars, openVars, diskVars
  <2> QED
    BY <1>0, <1>1, <1>2, <2>1 DEF Ends, Dumps
<1>4. CASE IoError(t)
  <2>1. Ends(t) /\ pc[t] \notin {"idle", "unsetKey", "reset"}
        /\ UNCHANGED <<mode, secret, salt, items, file, flushed>>
    BY <1>4, Returns, UnlockedKeyringAssumption
       DEF IoError, Abort, DumpLabels, secretVars, openVars, diskVars
  <2>2. budget'["external"] = 0
    BY <1>0, <1>4, SpendKeeps DEF IoError, BudgetKinds
  <2> QED
    BY <1>1, <1>2, <2>1, <2>2 DEF Ends, Dumps
<1>5. ASSUME NEW o \in Op, Call(t, o) PROVE OneKeyInv'
  <2>1. mode = "unlocked" /\ UNCHANGED <<mode, secret, salt, items, file, flushed>>
    BY <1>5 DEF Call, secretVars, openVars, diskVars
  <2>2. Others(t) /\ pc[t] = "idle" /\ pc'[t] \notin Dumps
    BY <1>5, CallMoves DEF Dumps, FirstLabel
  <2>3. budget'["external"] = 0
    BY <1>0, <1>5, SpendKeeps DEF Call, BudgetKinds
  <2> QED
    BY <1>2, <2>1, <2>2, <2>3
<1>6. CASE Enqueue(t)
  <2>1. UNCHANGED <<mode, secret, salt, items, file, flushed, budget, pc, loc>>
    BY <1>6 DEF Enqueue, secretVars, openVars, diskVars
  <2> QED
    BY <2>1 DEF OneKeyInv, OneKeyed, Resetting
<1>7. CASE CloneSecret(t) \/ LockKey(t) \/ DeriveKey(t)
  <2>1. UNCHANGED <<mode, secret, salt, items, file, flushed, budget>>
    BY <1>7 DEF CloneSecret, LockKey, DeriveKey, secretVars, openVars, diskVars
  <2>3. loc[t].ret \notin Dumps
    BY DEF TypeInv, TypeOK, Local, Dumps
  <2>2. Others(t) /\ pc[t] \in {"secret", "key", "kdf"} /\ pc'[t] \notin Dumps
    BY <1>7, <2>3, CloneSecretMoves, LockKeyMoves, DeriveKeyMoves DEF SameCall, Dumps
  <2> QED
    BY <1>0, <1>1, <1>2, <2>1, <2>2
<1>8. CASE Edits(t)
  <2>1. /\ pc[t] = "edit" /\ Adds(t)
        /\ Goes(t, "mtime") \/ Ends(t)
        /\ UNCHANGED <<mode, secret, salt, file, flushed, budget>>
    BY <1>8, EditsMove
  <2>2. Under(items, KeyOf(secret, salt))
    BY <1>1, <2>1, OneKeyNow DEF Resetting
  <2>3. Under(items', KeyOf(secret, salt))
    BY <1>0, <2>1, <2>2 DEF Adds, Under, Encrypt, KeyTask, Uses
  <2> QED
    BY <1>0, <1>1, <2>1, <2>3, OneKeyKept DEF Ends, Goes, Dumps
<1>9. CASE Snapshot(t) \/ Decrypt(t)
  <2>1. UNCHANGED <<mode, secret, salt, items, file, flushed, budget>>
    BY <1>9 DEF Snapshot, Decrypt, secretVars, openVars, diskVars
  <2>2. Others(t) /\ pc[t] \in {"snapshot", "decrypt"} /\ pc'[t] \notin Dumps
    BY <1>9, Goings, DecryptMoves DEF Snapshot, Goes, Ends, Dumps
  <2> QED
    BY <1>0, <1>1, <1>2, <2>1, <2>2
<1>10. CASE SetSecret(t) \/ UnsetKey(t)
  <2>1. Others(t) /\ pc[t] \in {"setSecret", "unsetKey"} /\ pc'[t] \in {"unsetKey", "reset"}
        /\ UNCHANGED <<mode, file, flushed, budget>>
    BY <1>10, Goings DEF SetSecret, UnsetKey, Goes, openVars, diskVars
  <2> QED
    BY <1>0, <1>1, <2>1, OneKeyKept DEF Resetting, Dumps
<1>11. CASE Reset(t)
  <2>1. Others(t) /\ pc[t] = "reset" /\ pc'[t] = "secret" /\ items' = {}
        /\ UNCHANGED <<mode, file, flushed, budget>>
    BY <1>11, ResetMoves DEF Reset, openVars, diskVars
  <2> QED
    BY <1>0, <1>1, <2>1, OneKeyKept DEF Under, Dumps
<1>12. CASE Reencrypt(t)
  <2>1. /\ Ends(t) \/ Goes(t, "mtime")
        /\ pc[t] = "reencrypt" /\ UNCHANGED <<mode, secret, salt, file, flushed, budget>>
        /\ items' = items \/ items' = items \cup {Encrypt(i, loc[t].key) : i \in loc[t].snap}
    BY <1>12, Goings, Returns DEF Reencrypt, secretVars, openVars, diskVars
  <2>2. Under(items, KeyOf(secret, salt)) /\ loc[t].key = KeyOf(secret, salt)
    BY <1>0, <1>1, <2>1, OneKeyNow DEF Resetting, KeyTask, Uses
  <2>3. Under(items', KeyOf(secret, salt))
    BY <2>1, <2>2 DEF Under, Encrypt
  <2> QED
    BY <1>0, <1>1, <2>1, <2>3, OneKeyKept DEF Ends, Goes, Dumps
<1>13. CASE LockMtime(t) \/ LockKeyring(t)
  <2>1. UNCHANGED <<mode, secret, salt, items, file, flushed, budget>>
    BY <1>13, LockKeyringMoves DEF LockMtime, secretVars, openVars, diskVars
  <2>2. Others(t) /\ pc[t] \in {"mtime", "keyring"} /\ pc'[t] \notin Dumps
    BY <1>13, Goings, LockKeyringMoves DEF LockMtime, Starts, Goes, Ends, Dumps
  <2> QED
    BY <1>0, <1>1, <1>2, <2>1, <2>2
<1>14. CASE CreateItems(t)
  <2>1. /\ pc[t] = "keyring" /\ loc[t].op = "bulk" /\ Adds(t)
        /\ Goes(t, "tmp") \/ Ends(t)
        /\ UNCHANGED <<mode, secret, salt, file, flushed, budget>>
    BY <1>14, CreateItemsMove DEF Starts
  <2>2. Under(items, KeyOf(secret, salt))
    BY <1>1, <2>1, OneKeyNow DEF Resetting
  <2>3. Under(items', KeyOf(secret, salt))
    BY <1>0, <2>1, <2>2 DEF Adds, Under, Encrypt, KeyTask, Uses
  <2> QED
    BY <1>0, <1>1, <2>1, <2>3, OneKeyKept DEF Ends, Goes, Dumps
<1>15. CASE WriteTmp(t) \/ SyncAll(t)
  <2>1. UNCHANGED <<mode, secret, salt, items, file, flushed, budget>> /\ Others(t)
        /\ pc[t] \in {"tmp", "sync"}
    BY <1>15, WriteTmpMoves, SyncAllMoves DEF WriteTmp, SyncAll, secretVars, openVars, diskVars
  <2>2. Under(items, KeyOf(secret, salt))
    BY <1>1, <2>1, OneKeyNow DEF Resetting
  <2>3. secret \in Secrets \cup {NoSecret}
    BY DEF TypeInv, TypeOK
  <2>4. OneKeyed(loc'[t].tmp)
    <3>1. CASE WriteTmp(t)
      BY <2>2, <2>3, <3>1, WriteTmpMoves DEF OneKeyed
    <3>2. CASE SyncAll(t)
      <4>1. loc[t].tmp \in KeyringFile
        BY <3>2 DEF SyncAll, TypeInv, TmpWritten
      <4> QED
        BY <1>0, <3>2, <4>1, SyncAllMoves DEF OneKeyed, Dumps
    <3> QED
      BY <1>15, <3>1, <3>2
  <2> QED
    BY <1>0, <1>1, <2>1, <2>2, <2>4, OneKeyKept
<1>16. CASE CheckTarget(t)
  <2>1. /\ Ends(t) \/ Goes(t, "rename")
        /\ pc[t] = "check" /\ UNCHANGED <<mode, secret, salt, items, file, flushed, budget>>
    BY <1>16, Goings, Returns DEF CheckTarget, Abort, secretVars, openVars, diskVars
  <2>2. Under(items, KeyOf(secret, salt))
    BY <1>1, <2>1, OneKeyNow DEF Resetting
  <2>3. pc'[t] \in Dumps => OneKeyed(loc'[t].tmp)
    BY <1>0, <2>1 DEF Ends, Goes, Dumps
  <2> QED
    BY <1>0, <1>1, <2>1, <2>2, <2>3, OneKeyKept DEF Ends, Goes
<1>17. CASE Rename(t)
  <2>1. /\ Goes(t, "stat") /\ pc[t] = "rename" /\ file' = loc[t].tmp
        /\ UNCHANGED <<mode, secret, salt, items, flushed, budget>>
    BY <1>17, Goings DEF Rename, secretVars, openVars
  <2>2. OneKeyed(file') /\ OneKeyed(flushed')
    BY <1>0, <2>1 DEF OneKeyInv, Dumps
  <2>3. Under(items, KeyOf(secret, salt)) /\ mode = "unlocked"
    BY <1>1, <2>1, OneKeyNow DEF Resetting
  <2>4. \A u \in Tasks : pc'[u] \in Dumps => OneKeyed(loc'[u].tmp)
    BY <2>1 DEF OneKeyInv, Goes, Others, Dumps
  <2> QED
    BY <1>0, <2>1, <2>2, <2>3, <2>4 DEF OneKeyInv, OneKeyed
<1> QED
  BY <1>3, <1>4, <1>5, <1>6, <1>7, <1>8, <1>9, <1>10, <1>11, <1>12, <1>13, <1>14, <1>15, <1>16,
     <1>17 DEF Step, Change, Dump

\* A value is installed while no task uses the keyring.
LEMMA InstallOneKey ==
  ASSUME OneKeyInv, Idle, NEW m, NEW path, NEW s \in Secrets \cup {NoSecret}, NEW k,
         Install(m, path, s, k), budget'["external"] = 0,
         m = "unlocked" => Under(items', KeyOf(s, salt')),
         m = "locked" => \E o \in Secrets \cup {NoSecret} : Under(items', KeyOf(o, salt'))
  PROVE  OneKeyInv'
<1>1. UNCHANGED <<file, flushed, pc, loc>> /\ secret' = s /\ mode' = m
  BY DEF Install, diskVars
<1>2. \A t \in Tasks : pc'[t] \notin Dumps
  BY <1>1 DEF Idle, Dumps
<1> QED
  BY <1>1, <1>2 DEF OneKeyInv, OneKeyed

LEMMA OwnershipOneKey ==
  ASSUME OneWriter, TypeInv, KeyInv, OneKeyInv, Ownership
  PROVE  OneKeyInv'
<1>0. /\ budget["external"] = 0 /\ secret \in Secrets \cup {NoSecret} /\ items \in SUBSET Entry
      /\ mode \in {"down", "locked"} => Idle
      /\ mode = "locked" => \E s \in Secrets \cup {NoSecret} : Under(items, KeyOf(s, salt))
  BY DEF OneKeyInv, TypeInv, TypeOK, KeyInv
<1>1. ASSUME NEW S, NewKeyring(S)
      PROVE  budget'["external"] = 0 /\ salt' = nextSalt /\ items' = S
  BY <1>0, <1>1, SpendKeeps DEF NewKeyring, BudgetKinds
<1>2. ASSUME Refused, Idle PROVE OneKeyInv'
  BY <1>0, <1>2, InstallOneKey DEF Refused
<1>3. CASE Load
  <2>1. CASE file = NoFile
    <3>1. budget'["external"] = 0 /\ items' = {}
      BY <1>1, <1>3, <2>1 DEF Load
    <3>2. Under(items', KeyOf(NoSecret, salt'))
      BY <3>1 DEF Under
    <3> QED
      BY <1>0, <1>3, <3>1, <3>2, InstallOneKey DEF Load
  <2>2. CASE file # NoFile
    <3>1. file \in KeyringFile
      BY <1>3, <2>2, FileParts DEF Load, TypeInv, TypeOK
    <3>2. \E s \in Secrets \cup {NoSecret} : Under(items', KeyOf(s, salt'))
      BY <1>3, <2>2, <3>1 DEF Load, OneKeyInv, OneKeyed
    <3> QED
      BY <1>0, <1>3, <2>2, <3>2, InstallOneKey DEF Load
  <2> QED
    BY <2>1, <2>2
<1>4. CASE Unlock
  <2>1. PICK s \in Secrets :
          \/ /\ UnlockVerdict(items, KeyOf(s, salt)) = "ok"
             /\ Install("unlocked", hasPath, s, KeyOf(s, salt))
             /\ UNCHANGED <<salt, items, mtime, nextSalt, budget>>
          \/ Refused
    BY <1>4 DEF Unlock
  <2>2. mode = "locked"
    BY <1>4 DEF Unlock
  <2>3. UnlockVerdict(items, KeyOf(s, salt)) = "ok" => Under(items, KeyOf(s, salt))
    BY <1>0, <2>2, UnlockFindsTheKey DEF OneWriter
  <2> QED
    BY <1>0, <1>2, <2>1, <2>2, <2>3, InstallOneKey
<1>5. CASE UnlockUnchecked
  BY <1>5 DEF UnlockUnchecked, OneWriter
<1>6. CASE UnlockUnencrypted
  <2>1. items = Valid(items, NoKey) => Under(items, KeyOf(NoSecret, salt))
    BY DEF Valid, IsValid, Under, KeyOf
  <2> QED
    BY <1>0, <1>2, <1>6, <2>1, InstallOneKey DEF UnlockUnencrypted
<1>7. CASE Lock
  <2>1. Under(items, KeyOf(secret, salt))
    BY <1>7 DEF Lock, Idle, Resetting, OneKeyInv
  <2> QED
    BY <1>0, <1>7, <2>1, InstallOneKey DEF Lock
<1>8. CASE Open
  <2>1. PICK s \in Secrets \cup {NoSecret} :
          /\ Install("unlocked", TRUE, s, NoKey)
          /\ NewKeyring({Encrypt(i, KeyOf(s, nextSalt)) : i \in LegacyItems})
    BY <1>8 DEF Open, OneWriter
  <2>2. Under(items', KeyOf(s, salt')) /\ budget'["external"] = 0
    BY <1>1, <2>1 DEF Under, Encrypt
  <2> QED
    BY <1>0, <1>8, <2>1, <2>2, InstallOneKey DEF Open
<1>9. CASE Temporary
  <2>1. PICK s \in Secrets \cup {NoSecret} : Install("unlocked", FALSE, s, NoKey) /\ NewKeyring({})
    BY <1>9 DEF Temporary
  <2>2. Under(items', KeyOf(s, salt')) /\ budget'["external"] = 0
    BY <1>1, <2>1 DEF Under
  <2> QED
    BY <1>0, <1>9, <2>1, <2>2, InstallOneKey DEF Temporary
<1> QED
  BY <1>3, <1>4, <1>5, <1>6, <1>7, <1>8, <1>9 DEF Ownership

LEMMA SurvivingOneKeyed ==
  ASSUME NEW f \in File, OneKeyed(f)
  PROVE  OneKeyed(Surviving(f))
BY UnlockedKeyringAssumption DEF Surviving, OneKeyed, File

LEMMA NextOneKey ==
  ASSUME OneWriter
  PROVE  TypeInv /\ TypeInv' /\ KeyInv /\ OneKeyInv /\ [Next]_vars => OneKeyInv'
<1> SUFFICES ASSUME TypeInv, TypeInv', KeyInv, OneKeyInv, [Next]_vars PROVE OneKeyInv'
  OBVIOUS
<1>1. ASSUME NEW t \in Tasks, Step(t) \/ IoError(t) \/ \E o \in Op : Call(t, o) PROVE OneKeyInv'
  BY <1>1, StepOneKey DEF OneWriter
<1>2. CASE Ownership
  BY <1>2, OwnershipOneKey
<1>3. CASE Crash \/ PowerLoss
  <2>1. mode' = "down" /\ (\A t \in Tasks : pc'[t] = "idle") /\ Spend("crash")
    BY <1>3 DEF Crash, PowerLoss, Stop
  <2>2. OneKeyed(file') /\ OneKeyed(flushed')
    <3>1. CASE Crash
      BY <3>1 DEF Crash, OneKeyInv, OneKeyed
    <3>2. CASE PowerLoss
      <4>1. OneKeyed(Surviving(file)) /\ OneKeyed(Surviving(flushed))
        BY SurvivingOneKeyed DEF OneKeyInv, TypeInv, TypeOK
      <4> QED
        BY <3>2, <4>1 DEF PowerLoss
    <3> QED
      BY <1>3, <3>1, <3>2
  <2>3. budget'["external"] = 0
    BY <2>1, SpendKeeps DEF BudgetKinds, OneKeyInv
  <2> QED
    BY <2>1, <2>2, <2>3 DEF OneKeyInv, Dumps
<1>4. CASE Flush
  <2>1. UNCHANGED <<mode, secret, salt, items, file, budget, pc, loc>> /\ flushed' = file
    BY <1>4 DEF Flush, secretVars, openVars
  <2> QED
    BY <2>1 DEF OneKeyInv, OneKeyed, Resetting
<1>5. ~ExternalWrite
  BY DEF ExternalWrite, Spend, OneKeyInv
<1>6. CASE Closed \/ UNCHANGED vars
  BY <1>6 DEF Closed, vars, OneKeyInv, OneKeyed, Resetting
<1> QED
  BY <1>1, <1>2, <1>3, <1>4, <1>5, <1>6 DEF Next, Environment

LEMMA OneKeyInvariant == ASSUME OneWriter PROVE Spec => [](TypeInv /\ KeyInv /\ OneKeyInv)
<1>1. Init => OneKeyInv
  <2> SUFFICES ASSUME Init PROVE OneKeyInv
    OBVIOUS
  <2>1. OneKeyed(file) /\ OneKeyed(flushed)
    BY UnlockedKeyringAssumption DEF Init, OneWriter, OneKeyed
  <2> QED
    BY <2>1 DEF Init, OneKeyInv, OneWriter, Dumps
<1>2. ChangesAlone
  BY DEF OneWriter
<1> QED
  BY <1>1, <1>2, TypeInvariant, KeyInvariant, NextOneKey, PTL DEF Spec

\* Every item of the file can be read with one secret, whenever the process stops and in
\* whatever order the calls, the dumps and the steps of change_secret run: salt and items
\* change together, and a dump takes both under the keyring lock.
THEOREM FileKeepsOneKey == ASSUME OneWriter PROVE Spec => []FileHasOneKey
<1>1. OneKeyInv => FileHasOneKey
  BY DEF OneKeyInv, OneKeyed, Under, FileHasOneKey
<1> QED
  BY <1>1, OneKeyInvariant, PTL

-----------------------------------------------------------------------------
(* Acknowledged items *)

\* Of the items X, those nobody asked to remove are still in S.
Has(S, X) == X \ dropped \subseteq ItemsOf(S)

\* change_secret has emptied the keyring and not yet filled it again.
Rebuilds(t) ==
  /\ loc[t].op = "change" /\ loc[t].ret = "reencrypt"
  /\ pc[t] \in {"secret", "key", "kdf", "reencrypt"}

\* The call has done its edit.
Edited(t) == pc[t] \in DumpLabels \/ (pc[t] \in {"mtime", "keyring"} /\ loc[t].op # "bulk")

TaskAcked(t) ==
  /\ pc[t] \in HoldsMtime => mtimeHolder = t
  /\ pc[t] \in DumpLabels => hasPath
  /\ pc[t] = "snapshot" => loc[t].ret = "decrypt"
  /\ pc[t] = "reencrypt" => loc[t].ret = "reencrypt"
  /\ loc[t].op \in {"write", "change"} => loc[t].new = {}
  /\ hasPath /\ Rebuilds(t) => acked \ dropped \subseteq loc[t].snap
  /\ pc[t] \in {"setSecret", "unsetKey", "reset"} => ItemsOf(items) = loc[t].snap
  /\ Edited(t) => Has(items, loc[t].new)
  /\ pc[t] \in Dumps => Has(loc[t].tmp.entries, acked) /\ Has(loc[t].tmp.entries, loc[t].new)
  /\ pc[t] = "stat" => Has(Entries(file), loc[t].new)

\* What was acknowledged is in the file and in memory, or is about to be encrypted anew; the
\* items of a call are in memory from its edit on, and in its temporary file.
AckedInv ==
  /\ Has(Entries(file), acked)
  /\ mode # "down" /\ hasPath /\ (\A t \in Tasks : ~Rebuilds(t)) => Has(items, acked)
  /\ \A t \in Tasks : TaskAcked(t)

\* Nothing leaves the memory but what is dropped.
Keeps ==
  /\ dropped \subseteq dropped'
  /\ \A i \in Items : i \in ItemsOf(items) /\ i \notin dropped' => i \in ItemsOf(items')

LEMMA DropKeeps ==
  ASSUME TypeInv, NEW t \in Tasks, Drop(t)
  PROVE  Keeps /\ loc[t].new \ dropped' \subseteq ItemsOf(items')
BY DEF Drop, Keeps

LEMMA FailsKeeps ==
  ASSUME ChangesAlone, WeakSecrets = {}, KeyInv, OneKeyInv, NEW t \in Tasks, Fails(t),
         pc[t] = "edit" \/ (pc[t] = "keyring" /\ loc[t].op = "bulk")
  PROVE  Keeps
<1>1. mode = "unlocked"
  BY DEF KeyInv, Idle
<1>2. Under(items, KeyOf(secret, salt))
  BY <1>1, OneKeyNow DEF Resetting
<1>3. items' = items
  BY <1>2 DEF Fails, KeyInv, KeyTask, Uses, IsWeak
<1> QED
  BY <1>3 DEF Fails, Keeps

\* What a step of one task does to what is known of another.
LEMMA OthersAcked ==
  ASSUME ChangesAlone, TypeInv, KeyInv, NEW t \in Tasks, NEW u \in Tasks \ {t}, Others(t), Keeps,
         TaskAcked(u), pc[t] \in HoldsMtime => mtimeHolder = t,
         UNCHANGED hasPath,
         UNCHANGED mtimeHolder \/ mtimeHolder \in {t, NoTask},
         UNCHANGED <<file, acked>> \/ pc[t] \in HoldsMtime
  PROVE  TaskAcked(u)'
<1>1. UNCHANGED <<pc[u], loc[u]>>
  BY DEF Others
<1>2. ~Rebuilds(u) /\ pc[u] \notin {"setSecret", "unsetKey", "reset"}
  <2>1. Rebuilds(u) => "change" \in OpsOf[u]
    BY DEF Rebuilds, KeyInv, KeyTask
  <2> QED
    BY <2>1, Alone DEF ChangesAlone
<1>3. pc[u] \in HoldsMtime => mtimeHolder' = u /\ UNCHANGED <<file, acked>>
  BY UnlockedKeyringAssumption DEF TaskAcked
<1>4. loc[u].new \subseteq Items
  BY DEF TypeInv, TypeOK, Local
<1>5. Edited(u) => loc[u].new \ dropped' \subseteq ItemsOf(items')
  BY <1>4 DEF TaskAcked, Keeps, Has
<1>6. pc[u] \in Dumps => UNCHANGED <<file, acked>>
  BY <1>3 DEF Dumps, HoldsMtime, DumpLabels
<1>7. pc[u] = "stat" => UNCHANGED file
  BY <1>3 DEF HoldsMtime, DumpLabels
<1>8. Dumps' = Dumps /\ HoldsMtime' = HoldsMtime /\ DumpLabels' = DumpLabels
  BY DEF Dumps, HoldsMtime, DumpLabels
<1> QED
  BY <1>1, <1>2, <1>3, <1>5, <1>6, <1>7, <1>8 DEF TaskAcked, Keeps, Has, Rebuilds, Edited, Entries

\* A step that changes neither the file nor what is acknowledged.
LEMMA AckedKept ==
  ASSUME ChangesAlone, TypeInv, KeyInv, AckedInv, NEW t \in Tasks, Others(t), Keeps,
         UNCHANGED <<mode, hasPath, file, acked>>,
         UNCHANGED mtimeHolder \/ mtimeHolder \in {t, NoTask},
         Rebuilds(t) => Rebuilds(t)',
         TaskAcked(t)'
  PROVE  AckedInv'
<1>1. acked \subseteq Items
  BY DEF TypeInv, TypeOK
<1>2. \A u \in Tasks : TaskAcked(u)'
  BY OthersAcked DEF AckedInv, TaskAcked
<1>3. (\A u \in Tasks : ~Rebuilds(u)') => \A u \in Tasks : ~Rebuilds(u)
  BY DEF Others, Rebuilds
<1>4. Has(items, acked) => acked \ dropped' \subseteq ItemsOf(items')
  BY <1>1 DEF Keeps, Has
<1>5. acked \ dropped' \subseteq ItemsOf(Entries(file))
  BY DEF AckedInv, Has, Keeps
<1> QED
  BY <1>2, <1>3, <1>4, <1>5 DEF AckedInv, Has, Entries

LEMMA StepAcked ==
  ASSUME OneWriter, WeakSecrets = {}, TypeInv, KeyInv, OneKeyInv, AckedInv, NEW t \in Tasks,
         Step(t) \/ IoError(t) \/ \E o \in Op : Call(t, o)
  PROVE  AckedInv'
<1>0. /\ ChangesAlone /\ KeyTask(t) /\ TaskAcked(t)
      /\ loc[t].ret \in {"idle", "read", "edit", "decrypt", "mtime", "reencrypt"}
  BY DEF OneWriter, KeyInv, AckedInv, TypeInv, TypeOK, Local
<1>1. Dumps' = Dumps /\ HoldsMtime' = HoldsMtime /\ DumpLabels' = DumpLabels
  BY DEF Dumps, HoldsMtime, DumpLabels
<1>2. ASSUME UNCHANGED <<items, dropped>> PROVE Keeps
  BY <1>2 DEF Keeps
<1>3. ASSUME Ends(t) PROVE TaskAcked(t)'
  BY <1>3 DEF Ends, TaskAcked, Rebuilds, Edited, Dumps, HoldsMtime, DumpLabels
<1>4. CASE IoError(t) \/ Read(t)
  <2>1. /\ Ends(t) /\ ~Rebuilds(t)
        /\ UNCHANGED <<mode, hasPath, items, file, acked, dropped>>
        /\ UNCHANGED mtimeHolder \/ mtimeHolder = t
    BY <1>0, <1>4, Returns, UnlockedKeyringAssumption
       DEF IoError, Abort, Read, DumpLabels, HoldsMtime, openVars, diskVars, ghostVars, mtimeVars,
           TaskAcked, Rebuilds
  <2> QED
    BY <1>0, <1>2, <1>3, <2>1, AckedKept DEF Ends
<1>5. ASSUME NEW o \in Op, Call(t, o) PROVE AckedInv'
  <2>1. UNCHANGED <<mode, hasPath, mtimeHolder, items, file, acked, dropped>>
    BY <1>5 DEF Call, openVars, diskVars, mtimeVars
  <2>2. /\ Others(t) /\ pc[t] = "idle" /\ pc'[t] = FirstLabel(o) /\ loc'[t].op = o
        /\ loc'[t].ret = AfterKey(o) /\ (o \in {"write", "change"} => loc'[t].new = {})
    BY <1>5, CallMoves DEF OneWriter
  <2>3. TaskAcked(t)'
    BY <2>2 DEF TaskAcked, Rebuilds, Edited, Dumps, HoldsMtime, DumpLabels, FirstLabel, AfterKey, Has
  <2> QED
    BY <1>0, <1>2, <2>1, <2>2, <2>3, AckedKept DEF Rebuilds
<1>6. CASE Enqueue(t)
  <2>1. UNCHANGED <<mode, hasPath, mtimeHolder, items, file, acked, dropped, pc, loc>>
    BY <1>6 DEF Enqueue, openVars, diskVars, mtimeVars, ghostVars
  <2>2. Others(t) /\ TaskAcked(t)' /\ (Rebuilds(t) => Rebuilds(t)')
    BY <1>0, <2>1 DEF Others, TaskAcked, Rebuilds, Edited, Has, Dumps, HoldsMtime, DumpLabels, Entries
  <2> QED
    BY <1>0, <1>2, <2>1, <2>2, AckedKept
<1>7. CASE CloneSecret(t) \/ LockKey(t) \/ DeriveKey(t)
  <2>1. UNCHANGED <<mode, hasPath, mtimeHolder, items, file, acked, dropped>>
    BY <1>7 DEF CloneSecret, LockKey, DeriveKey, openVars, diskVars, mtimeVars, ghostVars
  <2>2. SameCall(t) /\ pc[t] \in {"secret", "key", "kdf"} /\ pc'[t] \in {loc[t].ret, "key", "kdf"}
    BY <1>7, CloneSecretMoves, LockKeyMoves, DeriveKeyMoves
  <2>3. TaskAcked(t)' /\ (Rebuilds(t) => Rebuilds(t)')
    BY <1>0, <2>1, <2>2
       DEF KeyTask, SameCall, TaskAcked, Rebuilds, Edited, Has, Dumps, HoldsMtime, DumpLabels
  <2> QED
    BY <1>0, <1>2, <2>1, <2>2, <2>3, AckedKept DEF SameCall
<1>8. CASE Edits(t)
  <2>1. /\ pc[t] = "edit" /\ UNCHANGED <<mode, hasPath, mtimeHolder, file, acked>>
        /\ (Goes(t, "mtime") /\ Drop(t)) \/ (Ends(t) /\ Fails(t))
    BY <1>8, EditsMove
  <2>2. Keeps
    BY <1>0, <2>1, DropKeeps, FailsKeeps
  <2>3. TaskAcked(t)'
    <3>1. CASE Goes(t, "mtime") /\ Drop(t)
      <4>1. loc[t].new \ dropped' \subseteq ItemsOf(items')
        BY <3>1, DropKeeps
      <4> QED
        BY <1>0, <2>1, <3>1, <4>1
           DEF Goes, TaskAcked, Rebuilds, Edited, Has, Dumps, HoldsMtime, DumpLabels
    <3> QED
      BY <1>3, <2>1, <3>1
  <2> QED
    BY <1>0, <2>1, <2>2, <2>3, AckedKept DEF Goes, Ends, Rebuilds
<1>9. CASE Snapshot(t) \/ SetSecret(t) \/ UnsetKey(t) \/ Decrypt(t)
  <2>1. UNCHANGED <<mode, hasPath, mtimeHolder, items, file, acked, dropped>>
    BY <1>9 DEF Snapshot, SetSecret, UnsetKey, Decrypt, openVars, diskVars, mtimeVars, ghostVars
  <2>2. Others(t) /\ pc[t] \in {"snapshot", "setSecret", "unsetKey", "decrypt"}
    BY <1>9, Goings, DecryptMoves DEF Snapshot, SetSecret, UnsetKey, Goes, Ends
  <2>3. TaskAcked(t)'
    <3>1. CASE Snapshot(t)
      <4>1. Goes(t, "secret") /\ pc[t] = "snapshot"
        BY <3>1, Goings DEF Snapshot
      <4>2. loc[t].ret = "decrypt"
        BY <1>0, <4>1 DEF TaskAcked
      <4> QED
        BY <1>0, <2>1, <4>1, <4>2 DEF Goes, TaskAcked, Rebuilds, Edited, Has, Dumps, HoldsMtime, DumpLabels
    <3>2. CASE SetSecret(t) \/ UnsetKey(t)
      <4>1. \/ Goes(t, "unsetKey") /\ pc[t] = "setSecret"
            \/ Goes(t, "reset") /\ pc[t] = "unsetKey"
        BY <3>2, Goings DEF SetSecret, UnsetKey
      <4> QED
        BY <1>0, <2>1, <4>1 DEF Goes, TaskAcked, Rebuilds, Edited, Has, Dumps, HoldsMtime, DumpLabels
    <3>3. CASE Decrypt(t)
      BY <1>0, <1>3, <2>1, <3>3, DecryptMoves
         DEF TaskAcked, Rebuilds, Edited, Has, Dumps, HoldsMtime, DumpLabels
    <3> QED
      BY <1>9, <3>1, <3>2, <3>3
  <2> QED
    BY <1>0, <1>2, <2>1, <2>2, <2>3, AckedKept DEF Rebuilds
<1>10. CASE Reset(t)
  <2>1. /\ pc[t] = "reset" /\ Others(t) /\ pc'[t] = "secret" /\ loc'[t].ret = "reencrypt"
        /\ loc'[t].op = loc[t].op /\ loc'[t].new = loc[t].new /\ loc'[t].snap = loc[t].snap
        /\ UNCHANGED <<mode, hasPath, file, acked, dropped>>
    BY <1>10, ResetMoves DEF Reset, openVars, diskVars, ghostVars
  <2>2. mode = "unlocked" /\ loc[t].op = "change" /\ \A u \in Tasks : u = t
    BY <1>0, <2>1, Alone DEF KeyInv, KeyTask, Idle
  <2>3. hasPath => acked \ dropped \subseteq loc[t].snap
    BY <1>0, <2>1, <2>2 DEF AckedInv, Rebuilds, TaskAcked, Has
  <2>4. Rebuilds(t)' /\ TaskAcked(t)'
    BY <1>0, <2>1, <2>2, <2>3 DEF TaskAcked, Rebuilds, Edited, Dumps, HoldsMtime, DumpLabels
  <2>5. Has(Entries(file), acked)'
    BY <2>1 DEF AckedInv, Has, Entries
  <2> QED
    BY <2>2, <2>4, <2>5 DEF AckedInv
<1>11. CASE Reencrypt(t)
  <2>1. /\ pc[t] = "reencrypt" /\ Goes(t, "mtime")
        /\ items' = items \cup {Encrypt(i, loc[t].key) : i \in loc[t].snap}
        /\ UNCHANGED <<mode, hasPath, file, acked, dropped>>
    BY <1>11, Goings DEF Reencrypt, IsWeak, openVars, diskVars, ghostVars
  <2>2. loc[t].op = "change" /\ loc[t].ret = "reencrypt" /\ \A u \in Tasks : u = t
    BY <1>0, <2>1, Alone DEF KeyTask, TaskAcked
  <2>3. loc[t].snap \subseteq ItemsOf(items')
    <3>1. ASSUME NEW i \in loc[t].snap PROVE Encrypt(i, loc[t].key) \in items'
      BY <2>1
    <3>2. \A i : Encrypt(i, loc[t].key).item = i
      BY DEF Encrypt
    <3> QED
      BY <3>1, <3>2 DEF ItemsOf
  <2>4. hasPath => Has(items', acked')
    BY <1>0, <2>1, <2>2, <2>3 DEF TaskAcked, Rebuilds, Has
  <2>5. TaskAcked(t)'
    BY <1>0, <2>1, <2>2 DEF TaskAcked, Goes, Rebuilds, Edited, Has, Dumps, HoldsMtime, DumpLabels
  <2>6. Has(Entries(file), acked)'
    BY <2>1 DEF AckedInv, Has, Entries
  <2> QED
    BY <2>1, <2>2, <2>4, <2>5, <2>6 DEF AckedInv, Has
<1>12. CASE LockMtime(t)
  <2>1. /\ Goes(t, "keyring") /\ pc[t] = "mtime" /\ mtimeHolder = NoTask /\ mtimeHolder' = t
        /\ UNCHANGED <<mode, hasPath, items, file, acked, dropped>>
    BY <1>12, Goings DEF LockMtime, openVars, diskVars, ghostVars
  <2>2. TaskAcked(t)'
    BY <1>0, <2>1 DEF TaskAcked, Goes, Rebuilds, Edited, Has, Dumps, HoldsMtime, DumpLabels
  <2> QED
    BY <1>0, <1>2, <2>1, <2>2, AckedKept DEF Goes, Rebuilds
<1>13. CASE LockKeyring(t)
  <2>1. /\ pc[t] = "keyring" /\ loc[t].op # "bulk" /\ Starts(t)
        /\ UNCHANGED <<mode, hasPath, items, file, acked, dropped>>
    BY <1>13, LockKeyringMoves
  <2>2. mtimeHolder = t
    BY <1>0, <2>1 DEF TaskAcked, HoldsMtime
  <2>3. TaskAcked(t)'
    <3>1. CASE Ends(t)
      BY <1>3, <3>1
    <3>2. CASE hasPath /\ Goes(t, "tmp") /\ UNCHANGED mtimeHolder
      BY <1>0, <2>1, <2>2, <3>2
         DEF TaskAcked, Goes, Rebuilds, Edited, Has, Dumps, HoldsMtime, DumpLabels
    <3> QED
      BY <2>1, <3>1, <3>2 DEF Starts
  <2> QED
    BY <1>0, <1>2, <2>1, <2>2, <2>3, AckedKept DEF Starts, Goes, Ends, Rebuilds
<1>14. CASE CreateItems(t)
  <2>1. /\ pc[t] = "keyring" /\ loc[t].op = "bulk"
        /\ (Starts(t) /\ Drop(t)) \/ (Ends(t) /\ mtimeHolder' = NoTask /\ Fails(t))
        /\ UNCHANGED <<mode, hasPath, file, acked>>
    BY <1>14, CreateItemsMove
  <2>2. mtimeHolder = t
    BY <1>0, <2>1 DEF TaskAcked, HoldsMtime
  <2>3. Keeps
    BY <1>0, <2>1, DropKeeps, FailsKeeps
  <2>4. TaskAcked(t)'
    <3>1. CASE Ends(t)
      BY <1>3, <3>1
    <3>2. CASE hasPath /\ Goes(t, "tmp") /\ UNCHANGED mtimeHolder /\ Drop(t)
      <4>1. loc[t].new \ dropped' \subseteq ItemsOf(items')
        BY <3>2, DropKeeps
      <4> QED
        BY <1>0, <2>1, <2>2, <3>2, <4>1
           DEF TaskAcked, Goes, Rebuilds, Edited, Has, Dumps, HoldsMtime, DumpLabels
    <3> QED
      BY <2>1, <3>1, <3>2 DEF Starts
  <2> QED
    BY <1>0, <2>1, <2>2, <2>3, <2>4, AckedKept DEF Starts, Goes, Ends, Rebuilds
<1>15. CASE WriteTmp(t)
  <2>1. /\ pc[t] = "tmp" /\ pc'[t] = "sync" /\ Others(t) /\ loc'[t].tmp.entries = items
        /\ loc'[t].op = loc[t].op /\ loc'[t].new = loc[t].new
        /\ UNCHANGED <<mode, hasPath, mtimeHolder, items, file, acked, dropped>>
    BY <1>15, WriteTmpMoves DEF WriteTmp, openVars, mtimeVars, ghostVars
  <2>2. mode = "unlocked" /\ hasPath /\ mtimeHolder = t /\ Has(items, loc[t].new)
    BY <1>0, <2>1 DEF TaskAcked, HoldsMtime, DumpLabels, Edited, KeyInv, Idle
  <2>3. \A u \in Tasks : ~Rebuilds(u)
    <3>1. \A u \in Tasks : Rebuilds(u) => "change" \in OpsOf[u]
      BY DEF Rebuilds, KeyInv, KeyTask
    <3> QED
      BY <1>0, <2>1, <3>1 DEF ChangesAlone, Rebuilds
  <2>4. Has(items, acked)
    BY <2>2, <2>3 DEF AckedInv
  <2>5. TaskAcked(t)'
    BY <1>0, <2>1, <2>2, <2>4 DEF TaskAcked, Rebuilds, Edited, Has, Dumps, HoldsMtime, DumpLabels
  <2> QED
    BY <1>0, <1>2, <2>1, <2>5, AckedKept DEF Rebuilds
<1>16. CASE SyncAll(t)
  <2>1. /\ pc[t] = "sync" /\ pc'[t] = "check" /\ Others(t)
        /\ loc'[t].tmp.entries = loc[t].tmp.entries
        /\ loc'[t].op = loc[t].op /\ loc'[t].new = loc[t].new
        /\ UNCHANGED <<mode, hasPath, mtimeHolder, items, file, acked, dropped>>
    BY <1>16, SyncAllMoves DEF SyncAll, openVars, diskVars, mtimeVars, ghostVars
  <2>2. TaskAcked(t)'
    BY <1>0, <2>1 DEF TaskAcked, Rebuilds, Edited, Has, Dumps, HoldsMtime, DumpLabels
  <2> QED
    BY <1>0, <1>2, <2>1, <2>2, AckedKept DEF Rebuilds
<1>17. CASE CheckTarget(t)
  <2>1. /\ pc[t] = "check" /\ UNCHANGED <<mode, hasPath, items, file, acked, dropped>>
        /\ Ends(t) \/ (Goes(t, "rename") /\ UNCHANGED mtimeHolder)
    BY <1>17, Goings, Returns DEF CheckTarget, Abort, openVars, diskVars, ghostVars, mtimeVars
  <2>2. mtimeHolder = t
    BY <1>0, <2>1 DEF TaskAcked, HoldsMtime, DumpLabels
  <2>3. TaskAcked(t)'
    <3>1. CASE Ends(t)
      BY <1>3, <3>1
    <3>2. CASE Goes(t, "rename") /\ UNCHANGED mtimeHolder
      BY <1>0, <2>1, <3>2 DEF TaskAcked, Goes, Rebuilds, Edited, Has, Dumps, HoldsMtime, DumpLabels
    <3> QED
      BY <2>1, <3>1, <3>2
  <2> QED
    BY <1>0, <1>2, <2>1, <2>2, <2>3, AckedKept DEF Goes, Ends, Rebuilds
<1>18. CASE Rename(t)
  <2>1. /\ pc[t] = "rename" /\ Goes(t, "stat") /\ file' = loc[t].tmp /\ loc[t].tmp \in KeyringFile
        /\ UNCHANGED <<mode, hasPath, mtimeHolder, items, acked, dropped>>
    BY <1>18, Goings DEF Rename, openVars, mtimeVars, ghostVars, TypeInv, TmpWritten
  <2>2. Entries(file') = loc[t].tmp.entries
    BY <2>1, UnlockedKeyringAssumption DEF Entries
  <2>3. Has(Entries(file'), acked') /\ Has(Entries(file'), loc[t].new)
    BY <1>0, <2>1, <2>2 DEF TaskAcked, Dumps
  <2>4. TaskAcked(t)'
    BY <1>0, <2>1, <2>3 DEF TaskAcked, Goes, Rebuilds, Edited, Has, Dumps, HoldsMtime, DumpLabels, Entries
  <2>5. \A u \in Tasks \ {t} : TaskAcked(u)'
    <3>1. pc[t] \in HoldsMtime /\ mtimeHolder = t
      BY <1>0, <2>1 DEF TaskAcked, HoldsMtime, DumpLabels
    <3> QED
      BY <1>0, <1>2, <2>1, <3>1, OthersAcked DEF AckedInv, Goes
  <2>6. Has(Entries(file), acked)'
    BY <2>1, <2>3 DEF Has, Entries
  <2>7. mode # "down" /\ hasPath /\ (\A u \in Tasks : ~Rebuilds(u)') => Has(items, acked)
    BY <2>1 DEF AckedInv, Goes, Others, Rebuilds
  <2> QED
    BY <2>1, <2>4, <2>5, <2>6, <2>7 DEF AckedInv, Has
<1>19. CASE UpdateMtime(t)
  <2>1. /\ pc[t] = "stat" /\ Ends(t) /\ acked' = acked \cup loc[t].new
        /\ UNCHANGED <<mode, hasPath, items, file, dropped>>
    BY <1>19, Returns DEF UpdateMtime, openVars, diskVars
  <2>2. pc[t] \in HoldsMtime /\ mtimeHolder = t /\ Has(items, loc[t].new)
        /\ Has(Entries(file), loc[t].new)
    BY <1>0, <2>1 DEF TaskAcked, HoldsMtime, DumpLabels, Edited
  <2>3. \A u \in Tasks \ {t} : TaskAcked(u)'
    BY <1>0, <1>2, <2>1, <2>2, OthersAcked DEF AckedInv, Ends
  <2>4. Has(Entries(file), acked)'
    BY <2>1, <2>2 DEF AckedInv, Has, Entries
  <2>5. mode # "down" /\ hasPath /\ (\A u \in Tasks : ~Rebuilds(u)') => Has(items, acked)
    BY <2>1 DEF AckedInv, Ends, Others, Rebuilds
  <2>6. TaskAcked(t)'
    BY <1>3, <2>1
  <2> QED
    BY <2>1, <2>2, <2>3, <2>4, <2>5, <2>6 DEF AckedInv, Has
<1> QED
  BY <1>4, <1>5, <1>6, <1>7, <1>8, <1>9, <1>10, <1>11, <1>12, <1>13, <1>14, <1>15, <1>16, <1>17,
     <1>18, <1>19 DEF Step, Change, Dump

\* A value is installed, or the process stops: no task is left at work.
LEMMA IdleAcked ==
  ASSUME Idle', \A t \in Tasks : loc'[t].op \in {"write", "change"} => loc'[t].new = {},
         Has(Entries(file), acked)', mode' # "down" /\ hasPath' => Has(items, acked)'
  PROVE  AckedInv'
BY DEF AckedInv, TaskAcked, Idle, Rebuilds, Edited, Dumps, HoldsMtime, DumpLabels

LEMMA NextAcked ==
  ASSUME OneWriter, WeakSecrets = {}
  PROVE  TypeInv /\ KeyInv /\ OneKeyInv /\ AckedInv /\ [Next]_vars => AckedInv'
<1> SUFFICES ASSUME TypeInv, KeyInv, OneKeyInv, AckedInv, [Next]_vars PROVE AckedInv'
  OBVIOUS
<1>0. /\ Has(Entries(file), acked)
      /\ \A t \in Tasks : loc[t].op \in {"write", "change"} => loc[t].new = {}
  BY DEF AckedInv, TaskAcked
<1>1. ASSUME NEW t \in Tasks, Step(t) \/ IoError(t) \/ \E o \in Op : Call(t, o) PROVE AckedInv'
  BY <1>1, StepAcked
<1>2. CASE Ownership
  <2>1. /\ UNCHANGED <<file, pc, loc, acked>> /\ Idle
        /\ UNCHANGED dropped \/ (Refused /\ Withdraw(file) /\ mode' = "down")
    BY <1>2 DEF Ownership, Load, Unlock, UnlockUnchecked, UnlockUnencrypted, Lock, Open, Temporary,
                Refused, Install, diskVars, KeyInv
  <2>2. Idle => (mode # "down" /\ hasPath => Has(items, acked))
    BY DEF AckedInv, Idle, Rebuilds
  <2>3. mode' # "down" /\ hasPath' => Has(items', acked)
    <3>1. CASE Load
      BY <1>0, <3>1, UnlockedKeyringAssumption DEF Load, NewKeyring, Entries
    <3>2. CASE Open
      <4>1. acked \ dropped = {}
        BY <1>0, <3>2 DEF Open, Entries, Has, ItemsOf
      <4> QED
        BY <4>1 DEF Has
    <3>3. CASE Temporary \/ Refused
      BY <3>3 DEF Temporary, Refused, Install
    <3>4. CASE Unlock \/ UnlockUnchecked \/ UnlockUnencrypted \/ Lock
      <4>1. \/ Refused
            \/ mode # "down" /\ UNCHANGED <<hasPath, items>>
        BY <3>4 DEF Unlock, UnlockUnchecked, UnlockUnencrypted, Lock, Install
      <4> QED
        BY <2>1, <2>2, <3>3, <4>1 DEF Has
    <3> QED
      BY <1>2, <3>1, <3>2, <3>3, <3>4 DEF Ownership
  <2>4. Has(Entries(file), acked)' /\ (mode' # "down" /\ hasPath' => Has(items, acked)')
    BY <1>0, <2>1, <2>3 DEF Has, Entries, Withdraw
  <2>5. Idle' /\ \A t \in Tasks : loc'[t].op \in {"write", "change"} => loc'[t].new = {}
    BY <1>0, <2>1 DEF Idle
  <2> QED
    BY <2>4, <2>5, IdleAcked
<1>3. CASE Crash \/ PowerLoss
  <2>1. Stop /\ mode' = "down"
    BY <1>3 DEF Crash, PowerLoss, Stop
  <2>2. Idle' /\ \A t \in Tasks : loc'[t].new = {}
    BY <2>1 DEF Stop, Idle, Blank
  <2>3. Has(Entries(file), acked)'
    <3>1. CASE Crash
      BY <1>0, <2>1, <3>1 DEF Crash, Has, Entries, Withdraw
    <3>2. CASE PowerLoss
      BY <2>1, <3>2 DEF PowerLoss, Has
    <3> QED
      BY <1>3, <3>1, <3>2
  <2> QED
    BY <2>1, <2>2, <2>3, IdleAcked
<1>4. CASE Flush \/ Closed \/ UNCHANGED vars
  <2>1. UNCHANGED <<mode, hasPath, items, file, acked, dropped, mtimeHolder, pc, loc>>
    BY <1>4 DEF Flush, Closed, vars, openVars, ghostVars, mtimeVars
  <2> QED
    BY <2>1 DEF AckedInv, TaskAcked, Has, Entries, Rebuilds, Edited, Dumps, HoldsMtime, DumpLabels
<1>5. ~ExternalWrite
  BY DEF ExternalWrite, Spend, OneKeyInv
<1> QED
  BY <1>1, <1>2, <1>3, <1>4, <1>5 DEF Next, Environment

\* Every interleaving of calls, failure of a file-system call and crash leaves the items that
\* were there and those of the calls that answered Ok in the file, until a call removes them:
\* change_secret included, which empties the keyring in memory before it fills it again, as
\* long as no secret is too weak to encrypt with.
THEOREM AckedItemsInFile ==
  ASSUME OneWriter, WeakSecrets = {}
  PROVE  Spec => []AckedItemsStay
<1>1. Init => AckedInv
  <2> SUFFICES ASSUME Init PROVE AckedInv
    OBVIOUS
  <2>1. \A t \in Tasks : pc[t] = "idle" /\ loc[t].op = "none"
    BY DEF Init, Blank
  <2> QED
    BY <2>1 DEF Init, AckedInv, TaskAcked, Has, Rebuilds, Edited, Dumps, HoldsMtime, DumpLabels
<1>2. AckedInv => AckedItemsStay
  BY DEF AckedInv, Has, AckedItemsStay
<1> QED
  BY <1>1, <1>2, OneKeyInvariant, NextAcked, PTL DEF Spec

-----------------------------------------------------------------------------
(* KeyringStore *)

\* No other process writes the file, a task that changes the secret is the only one, and what
\* it changes to is long enough to encrypt with.
Undisturbed ==
  /\ Budget["external"] = 0 /\ ChangesAlone
  /\ (\E t \in Tasks : "change" \in OpsOf[t]) => WeakSecrets = {}

\* change_secret keeps the items in its own memory.
Rekeys(t) == loc[t].ret = "reencrypt" /\ pc[t] \in {"secret", "key", "kdf", "reencrypt"}

TaskStored(t) ==
  /\ pc[t] \in {"tmp", "sync", "check", "rename"} => writer = t
  /\ pc[t] \in DumpLabels => hasPath
  /\ pc[t] \in Dumps => loc[t].tmp.entries = items
  /\ pc[t] = "read" => loc[t].op \in {"search", "peek"}
  /\ pc[t] \in {"secret", "key", "kdf"} => loc[t].ret # "idle"
  /\ pc[t] \in {"secret", "key", "kdf"} /\ loc[t].ret = "read" => loc[t].op = "search"
  /\ pc[t] \in {"mtime", "keyring"} \cup DumpLabels => loc[t].op \notin {"search", "peek"}
  /\ pc[t] = "snapshot" => loc[t].ret = "decrypt"
  /\ pc[t] = "reencrypt" => loc[t].ret = "reencrypt"
  /\ Rekeys(t) => items = {}
  /\ pc[t] \in {"setSecret", "unsetKey", "reset"} => ItemsOf(items) = loc[t].snap

\* A dump writes what is in memory: its lock keeps the items as they are until the rename.
StoreInv == budget["external"] = 0 /\ \A t \in Tasks : TaskStored(t)

\* A task that edits waits for the lock, so that no other is between its tmp and its rename.
LEMMA StoredKept ==
  ASSUME ChangesAlone, KeyInv, StoreInv, NEW t \in Tasks, Others(t),
         UNCHANGED hasPath, budget'["external"] = budget["external"],
         UNCHANGED writer \/ writer \in {t, NoTask},
         UNCHANGED items \/ writer = NoTask,
         TaskStored(t)'
  PROVE  StoreInv'
<1>1. ASSUME NEW u \in Tasks \ {t} PROVE TaskStored(u)'
  <2>1. UNCHANGED <<pc[u], loc[u]>> /\ TaskStored(u)
    BY DEF Others, StoreInv
  <2>2. ~Rekeys(u) /\ pc[u] \notin {"setSecret", "unsetKey", "reset"}
    <3>1. Rekeys(u) => "change" \in OpsOf[u]
      BY DEF Rekeys, KeyInv, KeyTask
    <3> QED BY <3>1, Alone DEF ChangesAlone
  <2>3. pc[u] \in {"tmp", "sync", "check", "rename"} => UNCHANGED <<writer, items>>
    BY <2>1, UnlockedKeyringAssumption DEF TaskStored
  <2> QED
    BY <2>1, <2>2, <2>3 DEF TaskStored, Rekeys, Dumps, DumpLabels
<1> QED
  BY <1>1 DEF StoreInv

LEMMA StepStored ==
  ASSUME ChangesAlone, TypeInv, KeyInv, StoreInv, NEW t \in Tasks,
         Step(t) \/ IoError(t) \/ \E o \in Op : Call(t, o)
  PROVE  StoreInv'
<1> USE DEF Dumps, DumpLabels
<1>0. KeyTask(t) /\ TaskStored(t) /\ TypeOK
  BY DEF KeyInv, StoreInv, TypeInv
<1>1. ASSUME UNCHANGED <<hasPath, writer, items, budget>>, Others(t), TaskStored(t)' PROVE StoreInv'
  BY <1>1, StoredKept
<1>2. Ends(t) => TaskStored(t)'
  BY DEF Ends, TaskStored, Rekeys
<1>3. CASE Read(t) \/ UpdateMtime(t) \/ IoError(t)
  <2>1. Ends(t) /\ UNCHANGED <<hasPath, items>> /\ (UNCHANGED writer \/ writer \in {t, NoTask})
    BY <1>3, Returns DEF Read, UpdateMtime, IoError, Abort, FreeWriter, openVars
  <2>2. budget'["external"] = budget["external"]
    BY <1>0, <1>3 DEF Read, UpdateMtime, IoError, Spend, TypeOK, BudgetKinds
  <2> QED BY <1>2, <2>1, <2>2, StoredKept DEF Ends
<1>4. ASSUME NEW o \in Op, Call(t, o) PROVE StoreInv'
  <2>1. /\ pc[t] = "idle" /\ Others(t) /\ pc'[t] = FirstLabel(o)
        /\ loc'[t].op = o /\ loc'[t].ret = AfterKey(o)
    BY <1>4, CallMoves
  <2>2. UNCHANGED <<hasPath, writer, items>> /\ budget'["external"] = budget["external"]
    BY <1>0, <1>4 DEF Call, openVars, rwVars, Spend, TypeOK, BudgetKinds
  <2>3. TaskStored(t)'
    BY <2>1 DEF TaskStored, Rekeys, FirstLabel, AfterKey, Op
  <2> QED BY <2>1, <2>2, <2>3, StoredKept
<1>5. CASE Enqueue(t)
  <2>1. UNCHANGED <<hasPath, writer, items, budget, pc, loc>>
    BY <1>5 DEF Enqueue, openVars
  <2> QED BY <1>0, <2>1 DEF StoreInv, TaskStored, Rekeys
<1>6. CASE CloneSecret(t) \/ LockKey(t) \/ DeriveKey(t)
  <2>1. UNCHANGED <<hasPath, writer, items, budget>>
    BY <1>6 DEF CloneSecret, LockKey, DeriveKey, openVars, rwVars
  <2>2. SameCall(t) /\ pc[t] \in {"secret", "key", "kdf"} /\ pc'[t] \in {loc[t].ret, "key", "kdf"}
    BY <1>6, CloneSecretMoves, LockKeyMoves, DeriveKeyMoves
  <2>3. loc[t].ret \in {"idle", "read", "edit", "decrypt", "mtime", "reencrypt"}
    BY <1>0 DEF TypeOK, Local
  <2>4. TaskStored(t)'
    BY <1>0, <2>1, <2>2, <2>3 DEF KeyTask, SameCall, TaskStored, Rekeys
  <2> QED BY <1>1, <2>1, <2>2, <2>4 DEF SameCall
<1>7. CASE Edits(t)
  <2>1. /\ writer = NoTask /\ UNCHANGED <<hasPath, writer, budget>>
        /\ loc[t].op \notin {"search", "peek"}
    BY <1>7 DEF Edits, CreateItem, Delete, ReplaceItemIndex, DeleteItemIndex, DeleteBrokenItems,
                Edit, CanWrite, openVars
  <2>2. Goes(t, "mtime") \/ Ends(t)
    BY <1>7, EditsMove
  <2>3. TaskStored(t)'
    BY <1>2, <2>1, <2>2 DEF Goes, TaskStored, Rekeys
  <2> QED BY <2>1, <2>2, <2>3, StoredKept DEF Goes, Ends
<1>8. CASE Snapshot(t) \/ SetSecret(t) \/ UnsetKey(t) \/ Decrypt(t)
  <2>1. UNCHANGED <<hasPath, writer, items, budget>>
    BY <1>8 DEF Snapshot, SetSecret, UnsetKey, Decrypt, openVars, rwVars
  <2>2. CASE Snapshot(t)
    <3>1. Goes(t, "secret") /\ pc[t] = "snapshot"
      BY <2>2, Goings DEF Snapshot
    <3>2. TaskStored(t)'
      BY <1>0, <2>1, <3>1 DEF Goes, TaskStored, Rekeys
    <3> QED BY <1>1, <2>1, <3>1, <3>2 DEF Goes
  <2>3. CASE SetSecret(t) \/ UnsetKey(t)
    <3>1. \/ Goes(t, "unsetKey") /\ pc[t] = "setSecret"
          \/ Goes(t, "reset") /\ pc[t] = "unsetKey"
      BY <2>3, Goings DEF SetSecret, UnsetKey
    <3>2. TaskStored(t)'
      BY <1>0, <2>1, <3>1 DEF Goes, TaskStored, Rekeys
    <3> QED BY <1>1, <2>1, <3>1, <3>2 DEF Goes
  <2>4. CASE Decrypt(t)
    <3>1. \/ Ends(t)
          \/ Others(t) /\ pc'[t] = "setSecret" /\ loc'[t].snap = ItemsOf(items)
      BY <2>4, DecryptMoves
    <3>2. TaskStored(t)'
      BY <1>2, <2>1, <3>1 DEF TaskStored, Rekeys
    <3> QED BY <1>1, <2>1, <3>1, <3>2 DEF Ends
  <2> QED BY <1>8, <2>2, <2>3, <2>4
<1>9. CASE Reset(t)
  <2>1. writer = NoTask /\ UNCHANGED <<hasPath, writer, budget>> /\ items' = {}
    BY <1>9 DEF Reset, CanWrite, openVars
  <2>2. Others(t) /\ pc'[t] = "secret" /\ loc'[t].ret = "reencrypt"
    BY <1>9, ResetMoves
  <2>3. TaskStored(t)'
    BY <2>1, <2>2 DEF TaskStored, Rekeys
  <2> QED BY <2>1, <2>2, <2>3, StoredKept
<1>10. CASE Reencrypt(t)
  <2>1. writer = NoTask /\ UNCHANGED <<hasPath, writer, budget>> /\ pc[t] = "reencrypt"
    BY <1>10 DEF Reencrypt, CanWrite, openVars
  <2>2. Ends(t) \/ Goes(t, "mtime")
    BY <1>10, Goings, Returns DEF Reencrypt
  <2>3. TaskStored(t)'
    BY <1>0, <1>2, <2>1, <2>2 DEF Goes, KeyTask, TaskStored, Rekeys
  <2> QED BY <2>1, <2>2, <2>3, StoredKept DEF Goes, Ends
<1>11. CASE LockMtime(t)
  <2>1. Goes(t, "keyring") /\ pc[t] = "mtime" /\ UNCHANGED <<hasPath, writer, items, budget>>
    BY <1>11, Goings DEF LockMtime, openVars, rwVars
  <2>2. TaskStored(t)'
    BY <1>0, <2>1 DEF Goes, TaskStored, Rekeys
  <2> QED BY <1>1, <2>1, <2>2 DEF Goes
<1>12. CASE LockKeyring(t) \/ CreateItems(t)
  <2>1. writer = NoTask /\ UNCHANGED <<hasPath, budget>> /\ pc[t] = "keyring"
    BY <1>12 DEF LockKeyring, CreateItems, CanWrite, openVars
  <2>2. Ends(t) \/ (Goes(t, "tmp") /\ hasPath)
    BY <1>12, LockKeyringMoves, CreateItemsMove DEF Starts
  <2>3. Goes(t, "tmp") => writer' = t
    BY <1>0, <1>12 DEF LockKeyring, CreateItems, StartDump, Return, Goes, TypeOK
  <2>4. TaskStored(t)'
    BY <1>0, <1>2, <2>1, <2>2, <2>3 DEF Goes, TaskStored, Rekeys
  <2> QED BY <2>1, <2>2, <2>4, StoredKept DEF Goes, Ends
<1>13. CASE WriteTmp(t)
  <2>1. /\ pc[t] = "tmp" /\ pc'[t] = "sync" /\ Others(t) /\ loc'[t].tmp.entries = items
        /\ loc'[t].op = loc[t].op /\ UNCHANGED <<hasPath, writer, items, budget>>
    BY <1>13, WriteTmpMoves DEF WriteTmp, openVars, rwVars
  <2>2. TaskStored(t)'
    BY <1>0, <2>1 DEF TaskStored, Rekeys
  <2> QED BY <1>1, <2>1, <2>2
<1>14. CASE SyncAll(t)
  <2>1. /\ pc[t] = "sync" /\ pc'[t] = "check" /\ Others(t)
        /\ loc'[t].tmp.entries = loc[t].tmp.entries
        /\ loc'[t].op = loc[t].op /\ UNCHANGED <<hasPath, writer, items, budget>>
    BY <1>14, SyncAllMoves DEF SyncAll, openVars, rwVars
  <2>2. TaskStored(t)'
    BY <1>0, <2>1 DEF TaskStored, Rekeys
  <2> QED BY <1>1, <2>1, <2>2
<1>15. CASE CheckTarget(t) \/ Rename(t)
  <2>1. /\ UNCHANGED <<hasPath, items, budget>>
        /\ \/ Ends(t)
           \/ Goes(t, "rename") /\ pc[t] = "check" /\ UNCHANGED writer
           \/ Goes(t, "stat") /\ pc[t] = "rename"
        /\ UNCHANGED writer \/ writer \in {t, NoTask} \/ pc[t] = "rename"
    BY <1>15, Goings, Returns DEF CheckTarget, Rename, Abort, FreeWriter, openVars, rwVars
  <2>2. TaskStored(t)'
    BY <1>0, <1>2, <2>1 DEF Goes, TaskStored, Rekeys
  <2>3. pc[t] = "rename" => writer = t
    BY <1>0 DEF TaskStored
  <2> QED BY <2>1, <2>2, <2>3, StoredKept DEF Goes, Ends
<1> QED
  BY <1>3, <1>4, <1>5, <1>6, <1>7, <1>8, <1>9, <1>10, <1>11, <1>12, <1>13, <1>14, <1>15
     DEF Step, Change, Dump

LEMMA NextStored ==
  ASSUME ChangesAlone
  PROVE  TypeInv /\ KeyInv /\ StoreInv /\ [Next]_vars => StoreInv'
<1> SUFFICES ASSUME TypeInv, KeyInv, StoreInv, [Next]_vars PROVE StoreInv'
  OBVIOUS
<1>1. ASSUME NEW t \in Tasks, Step(t) \/ IoError(t) \/ \E o \in Op : Call(t, o) PROVE StoreInv'
  BY <1>1, StepStored
<1>2. ASSUME Idle', budget'["external"] = budget["external"] PROVE StoreInv'
  BY <1>2 DEF StoreInv, TaskStored, Idle, Rekeys, Dumps, DumpLabels
<1>3. \A k \in {"new", "crash"} : Spend(k) => budget'["external"] = budget["external"]
  BY DEF Spend, TypeInv, TypeOK, BudgetKinds
<1>4. CASE Ownership
  <2>1. Idle' /\ (UNCHANGED budget \/ Spend("new"))
    BY <1>4 DEF Ownership, Load, Unlock, UnlockUnchecked, UnlockUnencrypted, Lock, Open, Temporary,
                Refused, Install, NewKeyring, Idle, KeyInv
  <2> QED BY <1>2, <1>3, <2>1
<1>5. CASE Crash \/ PowerLoss
  <2>1. Idle' /\ Spend("crash")
    BY <1>5 DEF Crash, PowerLoss, Stop, Idle
  <2> QED BY <1>2, <1>3, <2>1
<1>6. CASE Flush \/ Closed \/ UNCHANGED vars
  <2>1. UNCHANGED <<hasPath, writer, items, budget, pc, loc>>
    BY <1>6 DEF Flush, Closed, vars, openVars, rwVars
  <2> QED BY <2>1 DEF StoreInv, TaskStored, Rekeys, Dumps
<1>7. ~ExternalWrite
  BY DEF ExternalWrite, Spend, StoreInv
<1> QED
  BY <1>1, <1>4, <1>5, <1>6, <1>7 DEF Next, Environment

-----------------------------------------------------------------------------
(* The steps of KeyringStore *)

Phases == [t \in Tasks |-> StorePhase(t)]

Answers == [t \in Tasks |-> loc[t].res]

Kept == mode # "down" /\ hasPath

LEMMA PhaseMoves ==
  ASSUME NEW t \in Tasks, Others(t)
  PROVE  /\ Phases' = [Phases EXCEPT ![t] = StorePhase(t)']
         /\ Answers' = [Answers EXCEPT ![t] = loc'[t].res]
         /\ Phases[t] = StorePhase(t)
<1>1. \A u \in Tasks \ {t} : StorePhase(u)' = StorePhase(u) /\ loc'[u].res = loc[u].res
  BY DEF Others, StorePhase, DumpLabels
<1> QED
  BY <1>1 DEF Phases, Answers

LEMMA SavedStays ==
  ASSUME UNCHANGED <<file, flushed>>
  PROVE  UNCHANGED <<ItemsOf(Entries(file)), ItemsOf(Entries(flushed))>>
BY DEF Entries

LEMMA StoreMemType == TypeInv => StoreMem \in SUBSET Items
BY DEF StoreMem, ItemsOf, Entries, Rekeying, TypeInv, TypeOK, File, KeyringFile, Entry, Local

LEMMA StoreMemTypeNext == TypeInv' => (StoreMem \in SUBSET Items)'
BY StoreMemType, PTL

\* Where no task is inside a change of the secret, the memory is the list of items.
MemIsItems ==
  \A t \in Tasks : ChangesAlone /\ KeyInv /\ mode # "down" =>
    StoreMem = ItemsOf(items) \cup (IF Rekeys(t) THEN loc[t].snap ELSE {})

LEMMA MemIs == MemIsItems
<1> SUFFICES ASSUME NEW t \in Tasks, ChangesAlone, KeyInv, mode # "down"
             PROVE  StoreMem = ItemsOf(items) \cup (IF Rekeys(t) THEN loc[t].snap ELSE {})
  BY DEF MemIsItems
<1>1. ASSUME NEW u \in Rekeying PROVE u = t
  <2>1. "change" \in OpsOf[u]
    BY <1>1 DEF Rekeying, KeyInv, KeyTask
  <2> QED BY <1>1, <2>1 DEF ChangesAlone, Rekeying
<1>2. t \in Rekeying <=> Rekeys(t)
  BY DEF Rekeying, Rekeys
<1> QED
  BY <1>1, <1>2 DEF StoreMem

LEMMA MemIsNext == MemIsItems'
BY MemIs, PTL

LEMMA MemStays ==
  ASSUME NEW t \in Tasks, Others(t), UNCHANGED <<mode, file, items>>,
         Rekeys(t)' <=> Rekeys(t), Rekeys(t) => loc'[t].snap = loc[t].snap
  PROVE  UNCHANGED StoreMem
<1>1. Rekeying' = Rekeying /\ \A u \in Rekeying : loc'[u].snap = loc[u].snap
  BY DEF Rekeying, Rekeys, Others
<1> QED
  BY <1>1 DEF StoreMem, Entries

LEMMA Stutters ==
  ASSUME NEW t \in Tasks, Others(t), UNCHANGED <<mode, hasPath, file, flushed>>,
         UNCHANGED StoreMem, StorePhase(t)' = StorePhase(t), loc'[t].res = loc[t].res
  PROVE  UNCHANGED Store!vars
<1>1. Phases' = Phases /\ Answers' = Answers
  BY PhaseMoves DEF Phases, Answers
<1>2. Kept' = Kept
  BY DEF Kept
<1> QED
  BY <1>1, <1>2, SavedStays DEF Store!vars, Phases, Answers, Kept

\* A call that ends has told its caller what became of it.
LEMMA Endings ==
  ASSUME TypeInv, NEW t \in Tasks, NEW r, Return(t, r), UNCHANGED <<mode, hasPath, file, flushed>>
  PROVE  Store!End(t, r)
<1>1. Others(t) /\ pc'[t] = "idle" /\ loc'[t].res = r
  BY Returns DEF Ends, Return, Blank, TypeInv, TypeOK
<1>2. StorePhase(t)' = "idle"
  BY <1>1 DEF StorePhase
<1>3. /\ Phases' = [Phases EXCEPT ![t] = "idle"]
      /\ Answers' = [Answers EXCEPT ![t] = r]
  BY <1>1, <1>2, PhaseMoves
<1>4. Kept' = Kept
  BY DEF Kept
<1> QED
  BY <1>3, <1>4, SavedStays DEF Store!End, Phases, Answers, Kept

LEMMA Failures ==
  ASSUME TypeInv, TypeInv', NEW t \in Tasks, pc[t] # "idle",
         NEW r \in {"err", "TargetFileChanged"}, Return(t, r),
         UNCHANGED <<mode, hasPath, file, flushed>>,
         UNCHANGED StoreMem \/ StorePhase(t) = "editing"
  PROVE  Store!Next
<1>1. Store!End(t, r)
  BY Endings
<1>2. StoreMem' \in SUBSET Items
  BY StoreMemTypeNext
<1>3. Phases[t] = StorePhase(t) /\ StorePhase(t) # "idle"
  BY DEF Phases, StorePhase
<1>4. Store!Fail(t)
  BY <1>1, <1>2, <1>3 DEF Store!Fail, Phases
<1> QED
  BY <1>4 DEF Store!Next

LEMMA Successes ==
  ASSUME TypeInv, TypeInv', NEW t \in Tasks, Return(t, "ok"),
         UNCHANGED <<mode, hasPath, file, flushed>>,
         \/ StorePhase(t) \in {"reading", "saved"} /\ UNCHANGED StoreMem
         \/ ~hasPath /\ StorePhase(t) \in {"unsaved", "keeping"} /\ UNCHANGED StoreMem
         \/ ~hasPath /\ StorePhase(t) = "editing"
  PROVE  Store!Next
<1>1. Store!End(t, "ok")
  BY Endings
<1>2. StoreMem' \in SUBSET Items
  BY StoreMemTypeNext
<1>3. Phases[t] = StorePhase(t)
  BY DEF Phases
<1>4. Store!Succeed(t)
  BY <1>1, <1>2, <1>3 DEF Store!Succeed, Phases
<1> QED
  BY <1>4 DEF Store!Next

LEMMA EditsOfTheStore ==
  ASSUME TypeInv, TypeInv', NEW t \in Tasks, Others(t), loc'[t] = loc[t],
         StorePhase(t) = "editing", StorePhase(t)' = "unsaved",
         UNCHANGED <<mode, hasPath, file, flushed>>
  PROVE  Store!Next
<1>1. /\ Phases' = [Phases EXCEPT ![t] = "unsaved"] /\ Phases[t] = "editing"
      /\ Answers' = Answers
  BY PhaseMoves DEF Answers
<1>2. StoreMem' \in SUBSET Items
  BY StoreMemTypeNext
<1>3. Kept' = Kept
  BY DEF Kept
<1>4. Store!Edit(t)
  BY <1>1, <1>2, <1>3, SavedStays DEF Store!Edit, Phases, Answers, Kept
<1> QED
  BY <1>4 DEF Store!Next

StoreStep == Store!Next \/ UNCHANGED Store!vars

LEMMA StepImplements ==
  ASSUME Undisturbed, TypeInv, TypeInv', KeyInv, KeyInv', StoreInv, NEW t \in Tasks,
         Step(t) \/ IoError(t) \/ \E o \in Op : Call(t, o)
  PROVE  StoreStep
<1>0. /\ ChangesAlone /\ KeyTask(t) /\ TaskStored(t)
      /\ (pc[t] # "idle" => mode = "unlocked")
      /\ loc[t] \in Local /\ loc \in [Tasks -> Local] /\ pc \in [Tasks -> Labels]
  BY DEF Undisturbed, KeyInv, StoreInv, TypeInv, TypeOK, Idle
<1>1. CASE Read(t)
  <2>1. /\ pc[t] = "read" /\ (Return(t, "ok") \/ Return(t, "err"))
        /\ UNCHANGED <<mode, hasPath, items, file, flushed>>
    BY <1>1 DEF Read, openVars, diskVars
  <2>2. StorePhase(t) = "reading"
    BY <1>0, <2>1 DEF StorePhase, TaskStored
  <2>3. UNCHANGED StoreMem
    <3>1. Others(t) /\ ~Rekeys(t) /\ ~Rekeys(t)'
      BY <2>1, Returns DEF Ends, Rekeys
    <3> QED BY <2>1, <3>1, MemStays
  <2> QED BY <2>1, <2>2, <2>3, Failures, Successes DEF StoreStep
<1>2. CASE UpdateMtime(t)
  <2>1. /\ pc[t] = "stat" /\ Return(t, "ok") 
        /\ UNCHANGED <<mode, hasPath, items, file, flushed>>
    BY <1>2 DEF UpdateMtime, openVars, diskVars
  <2>2. StorePhase(t) = "saved"
    BY <2>1 DEF StorePhase
  <2>3. UNCHANGED StoreMem
    <3>1. Others(t) /\ ~Rekeys(t) /\ ~Rekeys(t)'
      BY <2>1, Returns DEF Ends, Rekeys
    <3> QED BY <2>1, <3>1, MemStays
  <2> QED BY <2>1, <2>2, <2>3, Successes DEF StoreStep
<1>3. ASSUME NEW r \in {"err", "TargetFileChanged"}, Abort(t, r), pc[t] \in DumpLabels PROVE StoreStep
  <2>1. Return(t, r) /\ UNCHANGED <<mode, hasPath, items, file, flushed>>
    BY <1>3 DEF Abort, openVars, diskVars
  <2>2. UNCHANGED StoreMem
    <3>1. Others(t) /\ ~Rekeys(t) /\ ~Rekeys(t)'
      BY <1>3, <2>1, Returns DEF Ends, Rekeys, DumpLabels
    <3> QED BY <2>1, <3>1, MemStays
  <2>3. pc[t] # "idle"
    BY <1>3 DEF DumpLabels
  <2> QED BY <2>1, <2>2, <2>3, Failures DEF StoreStep
<1>4. CASE IoError(t)
  BY <1>3, <1>4, UnlockedKeyringAssumption DEF IoError
<1>5. ASSUME NEW o \in Op, Call(t, o) PROVE StoreStep
  <2>1. /\ pc[t] = "idle" /\ Others(t) /\ pc'[t] = FirstLabel(o)
        /\ loc'[t].op = o /\ loc'[t].ret = AfterKey(o)
        /\ UNCHANGED <<mode, hasPath, items, file, flushed>>
    <3>1. UNCHANGED <<mode, hasPath, items, file, flushed>>
      BY <1>5 DEF Call, openVars, diskVars
    <3> QED BY <1>5, <3>1, CallMoves
  <2>2. loc'[t].res = "none"
    <3>1. PICK new \in SUBSET Fresh :
            loc' = [loc EXCEPT ![t] = [Blank("none") EXCEPT !.op = o, !.ret = AfterKey(o),
                                                            !.new = new]]
      BY <1>5 DEF Call
    <3>2. PICK l : l = [Blank("none") EXCEPT !.op = o, !.ret = AfterKey(o), !.new = new]
      OBVIOUS
    <3>3. l.res = "none"
      BY <3>2 DEF Blank
    <3> QED BY <1>0, <3>1, <3>2, <3>3
  <2>3. StorePhase(t)' \in {"reading", "editing", "keeping"} /\ StorePhase(t) = "idle"
    BY <2>1 DEF StorePhase, FirstLabel, DumpLabels, Op
  <2>4. UNCHANGED StoreMem
    <3>1. ~Rekeys(t) /\ ~Rekeys(t)'
      BY <2>1 DEF Rekeys, AfterKey
    <3> QED BY <2>1, <3>1, MemStays
  <2>5. /\ Phases[t] = "idle" /\ Phases' = [Phases EXCEPT ![t] = StorePhase(t)']
        /\ Answers' = [Answers EXCEPT ![t] = "none"]
    BY <2>1, <2>2, <2>3, PhaseMoves
  <2>6. Kept' = Kept
    BY <2>1 DEF Kept
  <2>7. Store!Begin(t)
    BY <2>1, <2>3, <2>4, <2>5, <2>6, SavedStays DEF Store!Begin, Phases, Answers, Kept
  <2> QED BY <2>7 DEF StoreStep, Store!Next
<1>6. CASE Enqueue(t)
  <2>1. UNCHANGED <<mode, hasPath, items, file, flushed, pc, loc>>
    BY <1>6 DEF Enqueue, openVars, diskVars
  <2>2. Others(t) /\ StorePhase(t)' = StorePhase(t) /\ (Rekeys(t)' <=> Rekeys(t))
    BY <2>1 DEF Others, StorePhase, Rekeys
  <2> QED BY <2>1, <2>2, MemStays, Stutters DEF StoreStep
<1>7. CASE CloneSecret(t) \/ LockKey(t) \/ DeriveKey(t)
  <2>1. UNCHANGED <<mode, hasPath, items, file, flushed>>
    BY <1>7 DEF CloneSecret, LockKey, DeriveKey, openVars, diskVars
  <2>2. /\ SameCall(t) /\ pc[t] \in {"secret", "key", "kdf"}
        /\ pc'[t] \in {loc[t].ret, "key", "kdf"}
    BY <1>7, CloneSecretMoves, LockKeyMoves, DeriveKeyMoves
  <2>3. loc'[t].res = loc[t].res
    <3>1. CASE CloneSecret(t)
      BY <1>0, <3>1 DEF CloneSecret, Local
    <3>2. CASE LockKey(t)
      BY <1>0, <3>2 DEF LockKey, Local, Goto
    <3>3. CASE DeriveKey(t)
      BY <1>0, <3>3 DEF DeriveKey, Local
    <3> QED BY <1>7, <3>1, <3>2, <3>3
  <2>4. loc[t].ret \in {"read", "edit", "decrypt", "mtime", "reencrypt"}
    BY <1>0, <2>2 DEF Local, TaskStored
  <2>5. StorePhase(t)' = StorePhase(t)
    BY <1>0, <2>2, <2>4 DEF StorePhase, SameCall, KeyTask, TaskStored, DumpLabels
  <2>6. Rekeys(t)' <=> Rekeys(t)
    BY <1>0, <2>2, <2>4 DEF Rekeys, SameCall
  <2> QED BY <2>1, <2>2, <2>3, <2>5, <2>6, MemStays, Stutters DEF StoreStep, SameCall
<1>8. CASE Edits(t)
  <2>1. /\ pc[t] = "edit" /\ UNCHANGED <<mode, hasPath, file, flushed>>
        /\ loc[t].op \notin {"search", "peek", "write", "change", "bulk"}
        /\ (Goto(t, "mtime") \/ Return(t, "err"))
    BY <1>8 DEF Edits, CreateItem, Delete, ReplaceItemIndex, DeleteItemIndex, DeleteBrokenItems,
                Edit, openVars, diskVars
  <2>2. StorePhase(t) = "editing"
    BY <2>1 DEF StorePhase, DumpLabels
  <2>3. CASE Goto(t, "mtime")
    <3>1. Goes(t, "mtime")
      BY <2>3, Goings
    <3>2. StorePhase(t)' = "unsaved"
      BY <2>1, <3>1 DEF Goes, StorePhase
    <3> QED BY <2>1, <2>2, <3>1, <3>2, EditsOfTheStore DEF Goes, StoreStep
  <2>4. CASE Return(t, "err")
    BY <2>1, <2>2, <2>4, Failures DEF StoreStep
  <2> QED BY <2>1, <2>3, <2>4
<1>9. CASE Snapshot(t) \/ SetSecret(t) \/ UnsetKey(t)
  <2>1. UNCHANGED <<mode, hasPath, items, file, flushed>>
    BY <1>9 DEF Snapshot, SetSecret, UnsetKey, openVars, diskVars
  <2>2. \/ Goes(t, "secret") /\ pc[t] = "snapshot"
        \/ Goes(t, "unsetKey") /\ pc[t] = "setSecret"
        \/ Goes(t, "reset") /\ pc[t] = "unsetKey"
    BY <1>9, Goings DEF Snapshot, SetSecret, UnsetKey
  <2>3. StorePhase(t)' = StorePhase(t) /\ loc[t].op = "change"
    BY <1>0, <2>2 DEF Goes, StorePhase, KeyTask
  <2>4. ~Rekeys(t) /\ ~Rekeys(t)'
    BY <1>0, <2>2 DEF Goes, Rekeys, TaskStored
  <2> QED BY <2>1, <2>2, <2>3, <2>4, MemStays, Stutters DEF Goes, StoreStep
<1>10. CASE Decrypt(t)
  <2>1. /\ pc[t] = "decrypt" /\ loc[t].op = "change"
        /\ UNCHANGED <<mode, hasPath, items, file, flushed>>
    BY <1>0, <1>10 DEF Decrypt, KeyTask, openVars, diskVars
  <2>2. CASE Return(t, "err")
    <3>1. Others(t) /\ ~Rekeys(t) /\ ~Rekeys(t)'
      BY <2>1, <2>2, Returns DEF Ends, Rekeys
    <3> QED BY <2>1, <2>2, <3>1, MemStays, Failures DEF StoreStep
  <2>3. CASE ~Return(t, "err")
    <3>1. /\ Others(t) /\ pc'[t] = "setSecret" /\ loc'[t].op = "change"
          /\ loc'[t].res = loc[t].res
      <4>1. pc' = [pc EXCEPT ![t] = "setSecret"] /\ loc' = [loc EXCEPT ![t].snap = ItemsOf(items)]
        BY <1>10, <2>3 DEF Decrypt
      <4> QED BY <1>0, <2>1, <4>1 DEF Others, Local
    <3>2. StorePhase(t)' = StorePhase(t) /\ ~Rekeys(t) /\ ~Rekeys(t)'
      BY <2>1, <3>1 DEF StorePhase, Rekeys
    <3> QED BY <2>1, <3>1, <3>2, MemStays, Stutters DEF StoreStep
  <2> QED BY <2>2, <2>3
<1>11. ASSUME mode = "unlocked", UNCHANGED mode
       PROVE  /\ StoreMem = ItemsOf(items) \cup (IF Rekeys(t) THEN loc[t].snap ELSE {})
              /\ StoreMem' = ItemsOf(items') \cup (IF Rekeys(t)' THEN loc'[t].snap ELSE {})
  <2>1. ChangesAlone'
    BY <1>0 DEF ChangesAlone
  <2> QED BY <1>0, <1>11, <2>1, MemIs, MemIsNext DEF MemIsItems
<1>12. CASE Reset(t)
  <2>1. /\ pc[t] = "reset" /\ Others(t) /\ pc'[t] = "secret" /\ loc'[t].ret = "reencrypt"
        /\ loc'[t].op = loc[t].op /\ loc'[t].snap = loc[t].snap /\ items' = {}
        /\ UNCHANGED <<mode, hasPath, file, flushed>>
    BY <1>12, ResetMoves DEF Reset, openVars, diskVars
  <2>2. loc'[t].res = loc[t].res /\ loc[t].op = "change" /\ ItemsOf(items) = loc[t].snap
    BY <1>0, <1>12, <2>1 DEF Reset, Local, KeyTask, TaskStored
  <2>3. ItemsOf(items') = {} /\ Rekeys(t)' /\ ~Rekeys(t)
    BY <2>1 DEF ItemsOf, Rekeys
  <2>4. UNCHANGED StoreMem
    BY <1>0, <1>11, <2>1, <2>2, <2>3
  <2>5. StorePhase(t)' = StorePhase(t)
    BY <2>1, <2>2 DEF StorePhase
  <2> QED BY <2>1, <2>2, <2>4, <2>5, Stutters DEF StoreStep
<1>13. CASE Reencrypt(t)
  <2>1. /\ pc[t] = "reencrypt" /\ loc[t].op = "change" /\ loc[t].ret = "reencrypt" /\ items = {}
        /\ UNCHANGED <<mode, hasPath, file, flushed>>
    BY <1>0, <1>13 DEF Reencrypt, openVars, diskVars, KeyTask, TaskStored, Rekeys
  <2>2. WeakSecrets = {}
    BY <1>0, <2>1 DEF Undisturbed, KeyTask
  <2>3. /\ Goes(t, "mtime")
        /\ items' = items \cup {Encrypt(i, loc[t].key) : i \in loc[t].snap}
    BY <1>13, <2>2, Goings DEF Reencrypt, IsWeak
  <2>4. ItemsOf(items') = loc[t].snap
    <3>1. items' = {Encrypt(i, loc[t].key) : i \in loc[t].snap}
      BY <2>1, <2>3
    <3>2. \A i : Encrypt(i, loc[t].key).item = i
      BY DEF Encrypt
    <3> QED BY <3>1, <3>2 DEF ItemsOf
  <2>5. Rekeys(t) /\ ~Rekeys(t)' /\ ItemsOf(items) = {}
    BY <2>1, <2>3 DEF Rekeys, Goes, ItemsOf
  <2>6. UNCHANGED StoreMem
    BY <1>0, <1>11, <2>1, <2>4, <2>5
  <2>7. StorePhase(t)' = StorePhase(t)
    BY <2>1, <2>3 DEF Goes, StorePhase
  <2> QED BY <2>1, <2>3, <2>6, <2>7, Stutters DEF Goes, StoreStep
<1>14. CASE LockMtime(t)
  <2>1. /\ Goes(t, "keyring") /\ pc[t] = "mtime"
        /\ UNCHANGED <<mode, hasPath, items, file, flushed>>
    BY <1>14, Goings DEF LockMtime, openVars, diskVars
  <2>2. StorePhase(t)' = StorePhase(t) /\ ~Rekeys(t) /\ ~Rekeys(t)'
    BY <2>1 DEF Goes, StorePhase, Rekeys, DumpLabels
  <2> QED BY <2>1, <2>2, MemStays, Stutters DEF Goes, StoreStep
<1>15. CASE LockKeyring(t)
  <2>1. /\ pc[t] = "keyring" /\ loc[t].op # "bulk"
        /\ UNCHANGED <<mode, hasPath, items, file, flushed>>
        /\ (hasPath /\ Goto(t, "tmp")) \/ (~hasPath /\ Return(t, "ok"))
    BY <1>15 DEF LockKeyring, StartDump, openVars, diskVars
  <2>2. CASE hasPath /\ Goto(t, "tmp")
    <3>1. Goes(t, "tmp")
      BY <2>2, Goings
    <3>2. StorePhase(t)' = StorePhase(t) /\ ~Rekeys(t) /\ ~Rekeys(t)'
      BY <2>1, <3>1 DEF Goes, StorePhase, Rekeys, DumpLabels
    <3> QED BY <2>1, <3>1, <3>2, MemStays, Stutters DEF Goes, StoreStep
  <2>3. CASE ~hasPath /\ Return(t, "ok")
    <3>1. Others(t) /\ ~Rekeys(t) /\ ~Rekeys(t)'
      BY <2>1, <2>3, Returns DEF Ends, Rekeys
    <3>2. StorePhase(t) \in {"unsaved", "keeping"}
      BY <1>0, <2>1 DEF StorePhase, TaskStored
    <3> QED BY <2>1, <2>3, <3>1, <3>2, MemStays, Successes DEF StoreStep
  <2> QED BY <2>1, <2>2, <2>3
<1>16. CASE CreateItems(t)
  <2>1. /\ pc[t] = "keyring" /\ loc[t].op = "bulk"
        /\ UNCHANGED <<mode, hasPath, file, flushed>>
        /\ \/ Return(t, "err")
           \/ hasPath /\ Goto(t, "tmp")
           \/ ~hasPath /\ Return(t, "ok")
    BY <1>16 DEF CreateItems, StartDump, openVars, diskVars
  <2>2. StorePhase(t) = "editing"
    BY <2>1 DEF StorePhase, DumpLabels
  <2>3. CASE hasPath /\ Goto(t, "tmp")
    <3>1. Goes(t, "tmp")
      BY <2>3, Goings
    <3>2. StorePhase(t)' = "unsaved"
      BY <2>1, <3>1 DEF Goes, StorePhase, DumpLabels
    <3> QED BY <2>1, <2>2, <3>1, <3>2, EditsOfTheStore DEF Goes, StoreStep
  <2> QED BY <2>1, <2>2, <2>3, Failures, Successes DEF StoreStep
<1>17. CASE WriteTmp(t) \/ SyncAll(t)
  <2>1. UNCHANGED <<mode, hasPath, items, file, flushed>>
    BY <1>17 DEF WriteTmp, SyncAll, openVars, diskVars
  <2>2. /\ Others(t) /\ loc'[t].op = loc[t].op
        /\ \/ pc[t] = "tmp" /\ pc'[t] = "sync"
           \/ pc[t] = "sync" /\ pc'[t] = "check"
    BY <1>17, WriteTmpMoves, SyncAllMoves
  <2>3. loc'[t].res = loc[t].res
    BY <1>0, <1>17 DEF WriteTmp, SyncAll, Local
  <2>4. StorePhase(t)' = StorePhase(t) /\ ~Rekeys(t) /\ ~Rekeys(t)'
    BY <2>2 DEF StorePhase, Rekeys, DumpLabels
  <2> QED BY <2>1, <2>2, <2>3, <2>4, MemStays, Stutters DEF StoreStep
<1>18. CASE CheckTarget(t)
  <2>1. CASE Abort(t, "TargetFileChanged")
    BY <1>3, <1>18, <2>1 DEF CheckTarget, DumpLabels
  <2>2. CASE ~Abort(t, "TargetFileChanged")
    <3>1. /\ Goes(t, "rename") /\ pc[t] = "check"
          /\ UNCHANGED <<mode, hasPath, items, file, flushed>>
      BY <1>18, <2>2, Goings DEF CheckTarget, openVars, diskVars
    <3>2. StorePhase(t)' = StorePhase(t) /\ ~Rekeys(t) /\ ~Rekeys(t)'
      BY <3>1 DEF Goes, StorePhase, Rekeys, DumpLabels
    <3> QED BY <3>1, <3>2, MemStays, Stutters DEF Goes, StoreStep
  <2> QED BY <2>1, <2>2
<1>19. CASE Rename(t)
  <2>1. /\ Goes(t, "stat") /\ pc[t] = "rename" /\ file' = loc[t].tmp /\ loc[t].tmp \in KeyringFile
        /\ UNCHANGED <<mode, hasPath, items, flushed>>
    BY <1>19, Goings DEF Rename, openVars, TypeInv, TmpWritten
  <2>2. mode = "unlocked" /\ hasPath /\ loc[t].tmp.entries = items
    BY <1>0, <2>1 DEF TaskStored, Dumps, DumpLabels
  <2>3. StorePhase(t) \in {"unsaved", "keeping"} /\ StorePhase(t)' = "saved"
    BY <1>0, <2>1 DEF Goes, StorePhase, TaskStored, DumpLabels
  <2>4. StoreMem = ItemsOf(items) /\ UNCHANGED StoreMem
    <3>1. ~Rekeys(t) /\ ~Rekeys(t)'
      BY <2>1 DEF Goes, Rekeys
    <3>2. UNCHANGED <<mode, items>>
      BY <2>1
    <3> QED BY <1>11, <2>2, <3>1, <3>2 DEF ItemsOf
  <2>5. ItemsOf(Entries(file')) = StoreMem
    BY <2>1, <2>2, <2>4, UnlockedKeyringAssumption DEF Entries
  <2>6. /\ Phases[t] \in {"unsaved", "keeping"} /\ Phases' = [Phases EXCEPT ![t] = "saved"]
        /\ Answers' = Answers
    BY <2>1, <2>3, PhaseMoves DEF Goes, Answers
  <2>7. Kept /\ Kept'
    BY <2>1, <2>2 DEF Kept
  <2>8. ItemsOf(Entries(file))' = StoreMem /\ UNCHANGED ItemsOf(Entries(flushed))
    BY <2>1, <2>5 DEF Entries
  <2>9. Store!Save(t)
    BY <2>4, <2>6, <2>7, <2>8 DEF Store!Save, Phases, Answers, Kept
  <2> QED BY <2>9 DEF StoreStep, Store!Next
<1> QED
  BY <1>1, <1>2, <1>4, <1>5, <1>6, <1>7, <1>8, <1>9, <1>10, <1>12, <1>13, <1>14, <1>15, <1>16,
     <1>17, <1>18, <1>19 DEF Step, Change, Dump

\* The keyring is opened or given up while nobody uses it.
LEMMA OwnershipImplements ==
  ASSUME TypeInv, KeyInv, Ownership
  PROVE  StoreStep
<1>1. /\ UNCHANGED <<file, flushed, pc, loc>> /\ Idle
  BY DEF Ownership, Load, Unlock, UnlockUnchecked, UnlockUnencrypted, Lock, Open, Temporary,
         Refused, Install, diskVars, KeyInv
<1>2. Phases' = Phases /\ Answers' = Answers /\ Store!Idle
  BY <1>1 DEF Phases, Answers, StorePhase, Store!Idle, Idle
<1>3. StoreMem = (IF mode = "down" THEN ItemsOf(Entries(file)) ELSE ItemsOf(items))
  BY <1>1 DEF StoreMem, Rekeying, Idle
<1>4. StoreMem' = (IF mode' = "down" THEN ItemsOf(Entries(file)) ELSE ItemsOf(items'))
  <2>1. Rekeying' = {} /\ Entries(file') = Entries(file)
    BY <1>1 DEF Rekeying, Idle, Entries
  <2> QED BY <2>1 DEF StoreMem
<1>5. ASSUME \/ StoreMem' = ItemsOf(Entries(file))
             \/ ItemsOf(Entries(file)) = {} /\ StoreMem' = LegacyItems
             \/ ~Kept' /\ StoreMem' = {}
      PROVE  StoreStep
  <2>1. Kept' \in BOOLEAN
    BY TypeInv DEF Kept, TypeInv, TypeOK
  <2>2. Store!Reopen
    BY <1>1, <1>2, <1>5, <2>1, SavedStays DEF Store!Reopen, Store!Idle, Phases, Answers, Kept
  <2> QED BY <2>2 DEF StoreStep, Store!Next
<1>6. CASE Load
  <2>1. mode' = "locked" /\ items' = Entries(file)
    BY <1>6, UnlockedKeyringAssumption DEF Load, Install, NewKeyring, Entries
  <2> QED BY <1>4, <1>5, <2>1
<1>7. CASE Open
  <2>1. PICK s, owner : mode' = "unlocked" /\ file = NoFile
               /\ items' = {Encrypt(i, KeyOf(owner, nextSalt)) : i \in LegacyItems}
    BY <1>7 DEF Open, Install, NewKeyring
  <2>2. ItemsOf(items') = LegacyItems /\ ItemsOf(Entries(file)) = {}
    <3>1. \A i : Encrypt(i, KeyOf(owner, nextSalt)).item = i
      BY DEF Encrypt
    <3> QED BY <2>1, <3>1 DEF ItemsOf, Entries
  <2> QED BY <1>4, <1>5, <2>1, <2>2
<1>8. CASE Temporary
  <2>1. mode' = "unlocked" /\ ~hasPath' /\ items' = {}
    BY <1>8 DEF Temporary, Install, NewKeyring
  <2> QED BY <1>4, <1>5, <2>1 DEF Kept, ItemsOf
<1>9. CASE Unlock \/ UnlockUnchecked \/ UnlockUnencrypted \/ Lock
  <2>1. \/ Refused
        \/ mode # "down" /\ mode' # "down" /\ UNCHANGED <<hasPath, items>>
    BY <1>9 DEF Unlock, UnlockUnchecked, UnlockUnencrypted, Lock, Install
  <2>2. CASE Refused
    BY <1>4, <1>5, <2>2 DEF Refused, Install
  <2>3. CASE mode # "down" /\ mode' # "down" /\ UNCHANGED <<hasPath, items>>
    <3>1. StoreMem' = StoreMem /\ Kept' = Kept
      BY <1>3, <1>4, <2>3 DEF Kept
    <3> QED
      BY <1>1, <1>2, <3>1, SavedStays DEF StoreStep, Store!vars, Phases, Answers, Kept
  <2> QED BY <2>1, <2>2, <2>3
<1> QED
  BY <1>6, <1>7, <1>8, <1>9 DEF Ownership

LEMMA StopImplements ==
  ASSUME DiskWhole, Crash \/ PowerLoss
  PROVE  StoreStep
<1>1. Stop
  BY DEF Crash, PowerLoss
<1>2. /\ Phases' = [t \in Tasks |-> "idle"] /\ Answers' = [t \in Tasks |-> "none"]
      /\ mode' = "down" /\ ~Kept'
  BY <1>1 DEF Stop, Phases, Answers, StorePhase, Kept, Blank
<1>3. StoreMem' = ItemsOf(Entries(file'))
  BY <1>2 DEF StoreMem, Entries
<1>4. /\ file' \in {file, flushed} /\ flushed' \in {flushed, file'}
  <2>1. Surviving(file) = file /\ Surviving(flushed) = flushed
    BY DEF DiskWhole, Whole, Surviving
  <2> QED BY <2>1 DEF Crash, PowerLoss
<1>5. /\ ItemsOf(Entries(file)) ' \in {ItemsOf(Entries(file)), ItemsOf(Entries(flushed))}
      /\ ItemsOf(Entries(flushed))' \in {ItemsOf(Entries(flushed)), ItemsOf(Entries(file))'}
      /\ StoreMem' = ItemsOf(Entries(file))'
  BY <1>3, <1>4 DEF Entries
<1>6. Store!Stop
  BY <1>2, <1>5 DEF Store!Stop, Phases, Answers, Kept
<1> QED
  BY <1>6 DEF StoreStep, Store!Next

LEMMA NextImplements ==
  ASSUME Undisturbed, TypeInv, TypeInv', KeyInv, KeyInv', StoreInv, DiskWhole, [Next]_vars
  PROVE  StoreStep
<1>1. ASSUME NEW t \in Tasks, Step(t) \/ IoError(t) \/ \E o \in Op : Call(t, o) PROVE StoreStep
  BY <1>1, StepImplements
<1>2. CASE Flush
  <2>1. UNCHANGED <<mode, hasPath, items, file, pc, loc>> /\ flushed' = file
    BY <1>2 DEF Flush, openVars
  <2>2. UNCHANGED <<StoreMem, Phases, Answers, Kept>>
    BY <2>1 DEF StoreMem, Rekeying, Phases, StorePhase, Answers, Kept, Entries
  <2>3. ItemsOf(Entries(flushed))' = ItemsOf(Entries(file)) /\ UNCHANGED ItemsOf(Entries(file))
    BY <2>1 DEF Entries
  <2>4. Store!Flush
    BY <2>2, <2>3 DEF Store!Flush, Phases, Answers, Kept
  <2> QED BY <2>4 DEF StoreStep, Store!Next
<1>3. CASE Closed \/ UNCHANGED vars
  <2>1. UNCHANGED <<mode, hasPath, items, file, flushed, pc, loc>>
    BY <1>3 DEF Closed, vars
  <2>2. UNCHANGED <<StoreMem, Phases, Answers, Kept>>
    BY <2>1 DEF StoreMem, Rekeying, Phases, StorePhase, Answers, Kept, Entries
  <2> QED BY <2>1, <2>2, SavedStays DEF StoreStep, Store!vars, Phases, Answers, Kept
<1>4. ~ExternalWrite
  BY DEF ExternalWrite, Spend, StoreInv
<1> QED
  BY <1>1, <1>2, <1>3, <1>4, OwnershipImplements, StopImplements DEF Next, Environment

LEMMA InitImplements == Init => Store!Init
<1> SUFFICES ASSUME Init PROVE Store!Init
  OBVIOUS
<1>1. TypeOK
  BY InitTyped DEF TypeInv
<1>2. /\ Phases = [t \in Tasks |-> "idle"] /\ Answers = [t \in Tasks |-> "none"]
      /\ ~Kept /\ flushed = file
      /\ StoreMem = ItemsOf(Entries(file))
  BY DEF Init, Phases, Answers, StorePhase, Kept, StoreMem, Blank
<1>3. ItemsOf(Entries(file)) \in SUBSET Items
  BY <1>1, FileParts, ItemsOfType DEF TypeOK
<1> QED
  BY <1>2, <1>3 DEF Store!Init, Phases, Answers, Kept

\* UnlockedKeyring implements KeyringStore: every step of a call, through its locks, its keys and
\* the steps of its dump, is a step of a store that edits at once, saves the whole of its memory,
\* and answers Ok after that, or leaves it as it is; a change of the secret, that is alone, too.
THEOREM StoreImplemented ==
  ASSUME Undisturbed
  PROVE  Spec => ImplementsStore
<1>1. ChangesAlone /\ Budget["external"] = 0
  BY DEF Undisturbed
<1>2. Init => StoreInv
  BY <1>1 DEF Init, StoreInv, TaskStored, Rekeys, Dumps, DumpLabels
<1>3. Spec => []StoreInv
  BY <1>1, <1>2, NextStored, TypeInvariant, KeyInvariant, PTL DEF Spec
<1>4. Spec => []DiskWhole
  <2>1. Init => DiskWhole
    BY UnlockedKeyringAssumption DEF Init, DiskWhole, Whole
  <2> QED BY <2>1, TypeInvariant, DiskStaysWhole, PTL DEF Spec
<1>5. /\ TypeInv /\ TypeInv' /\ KeyInv /\ KeyInv' /\ StoreInv /\ DiskWhole /\ [Next]_vars
      => [Store!Next]_Store!vars
  BY NextImplements DEF StoreStep
<1> QED
  BY <1>1, <1>3, <1>4, <1>5, InitImplements, TypeInvariant, KeyInvariant, PTL
     DEF Spec, ImplementsStore, Store!Spec
===============================================================================
