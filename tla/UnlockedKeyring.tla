---------------------------- MODULE UnlockedKeyring ----------------------------
(***************************************************************************)
(* One file-backed keyring shared by several asynchronous tasks            *)
(* (client/src/file/unlocked_keyring.rs, locked_keyring.rs, api/mod.rs).   *)
(*                                                                         *)
(* A step is the code between two points where a task can be suspended:    *)
(* waiting for one of the three locks that are held across awaits (the key *)
(* and mtime mutexes, the keyring RwLock), or for a file-system call of    *)
(* dump.  Arguments of a call are chosen at the step that first uses them. *)
(***************************************************************************)
EXTENDS KeyringEntries, Sequences

CONSTANTS
  Tasks,        \* the callers
  NoTask,       \* the holder of a free lock
  OpsOf,        \* the operations each task may call
  Openings,     \* the ways the keyring may be opened in this instance
  Queries,      \* attribute sets passed to delete
  LegacyItems,  \* contents of the v0 file next to the v1 file
  InitialFiles, \* what the v1 path may hold at first
  NoFile,       \* there is no file
  Torn,         \* a file whose data did not reach the disk
  FaultPoints,  \* the file-system calls that may fail
  Budget        \* how often each kind of event may happen

Op == {"create", "bulk", "delete", "replaceIndex", "deleteIndex",
       "deleteBroken", "write", "search", "peek", "change"}

\* The places a running task can be suspended at.
DumpLabels == {"tmp", "sync", "check", "rename", "stat"}
Labels == {"idle", "secret", "key", "kdf", "read", "edit", "mtime", "keyring",
           "snapshot", "decrypt", "setSecret", "unsetKey", "reset", "reencrypt"}
            \cup DumpLabels

Stamp == Nat   \* modification times; 0 is None

KeyringFile == [salt : Salt, entries : SUBSET Entry, mtime : Stamp, synced : BOOLEAN]

File == KeyringFile \cup {NoFile, Torn}

BudgetKinds == {"call", "new", "fault", "external", "crash"}

ASSUME UnlockedKeyringAssumption ==
  /\ NoTask \notin Tasks
  /\ OpsOf \in [Tasks -> SUBSET Op]
  /\ Openings \subseteq {"load", "unchecked", "unencrypted", "open", "moved",
                   "temporary"}
  /\ LegacyItems \subseteq Items
  /\ InitialFiles \subseteq {f \in KeyringFile : f.synced} \cup {NoFile}
  /\ NoFile \notin KeyringFile /\ Torn \notin KeyringFile /\ NoFile # Torn
  /\ FaultPoints \subseteq DumpLabels
  /\ Budget \in [BudgetKinds -> Nat]

VARIABLES
  mode,         \* "down", "locked" (LockedKeyring) or "unlocked"
  hasPath,      \* FALSE for a temporary keyring
  secret, key,  \* the two Options; NoKey means not derived yet
  salt, items,  \* api::Keyring
  mtime,        \* the time stamp dump compares with the file's
  keyHolder,    \* the task holding the key mutex
  mtimeHolder,  \* the task holding the mtime mutex
  writer,       \* the task holding the keyring lock for writing across awaits
  readers,      \* the tasks holding it for reading across awaits
  queue,        \* the tasks waiting for the keyring lock, first come first served
  file,         \* what the path names
  flushed,      \* what the path names after a power loss, at the latest
  clock,        \* the newest time stamp handed out
  nextSalt,     \* the next random salt
  pc, loc,      \* of each task: where it is, and its local variables
  used,         \* history: items some call was made for
  acked,        \* history: items of the first file and of calls that answered Ok
  dropped,      \* history: items that a call removed on request, written or not
  budget        \* what is left of Budget

secretVars == <<secret, key, keyHolder>>
rwVars     == <<writer, readers, queue>>
mtimeVars  == <<mtime, mtimeHolder>>
diskVars   == <<file, flushed, clock>>
openVars   == <<mode, hasPath>>
ghostVars  == <<used, acked, dropped>>

vars == <<mode, hasPath, secret, key, salt, items, mtime, keyHolder, mtimeHolder,
          writer, readers, queue, file, flushed, clock, nextSalt, pc, loc, used,
          acked, dropped, budget>>

Answer == {"none", "ok", "err", "TargetFileChanged"}

\* op: the call; new: the items it brings; ret: where derive_key returns to;
\* sec: derive_key's copy of the secret; key: what derive_key returned; snap: the
\* items change_secret decrypted; tmp: the temporary file of dump; res: how the last
\* call ended.
Local == [op : Op \cup {"none"}, new : SUBSET Items,
          ret : {"idle", "read", "edit", "decrypt", "mtime", "reencrypt"},
          sec : Secrets \cup {NoSecret}, key : Key \cup {NoKey}, snap : SUBSET Items,
          tmp : File, res : Answer]

Blank(r) == [op |-> "none", new |-> {}, ret |-> "idle", sec |-> NoSecret, key |-> NoKey,
             snap |-> {}, tmp |-> NoFile, res |-> r]

TypeOK ==
  /\ mode \in {"down", "locked", "unlocked"} /\ hasPath \in BOOLEAN
  /\ secret \in Secrets \cup {NoSecret}
  /\ key \in Key \cup {NoKey}
  /\ salt \in Salt /\ nextSalt \in Salt
  /\ items \in SUBSET Entry
  /\ mtime \in Stamp /\ clock \in Stamp
  /\ keyHolder \in Tasks \cup {NoTask}
  /\ mtimeHolder \in Tasks \cup {NoTask}
  /\ writer \in Tasks \cup {NoTask}
  /\ readers \in SUBSET Tasks
  /\ queue \in Seq(Tasks)
  /\ file \in File /\ flushed \in File
  /\ pc \in [Tasks -> Labels]
  /\ loc \in [Tasks -> Local]
  /\ used \in SUBSET Items /\ acked \in SUBSET Items /\ dropped \in SUBSET Items
  /\ budget \in [BudgetKinds -> Nat]

Mtime(f) == IF f \in {NoFile, Torn} THEN 0 ELSE f.mtime

Entries(f) == IF f \in {NoFile, Torn} THEN {} ELSE f.entries

Idle == \A t \in Tasks : pc[t] = "idle"

Fresh == Items \ used

Spend(kind) == budget[kind] > 0 /\ budget' = [budget EXCEPT ![kind] = @ - 1]

-----------------------------------------------------------------------------
(* The keyring RwLock is fair: a request that cannot be granted queues, and *)
(* no later request overtakes it, readers included.                         *)

MyTurn(t) == queue # <<>> => Head(queue) = t

CanRead(t) == MyTurn(t) /\ writer = NoTask

CanWrite(t) == MyTurn(t) /\ writer = NoTask /\ readers = {}

Dequeue == queue' = IF queue = <<>> THEN <<>> ELSE Tail(queue)

ReadPoints == {"kdf", "read", "snapshot"}

WritePoints == {"edit", "keyring", "reset", "reencrypt"}

Enqueue(t) ==
  /\ \/ pc[t] \in ReadPoints /\ ~CanRead(t)
     \/ pc[t] \in WritePoints /\ ~CanWrite(t)
  /\ \A n \in 1..Len(queue) : queue[n] # t
  /\ queue' = Append(queue, t)
  /\ UNCHANGED <<writer, readers, secretVars, salt, items, mtimeVars, diskVars,
                 openVars, nextSalt, pc, loc, ghostVars, budget>>

-----------------------------------------------------------------------------
(* Calls *)

FirstLabel(o) ==
  CASE o = "write" -> "mtime"
    [] o = "deleteIndex" -> "edit"
    [] o = "peek" -> "read"
    [] o = "change" -> "snapshot"
    [] OTHER -> "secret"

AfterKey(o) ==
  CASE o = "search" -> "read"
    [] o = "bulk" -> "mtime"
    [] o = "change" -> "decrypt"
    [] OTHER -> "edit"

\* How many items the call brings along: a batch of two is the shortest in which
\* one item can replace the other and the second can fail after the first.
Brings(o) ==
  CASE o \in {"create", "replaceIndex"} -> 1
    [] o = "bulk" -> 2
    [] OTHER -> 0

Call(t, o) ==
  /\ mode = "unlocked"
  /\ pc[t] = "idle"
  /\ o \in OpsOf[t]
  /\ Spend("call")
  /\ \E new \in SUBSET Fresh :
       /\ Cardinality(new) = Brings(o)
       /\ used' = used \cup new
       /\ loc' = [loc EXCEPT ![t] = [Blank("none") EXCEPT !.op = o, !.ret = AfterKey(o),
                                                          !.new = new]]
  /\ pc' = [pc EXCEPT ![t] = FirstLabel(o)]
  /\ UNCHANGED <<secretVars, rwVars, salt, items, mtimeVars, diskVars, openVars,
                 nextSalt, acked, dropped>>

Return(t, r) ==
  /\ pc' = [pc EXCEPT ![t] = "idle"]
  /\ loc' = [loc EXCEPT ![t] = Blank(r)]

Goto(t, label) ==
  /\ pc' = [pc EXCEPT ![t] = label]
  /\ UNCHANGED loc

-----------------------------------------------------------------------------
(* derive_key *)

\* The secret mutex is never held across an await: clone and drop.
CloneSecret(t) ==
  /\ pc[t] = "secret"
  /\ \/ /\ secret = NoSecret
        /\ loc' = [loc EXCEPT ![t].key = NoKey]
        /\ pc' = [pc EXCEPT ![t] = loc[t].ret]
     \/ /\ secret # NoSecret
        /\ loc' = [loc EXCEPT ![t].sec = secret]
        /\ pc' = [pc EXCEPT ![t] = "key"]
  /\ UNCHANGED <<secretVars, rwVars, salt, items, mtimeVars, diskVars, openVars,
                 nextSalt, ghostVars, budget>>

\* A cached key is returned at once; otherwise the key mutex stays held while
\* the derivation waits for the keyring.
LockKey(t) ==
  /\ pc[t] = "key"
  /\ keyHolder = NoTask
  /\ \/ /\ key # NoKey
        /\ loc' = [loc EXCEPT ![t].key = key]
        /\ pc' = [pc EXCEPT ![t] = loc[t].ret]
        /\ UNCHANGED keyHolder
     \/ /\ key = NoKey
        /\ keyHolder' = t
        /\ Goto(t, "kdf")
  /\ UNCHANGED <<secret, key, rwVars, salt, items, mtimeVars, diskVars, openVars,
                 nextSalt, ghostVars, budget>>

DeriveKey(t) ==
  /\ pc[t] = "kdf"
  /\ CanRead(t)
  /\ Dequeue
  /\ key' = KeyOf(loc[t].sec, salt)
  /\ keyHolder' = NoTask
  /\ loc' = [loc EXCEPT ![t].key = KeyOf(loc[t].sec, salt)]
  /\ pc' = [pc EXCEPT ![t] = loc[t].ret]
  /\ UNCHANGED <<secret, writer, readers, salt, items, mtimeVars, diskVars, openVars,
                 nextSalt, ghostVars, budget>>

\* search_items, lookup_item, items and the accessors that only read; meeting an
\* item that does not decrypt is an error for some of them.
Read(t) ==
  /\ pc[t] = "read"
  /\ CanRead(t)
  /\ Dequeue
  /\ \/ Return(t, "ok")
     \/ loc[t].op = "search" /\ items # Valid(items, loc[t].key) /\ Return(t, "err")
  /\ UNCHANGED <<secretVars, writer, readers, salt, items, mtimeVars, diskVars,
                 openVars, nextSalt, ghostVars, budget>>

-----------------------------------------------------------------------------
(* Edits under the keyring write lock.  None of them suspends while it holds *)
(* the lock; each one either fails or goes on to write().                    *)

Edit(t, o) ==
  /\ pc[t] = "edit"
  /\ loc[t].op = o
  /\ CanWrite(t)
  /\ Dequeue
  /\ UNCHANGED <<secretVars, writer, readers, salt, mtimeVars, diskVars, openVars,
                 nextSalt, used, acked, budget>>

\* The edit in memory is made: what it removed was removed on request, be it an item
\* of its own batch.  Should the write fail, the next one makes it all the same.
Drop(t) == dropped' = dropped \cup ((ItemsOf(items) \cup loc[t].new) \ ItemsOf(items'))

CreateItem(t) ==
  /\ Edit(t, "create")
  /\ \E i \in loc[t].new, replace \in BOOLEAN :
       /\ items' = AfterPut(items, i, replace, loc[t].key)
       /\ \/ PutFails(items, i, replace, loc[t].key) /\ Return(t, "err") /\ UNCHANGED dropped
          \/ ~PutFails(items, i, replace, loc[t].key) /\ Goto(t, "mtime") /\ Drop(t)

Delete(t) ==
  /\ Edit(t, "delete")
  /\ \E q \in Queries :
       \/ /\ Removable(items, q, loc[t].key)
          /\ items' = Remaining(items, q, loc[t].key)
          /\ Goto(t, "mtime") /\ Drop(t)
       \/ /\ ~Removable(items, q, loc[t].key)
          /\ Return(t, "err") /\ UNCHANGED <<items, dropped>>

ReplaceItemIndex(t) ==
  /\ Edit(t, "replaceIndex")
  /\ \/ /\ ~IsWeak(loc[t].key)
        /\ \E e \in items, i \in loc[t].new :
             items' = (items \ {e}) \cup {Encrypt(i, loc[t].key)}
        /\ Goto(t, "mtime") /\ Drop(t)
     \/ Return(t, "err") /\ UNCHANGED <<items, dropped>>

DeleteItemIndex(t) ==
  /\ Edit(t, "deleteIndex")
  /\ \/ (\E e \in items : items' = items \ {e}) /\ Goto(t, "mtime") /\ Drop(t)
     \/ Return(t, "err") /\ UNCHANGED <<items, dropped>>

DeleteBrokenItems(t) ==
  /\ Edit(t, "deleteBroken")
  /\ items' = Valid(items, loc[t].key)
  /\ Goto(t, "mtime") /\ Drop(t)

-----------------------------------------------------------------------------
(* change_secret *)

\* The read guard is kept while derive_key runs.
Snapshot(t) ==
  /\ pc[t] = "snapshot"
  /\ CanRead(t)
  /\ Dequeue
  /\ readers' = readers \cup {t}
  /\ Goto(t, "secret")
  /\ UNCHANGED <<secretVars, writer, salt, items, mtimeVars, diskVars, openVars,
                 nextSalt, ghostVars, budget>>

Decrypt(t) ==
  /\ pc[t] = "decrypt"
  /\ readers' = readers \ {t}
  /\ \/ /\ items = Valid(items, loc[t].key)
        /\ loc' = [loc EXCEPT ![t].snap = ItemsOf(items)]
        /\ pc' = [pc EXCEPT ![t] = "setSecret"]
     \/ items # Valid(items, loc[t].key) /\ Return(t, "err")
  /\ UNCHANGED <<secretVars, writer, queue, salt, items, mtimeVars, diskVars,
                 openVars, nextSalt, ghostVars, budget>>

SetSecret(t) ==
  /\ pc[t] = "setSecret"
  /\ secret' \in Secrets
  /\ Goto(t, "unsetKey")
  /\ UNCHANGED <<key, keyHolder, rwVars, salt, items, mtimeVars, diskVars, openVars,
                 nextSalt, ghostVars, budget>>

\* Mutant: the cached key is left in place.
MutUnsetKey(t) ==
  /\ pc[t] = "unsetKey"
  /\ keyHolder = NoTask
  /\ Goto(t, "reset")
  /\ UNCHANGED <<secretVars, rwVars, salt, items, mtimeVars, diskVars, openVars,
                 nextSalt, ghostVars, budget>>

UnsetKey(t) ==
  /\ pc[t] = "unsetKey"
  /\ keyHolder = NoTask
  /\ key' = NoKey
  /\ Goto(t, "reset")
  /\ UNCHANGED <<secret, keyHolder, rwVars, salt, items, mtimeVars, diskVars, openVars,
                 nextSalt, ghostVars, budget>>

\* Mutant: a new salt, the old items.
MutReset(t) ==
  /\ pc[t] = "reset"
  /\ CanWrite(t)
  /\ Dequeue
  /\ salt' = nextSalt /\ nextSalt' = nextSalt + 1
  /\ loc' = [loc EXCEPT ![t].ret = "reencrypt"]
  /\ pc' = [pc EXCEPT ![t] = "secret"]
  /\ UNCHANGED <<secretVars, writer, readers, items, mtimeVars, diskVars, openVars,
                 ghostVars, budget>>

Reset(t) ==
  /\ pc[t] = "reset"
  /\ CanWrite(t)
  /\ Dequeue
  /\ salt' = nextSalt /\ nextSalt' = nextSalt + 1
  /\ items' = {}
  /\ loc' = [loc EXCEPT ![t].ret = "reencrypt"]
  /\ pc' = [pc EXCEPT ![t] = "secret"]
  /\ UNCHANGED <<secretVars, writer, readers, mtimeVars, diskVars, openVars,
                 ghostVars, budget>>

\* The first encryption under a weak key fails; nothing puts the items back.
Reencrypt(t) ==
  /\ pc[t] = "reencrypt"
  /\ CanWrite(t)
  /\ Dequeue
  /\ \/ /\ IsWeak(loc[t].key) /\ loc[t].snap # {}
        /\ Return(t, "err")
        /\ UNCHANGED items
     \/ /\ ~IsWeak(loc[t].key) \/ loc[t].snap = {}
        /\ items' = items \cup {Encrypt(i, loc[t].key) : i \in loc[t].snap}
        /\ Goto(t, "mtime")
  /\ UNCHANGED <<secretVars, writer, readers, salt, mtimeVars, diskVars, openVars,
                 nextSalt, ghostVars, budget>>

-----------------------------------------------------------------------------
(* write() and dump.  The mtime mutex is held from before dump until the new *)
(* time stamp is known; the keyring lock throughout dump.                    *)

\* Mutant: the mtime is read, its mutex not kept.
MutLockMtime(t) ==
  /\ pc[t] = "mtime"
  /\ mtimeHolder = NoTask
  /\ Goto(t, "keyring")
  /\ UNCHANGED <<secretVars, rwVars, salt, items, mtimeVars, diskVars, openVars,
                 nextSalt, ghostVars, budget>>

LockMtime(t) ==
  /\ pc[t] = "mtime"
  /\ mtimeHolder = NoTask
  /\ mtimeHolder' = t
  /\ Goto(t, "keyring")
  /\ UNCHANGED <<secretVars, rwVars, salt, items, mtime, diskVars, openVars,
                 nextSalt, ghostVars, budget>>

\* Mutant: dump runs on the keyring after its lock was let go.
MutStartDump(t) ==
  /\ Goto(t, "tmp")
  /\ UNCHANGED <<writer, mtimeHolder>>

\* With both locks: dump when there is a path, else there is nothing to do.
StartDump(t) ==
  \/ /\ hasPath
     /\ writer' = t
     /\ Goto(t, "tmp")
     /\ UNCHANGED mtimeHolder
  \/ /\ ~hasPath
     /\ mtimeHolder' = NoTask
     /\ Return(t, "ok")
     /\ UNCHANGED writer

LockKeyring(t) ==
  /\ pc[t] = "keyring"
  /\ loc[t].op # "bulk"
  /\ CanWrite(t)
  /\ Dequeue
  /\ StartDump(t)
  /\ UNCHANGED <<secretVars, readers, salt, items, mtime, diskVars, openVars, nextSalt,
                 ghostVars, budget>>

\* create_items adds its items with both locks already held; an item that fails
\* leaves the ones before it in memory, unwritten.
CreateItems(t) ==
  LET k == loc[t].key IN
  /\ pc[t] = "keyring"
  /\ loc[t].op = "bulk"
  /\ CanWrite(t)
  /\ Dequeue
  /\ \E i, j \in loc[t].new, replace \in BOOLEAN :
       LET one == AfterPut(items, i, replace, k) IN
       /\ i # j
       /\ \/ /\ PutFails(items, i, replace, k)
             /\ items' = one
             /\ mtimeHolder' = NoTask
             /\ Return(t, "err")
             /\ UNCHANGED <<writer, dropped>>
          \/ /\ ~PutFails(items, i, replace, k)
             /\ items' = AfterPut(one, j, replace, k)
             /\ IF PutFails(one, j, replace, k)
                THEN /\ mtimeHolder' = NoTask
                     /\ Return(t, "err")
                     /\ UNCHANGED <<writer, dropped>>
                ELSE StartDump(t) /\ Drop(t)
  /\ UNCHANGED <<secretVars, readers, salt, mtime, diskVars, openVars, nextSalt, used,
                 acked, budget>>

\* Mutant: only the items the caller's key decrypts are written.
MutWriteTmp(t) ==
  /\ pc[t] = "tmp"
  /\ clock' = clock + 1
  /\ loc' = [loc EXCEPT ![t].tmp = [salt |-> salt, entries |-> Valid(items, loc[t].key),
                                    mtime |-> clock + 1, synced |-> FALSE]]
  /\ pc' = [pc EXCEPT ![t] = "sync"]
  /\ UNCHANGED <<secretVars, rwVars, salt, items, mtimeVars, file, flushed, openVars,
                 nextSalt, ghostVars, budget>>

\* A new file under a random name, written but not yet synced.
WriteTmp(t) ==
  /\ pc[t] = "tmp"
  /\ clock' = clock + 1
  /\ loc' = [loc EXCEPT ![t].tmp = [salt |-> salt, entries |-> items,
                                    mtime |-> clock + 1, synced |-> FALSE]]
  /\ pc' = [pc EXCEPT ![t] = "sync"]
  /\ UNCHANGED <<secretVars, rwVars, salt, items, mtimeVars, file, flushed, openVars,
                 nextSalt, ghostVars, budget>>

\* Mutant: the temporary file is not synced.
MutSyncAll(t) ==
  /\ pc[t] = "sync"
  /\ Goto(t, "check")
  /\ UNCHANGED <<secretVars, rwVars, salt, items, mtimeVars, diskVars, openVars,
                 nextSalt, ghostVars, budget>>

SyncAll(t) ==
  /\ pc[t] = "sync"
  /\ loc' = [loc EXCEPT ![t].tmp.synced = TRUE]
  /\ pc' = [pc EXCEPT ![t] = "check"]
  /\ UNCHANGED <<secretVars, rwVars, salt, items, mtimeVars, diskVars, openVars,
                 nextSalt, ghostVars, budget>>

FreeWriter(t) == writer' = IF writer = t THEN NoTask ELSE writer

\* Mutant: a failed dump keeps the mtime mutex.
MutAbort(t, r) ==
  /\ FreeWriter(t)
  /\ Return(t, r)
  /\ UNCHANGED <<secretVars, readers, queue, salt, items, mtimeVars, diskVars, openVars,
                 nextSalt, ghostVars>>

\* dump fails: both guards are dropped, the temporary file stays behind.
Abort(t, r) ==
  /\ FreeWriter(t)
  /\ mtimeHolder' = NoTask
  /\ Return(t, r)
  /\ UNCHANGED <<secretVars, readers, queue, salt, items, mtime, diskVars, openVars,
                 nextSalt, ghostVars>>

CheckTarget(t) ==
  /\ pc[t] = "check"
  /\ \/ /\ mtime = Mtime(file)
        /\ Goto(t, "rename")
        /\ UNCHANGED <<secretVars, rwVars, salt, items, mtimeVars, diskVars, openVars,
                       nextSalt, ghostVars>>
     \/ mtime # Mtime(file) /\ Abort(t, "TargetFileChanged")
  /\ UNCHANGED budget

Rename(t) ==
  /\ pc[t] = "rename"
  /\ file' = loc[t].tmp
  /\ writer' = IF loc[t].op = "bulk" THEN writer ELSE NoTask
  /\ Goto(t, "stat")
  /\ UNCHANGED <<secretVars, readers, queue, salt, items, mtimeVars, flushed, clock,
                 openVars, nextSalt, ghostVars, budget>>

UpdateMtime(t) ==
  /\ pc[t] = "stat"
  /\ mtime' = Mtime(file)
  /\ mtimeHolder' = NoTask
  /\ FreeWriter(t)
  /\ Return(t, "ok")
  /\ acked' = acked \cup loc[t].new
  /\ UNCHANGED <<secretVars, readers, queue, salt, items, diskVars, openVars,
                 nextSalt, used, dropped, budget>>

IoError(t) ==
  /\ pc[t] \in FaultPoints
  /\ Spend("fault")
  /\ Abort(t, "err")

-----------------------------------------------------------------------------
(* Opening and locking: the value is owned, no task is using it. *)

\* What was removed in memory and never in the file f is no longer removed.
Withdraw(f) == dropped' = dropped \ ItemsOf(Entries(f))

Install(m, path, s, k) ==
  /\ mode' = m /\ hasPath' = path
  /\ secret' = s /\ key' = k
  /\ IF m = "down" THEN Withdraw(file) ELSE UNCHANGED dropped
  /\ UNCHANGED <<keyHolder, rwVars, mtimeHolder, diskVars, pc, loc, used, acked>>

\* A keyring made in memory: a random salt, no time stamp, no key yet.
NewKeyring(S) ==
  /\ salt' = nextSalt /\ nextSalt' = nextSalt + 1
  /\ items' = S
  /\ mtime' = 0
  /\ Spend("new")

\* LockedKeyring::load: a missing file is an empty keyring.
Load ==
  /\ mode = "down"
  /\ Openings \cap {"load", "unchecked", "unencrypted"} # {}
  /\ file # Torn
  /\ Install("locked", TRUE, NoSecret, NoKey)
  /\ \/ file = NoFile /\ NewKeyring({})
     \/ /\ file # NoFile
        /\ salt' = file.salt /\ items' = file.entries /\ mtime' = file.mtime
        /\ UNCHANGED <<nextSalt, budget>>

\* unlock takes the LockedKeyring by value: refusing the secret drops it.
Refused ==
  /\ Install("down", FALSE, NoSecret, NoKey)
  /\ salt' = 0 /\ items' = {} /\ mtime' = 0
  /\ UNCHANGED <<nextSalt, budget>>

Unlock ==
  /\ mode = "locked"
  /\ "load" \in Openings
  /\ \E s \in Secrets :
       \/ /\ UnlockVerdict(items, KeyOf(s, salt)) = "ok"
          /\ Install("unlocked", hasPath, s, KeyOf(s, salt))
          /\ UNCHANGED <<salt, items, mtime, nextSalt, budget>>
       \/ UnlockVerdict(items, KeyOf(s, salt)) # "ok" /\ Refused

UnlockUnchecked ==
  /\ mode = "locked"
  /\ "unchecked" \in Openings
  /\ \E s \in Secrets : Install("unlocked", hasPath, s, NoKey)
  /\ UNCHANGED <<salt, items, mtime, nextSalt, budget>>

UnlockUnencrypted ==
  /\ mode = "locked"
  /\ "unencrypted" \in Openings
  /\ \/ /\ items = Valid(items, NoKey)
        /\ Install("unlocked", hasPath, NoSecret, NoKey)
        /\ UNCHANGED <<salt, items, mtime, nextSalt, budget>>
     \/ items # Valid(items, NoKey) /\ Refused

Lock ==
  /\ mode = "unlocked"
  /\ Idle
  /\ Install("locked", hasPath, NoSecret, NoKey)
  /\ UNCHANGED <<salt, items, mtime, nextSalt, budget>>

\* UnlockedKeyring::open when there is no v1 file: the v0 file's items, encrypted
\* under a fresh salt whatever the strength of the secret, or an empty keyring.  A
\* file found there that is in the v1 format is taken as it is, under a salt of its
\* own and whatever secret it was written with.
Open ==
  /\ mode = "down"
  /\ Openings \cap {"open", "moved"} # {}
  /\ file = NoFile
  /\ \E s, owner \in Secrets \cup {NoSecret} :
       /\ owner = s \/ "moved" \in Openings
       /\ Install("unlocked", TRUE, s, NoKey)
       /\ NewKeyring({Encrypt(i, KeyOf(owner, nextSalt)) : i \in LegacyItems})

Temporary ==
  /\ mode = "down"
  /\ "temporary" \in Openings
  /\ \E s \in Secrets \cup {NoSecret} : Install("unlocked", FALSE, s, NoKey)
  /\ NewKeyring({})

-----------------------------------------------------------------------------
(* The environment *)

\* The process is gone, and with it the keyring and everything held on it.
Stop ==
  /\ mode # "down"
  /\ Spend("crash")
  /\ mode' = "down" /\ hasPath' = FALSE
  /\ secret' = NoSecret /\ key' = NoKey /\ keyHolder' = NoTask
  /\ mtimeHolder' = NoTask /\ mtime' = 0
  /\ writer' = NoTask /\ readers' = {} /\ queue' = <<>>
  /\ items' = {} /\ salt' = 0
  /\ pc' = [t \in Tasks |-> "idle"]
  /\ loc' = [t \in Tasks |-> Blank("none")]
  /\ UNCHANGED <<clock, nextSalt, used>>

Crash == Stop /\ Withdraw(file) /\ UNCHANGED <<file, flushed, acked>>

\* dump syncs the file but not the directory: after a power loss either name may
\* be found, and a file that was not synced may be found without its data.
Surviving(f) == IF f \in {NoFile, Torn} THEN f ELSE IF f.synced THEN f ELSE Torn

PowerLoss ==
  /\ Stop
  /\ file' \in {Surviving(file), Surviving(flushed)}
  /\ flushed' = file' /\ Withdraw(file')
  /\ acked' = acked \cap ItemsOf(Entries(file'))

Flush ==
  /\ flushed # file
  /\ flushed' = file
  /\ UNCHANGED <<secretVars, rwVars, salt, items, mtimeVars, file, clock, openVars,
                 nextSalt, pc, loc, ghostVars, budget>>

\* Another process adds an item to the same file, by a dump of its own.
ExternalWrite ==
  /\ Spend("external")
  /\ file # Torn
  /\ clock' = clock + 1
  /\ \E i \in Fresh, s \in Secrets \ WeakSecrets,
        fileSalt \in {IF file = NoFile THEN nextSalt ELSE file.salt} :
       /\ used' = used \cup {i}
       /\ file' = [salt |-> fileSalt, mtime |-> clock + 1, synced |-> TRUE,
                   entries |-> Entries(file) \cup {Encrypt(i, KeyOf(s, fileSalt))}]
  /\ nextSalt' = nextSalt + 1
  /\ UNCHANGED <<secretVars, rwVars, salt, items, mtimeVars, flushed, openVars, pc, loc,
                 acked, dropped>>

-----------------------------------------------------------------------------
Init ==
  /\ mode = "down" /\ hasPath = FALSE
  /\ secret = NoSecret /\ key = NoKey /\ keyHolder = NoTask
  /\ salt = 0 /\ items = {}
  /\ mtime = 0 /\ mtimeHolder = NoTask
  /\ writer = NoTask /\ readers = {} /\ queue = <<>>
  /\ file \in InitialFiles /\ flushed = file
  /\ clock = Mtime(file)
  /\ nextSalt = 1 + (IF file = NoFile THEN 0 ELSE file.salt)
  /\ pc = [t \in Tasks |-> "idle"]
  /\ loc = [t \in Tasks |-> Blank("none")]
  /\ used = LegacyItems \cup ItemsOf(Entries(file))
  /\ acked = ItemsOf(Entries(file)) /\ dropped = {}
  /\ budget = Budget

Change(t) ==
  Snapshot(t) \/ Decrypt(t) \/ SetSecret(t) \/ UnsetKey(t) \/ Reset(t) \/ Reencrypt(t)

Edits(t) ==
  \/ CreateItem(t) \/ Delete(t) \/ ReplaceItemIndex(t) \/ DeleteItemIndex(t)
  \/ DeleteBrokenItems(t)

Dump(t) ==
  \/ LockMtime(t) \/ LockKeyring(t) \/ CreateItems(t) \/ WriteTmp(t) \/ SyncAll(t)
  \/ CheckTarget(t) \/ Rename(t) \/ UpdateMtime(t)

Step(t) ==
  \/ Enqueue(t) \/ CloneSecret(t) \/ LockKey(t) \/ DeriveKey(t) \/ Read(t)
  \/ Edits(t) \/ Change(t) \/ Dump(t)

Ownership ==
  Load \/ Unlock \/ UnlockUnchecked \/ UnlockUnencrypted \/ Lock \/ Open \/ Temporary

\* Nobody has to open or unlock the keyring again.
Closed == mode # "unlocked" /\ UNCHANGED vars

Environment == Crash \/ PowerLoss \/ Flush \/ ExternalWrite \/ Closed

Next ==
  \/ \E t \in Tasks, o \in Op : Call(t, o)
  \/ \E t \in Tasks : Step(t) \/ IoError(t)
  \/ Ownership
  \/ Environment

Spec == Init /\ [][Next]_vars

\* The executor polls every task that can go on.
FairSpec == Spec /\ \A t \in Tasks : WF_vars(Step(t))

-----------------------------------------------------------------------------
(* Properties *)

\* While no task holds the mtime mutex, the remembered time stamp is the one of
\* the file: the mutex spans the dump and the refresh of the time stamp after it
\* (write, unlocked_keyring.rs:566-580), so a later write of this process cannot
\* mistake an earlier one for a change made by somebody else.
MtimeTracksFile ==
  mode # "down" /\ hasPath /\ mtimeHolder = NoTask => mtime = Mtime(file)

\* Concurrent calls on one keyring never refuse each other's write with
\* TargetFileChanged (the concurrent_writes test has two of them).
NoSelfConflict == \A t \in Tasks : loc[t].res # "TargetFileChanged"

\* Whatever the moment of a crash or a power loss, the path names either no file
\* or a whole keyring: dump writes and syncs a temporary file before it renames.
NeverTorn == file # Torn

\* All items of the file are encrypted under the one key that some secret derives
\* from the salt in the same file, so that the file opens again with that secret;
\* change_secret replaces salt and items together.
FileHasOneKey ==
  file \in KeyringFile =>
    \E s \in Secrets \cup {NoSecret} : \A e \in file.entries : e.key = KeyOf(s, file.salt)

\* Nothing is written under a key too weak to encrypt with, items migrated from a
\* v0 file excepted: those keep the secret they had.
NoWeakKeyWrites ==
  \A e \in Entries(file) : IsWeak(e.key) => e.item \in LegacyItems

\* An item that the caller's key does not decrypt leaves the keyring only through
\* the calls made to remove it (delete_broken_items and the two that take an index);
\* delete, a replacing create_item and change_secret refuse to run over it.
UndecryptableItemsStay ==
  [][\A t \in Tasks : pc[t] # "idle" /\ pc[t] # pc'[t] /\ mode' = "unlocked" =>
       \A e \in items \ items' :
         \/ IsValid(e, loc[t].key)
         \/ loc[t].op \in {"deleteBroken", "deleteIndex", "replaceIndex"}]_vars

\* When no change_secret is under way, the cached key is the key of the current
\* secret and salt: change_secret unsets it before it resets the keyring and
\* derives the new one after that.
CachedKeyFresh ==
  (\A t \in Tasks : loc[t].op # "change") => key \in {NoKey, KeyOf(secret, salt)}

\* Whenever no call is running, every item that was in the first file or whose call
\* answered Ok is in the file, unless a call has removed it on request: neither a
\* creation that fails, nor a change of the secret beside no other call, nor a crash
\* takes it away.  A removal counts from its edit in memory on, though its own write
\* may fail: the next write makes it (unlocked_keyring.rs:571).  It counts no more when
\* the keyring is gone from memory and the item is still in the file.
AckedItemsStay == Idle => acked \ dropped \subseteq ItemsOf(Entries(file))

\* Creating an item with replace removes only items with the same attributes.
ReplacesSameAttributes ==
  [][\A t \in Tasks : loc[t].op = "create" /\ pc[t] = "edit" /\ pc'[t] = "mtime" =>
       \A e \in items \ items', i \in loc[t].new : AttrsOf[e.item] = AttrsOf[i]]_vars

\* A dump only ever replaces the file this keyring has last read or written.
NoBlindOverwrite ==
  [][\A t \in Tasks : pc[t] = "rename" /\ pc'[t] = "stat" => Mtime(file) = mtime]_vars

\* Every call comes back to its caller.
CallsReturn == \A t \in Tasks : pc[t] # "idle" ~> pc[t] = "idle"
===============================================================================
