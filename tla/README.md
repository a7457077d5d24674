# Verification of oo7

[oo7](../src/README.md) stores secrets: a Rust client library that talks to a Secret
Service on D-Bus or keeps its own encrypted keyring file, a daemon (`oo7-daemon`) that
implements the Secret Service on top of such files, a PAM module that hands the login
password to the daemon, and some front ends. This directory holds TLA+ models of it, the
TLC runs that check them on small instances, and TLAPS proofs of what matters most.
Paths below are relative to the repository (`src/` here).

Contents: [Inventory](#inventory) · [Modules](#modules) · [The file keyring](#the-file-keyring) ·
[Collections](#collections) · [Prompts](#prompts) · [Service](#service) · [Sessions](#sessions) ·
[Client Keyring and Item](#client-keyring-and-item) · [Client migration](#client-migration) · [Login](#login) ·
[Runs](#runs) · [Findings](#findings) · [Proofs](#proofs) · [Not modelled](#not-modelled) · [Running](#running)

## Inventory

| part | code | state | operations | hard because |
|---|---|---|---|---|
| file keyring | `client/src/file/{unlocked_keyring,locked_keyring}.rs`, `file/api/` | encrypted items and salt behind an `RwLock`, secret, cached key and remembered mtime each behind a `Mutex`, one file | load, unlock (checked, unchecked, unencrypted), lock, create, bulk create, delete, replace/delete by index, search, delete broken, write, change secret | four locks taken in different orders, all kept across awaits; a dump of several file-system calls; other processes on the same file; crashes |
| client `Keyring`, `Item` | `client/src/keyring.rs` | `Arc<RwLock<Option<file::Keyring>>>`, one per item | lock, unlock, create, search, delete, set_label, set_secret, set_attributes | the value is `take()`n out of its `Option` and a `?` may leave `None`; two lock orders; an index looked up in one call and used in the next |
| client migration | `client/src/migration.rs` | the service's items, the file's items | copy to the file, delete one by one from the service | partial failure |
| D-Bus proxies | `client/src/dbus/` | session, proxies | one call each; wait for a prompt's `Completed` | a signal that may never come |
| daemon service | `server/src/service/mod.rs` | collections, prompts, sessions, pending migrations, pending collections, counters | OpenSession, CreateCollection, Unlock, Lock, SearchItems, GetSecrets, aliases; discovery and start-up; client disconnects | maps behind separate locks; check-then-act; prompts that act later |
| collections and items | `server/src/{collection,item}/mod.rs` | `Option<Keyring>`, item list, item index, per-item `Option` | create, delete, lock, unlock, search, get and set secret | several fields behind several locks; errors between `take` and put back |
| prompts | `server/src/prompt/mod.rs`, `server/src/{gnome,plasma}/prompter.rs` | action (taken once), callback objects, exchange | Prompt, Dismiss, prompter ready/done, retry on a wrong password | two parties and a callback object; every prompt must end in exactly one Completed |
| internal GNOME interface | `server/src/gnome/internal.rs` | none of its own | create, unlock, change with master password or prompt | mixes collection, prompt and secret change |
| sessions | `server/src/session.rs`, `service/mod.rs:1117-1178` | session map, stale marks with times | open, close, mark on disconnect, unmark on use, collect after 60 s | collect and close are two steps |
| migration in the daemon | `server/src/migration.rs`, `service/mod.rs:711-1005,1522-1607` | pending migrations, stamp files | discover, migrate when a secret is known | crash between writing and stamping |
| PAM listener and PAM module | `server/src/pam_listener/mod.rs`, `pam/src/` | buffered secrets, the user's secrets | send on login, unlock, change of the password | arrives before the daemon is ready, or in the middle of something |
| crypto, secrets, formats | `client/src/{crypto,secret.rs,key.rs,mac.rs}`, `file/api` encodings, `server/src/gnome/secret_exchange.rs`, `kwallet/` | none | derive, encrypt, MAC, parse | computation on bytes |
| front ends | `cli/`, `portal/`, `cargo-credential/`, `git-credential/`, `python/`, `macros/` | none | sequences of client calls | - |

Interactions: the daemon and the client library both use the file keyring, the daemon with
several D-Bus calls at a time on one `UnlockedKeyring` behind an `RwLock` that they mostly
take for reading; the prompts run an action of the service when they complete; the PAM
listener calls the collections' unlock and `change_secret`; migration creates keyrings that
become collections.

What makes each part correct:

- **file keyring**: an acknowledged item is in the file and stays there until a call removes
  it; the file is never torn and opens with one secret; concurrent calls behave as if
  one ran after the other and all return; a foreign change of the file is noticed; nothing
  is written under a weak key.
- **client Keyring and Item**: after any error the keyring is either locked or unlocked,
  never absent; concurrent setters do not deadlock; an index edit hits the item it was
  looked up for.
- **migrations**: every item exists in at least one place at any time and in one place at the
  end; restarting after a crash does not duplicate or lose.
- **collections and items**: what the bus shows of a collection agrees with its keyring;
  locked means no secret is handed out; object paths are unique.
- **prompts**: each prompt that was shown ends with exactly one Completed; its action runs at
  most once and only after the user agreed.
- **sessions**: a session that is used is not collected; a client that is gone leaves none.
- **PAM**: a secret that arrives before the collections are loaded is used once they are;
  after a password change either all or none of the user's state has the new password.

The hazards found while reading, each at its line, are in `PROJECT.json`.

## Modules

| module | models | uses |
|---|---|---|
| `KeyringEntries` | the items of a keyring file and the operations on them | |
| `UnlockedKeyring` | one keyring value, its tasks, locks and file | `KeyringEntries` |
| `KeyringStore`, `KeyringStoreRefinement` | what the file keyring promises, and the mapping to it | |
| `Collection` | one collection of the daemon, its items, prompts and PAM calls on it | the promise of the file keyring |
| `Service` | all collections: discovery, migration, aliases, creation, deletion | collections in a few steps each |
| `Prompts`, `PromptContract` | the prompt objects and dialogs; what a prompt promises its client | one collection in two fields |
| `Sessions` | sessions of the daemon and the client's handles on them | |
| `ClientKeyring` | `oo7::Keyring` and `oo7::Item` of an application | a backend call in two steps |
| `ClientMigration` | `oo7::migrate` between the service and the file | both in one step each |
| `Login` | PAM module, login helper, start of the daemon, PAM listener | one collection in one field |

The modules are joined by what they take of each other: `Collection`, `ClientKeyring` and
`ClientMigration` use a file keyring as `KeyringStore` promises it (an edit at once in memory,
then a write of the whole file, refused when the file is not as remembered); `Service` and
`Login` take a lock, an unlock or a change of password as a step, which `Collection` has in
detail. A single module of all of them would have a state space far out of reach, and no
property that needs it: every hazard found is between two parties and one or two objects.

Each `MC...` module gives a module small instances, each `.cfg` one of them; the modules
`...Proofs` hold theorems. The order of work was the file keyring, the collections, prompts,
the service, sessions, the client, login. What is left, in order of worth:

1. More properties of `Collection` for every value of its constants: `CollectionProofs` has the types and the locks of the
   items, over the steps of `change_secret` too; `DeletedStaysDeleted` needs in addition that the items of a keyring are under one key.
2. The methods of the internal GNOME interface that take a master password, next to
   a prompt for the same collection.
3. Collections with items under two names in one instance of `Service` and `Sessions`
   (a client that holds a session over a restart while its collection is migrated).

## The file keyring

### KeyringEntries

The contents of a keyring and the pure operations on it. A key is the pair of secret and
salt (PBKDF2 and the MACs are ideal: another secret or salt is another key, and an item
reads back under the key it was written with and no other). The `Vec` of items is a set of
`[item, key]` pairs: each created item has an identity, and no operation of the file depends
on the order, except that an index names an item, which is any one of the set. Attributes
are sets of pairs; a query matches an item when it is a subset, and, as hashed attributes
depend on the key, only if the item is under the caller's key, with the exception of the
empty query, which matches everything (`encrypted_item.rs:29-42`).

### UnlockedKeyring

One keyring value shared by `Tasks`. A step of a task is the code between two points where
it can be suspended. The variables are the fields of `UnlockedKeyring` and `api::Keyring`
(`secret`, `key`, `salt`, `items`, `mtime`, `hasPath` for `path`), the three locks that are
held across awaits (`keyHolder`, `mtimeHolder`; `writer`, `readers` and `queue` for the fair
`RwLock`), the disk (`file`, `flushed`), and `pc` and `loc` for the tasks.

| code | actions |
|---|---|
| `derive_key` (588-615) | `CloneSecret`, `LockKey` (returns a cached key), `DeriveKey` (keeps the key mutex while it waits for a read guard) |
| `create_item`, `delete`, `replace_item_index`, `delete_item_index`, `delete_broken_items` | `Call`, the key, one action each under the write guard, then `write` |
| `create_items` (534-561) | the key, `LockMtime`, `CreateItems` (both locks, then dump with both held) |
| `write` (565-582) and `dump` (`api/mod.rs:117-188`) | `LockMtime`, `LockKeyring`, `WriteTmp`, `SyncAll`, `CheckTarget`, `Rename`, `UpdateMtime`; `IoError` at any of the file-system calls named by `FaultPoints` |
| `change_secret` (623-668) | `Snapshot` (takes the read guard and keeps it), the key, `Decrypt`, `SetSecret`, `UnsetKey`, `Reset`, the key again, `Reencrypt`, then `write` |
| `LockedKeyring::load`, `unlock*`, `UnlockedKeyring::lock`, `open`, `migrate`, `temporary*` | `Load`, `Unlock`, `UnlockUnchecked`, `UnlockUnencrypted`, `Lock`, `Open`, `Temporary`: they own the value, no task is using it |
| the environment | `Crash`, `PowerLoss`, `Flush`, `ExternalWrite` (the rename of another process) |

The `RwLock`s of tokio and async-lock are fair towards writers; `Enqueue` puts a request
that cannot be granted at the end of one queue and `MyTurn` lets nobody overtake it. That is
what makes the second read of `change_secret` a hazard.

`Open` is taken only when there is no v1 file (otherwise `open` is `load`, which is `Load`
and `Unlock*`). The v0 file is the set `LegacyItems`; that it decrypts under the given
secret is taken as given. The opening `moved` is a v1 file found under the v0 path, which
`migrate` adopts without checking the secret. `unlock` that refuses drops the keyring, as in the code, where it
takes `self` by value.

Bounds: `Budget` says how many calls, new keyrings, failures, foreign writes and crashes may
happen; `Items` bounds how many items are created; stamps and salts are counters that these
bound in turn. `create_items` gets two items, the shortest batch in which one item can
replace another and the second can fail after the first succeeded.

Three history variables serve the properties only: `used` (items some call was made for),
`acked` (items of the first file and of calls that answered Ok; after a power loss, only
those that the surviving file has) and `dropped` (items removed because a call asked for it).

### KeyringStore and KeyringStoreRefinement

`KeyringStore` is the promise to the callers: items in memory, items in the file, and how
far each call is; edits happen at once (also those of a call that fails later, whose removal a later save makes), the file goes from one complete state of
the memory to another, Ok comes after a save that includes the caller's edit, a power loss
falls back to an earlier saved state. `KeyringStoreRefinement` maps the detailed state to it;
the items `change_secret` holds in a local variable between reset and re-encryption count as
being in memory. `ImplementsStore` is checked for one caller with everything, and for two
callers without `change_secret`; with `change_secret` and a second caller it does not hold,
see the findings. `StoreImplemented` proves it step by step where that is ruled out (`Undisturbed`).

## Collections

`Collection` is one collection on the bus with the calls that change it. Every D-Bus call is
a task; a step is what runs between two awaits that can suspend it. Its variables are the
fields of `Collection` (`keyring`, `items`, `item_index`) and of the `Item`s (`bus`), the
object server's tables (`served`, `registered`), the file, and who holds each lock across
awaits: `writer` and `readers` for the keyring's `RwLock`, `itemsHolder` for the list,
`service` for the service's map of collections, `dumping` for the locks of the file keyring
while it writes.

| code | actions |
|---|---|
| `Collection.CreateItem` (`collection/mod.rs:178-346`) | `Check`, `CreateFile`, the key, `PutItem` and `Rename` (the file), the key again, `ReadIndex`, `Number`, `Search` and `Purge` (replace), `Push`, `Serve` |
| `Item.Delete` (`item/mod.rs:24-97,407-428`, `collection/mod.rs:647-690`) | `Check`, `Find`, `ReadAttributes`, `DeleteFile`, the key, `RemoveItems`, `Rename`, `Retain`, `Unserve` |
| `Collection.Delete` (46-146) | `Check`, `Recheck`, `UnserveAll`, `RemoveFile`, `Unregister` |
| `Item.set_attributes` (240-254) | `SetAttributes`; `set_label` and `set_secret` likewise change only the item on the bus |
| `Collection::set_locked` (540-612), `Item::set_locked` (364-405) | `Take`, `LockItems`, `EachItem` with `Turned` |
| `Service.Lock`, `Unlock` (`service/mod.rs:251-397,1180-1263`) | `LockService`, `DecideCollection`, `DecideItem`, `ItemLock`, the key, `TurnItem`; after a prompt `Resolve` |
| an unlock prompt (`prompt/mod.rs:203-267`, `gnome/prompter.rs:395-446`) | `Prompt` (the user), `Validate` |
| `derive_key` (`unlocked_keyring.rs:588-615`) | `GetKey`, `ReadSecret`, `DeriveKey` |
| PAM listener (`pam_listener/mod.rs:295-422`) | `PamUnlock`, `PamChange`, `StartChange` |
| `change_secret` (`unlocked_keyring.rs:623-668`) | `Snapshot`, `NewSecret`, `UnsetKey`, `Reset`, the key, `Readd`, `Rename` |

The file keyring has here the steps that other calls of the daemon can come between, as these keep only a read guard of
the collection's keyring: the secret is read and let go of (`ReadSecret`), the key is taken from the cache or derived from that
secret and the salt of now (`DeriveKey`), the list is edited up to `dump`'s comparison of time stamps (`Edit`), the file is renamed
(`Rename`), because here it can be removed in between; `stamped` says whether the keyring
remembers a time stamp, since `dump` refuses to create a file it remembers having read. Reading
the time stamp back belongs to the rename. `change_secret` has each of its steps. A key is the secret and a counter for the salt.
The queue of the file keyring's `RwLock` is not in this module: nobody waits there for a key, since `create_item` and `delete` have
derived and cached it before they ask to write (`unlocked_keyring.rs:430-431,466-467`), and there is none in the cache only before the first
derivation and between the `unset` and the next derivation of the one change that the service's mutex allows the PAM listener. `UnlockedKeyring`
has the queue; there TLC was run by hand on one task that changes the secret, one that creates and one that deletes and creates, and every call
returns. Two changes at once, of which one comes from `gnome/internal.rs`, do wait for each other (findings).

Histories: `late` are items added to the list of a collection that is not unlocked, until a `set_locked` turns the list; `beside` says that
a change of the password and a call that uses the key were under way at the same time. They are the exceptions of
`ItemsFollowCollection` and `DeletedStaysDeleted`; without them both fail (findings).

Of the object server it is taken that `at` keeps an interface that is already at the path
and that `remove` fails when there is none, as the code's `?` expects.
`set_locked` with a secret that is refused or an item that fails leaves `None`, the state `"none"`
here; a call that would `unwrap` it ends there, as a panic drops its guards.

Left out: the password changes of `gnome/internal.rs`, which take no mutex of the service, unencrypted keyrings and the session of a call (`NoSession` returns before anything
happens), signals, labels, the modified time, other processes and restarts.

## Prompts

`Prompts` has the prompt objects that `Unlock`, `CreateCollection` and `ChangeWithPrompt` make, the
dialogs that show them and the clients that wait. A dialog is one call of `Prompt` with the
callback object made for it; `prompter` is which of the three prompters the environment selects.

| code | actions |
|---|---|
| `Service.Unlock`, `CreateCollection`, `ChangeWithPrompt` up to the prompt | `RequestUnlock`, `RequestCreate`, `RequestChange` in `Request` |
| `receive_completed` of the client | `CallPrompt`, `Return`, `GiveUp` |
| `Prompt.Prompt` (`prompt/mod.rs:60-118,330-440`) | `Check` (the callback's `OnceCell`), `Install` or `PromptCli` |
| `PrompterCallback`, `PlasmaPrompterCallback`, `prompt_cli` | `Begin`, `Lookup`, `Answer`, `Refuse`, `Garbled`, `Validate`, `Retry`, `Take` |
| `Collection::set_locked` as the unlock action and PAM see it | `Unlocked`; `ValidatePanics` when it has left no keyring |
| the actions (`service/mod.rs`, `gnome/internal.rs`) | `ExecuteUnlock`, `ExecuteChange`, `ExecuteCreate`, `Create`, `ExecuteFails` |
| the signal, and the end of a dialog | `Emit` (a task of its own), `PromptDone` |
| `Prompt.Dismiss` | `Dismiss`, `RemovePrompt` |

The prompter programs are external: of them the model has the calls in both directions, their
failure (`PrompterFails`) and the user's answers. `PromptContract` is what is promised to
the client: an action runs at most once, a result is told after it succeeded and only
once, a dismissal is told only of a prompt whose action does not run. `KeepsContract` maps the
detailed state to it. It holds when only the client that got a prompt calls it (`CallersOf`),
as the clients of this repository do.

Fairness: the tasks of the daemon and of the client go on; a prompter answers, and a user closes
a dialog in the end (`Reacts`). That is an assumption about people, but without it no prompt
promises anything. `collection` has the collection's keyring (`"none"` when `set_locked` has taken it out and failed), its password, and
whether none, some or most of its items do not decrypt; the action of an unlock prompt does not look at what
`set_locked` returns, so it succeeds with the outcome `"unchanged"` then. `ResultIsTrue` names the two cases in which the client is told a result all the
same. `ClientsAnswered` excuses a client that waits when somebody called `Dismiss` on its prompt, when the command line took a wrong
secret, or when a handler, the prompter or the action failed in the dialog that this client's own call made (`Lost`); that
a dialog ended in the ordinary way is no excuse, its client hears of it.

## Service

`Service` is `Service::run` and the calls that make, find and delete whole collections:
`discover_keyrings` (`ScanV1`, `ScanLegacy`), `initialize` (`Register`, `Place`, `Serve`, `Replay`),
`PendingMigration::migrate` (`Open`, the write, `Stamp`), the write of a keyring (`Write`, up to the comparison of the time stamps, `Rename`, `Refresh`), `create_collection_with_secret` (`Label`, `ServeAt`,
`Insert`), `try_unlock_collections` and `migrate_pending_keyrings` (`PamLock`, `PamNext`, `PamDone`, `UnlockAll`),
the action of an unlock prompt (`Look`, `FindPending`, `SetLocked`, `ReplaceKeyring`, `Forget`), the end of
`Collection.Delete` (`Unserve`, `Remove`) and, as single steps, `Lock`, `SetAlias`, and `Store` (the edit of a `CreateItem`, which then writes).

A path is the pair of a sanitized label and the number that makes it unique. Every
`Collection` in memory and every keyring that is to become one is one of `Objects`; `time` says whether
it remembers the time stamp of its file, an older one or none, which is all that
`dump` compares; the mutex of the time stamp is each object's own (`Dumping`), so that two objects on one file may both have
compared before either renames: `raced` remembers the names to which that has happened. The mutexes of `collections` and of `pending_migrations` have holders, since both are
kept across awaits. `Crash` may come at any step and leaves the disk; `Budget` bounds calls,
crashes, and failing writes and stamps. `moved`, `foreign`, `raced`, `placed`, `deletedAt` and `panicked` are
histories. Clients call what `ReadAlias` or `Collections` lists; `foreign` names a keyring file that
was made without the legacy keyring of its name, which hides the latter for good.

`NotAllWaiting` says that some task can always go on (`ENABLED`); there is no fairness in this
module, as nothing in it waits for anything else.

## Sessions

`Sessions` has the daemon's sessions (`Number`, `Insert`, `Export` in `OpenSession`; `Lookup`; `Close`), the watch over clients
that leave the bus (`Watch`, `See`, `MarkSeen`), the sweep of every 30 seconds (`Collect`, `Pick`, `CloseStale`) and
the client's side in `client/src/dbus/service.rs`: opening with a fall-back to a plain session
(`New`, `KeysFail`), `Keep`, `Drop` and `Release` for the shared `Arc<Session>`, and `GiveUp` for a call that times out or
is dropped. Handles of one process may share a connection (`MayUse`). `Restart` is a new daemon, which
numbers sessions from 1 again while clients keep their paths.

A minute (`Expire`) only passes when no session is being opened: no step of the daemon takes that
long. `GoneSessionsClosed` names four exceptions in the history `excused`; `robbed` are sessions that a handle
closed whose path is from an earlier daemon.

Fairness: each task of the daemon goes on, and so does the clock.

## Client Keyring and Item

`ClientKeyring` is `client/src/keyring.rs` with the file backend: the `RwLock` of the keyring, one for each `Item`, and
for each call the guard it takes first, the one it takes second, and what it does under them. The
locks of tokio and async-lock are fair, a reader waits behind a waiting writer (`Enqueue`, `Grants`). A call of the
backend is a step in memory (`Edit`) and one for the file (`Write`). Calls may fail, and their futures may
be dropped wherever they wait (`Cancel`), which releases the guards; `broken` remembers what such a call
had taken out of its `Option`.

In the passing run at most one task calls what removes entries; with two an index goes stale
(findings). Items have attributes of which none contains another's, for the same reason as in the file
keyring. Fairness: the runtime polls every task that can go on.

## Client migration

`ClientMigration` is `oo7::migrate` call by call: `Load`, `Search`, `Read`, `CreateItems`, `Delete`, any of which may fail, with the service and
the file each changed by others, and with an application that is killed and starts again.
`CreateItems` is refused when the file is not what was loaded. `LateEdits = FALSE` keeps other clients of the service from
changing an item between its reading and its deletion; with `TRUE` the change is lost (findings).

## Login

`Login` follows the user's password: `pam_sm_authenticate`, `pam_sm_open_session` and `pam_sm_chauthtok` (`Authenticate`, `OpenSession`, `Chauthtok`), the thread
and the child that send it (`Begin` to `Finish`, with the process's signal handlers `Save`d and `Restored`), the login helper
(`HelperRemove`, `HelperBind`, `Serve`, `HelperTimeout`, `HelperEnd`), the start of the daemon (`LookForHelper`, `Run`, `TakeName`, `Initialize`, `Replay`), the listener's socket
(`RemoveSocket`, `Bind`) and its tasks (`Buffer`, `Try`, `Change`, `Update`, `Answer`). Processes, forks and daemons may die.

The helper's two minutes are over only when a daemon has looked for it or none is to come
(`HelperTimeout`): a daemon that starts with the session starts within them. `excused` are messages that a
process had in hand when it ended, or that came to the helper after the daemon's only look; `due` are
passwords that a daemon received and has not tried.

Fairness: threads, children, helpers and tasks go on; the session starts the daemon and starts it again
when it fails (the unit has `WantedBy=default.target` and `Restart=on-failure`). `Overlap = FALSE`: no second daemon starts
while one runs.

## Runs

Twelve runs pass; each checks the properties named with it, and each property fails on a mutated
definition (operators `Mut...`, placed before the definition they stand for).

| run | instance | shows |
|---|---|---|
| `concurrent_edits` | 2 tasks, 3 calls, every operation but `change_secret`, one failing call before the metadata call, fairness | `NoSelfConflict`, `ImplementsStore`, `CallsReturn`, no deadlock |
| `sequential` | 1 task, 3 calls, `change_secret` included, v0 migration, one failure anywhere, one crash or power loss, reopening | `TypeOK`, `CachedKeyFresh`, `FileHasOneKey`, `AckedItemsStay` |
| `openings` | 2 tasks, 2 calls, all ways to open, mixed and v0 files, weak secrets, one foreign write, one crash | `NeverTorn`, `NoWeakKeyWrites`, `UndecryptableItemsStay` |
| `collection_sequential` | 1 task, 5 calls: create with replace, both deletes, lock, unlock, PAM unlock and password change; on an empty file or two items, locked or not, with or without a cached key | `NothingLeftTaken`, `BusMatchesFile`, `PasswordChangeRelocks` |
| `collection_concurrent` | 2 tasks, 4 calls, one failing write: one creates, locks, unlocks, changes the password; the other deletes items, locks, unlocks through PAM | `WellFormed`, `ItemsFollowCollection`, `DeletedStaysDeleted` |
| `collection_calls_return` | 2 tasks, 3 calls of any kind on one item, a weak secret, one failing write, fairness | `CallsReturn`, no deadlock |
| `prompts` | one unlock, one creation, one change prompt; 2 clients, 2 dialogs, each prompter; a collection of which no, some or most items do not decrypt; 2 answers, a dismissal, a lock and a failure | `WellFormed`, `ResultIsTrue`, `NothingLeftBehind`, `ClientsAnswered`, `KeepsContract` |
| `service` | a v0 `login` and a KWallet file `wallet` with different passwords; 2 tasks, 2 calls, a crash, a failing write or stamp | `WellFormed`, `StampedWereMovedOrForeign`, `NotAllWaiting`, `FilesKeepItems` |
| `sessions` | 2 handles, 2 connections, one of them shared or not, one restart | `WellFormed`, `HeldSessionsAnswer`, `GoneSessionsClosed` |
| `client_keyring` | 2 tasks, 2 handles, 3 calls, one failure or dropped future | `WellFormed`, `AckedStay`, `LockedUntouched`, `CallsReturn` |
| `login` | a login with `auto_start`, a `passwd`, a helper, a daemon that may crash once and its successor, one process or fork that fails | `WellFormed`, `ReceivedIsTried`, `ListenerReachable`, `SecretArrives` |
| `client_migration` | 2 items, 2 queries that overlap, 3 migrations, 2 failures, 2 kills, 2 edits by others, one foreign write of the file | `WellFormed`, `NothingLost`, `OkMeansMoved` |

`WellFormed` of a module is its `TypeOK` and the invariants that tie its parts together: one item for
a path (`Collection`), an action at most once (`Prompts`), what is listed is served, what is put off can be
reached and something is the default (`Service`), list and object server agree (`Sessions`), what is taken out is
put back (`ClientKeyring`), signal handlers are given back (`Login`), one entry for each item
(`ClientMigration`).

Why these bounds: a lost update, a mutual wait or a stale read needs two tasks; the third
call lets a failed call be followed by a successful one while another runs. One failure and
one crash per behaviour may fall on any step; what they leave behind is seen by the
calls that follow. In the file keyring three items give a batch of two plus one that is there before
(`i1` has one attribute, `i2` that one and another, `i3` none, so replacing with `i1` replaces `i2` and not the
reverse). Five calls on a collection are enough to lock it, be refused, unlock it, and create and
delete afterwards; in `Collection` `i1` and `i3` have the same attribute, `i2` another. Two dialogs give a second
answer to one prompt or two prompts that change one collection. In `Service` the two passwords make PAM's secret
right for one source and wrong for the other, so that each migration may be done, put off or
refused; the eight `Objects` are never used up. A second handle is what takes a path from an earlier daemon.
Three migrations allow one to fail, one to be killed and one to finish.

What the passing runs leave out is what the findings show, and each omission is in the `.cfg`:
`collection_sequential` has no broken items, weak secrets, item locks, edits of attributes,
twins without replace or failing writes; `collection_concurrent` has a single task that creates, none that locks items by themselves or
edits attributes, while creations overlap locks, unlocks and deletions, and password changes overlap deletions and locks;
`concurrent_edits` has no `change_secret`, `sequential` and `openings` have one where a single task runs or not at all;
`prompts` has only the owner of a prompt call it; `client_keyring` has one task that removes entries; `client_migration` has no late edits;
`login` has no second daemon at a time, one helper, and not both messages from one process.

Fairness: `FairSpec` has weak fairness of each task's next step. An async executor
polls every task that was woken, and the locks wake the head of their queue, so a
step that stays possible is taken. In `Collection` the user's answer to a prompt is not
fair: `CallsReturn` there allows a call to wait for it. No fairness is assumed of new calls,
failures, crashes or the environment. The other modules' fairness is under their headings.

Deadlock is checked in the runs of the file keyring and of `Collection`, where `Closed` and `Quiet` let the system rest
when nothing is running. Elsewhere `CHECK_DEADLOCK FALSE` is set, because clients may stop and budgets
end; what may not stop there is said by `CallsReturn`, `ClientsAnswered`, `NotAllWaiting`, `GoneSessionsClosed` and
`SecretArrives`.

## Findings

What the code does against what its documentation, comments or tests say, or what a caller would
expect. Those with a name in code type have a configuration of that name that ends in a
violation; they are repeated by hand and are not among the regular runs. The others were found
with configurations of the same kind, or while reading for the model.

File keyring:

- `secret_change_stale_key`: another call's `derive_key` during `change_secret` fills the
  cache with a key of the old secret or old salt; `change_secret` then re-encrypts with it
  and the new secret does not open the file (`unlocked_keyring.rs:644-655`).
- `secret_change_loses_item`: an item created between `drop(keyring)` (635) and `reset()`
  (651) is acknowledged and gone. One that is deleted between the two comes back with the others (660-664), although the
  deletion succeeded: `DeletedStaysDeleted` without its exception `~beside`, in `collection_concurrent`.
- `change_secret` holds a read guard (624) and `derive_key` takes a
  second one (606) when no key is cached; a writer queued in between stops both. Two changes at once come to
  that: one has unset the key (647) and waits for the write guard to reset, the other holds its guard and has to derive. The PAM listener changes
  one collection at a time, under the service's mutex, `server/src/gnome/internal.rs:126,178` does so without it. `create_item` and `delete` have
  the key in the cache before they queue for writing, so that one change beside them returns (see [Collections](#collections)).
- A removal whose write fails is made by the next write of anybody, although its caller was told of an error (571): that is
  part of `KeyringStore`, and of `AckedItemsStay`.
- `foreign_write_overwritten`: `dump` compares time stamps and then renames; a foreign write
  in between is overwritten (`api/mod.rs:179-185`).
- A too short new secret is refused by `change_secret` only after the reset; the next write empties
  the file (662).
- `replace` removes items that have *at least* the new item's attributes, not the *same* (471).

Collections:

- `collection_create_while_locking`: an item pushed after the collection was locked stays
  unlocked and hands out its secret (`collection/mod.rs:292,328`); `EveryItemLocked` is `LockedWithCollection` without the exception `late`.
- `set_attributes` does not reach the file, a delete by
  the new attributes misses the item there and succeeds (`item/mod.rs:253`).
- An item that fails to unlock leaves the keyring `None` until
  the daemon restarts (584). So do the session collection, which has no file to read again (571), and an
  item that was locked by itself and has the old key after a change of the password
  (`pam_listener/mod.rs:396`).
- `collection_password_change_opens`: a failed change does not lock again what it unlocked
  (`pam_listener/mod.rs:415`).
- `collection_deleted_file_returns`: `delete_unlocked` removes the file without any guard, and a
  write between its check and its rename puts it back (`collection/mod.rs:113,126`).
- Two calls with `replace` search before either has pushed; the file has one item, the bus two (310,
  328). `delete_item` deletes by attributes; items without a counterpart in the file stay on the bus
  (676-681).

- Two calls of create read the same `item_index` (294) before either writes it (297-303): two items have one path, and the
  object server has the first (`OnePathOneItem` with two tasks that create).

Prompts and service:

- The action of an unlock prompt ignores the error of `set_locked` (`service/mod.rs:326,331`): the client is told a result for a collection that
  is still locked, because most of its items do not decrypt (`locked_keyring.rs:123`), or that has lost its keyring at the first such
  item (`collection/mod.rs:584`), while the check before was content with one item that does (`api/mod.rs:305`). So it is when another prompt
  changes the password between check and use. In `ResultIsTrue` these are the named exceptions.
- Two keyring objects of the daemon on one file (see below how they come about) both compare the time stamp before either renames: the second rename overwrites
  what the first one wrote and acknowledged (`api/mod.rs:179-185`). `FilesAlwaysKeepItems`, in place of `FilesKeepItems`, fails in `service`.
- `prompts_two_dialogs`: two calls of `Prompt` both find no callback and show two dialogs
  (`prompt/mod.rs:349-368`), although `prompt/tests.rs:31` expects a refusal.
- A prompt that is dismissed by a call, whose action fails or whose secret is wrong at the command
  line never tells its client (`prompt/mod.rs:121,203,423`); `receive_completed` waits.
- `service_migrated_twice`: a legacy keyring that PAM's secret migrates is added beside the locked
  placeholder of the same label, under a path with a number.
- `service_legacy_left_behind`: a keyring file made under the name of a legacy keyring that is not migrated
  yet hides it; the migration is then stamped without its items.
- Creating a collection with the label of an existing one opens the same file twice. A
  deleted collection stays served at the path of the default alias. `SetAlias` leaves other collections with
  the alias. A v0 keyring whose migrated file was deleted is migrated again by the next
  `open`, stamp or not. A KWallet file `login` does not become the default. A client that creates a
  collection `login` while the daemon starts leaves it without a default collection (see `ServiceWellFormed`).
- A call that comes before `Service::connection` is set makes `unwrap` panic (`NothingPanics`).

Sessions:

- `sessions_wrong_key`: after a restart of the daemon a client's path may be another client's session;
  secrets are then decrypted under the wrong key. With the same path `Drop` of the first closes the second's
  session.
- `sessions_left_open`: of a connection with two sessions one is marked (`service/mod.rs:1117`), and one opened while
  its client leaves is never closed.
- Any method error of `OpenSession` makes the client fall back to a plain session, a lost daemon included.

Client:

- `client_keyring_deadlock`: `set_attributes` takes the keyring and then the item, the others the reverse; with
  a `lock` waiting in between three tasks wait for each other (`keyring.rs:346,475-485`).
- `client_keyring_stale_index`: the index from `lookup_item_index` (487) is used in a later call (496); when another
  task has removed an item it names a different one.
- `set_attributes` of an `Item` that was deleted looks for the first item with at least its attributes and replaces one that has more
  (485-498), with a single task and without failures.
- An error of `unlock` or `lock`, or a dropped future, leaves `None`; later calls panic at `expect`
  (`keyring.rs:166-187,596-655`).
- `client_migration_late_edit`: an item changed between its reading and its deletion is deleted with
  the change.
- Of two items of which one has all attributes of the other, `replace` keeps the last
  in the file and both are deleted from the service.
- Queries that overlap find an item twice: the second deletion fails and the migration returns an error
  though it is complete; without replace the item is in the file twice. Without a portal `migrate` returns Ok and
  does nothing.

Login:

- `login_late_helper`: the daemon looks for the helper once (`main.rs:146`) and PAM for the daemon's socket before it
  starts the helper: both may look too early, and the helper waits in vain.
- The second helper removes the first one's socket, or a helper that ends the socket of the next
  (`login.rs:41,77`).
- `login_early_change`: a change of the password before the collections are loaded is answered with
  success and not made (`pam_listener/mod.rs:239`).
- `login_second_daemon`: a daemon that will not get the name on the bus has already taken the socket of the one that
  runs (`pam_listener/mod.rs:112`).
- `login_signals`: two threads in PAM save and restore the same signal handlers; the process is left with
  the module's (`socket.rs:25-52`).
- Two processes that log in one after the other while the daemon starts, with a change of the password in between:
  the second one's password takes the place of the buffered first one, which is never tried
  (`pam_listener/mod.rs:201`; outside `OneLogin` below).
- The password stashed by `authenticate` is sent by `open_session` also when `chauthtok` changed it in
  between (`StashIsCurrent`).

## Proofs

`UnlockedKeyringProofs` proves for every value of the constants that satisfies the named
assumptions (`EntriesAssumption`, `NoKeyAssumption`, `UnlockedKeyringAssumption`; among them:
an initial file is a whole, synced keyring):

- `TypeCorrect`: `Spec => []TypeOK`. `TypeOK` alone is not inductive, since `SyncAll` updates a
  field of the temporary file: `TypeInv` adds `TmpWritten`, that there is a written file at
  the steps that use it, synced from the check on.
- `FileNeverTorn`: `Spec => []NeverTorn`, from `DiskWhole`: `file` and `flushed` each name
  nothing or a synced keyring. `Rename` needs `TmpWritten`; a power loss then finds only files
  with their data.
- `TimeStampTracksFile` and `NoCallConflicts`: `MtimeTracksFile` and `NoSelfConflict`, if no other
  process writes the file (`Budget["external"] = 0`) and reading back the time stamp does not
  fail (`"stat" \notin FaultPoints`). The inductive invariant `MtimeInv` says that only the
  holder of the mtime mutex is at the steps from `keyring` to `stat`, and that the remembered
  stamp differs from the file's only while some task is at `stat`, that is, between its rename
  and its refresh. Without the two assumptions the statement is false, also of the code.
- `NoItemUnderWeakKey`: `Spec => []NoWeakKeyWrites`, if no initial file has an item under a weak key. `StrongInv`
  says it of the list in memory, of the file, of what a power loss would leave of it, and of each temporary file: every
  step that encrypts has the check of the key's strength before it.
- `UndecryptableKept`: `Spec => UndecryptableItemsStay`, if a task that may change the secret is the only task (`ChangesAlone`). The
  inductive `KeyInv` says which key a task holds at each step of `derive_key` and of `change_secret`; with a second task it is
  false (`secret_change_stale_key`). `PutSpares` and `EditsSpare` say it of each edit, a batch
  that fails at its second item included; for the `Reset` of `change_secret`, which empties the list, `DecryptedInv` says that between
  `Decrypt` and `Reset` all items are under the key they were decrypted with. The run `openings` has no change; with one, TLC
  was run by hand: alone it finds nothing, and a second task that creates an item between the two steps loses it, under the new key.
- `FileKeepsOneKey`: `Spec => []FileHasOneKey` under `OneWriter`: `ChangesAlone`, no foreign writes, no
  opening without the check of the secret, and initial files under one key each. `OneKeyInv` says
  it of memory and of each file, and that memory agrees with the file's salt except inside a change.
- `AckedItemsInFile`: `Spec => []AckedItemsStay` under `OneWriter` with no secret below the least length (with one,
  `change_secret` empties the list before it refuses it, see above). `AckedInv` says that what was acknowledged
  and not dropped is in the file, in memory unless a change is about to encrypt it anew, then in the items that the
  change decrypted, and in each temporary file; and the same of the items of a call from its edit to its answer.
  An item is dropped from the edit of a removal on, for the next write makes it; it is acknowledged again when the memory is lost
  and the file still has it.
- `StoreImplemented`: `Spec => ImplementsStore`, the refinement of `KeyringStore`, under `Undisturbed`: no foreign writes, and
  a task that changes the secret is alone, with no secret below the least length. The run `concurrent_edits` has two tasks and no
  change, for one task with it TLC was run by hand. `StoreInv` says that a task from its `tmp` to its `rename` is
  the writer, so that its temporary file has what is in memory; that a key is derived for the calls that need
  it; and that the list is empty while a change holds the items. `StepImplements` then takes each action of
  `UnlockedKeyring`: the first lock, the key, the temporary file and the check are stutters, the edit is `Edit`, the
  rename `Save`, an answer `Succeed` or `Fail`; a crash or a power loss is `Stop` since files are whole (`DiskWhole`).

`ClientKeyringProofs` proves about the `RwLock`s of `oo7::Keyring` and `oo7::Item`, for any tasks, handles, calls,
failures and dropped futures (`ClientKeyringAssumption`):

- `GuardsHold`: `Spec => []GuardInv`, that the keyring's lock has a writer or readers, and that a call at a
  step that reads the keyring holds a read guard and the keyring is unlocked. `Shape`, which is proved first, says of
  records and labels what the steps need; `WriterAlone` is the argument: `lock` and `unlock` change
  the keyring at a step at which they are granted the write guard, so that nobody reads.
- `LockedStaysUntouched`: `LockedUntouched`. What changes memory or file is a step of a call that reads.
- `NothingStaysTaken`: `Spec => []NothingLeftTaken`, from `TakenAndPutBack`: a step of one task leaves what the others
  have in hand, and lets go only of what is put back, or recorded as broken.
  The invariant is inductive given `Shape`.
- `KeyringWellFormed`: `Spec => []WellFormed`, from `TypeInv`, which adds to the types that only a call has a step other
  than idle. What it rests on are proofs about lists, see below: `KeptElements`, that `Kept` returns a list
  of the same entries as `ToSet(s) \cap S`, and `Least`, that there is a first entry that matches.
- `AcknowledgedStays`: `Spec /\ []EditsOwnItem => []AckedStay`, for any attributes and any tasks. `EditsOwnItem`, that `set_attributes` edits
  the item it looked up, is what the code does not see to (`client_keyring_stale_index`); the theorem says that an item is lost in no
  other way. `AckInv` has what is acknowledged in the list and in the file; `EditKeeps` takes each edit.

`CollectionProofs` proves of `Collection` (`CollectionAssumption`: finitely many items, none of them twice in the file), for
any tasks, calls, items, secrets and failures:

- `CollectionTypes`: `Spec => []TypeOK`, from `TypeInv`. `Shapes` says of each call where it may be (`Course`) and where its
  `set_locked` leads (`Direction`), `Held` at which labels a call holds which of the five locks, and that the keyring has a
  writer or readers. That a path is never beyond the number of items is an argument by counting: `Distinct` gives each call
  of create an item of its own, and `Counted` says that the next number is at most one more than the items that were numbered.
  `Still` and `Onward` are the steps that move a call and nothing else, most of them; the rest have a lemma each, among them each step of
  `derive_key` and of `change_secret`.
- `ItemsFollow`: `Spec => []ItemsFollowCollection`, if no item is locked by itself (`NoItemLocked`; one that is stays
  locked in an unlocked collection, as the code means it). Any task may lock, unlock, re-key, create and delete beside
  any other; the one exception is the property's own, an item that `create_item` adds after its collection was locked (`late`).
  The property is not inductive while a `set_locked` is under way: `TurnInv` says that it has turned what is not in its
  `todo` and that nobody adds to the list meanwhile, `OpenInv` that a read guard keeps the collection
  unlocked, through every step of `change_secret` and `derive_key`, `UnpushedInv` that an item that is being created is not in the
  list and no call to unlock an item is for it, and `CreateInv` that it is unlocked when it is added.

`PromptsProofs` proves of `Prompts` (`PromptsAssumption`), for any number of prompts, clients, dialogs and answers:

- `ActionsRunOnce`: `Spec => []WellFormed`. `TypeOK` is not inductive alone: `Prompted` says that what is shown is a
  prompt. `RanInv` adds `Taken`, that a dialog that runs or ran an action has taken it, and `Once`. `take_action` is
  the argument: a dialog begins to run an action only if nobody has taken it.
- `ContractKept`: if only its owner calls a prompt (`OwnCalls`, true of the clients of this repository, each of
  which keeps the path to itself), `Spec => KeepsContract`. Without it two dialogs may be shown, of which one tells
  of a dismissal and one of a result. The inductive invariant `TellInv` relates what became of an action (`Outcomes`),
  who was asked (`Asked`) and the signals to be emitted (`Spawned`); `Alone`, the one dialog of a prompt (not of the
  command line prompter, which tells of no dismissals), is the only part that needs `OwnCalls`. Most steps are
  `Quiet`, which the lemmas treat as one; `NextKinds` lists the other kinds, and each maps to one action of
  `PromptContract` or to none.
- `ResultsAreTrue`: `Spec => []ResultIsTrue`, also when several clients call one prompt. `TruthInv` says that the
  secret of an unlock prompt whose action is about to run was checked, that only a prompt that changes the password
  can have changed it since, and that the collection loses its keyring only where an item does not decrypt: these two are
  the exceptions in the property, and there are no others.
- `NothingIsLeft`: `Spec => []NothingLeftBehind`. `LeftInv` says what is left for whom: what the list has and the object
  server has not is in the hands of a call of `Dismiss` (`Listed`), a dialog that ended has unregistered its prompt and its
  callbacks (`Ended`), and the call of the command line prompter lasts as long as its dialog (`Awaited`).

`SessionsProofs` proves of `Sessions` (`SessionsAssumption`: finitely many handles, and at least one connection):

- `SessionsWellFormed`: `Spec => []WellFormed`, and `HeldSessionsAnswered`: `Spec => []HeldSessionsAnswer`, from one inductive
  invariant. `Unique` says that no two handles have one session of this daemon, be it opened, held or about to be
  closed, and `Counted` that every call that waits will find a number; `Ahead` that nobody marks or closes a session before
  `open_session` has put it in the list and on the bus, and `Inserted` that it stays in the list
  in between; `Left` that what is marked or swept is of connections that left; `Tables` is the
  agreement of list and object server with what is under way spelled out, which gives the second half of `WellFormed`.

`LoginProofs` proves of `Login` (`LoginAssumption`: a process makes each PAM call at most once):

- `LoginTypes`: `Spec => []TypeOK`, from `Typed`, which adds the shapes of records by their step.
- `SignalHandlersRestored`: `Spec /\ []InnerEndsFirst => []WellFormed`: `open_session` and `chauthtok` of one process may save and restore the
  same handlers, and they are given back as long as, of two threads that wait at a time, the one that found the other's handlers ends first.
  Nothing in the module sees to that: `login_signals` is the other order. `Signals` says which of the threads at work has
  saved the handlers of the process.
- `ServingDaemonListens`: `Spec => []ListenerReachable` if daemons do not overlap (`~Overlap`); with an overlap a daemon that
  will not get the name takes the socket (`login_second_daemon`).
- `BufferedIsTried`: `Spec => []ReceivedIsTried` if one process opens a session (`OneLogin`). `Buffered` says where a
  password that is due is: kept in the daemon's buffer, in the hands of the replay, or in a task that is about
  to try it. With two logins it is false, see the findings; a second process that only changes the password is allowed.

`ClientMigrationProofs` proves of `ClientMigration` (`MigrationAssumption`: finitely many items):

- What `Without` and `Written` return, which are recursive functions: `Induction` over the numbers follows from the library's
  theorem that they are well-founded, `Recursion` gives the existence of such a function, and `PutIn` is the
  induction's hypothesis: which entries are left after the first n of the new ones, and that there is one of each.
- `MigratesOnce`: `Spec => []WellFormed` if what the other process stores has the attributes of no item (`Foreign`), from `Origin`,
  which says where entries of the file come from, and `ReadInv`, what a migration has in hand at which step.
- `MigrationLosesNothing`: `Spec => []NothingLost` if no item has all attributes of another (`Separate`) and nobody changes an item
  between its reading and its deletion (`~LateEdits`); without either it is false, see the findings. `Fresh` says that what was
  read is what the service has, `Same` that what was found twice is read the same twice, so that the second does not replace
  the first by something else, `Taken` that what is gone from the service before the file is written was
  deleted by a client, so that replacing it in the file loses nothing, and `Filed` that at the deletions everything is in the file.
- `OkIsMoved`: `Spec => []OkMeansMoved`, under the same conditions.

`ServiceProofs` proves of `Service` (`ServiceAssumption`: finitely many objects, numbered), over any crashes:

- `Invariant`: `Spec => []IInv`, and from it `ServiceTypes`. `Control` says which variables a task has at
  which label, that who tries the pending migrations has their mutex and that they stay pending meanwhile. `Ownership`
  says that a keyring that is read, migrated or made is known to nobody but its task until it is served, and that
  what the lists, the object server or a call know is not given up; `Listing` that every keyring that a starting daemon
  found is found once and listed at most once, at the path made of its name. The ranges in `TypeOK` rest on these: a
  number is always free for one more collection (`NumberIsFree`, by counting).
- `ItemsOutlastTheDaemon`: `Spec => FilesKeepItems`, that is for each name to which no two objects have been written at the same time (`raced`), from
  `DumpInv`, that whoever is between comparison and refresh for such a name is alone and knows what is in the file, and `TimeInv`: a keyring that remembers the time stamp of its file
  has the items of the file and the secret that opens it, and whoever replaces the file makes the other keyrings of
  that name out of date. `Effects` is proved for each step: what it does to files is a `Writes`, and it leaves what
  other tasks own alone.
- `StampsAreTrue`: `Spec => []StampedWereMovedOrForeign`, from `StampInv`: a file of a legacy keyring's name has its items or is
  foreign, a migration before its write has the items in hand unless the file has them, and after its
  write they were in the file.
- `BusFollowsList`: `Spec => []ListedAreServed`, from `BusInv`: what is listed is on the object server or Boot has it still to
  serve, what is on the object server is listed or a task is about to list it, and who takes a collection off the two
  was told to delete it. `Far` and `Near` split the steps: a far one moves nothing of this.
- `ServiceWellFormed`: `Spec => []WellFormed` if names are apart (`NamesApart`). `PendInv` says that a name that was put off was
  found and waits for its place, is listed, or was deleted; `DefInv` that a default collection is served or about to be, as soon as
  a collection with such a name is listed or the start is over, which rests on the alias that discovery gives to each name.
  Each of the three conditions is needed; TLC shows what happens without it. If clients may create
  a collection `login` they can do so between `Connect` and `Register`, when the daemon answers calls but has not listed
  what it found: the new one gets the first number, and what discovery made for the default gets the second and
  is not the default. If KWallet has a file `login`, it counts as the default in `HasDefault` and is not
  served as such, so that nothing is. If the names `Work` and `work` go by one path, a collection that a client creates in the same
  gap can replace the placeholder of a migration.

The proofs have one lemma for each group of actions and one step for each action. What they say
nothing of stays with TLC: liveness under fairness (`CallsReturn`, `ClientsAnswered`, `GoneSessionsClosed`, `SecretArrives`) and
`ENABLED` (`NotAllWaiting`), which the prover does not handle.

Induction over data: the library's induction theorems take an operator as a parameter, which the provers cannot
instantiate. The proofs use its theorem of the least element of a well-founded order, which takes sets (`UpTo` of
`ClientKeyringProofs` and `CollectionProofs`, `Induction` of `ClientMigrationProofs`): a set that has 0 and with each number the next has every number. With it
the existence and the values of recursive functions can be proved. `SelectSeq`, which is declared `RECURSIVE`, cannot be
expanded, so that `Kept` is a recursive function.

## Not modelled

- Byte formats, encodings, encryption, hashing, random numbers: taken as ideal, see above.
  A collision of the 64-bit random names of temporary files is excluded.
- File time stamps have a fresh value for each write; the file system's granularity, by
  which two writes may share one, is not modelled. Temporary files left by failed dumps are
  not looked at by any code.
- `modified_time` and `usage_count` of a keyring, labels, dates, content types; unencrypted keyrings and
  restarts in `Collection`.
- What a dialog says: titles, descriptions, the properties of the GNOME prompter
  (`gnome/prompter.rs:20-180`), translations.
- The methods of `gnome/internal.rs` that take a master password: each is one sequential call of the
  operations that `Collection` has.
- Session crypto and secret exchange: arithmetic. `KWallet`'s parser and tool: a stateless parser.
- In `Login`: who owns a socket (`SO_PEERCRED`), connect time-outs, `--login` with the password on standard input, and
  capabilities. `SameUser` is in the module, the runs have it empty.
- The D-Bus backend of `oo7::Keyring`, which forwards each call, and the thin proxies under `client/src/dbus/`.
- Command line, portal, cargo and git helpers, Python bindings and macros: sequences of client calls, or
  generated code, with no state of their own.

## Running

    tlc -workers 2 -config concurrent_edits.cfg MCUnlockedKeyring.tla
    tlapm UnlockedKeyringProofs.tla

`PROJECT.json` lists the regular runs and maps every definition to its source lines. The
other `.cfg` files are the counterexamples under [Findings](#findings).
