# secret-manager in TLA+

secret-manager is a freedesktop Secret Service daemon with a command line and a
PAM module. It keeps each collection of secrets in one encrypted file. These
modules model the parts of it whose correctness depends on an order of steps, on
a failure between two steps, or on what two ends make of the same bytes. TLC
checks them on small instances. TLAPS proves the central invariants of the
vault, the alias table, the collection map, the prompts, the dialog slot, the bus
objects, the control socket and the login hooks for every value of the constants.
The proofs about a module `M` are in `MProofs`.

Paths below are relative to the crate (`src/src/...` in `PROJECT.json`).

## The system

| part | source | modules | status |
|---|---|---|---|
| vault store, atomic writes | `vault/store.rs`, `atomic.rs` | `Vault`, `ItemList`, `DurableVault` | modelled |
| file format, cryptography | `vault/format.rs`, `vault/crypto.rs` | `Vault`, `Client` | symbolic |
| alias table | `dbus/state.rs`, `dbus/service.rs` | `Aliases` | modelled |
| collection map, Reload | `dbus/state.rs` | `Collections` | without the broken map |
| prompts | `dbus/prompt.rs` | `Prompts`, `Collections`, `Aliases` | modelled |
| dialog slot, derivation cap | `prompt/pinentry.rs`, `kdf.rs` | `Pinentry` | modelled |
| Service, Collection, Item, Session objects | `dbus/`, `session/` | `Objects`, `Prompts`, `Collections` | partly |
| client watch, idle lock, control requests | `daemon.rs` | `Prompts`, `Objects`, `Collections`, `Client` | partly |
| control socket server, wire protocol | `control/`, `protocol.rs` | `Control`, `Service` | modelled; the encoding by length |
| PAM module | `pam/` | `Pam`, `Login` | partly |
| command line | `cli/` | `Client`, `Collections` and `Aliases` (`sm init`) | partly |
| GPG hook | `gpg.rs`, `dbus/gpg_preset.rs` | `Client` | modelled |
| import | `cli/import.rs`, `import/` | `Import`, `Keyring`, `Wallet`, `Extraction`, `Formats` | pipeline modelled, readers partly |
| paths, errors, proxies, configuration, escaping, entry points | | | not modelled |

**How the parts interact.** One mutex guards `ServiceState` (maps of
collections, aliases, prompts, sessions). Every vault has a mutex of its own. No
one holds two of them: a handler takes the state lock, clones the reference it
needs, drops the lock, and only then locks the vault. File work on the alias
table and the directory happens with neither held, and so does every export of a
D-Bus object. So what a handler learned under one lock may be out of date when
it takes the next. That is the shape of most hazards listed in `PROJECT.json`.
Since no step waits for one lock while it holds another, lock cycles cannot
arise and are not modelled.

Outside the daemon, the PAM hooks and the control commands talk to it over one
socket, the other commands over D-Bus, and `sm init` and `sm import` write into
its directory and tell it afterwards. Each of these has a daemon on the other
side that may stop, start, answer late or serve somebody else in between.

**How the models are composed.** `Control` is shown to implement `Service`, and
`Login` is written against `Service`, not against `Control`: the hooks rely on
nothing the server does not promise. `Vault` is shown to implement
`DurableVault`, and the other modules take a collection to be that. `Import`
extends `Keyring` and `Wallet`, which share `Extraction` and `Formats`. `Prompts`
takes a dialog to be one step that ends in some way; `Pinentry` says what happens
inside it.

## Modules

**`Vault`**: one collection and its file. An operation is a few steps: the edit
in memory, the temporary file (`WriteTemp`), the rename (`Save`), or the failure
with its roll-back (`SaveFails`). `task` is what the operation holding the mutex
still has to do. A crash may come at any step and is followed by `open`. A
rotation of another collection's key may sweep this one's temporary file away
(`ForeignSweep`). Keys, ciphertexts and index hashes are symbolic terms that open
or match exactly when they were made from the same parts. The salt stands for the
salt and its KDF parameters. The size limit is counted in items.

**`DurableVault`**: what a collection promises: labelled contents under one key
that change in whole operations, only while unlocked. The abstract contents are
those of the published file, so an operation takes effect at the rename.

**`ItemList`**: the order of items that `Vault` leaves out. Each edit keeps the
undo record the code keeps, and `restore_delta` applies it.

**`Aliases`**: `update_aliases` in three steps: `Edit` (state lock held),
`WriteFile` (not held), `Commit` (held; starts over if the table differs from the
one the edit was based on), then `Register`, which brings the object on the bus
in line. The callers are SetAlias, the create prompt and the delete prompt.
`Scan`, `merge_scan` and `register_all` are the Reload. `InitLoad` and `InitSave`
are `sm init`, which edits the file with no part in the compare-and-retry.

**`Prompts`**: a prompt from the call that creates it to its Completed signal.
Task steps lie between two awaits or atomics. An abort is a request: the task may
take further steps until an await suspends it (`Die`). Dismiss is two steps after
its first (`DismissClaim`, `DismissFinish`). The watch reclaims all prompts of a
departed client (`Reclaim`) and then locks what they opened (`WatchRelock`). Lock,
the idle timer and the control socket's Unlock interfere. Create and delete are
one kind, `modify`, with an `effect` that has a half-way point.

**`Pinentry`**: the queue for the one dialog slot, the exchange with the pinentry
child, the attempts of an unlock within one turn, and the semaphore of the key
derivation. Time is counted in ticks, and a tick waits for every timer that has
run out, so a budget is never exceeded. The child may answer anything, or
nothing. A derivation goes on when its prompt is abandoned, and keeps its permit.

**`Collections`**: the collection map against the vault directory and the bus:
create, delete, item writes, Reload, and `sm init` beside the daemon. A vault is
reduced to the items written to it; `Vault` says what happens inside. The vaults
ever constructed for a name are kept in a sequence, since a call may hold one that
is no longer listed. `Calls` says which calls are made at the same time.

**`Objects`**: sessions, items and their objects, and every method that reads or
writes a secret, each as its steps between two locks. The unexport after a delete
is a task of its own. A ciphertext is known by its length and padding.

**`Control`**: the accept loop (permit, accept, back-off), the connections with
the deadlines of reading, handling and writing, and the frame codec by length,
limit, version byte and trailing bytes. A deadline may strike at any moment.
`bind` takes the name from whatever is at the path; `Crash` leaves one behind.

**`Service`**: what a peer of the socket may rely on: a call the listener took is
answered or closed, and a name left behind refuses.

**`Pam`** has the decisions of the PAM module as operators: options, directory
and socket checks, which error means a stale socket, what may be retried, and the
codec of the child's two-byte report. **`Login`** has the hooks: stash, headers,
fork, derivations, requests, start of the daemon and retry, report and reaping,
each with a clock of its own against one budget. Other peers, a changing
directory and a daemon that comes and goes are actions beside them.

**`Import`**: `sm import` from choosing the source to the report: header, dry
run, refusals, the new collection, offline verification, undo, Reload, probes,
default alias and advice. **`Keyring`** and **`Wallet`** are the two readers,
against providers that answer each call as they like. **`Extraction`** holds the
item classes, caps and checks; **`Formats`** the header parsers and Qt decoders on
sequences of bytes, with the encoders that define the formats beside them.

**`Client`**: the commands as sequences of calls, each of which may be answered,
refused or lost, while others lock, delete and change passwords. With them the
daemon's task that feeds gpg-agent, and `parse_colons`. gpg-agent is external.

The `MC*` modules name the small sets the `.cfg` files use. Definitions marked
*Variant* are the code with one deliberate mistake. No specification uses them;
each shows that some property notices the mistake.

## Runs

| run | what it shows |
|---|---|
| `MCVault` | The file always opens. Memory and file agree between operations. A rotated-away key opens nothing. Header search agrees with the items. `Vault` implements `DurableVault`. |
| `ItemList` | Every undo record restores the exact list a failed save started from. |
| `Aliases` | No committed edit is lost, a degraded table is kept, and every alias of the table ends up on the bus. |
| `PromptsOne` | One prompt over two collections: completed at most once, eventually answered, stopped by a Dismiss that won. |
| `PromptsTwo` | Two prompts on one collection, of one or two clients: what was opened for a departed client is locked again, and no dialog outlives its owner. |
| `Collections` | Acknowledged writes stay stored, the listed have files and objects, deleted files stay deleted, in the three scenarios of `Compatible`. |
| `Pinentry` | The first in line always gets its dialog, derivations stay within the cap, every request ends. |
| `Control` | Every answer passes the limit and the decoder at the other end. `Control` implements `Service`, liveness included. |
| `Login` | The stash is gone when a hook returns, every vault with a readable header is tried, a change reported as sent was answered for each of them, and a hook is bounded in time and returns. |
| `Objects` | A batch delete is whole or nothing, stored items and sessions have objects, sizes are judged exactly, only work postpones the idle lock. |
| `Import` | Header parsers agree with the formats, nothing listed is lost, items are their entries, advice is earned, a failing or killed run leaves all or nothing, a probe fails only on a stale copy. |
| `Client` | Exit status 0 means the work was done, askpass touches nothing before consent, gpg-agent gets for a keygrip only what was enrolled for that key. |

What the runs leave out on purpose, because the property would not hold there
(see "Sentences of the source that do not hold"): `Collections` has at most one
delete, and no create beside a Reload. `AliasIsExported` says nothing of calls that clear an alias,
`DialogHasOwner` nothing of create and delete prompts, `ListedHasFile` nothing of
the bus object of a name that a delete has ended for, and `HookIsBounded` nothing
of a password hook that does not fork.

**Bounds.** `MCVault`: three ids against a limit of two items, so the limit is
met; three salts, so a rotation can follow a rotation; two index salts and two
nonces, so stale ones differ. `ItemList`: lists up to four and batches of two, so
removed items can be neighbours, at the ends, or apart. `Aliases`: two writers,
`sm init`, one Reload and three attempts against the two others that can
interfere; four names against a limit of two. The code has eight attempts and
commits regardless on the last: with more rivals than attempts an edit can be
lost, and `EditAppliesToCurrent` does not cover that;
`OnlyTheLastMayOverwriteThm` does. `PromptsOne`: two collections, so the gate is
reset between them; two attempts instead of three. `PromptsTwo`: one collection,
one attempt, a quota of one. `Pinentry`: one request of each kind and one
derivation from the control socket, so that all permits and the slot can be
taken; derivations of at most one tick, a dialog of five, two attempts and a queue
budget of three dialogs where the code has three and five. Two turns of at most
seven ticks fit in that budget of fifteen, as three do in the code's, and the
second in line can still run out of it and be told Busy. `Collections`: three names,
two attempts at a free one, two Reloads, two vaults ever for each name, which
with one delete excludes nothing. `Objects`: two calls at a time of
two clients, four item ids in two collections, three sessions ever opened against
a quota of two; secrets around a limit of three with blocks of two, so that
padding crosses it. `Control`: three connections for two slots and a backlog of
one, frames around a limit of four bytes. `Login`: one hook with three vaults, of
which one has a refused or a stalling header; budgets in ticks with the order of
the code's (a call's below the start's below the hook's). `Import`: three wallets
and three keyrings of up to three entries that between them have a folder listed
twice, two entries with one attribute key, an entry in the file and no listing
and the reverse, every entry type, secrets and maps at and over the caps, and
headers cut at every byte. `Client`: two collections, keys registered in both and
under several spellings, and a key ring with the irregular cases that
`parse_colons` handles. Symmetry is used over item ids, alias writers and names,
calls and clients, in runs without liveness.

**Deadlock** is checked for `MCVault` and `ItemList`, whose operations never run
out. Elsewhere calls, commands and hooks are finite in number and all may be over.

**Fairness.** `PromptsOne` assumes weak fairness of each task, of a Dismiss past
its first step, of the creating call and of the watch: spawned futures the runtime
keeps polling, and a dialog ends at its timeout if not by an answer. `Pinentry`
assumes that time passes, that timers fire and that the blocking pool works;
nothing of the user, the pinentry child or clients. `Control` assumes that the
loop and each connection go on and that deadlines come, not that a handler
finishes; and strong fairness of `Accept`, since an accept that keeps being tried
between back-offs succeeds at last. `Login` assumes that a hook, which waits for
nothing without a deadline, keeps running and that a kill arrives. Clients, users,
locks, idle timers, daemons' starts and stops and other processes get none.

## Proofs

Each theorem is about every value of the constants that the module's `ASSUME`
admits. Most of the work is in one lemma per action about an inductive invariant;
the theorems follow from it in a step or two.

**`VaultProofs`**: `Invariance` (`Spec => []IndInv`), and from it `TypeCorrect`,
`FileAlwaysOpensThm`, `ReopenableThm`, `MemoryIsDiskThm` and
`RevokedKeyOpensNothingThm`. `ConstantsAssumption`: ids are finite, the limit is a
natural number, there is something to choose from, and the "none" values differ
from real ones. None of the properties is inductive. They speak of moments
between operations (or of files on disk), and a failing save restores memory from
what the operation put aside. `IndInv` therefore says in mid-operation what that
is: `FilesInv` ties the file to the cached bytes and the temporary file to what
memory holds now; `TaskInv` says that the roll-back of the running operation,
whichever it is, brings back exactly what the cached file holds; `KeysInv` keeps
revoked keys out of every place a key can be written from.

Two more theorems rest on it: `SearchAgreesThm`, for which `IndexInv` says of every header
in memory, on disk and put aside that its index was made from the items it goes
with; and `ImplementsDurableThm`, the refinement: the rename is the one concrete
step that is an abstract operation, and every other step leaves the abstract
contents alone.

**`PinentryProofs`**: `SlotInvariance` (`SlotInv`: the slot has one user, who
talks or is an unlock between two attempts, and each place in the two queues is
held once by a job that waits there), `RetryKeepsItsTurnThm` from it, and
`DerivationsBoundedThm` from `PermitInv` (a permit is taken as long as its work
runs). The queues are sequences, so lemmas say what leaving, joining and serving
do to an injective sequence. What the lemmas use of finite sets is one formula,
`Counts`, proved once (`CountsHold`).

`FirstInLineIsServedThm` is about time. Its hypothesis is `EnoughBudget`: there are
finitely many jobs, and `MaxTries * Turn < QueueBudget`, where `Turn` is the
longest that one attempt can keep the slot: a dialog up to its timeout (`Hold`),
then a derivation with everyone else who can want a permit ahead of it (`Ahead`
turns of `DeriveTime`). With three attempts and a queue budget of five dialogs
that is `3 * (Ahead + 1) * DeriveTime < 2 * Hold`. In the code it is two dialogs of
two minutes against derivations of about a second, so it holds unless a great many
unlocks are in line. Some such hypothesis is needed: with slower derivations the
holder outlasts the wait. The property is not inductive, since it says nothing before
the wait is over. `FirstInv` relates the two clocks at every moment: what the first
in line has waited is at most the turns of the attempts its holder has used up,
plus the part of the present one that its stage accounts for (`Accounted`): the
age of the dialog; for a place in the permits' line, `InTime`, which says that the
permits ahead of that place come free soon enough; the age of the derivation.
`ClockInv` and `TriesInv` keep the timers and the count of attempts in range. A
job cannot be overtaken, so `Ahead` bounds what can be ahead of it when it joins,
and every tick either ages a derivation ahead of it or finds a permit free, in
which case no time passes before it is given out.

**`AliasesProofs`**: `TypeCorrect`; `OnlyTheLastMayOverwriteThm` from `BaseInv`
(what a call is about to commit is its edit of the table it read): for any number
of writers, an attempt that is not the last loses nobody's edit;
`DegradedTableIsKeptThm`; and `TableBoundedThm` from `SizeInv`, assuming
`StartFits` (aliases.toml is within the limit at the start). The room check and
the commit are under different acquisitions, so `SizeInv` speaks of every table on
its way to memory or to the file. Where `sm init` runs the bound is one higher,
since it does not check. `EditAppliesToCurrentThm` and `AliasIsExportedThm` assume
`EnoughAttempts` (a call may try as often as there are writers and Reloads
together; with fewer attempts the last one may overwrite, and the run's instance
meets the bound). They rest on `RaceInv`: each attempt a call has lost was lost to
the commit of another call or to a merge, each of which happens once. `ExportInv`
says who still has to export an alias that is in the table and not on the bus.

**`CollectionsProofs`**: `Invariance`, `TypeCorrect`, `WrittenIsStoredThm`,
`ListedHasFileThm` and the action property `DeletedStaysDeletedThm`, for any number
of names, creates, writes, attempts and Reloads. They assume `CallsFit`: of the
calls made at one time at most one is a delete, and a Reload has no create beside
it. The run's instance satisfies this. Without it `DeletedStaysDeleted` fails (two
deletes) and so does `WrittenIsStored` (a create beside a Reload, whose merge puts a
second vault of the same file in the map); see "Sentences of the source that do not
hold". No counterexample to `ListedHasFile` is known; its proof uses the same
invariant.

A call takes a reference from the map under one lock and uses it under another, so
none of the properties is inductive. `IndInv` says what stays true in between.
`FileInv`: of the vaults ever constructed for a name only the last can be unretired, and that one
holds what the file holds; so a write through a reference however old either is
refused or adds to the present file. `MapInv`: a listed vault is unretired, or the
delete that retired it is about to unlist it. `RefInv`: the vault a delete took
before its dialog is still unretired when it unlinks the file, so the file is
there; the vault a create has published is the only
unretired one of its name, and no delete holds it. `ScanInv`: beside a Reload
whatever is not listed is retired, so what the scan opens is as it was read when
`merge_scan` inserts it. `ModeInv` carries `CallsFit` along the behaviour, and
`ExportInv` says who still has to export a listed collection.

**`PromptsProofs`**: `PromptInvariance` (`Shapes /\ PromptInv`), and from it
`CompletedOnceThm`, `DismissStopsThm`, `AbandonedIsRelockedThm`,
`OpenIsRecordedThm` and `LockedIsUnpinnedThm`; `DialogHasOwnerThm` and
`QuotaHoldsThm` by inductions of their own. `PromptInv` has five parts for each
prompt. `LifeInv`: what exists before the export and after Completed. `HandleInv`: a handle means a task that runs, has
not been stopped, and has its gate. `GateInv`: at which task steps the gate must be
taken, and at which it can only be taken by a Dismiss that won. `DismissInv`: the
task steps a Dismiss that won, or came too late, can meet. `OpenerInv`: a
collection the prompt opened is in its `unlocked_now` and on record while it has
an owner, and is the watch's or a live task's to lock once the owner is gone. They
need one another: that an abort is never lost on a collection (`OpenerInv`) uses
that a task at its unlock has the gate (`GateInv`), so the watch left its handle
alone (`HandleInv`). `DialogHasOwnerThm` is about unlock prompts, as its run is
(`Kinds = {"unlock"}`), and needs `WatchInv`: the watch finds the handle of every
task that runs for an owner unless a Dismiss has it. `PromptsAssumption` fixes the kinds and that `Nobody` and
`Control` are not prompts; nothing is assumed finite.

**`ObjectsProofs`**: `TypeCorrect`, `BatchIsWholeThm`, `SizeIsJudgedExactlyThm`,
`StoredIsExportedThm` and the action property `OnlyWorkIsActivityThm`, from
`CallInv` (what a call between two of its lock acquisitions has already done, and
what it has proved about its session), `ItemInv` and `SessionInv` (an object that
is to go is not that of anything stored, because ids and session numbers are never
used twice; what is stored and has no object is still to be exported by the call
that made it). `SessionsBoundedThm` adds that a client's entries are finite in
number: the quota is checked again where the session is inserted, and that check is
what carries the proof.

**`ControlProofs`**: `TypeCorrect`; `AnswersAreReadableThm`, for every
`MAX_FRAME`; `ServedBoundedThm` from `PermitInv` (every permit is with the accept
loop or with the task of one connection) and `QueueInv` (a connection waits once);
and `ImplementsServiceSafely`: each step of the server is a step `Service` allows
for the peer it concerns, or a stutter.

**`LoginProofs`**: `TypeCorrect`, `StashGoneThm`, `EveryVaultTriedThm`,
`SentIsDeliveredThm` and `HookIsBoundedThm`, from `HookInv`, which says at each
stage of a hook what the end will need. `StashInv`: the outcomes collected so far
are ones that clear the stash. `TriedInv`: the vaults still in line, those called
and those whose header is still to be read make up the readable ones, as long as
there is budget. `SentInv`: the same for the vaults that answered, as long as
nothing was skipped and nothing failed. `TimeInv`: what a stage may still spend
fits the budget, or the budget with the look and the derivation that began inside
it. The bound, `Overrun`, is the longer of two things that begin within the budget
and end after it: a slow look at the name with the derivation after it, and the two
waits for a child to be reaped. `SessionReportReadsBack` is about the report's two
bytes: each outcome the child can decide is the one its parent decodes.
`LoginAssumption` has the budgets positive; `ListingAssumption` says that the
vault ids of a directory can be listed in order, which is true of a finite set of
numbers and would need induction over it. The daemon is any that `Service` allows:
the proofs use nothing of it but that an answer is for the call it was sent to.

Only model-checked, and why:

- liveness: `PromptIsAnswered`, `EveryRequestEnds`, `HookReturns`, and the
  fairness that `ImplementsService` has beyond `ImplementsServiceSafely`. The
  prover has no rules for fairness and `ENABLED`;
- `DeltaUndoes` (`ItemList`), and everything about `Import` and `Client`: they
  rest on folds over sequences, which need induction over data.

`OpenIsRecorded`, `LockedIsUnpinned`, `QuotaHolds`, `TableBounded`,
`OnlyTheLastMayOverwrite`, `RetryKeepsItsTurn`, `Reopenable`, `SessionsBounded` and
`ServedBounded` are proved and not part of a run.

## Sentences of the source that do not hold

The modules state these as properties. No run checks them, since each fails as
soon as TLC is asked; the order of steps is the shortest one it gives, in short.

- **`CommittedIsOnDisk`** (`Aliases`). A test of `update_aliases`
  (`dbus/state.rs`): "memory and disk agree once every writer has been answered".
  Two calls read the same table. Both write the file, the second one last, with an
  edit that changes nothing. The second commits first; the table is still equal to
  the base of the first, which commits without writing again. Its edit is in
  memory and not in the file.
- **`UsableIsOnDisk`** (`Aliases`). `AliasTable::Usable`: "This is what is on
  disk." A Reload scans, a SetAlias commits, the Reload merges the table it read
  before.
- **`ConfirmedIsWhole`** (`Prompts`). `reclaim_prompt` (`daemon.rs`): "Aborting it
  there would drop a change the user already confirmed and leave the daemon
  disagreeing with the disk, so let it finish". The watch reads the gate and finds
  it free, the task claims it, and the abort lands after the file work.
- **`PinReflectsLastUnlock`** (`Prompts`). `Vault.pinned`: "the pin always reflects
  the *last* successful unlock". A prompt's unlock after a PAM login's leaves the
  pin as it was.
- **`DeletedStaysDeleted` with `TwoDeletes`** (`Collections`). `Vault.retired`: a
  writer "cannot recreate the file it just deleted". The second of two deletes
  finds no file, takes that for a failure and un-retires the vault; a writer that
  held a reference then saves.
- **`ReloadKeepsLoaded` with `CreateAndReload`** (`Collections`). `scan_vault_dir`:
  "Read every `<id>.vault` in `dir` that is not already loaded." A collection is
  created after the Reload read `loaded_ids`; the merge replaces its vault.
- **`LiveSocketKept`** (`Login`). `stale_socket_action` unlinks only a socket
  nobody listens on. A connect is refused, a daemon binds the name, the hook
  unlinks it.
- **`NoGhosts`** (`Objects`). `Item.Locked`: an object with nothing behind it is
  there only between a delete and its unexport. An item is deleted, and its
  unexport is done, between its creation and its export.
- **`NoOrphans`** (`Objects`). "Drop sessions and prompts whose owning client left
  the bus". A client leaves while its OpenSession generates a key, the watch
  handles the departure, and the session is entered afterwards.
- **`OthersFileKept`** (`Import`). `cli/import.rs`: "`RENAME_NOREPLACE` proved the
  name was ours", and `unlink_partial` removes "a collection this run published".
  Another process publishes the name after the check that it is free;
  `Vault::create` refuses, and the same error path unlinks the other's file.
- **`ReportReadsBack`** (`Import`). "The report `--report` writes must be a report
  its own parser accepts." The parser also recomputes how many items carry no
  date of their own. The file leaves that number out, a missing one reads as zero,
  and one such item is enough.
- **`AdviceMeansWhole`** (`Import`). `print_report`: the advice "belongs to a run
  with nothing left unproved and nothing left behind". Refused and skipped items
  count as accounted for.
- **`LaterPresetIsFresh`** (`Client`). `gpg enroll`: "so a later preset cannot
  prefer a stale copy". The daemon's hook reads the old passphrase, the enroll
  replaces it and presets the new one, the hook presets the old.
- **`UntouchedIsUntouched`** (`Client`). `delete_items`: "on the batch path a
  failure means nothing was deleted". The daemon deletes the batch and its answer
  is lost.

## Observed, without a property

The following came up while modelling. Nothing in the source says otherwise, or
the property that was stated for it has been given up for a deeper one.

- A SetAlias whose retry fails to write, or is rejected at the cap, reports an
  error after its first write reached the file.
- A call past its `writable()` check replaces a file that a Reload has meanwhile
  found unreadable.
- A set and a clear of one alias may commit in one order and register in the
  other. The delete prompt drops alias entries and leaves their objects on the bus.
- `sm init` and `sm import --set-default` write aliases.toml outside the
  compare-and-retry and can undo a concurrent SetAlias.
- A client that leaves after a prompt's last owner check leaves the collection
  open. A create or delete prompt can show a dialog with no owner when the client
  leaves between the owner check and the registration of the task.
- A departure during the pause before the client watch is started again is never
  handled (`daemon.rs`).
- A delete ends with a detached `unregister_collection` that goes by name: a
  collection created since under that name can lose its object. `register_all` can
  export one that has just been deleted.
- A pinentry that does not answer BYE is waited for within the dialog's budget.
- A hook's budget does not include the time to reap its child, and a password hook
  that does not fork has nobody to cut it. `Started(Retried)` counts as success
  even when the retry did not get through, and `Sent` includes requests the daemon
  answered with an error.
- The KWallet grace task dies with the process, and there is no grace when
  `openAsync` itself times out. `await_name` waits for `collections()` without a
  bound.
- A Reload by somebody else during an import leaves the daemon with an empty copy;
  the probes notice.
- `ssh add` and `gpg enroll` delete the old registration before they store the new
  one. `gpg preset` passes over a key whose first readable copy is empty, where the
  hook takes the next copy.
- A credential that unlocks another keyring is imported like any item when the
  provider gives no item types.

## Not modelled

- **Paths, errors, proxies, configuration, display escaping, entry points**
  (`dbus/paths.rs`, `errors.rs`, `proxies.rs`, `config.rs`, `sanitize.rs`,
  `main.rs`, `lib.rs`, `fuzz_api.rs`): pure formatting and parsing, generated
  stubs and process start. They hold no state that two steps could disagree about.
- **Cryptography** (`vault/crypto.rs`, `session/dh.rs`): symbolic. A model of
  Argon2, the AEAD or the key exchange would assume what it concludes.
- **The postcard encoding** of vault bodies and requests: a library's. Frames and
  files are modelled by their lengths, limits and headers.
- **The map of broken collections** (`dbus/state.rs`): a collection whose file does
  not open is on the bus as one that is always locked, every operation on it is
  refused, and a later Reload tries the file again. In `Collections` every file
  opens.
- **Read-only methods**: SearchItems beyond what `SearchAgrees` and `Client` need,
  ReadAlias, properties, `Status`, `sm status`, `sm list` output, completions.
- **Changed signals** of items and collections: sent after the fact, with no one
  in the program that waits for them.
- **Start-up order and signal handling** of the daemon: one sequence before any
  client can call.
- **PAM's surroundings**: reading `/proc`, syslog wording, the environment of the
  child.
- **Tests**: about two fifths of the lines of the source files. They are read as
  statements about the code and are not themselves modelled.
