# A TLA+ model of FileSec

FileSec keeps an owner's identity, contacts and encrypted vaults in one data
directory, defends them against crashes, failing disks and keychains and against
somebody who puts an older copy of a file back, hands out plaintext for viewing
and editing and takes it back, and sends vaults to contacts in signed containers
or over a direct connection.  This directory holds TLA+ modules of the parts that
carry those promises, the TLC configurations that check them on small instances,
and TLAPS proofs of the central theorems.  `PROJECT.json` is the index: which
definition models which lines, which run checks what, which mutation of the code
each property would catch, which hazard each property is for.

Running: `tlc -workers 2 -config X.cfg M` for the module and configuration of a
run, `tlapm M.tla` for each of the eight `*Proofs` modules.

Paths below are short for `src/crates/filesec-core/src` (`core/`) and
`src/crates/filesec-gui/src` (`gui/`).

## Inventory

| Part | State it keeps | Operations | Talks to | Module |
|---|---|---|---|---|
| State chain (`core/state.rs`) | epoch, previous and current hash, owner and object of one protected state; the high-water anchor of an object | `next`, `verify_payload`, `check_candidate` | everything that persists | `StateChain` |
| Protected objects (`gui/store.rs`, `core/keystore.rs`) | keystore, contact book and registry files; one anchor each; quarantine | save, load, confirm, quarantine, legacy recovery | jobs and UI thread, anchor backend | `ProtectedStore` |
| Keystore, anchor backends, device unlock, passkeys (`core/keystore.rs`, `gui/store.rs`, `gui/autounlock.rs`, `gui/passkey.rs`) | unlock slots, device token, keychain records, file anchors, backend marker | start-up and choice of backend, layout upgrade, create, restore, unlock in three ways, enrol, remove, recover anchors | OS keychain, authenticator | `Keystore` |
| Vault directory (`core/format_v2.rs`, `core/safe_io.rs`, `gui/store.rs`) | sealed manifest, one blob per file, manifest anchor, in-memory readers | open, batches, commit, reclaim, collect garbage | jobs, check-in, import | `VaultCommit` |
| Vault tree (`core/vault.rs`, `core/format_v2.rs`, `gui/app.rs`) | paths, folders, trash, the browser's folder and selection | add, mkdir, rename, move, trash, restore, purge, extract | vault directory | `VaultTree` |
| Vault lifecycle (`gui/store.rs`, `gui/app.rs`, `gui/net/listener.rs`) | directories `<id>.fsv2`, `.partial`, `.deleted`; saved registry; the session's registry | create, import, delete, reconcile on unlock, lock, receive | jobs, UI thread, listener | `VaultLifecycle` |
| Post-quantum migration (`gui/store/migration.rs`) | staged copies, journal, commit record, old copies | migrate, resume, abandon | everything above, exclusively | `Migration` |
| App session, secure wipe (`gui/app.rs`, `gui/wipe.rs`) | screen, one job slot, open vault, checked-out file, views, wipe queue, held close | dispatch, jobs and their reports, view, check out and in, edit, lock, close | store, wiper and watcher threads | `Session` |
| Container (`core/format.rs`, `core/aead.rs`, `core/envelope.rs`, `core/manifest.rs`) | header with key wraps, sealed manifest, chunk stream, signature | export, append, remove, replace, re-export, open, read, import | identity, vault directory | `Container` |
| Direct transfer (`gui/net`, `core/transport.rs`, `gui/app.rs`) | handshake slots, backoff table, replay cache, the one active transfer and its decision channel, the window's offer | listen, accept, handshake, admit, offer, decide, receive, import, send, stop | secure channel, store, UI thread | `Transfer`, `Delivery` |
| Contacts and trust, preferences, drawing, router port mapping | | | | not modelled |

The hard behaviours: a commit is two writes to two media (file, then anchor) and
either can fail or be cut off; the data directory may be rolled back by others;
a rename or unlink is visible before it is durable; several sessions may hold
readers of one vault; a background job works on a copy of the registry or on an
older reader while the UI thread goes on; a listener outlives the session that
started it; the migration moves every object at once and must be resumable from
any step; plaintext must be wiped by somebody whichever way the process ends; a
user's decision travels through two queues to whichever worker is then active.
`PROJECT.json` lists each of these hazards at its line.

## Modules

Each module's head comment says which files it models; `map` in `PROJECT.json`
gives the lines of each definition.  Definitions called mutants next to the
operator they vary are the plausible bugs that show a property is sensitive.

### StateChain
Operators only.  A state hash is modelled by what it commits to: the sequence of
links (owner, object, suite, payload) from genesis, oldest first, so equal hashes
mean equal histories and nobody can forge one (collision resistance).  `NextState`
is `StateMetadata::next` with its checked increment at `MaxEpoch` (`u64::MAX`);
`IsCurrent` and `IsSuccessor` are the two ways in which `check_candidate` says yes.

### ProtectedStore
The contact book, the registry and the keystore.  An operation is a thread that
walks through the steps of the code: `in_txn` takes the object's mutex, then
`current_anchor`/`check_state_transition`, the atomic file write, and
`accept_state` under the `anchors` mutex (`GetAnchor`, `PutAnchor`).  A load reads
the file, asks the anchor, and on refusal moves the file to quarantine.  Every
file and backend call can fail; a failed keychain write may have landed; `Crash`
may come between any two steps; files in `Exposed` can be copied, put back and
removed by others.  The degraded backend rewrites all anchors from the set that
was read (`Put`), which is why the `anchors` mutex must span read and write.

### Keystore
How the owner gets in.  `Start` probes the keychain, reads the marker and chooses
the backend (`SelectBackend`), `RepairMarker` and `UpgradeLayout` follow; then the
jobs: create, restore, unlock by passphrase, security key or device token, enrol
and remove, and `RecoverAnchors`.  A job is the sequence of steps between which
the process can be killed; every keychain call can fail (`MaxFaults`); between
jobs the directory can be replaced by an older copy of itself, the marker damaged
or the keychain emptied (`Damage`).  A slot is the secret that opens it, key
derivation a lookup.  It uses `StateChain` for the decision about a candidate.

### VaultCommit
One vault directory.  `disk` is the visible manifest, `fallback` the older ones a
power loss can bring back until the directory was synced; `blobs` and `unsynced`
are the same for blob files.  A mutation is `BeginMutation` (transaction,
`ensure_current_vault`, clone), edits, `Seal`, `WriteManifest` (rename),
`SyncManifest`, `Reclaim`, `CommitAnchor`.  The tree is flat: path to blob.

### VaultTree
What the batches of `VaultCommit` do to the tree.  A path is a sequence of names;
a name is a base with the marks ` (n)` and ` (restored n)` it was given, or a
trash token carrying the original path.  What is typed, or found on disk, is a
*spelling* (`Spellings`): the names `normalize_path` makes of it, and whether it is
written exactly like them.  The browser looks for what exists under the spelling
(`Exists`, `UniqueNameIn`), the batch works on the normalized path (`Spelled`), as in
the code, so a check can miss a file the batch then finds.  `.trash` is a base like
any other, and a base may look like a trash token (`Decoded`).  A file is the document
in it; a later version of a document (`SaveTextFile`) counts as the same one, and no
two files are made with the same, so an overwritten file is a document gone.
`PortableCollisionKey` folds case, so `a` and `A` collide where the code makes them
collide and are two files where it does not.  `Put` (which replaces a file, as
`place` does), `Mkdir`, `Rename`, `RemoveEntry` are the methods of `VaultBatch`; the
browser's actions plan paths (`DedupPath`, `UniqueNameIn`, `TrashDest`, `PruneNested`)
and commit one batch.  `ValidateManifest` is what `open` accepts.  `Extract` writes
into a destination that ignores case.

### VaultLifecycle
Vault directories, tombstones, partial directories, terminal anchors, the saved
registry and the session's copy.  Two threads, the job slot and a listener
worker, plus the UI thread's own steps (`Apply`, `Lock`, `Received`).  A saved
registry is the set of ids it lists; its own crash safety is `ProtectedStore`.
A failing `save_registry` has either left the file alone or replaced it (the
anchor write failed), as `ProtectedStore` shows.  The fault `"fs"` is trouble with the
directories themselves: a rename fails, `read_dir` passes entries over (`Listings`),
a wipe or removal, which is best effort in the code, leaves the directory (`Wiped`),
and `open_vault` fails with the directory left where it is, also because it could not
be moved to quarantine (`OpenFails`).  `reconcile_vaults` goes on past such a
directory; `unread` remembers it.

### Migration
An object is the identity it is sealed to.  Staging, journal, commit record,
moves, anchors, clearing and discarding are one action each, in the process that
started the migration or in a later `Store::at`.  `StartWaiting`/`GoOn` are the
listener import and the registry save that block on `Store::exclusively` and
continue, with the old identity, when it returns.

### Session
The unlocked session and the plaintext it hands out.  The UI thread dispatches an
action only while no job runs and no close is held; the job works on the reader
it was spawned with, step by step (`Load`, `Decrypt`, `HashTemp`, `Commit`,
`Reopen`, `WipeTemp`), and its report is applied in a later frame (`Apply...`).
The wiper shreds and then unlinks; a watcher may queue a view when the viewer
closes.  `RequestClose`, `ReleaseClose`, `ForcedClose`, `OnExit` and `Finish` are
the held close; `Kill` and `Start` the end without one.  A vault is a revision and
the contents of its files.

### Container
The signed file.  Cryptography is symbolic: a sealed section is the record of the
key, place and associated data it was sealed under, a signature the record of who
signed what.  `WriteContainer` is every writer (export, append, remove, replace,
re-export), with the layout, chunking and declared length of `ContainerPlan`;
`OpensLazily`, `VerifyAndOpen`, `ReadsEntry` and `Imports` are the four ways to
read.  `Damaged` mixes, drops, repeats and truncates sections and chunks, also
with those of other containers.

### Delivery and Transfer
`Delivery` is what a direct transfer promises, in three variables: presses of
Accept not yet used, the stage of each connection, and what its sender was told.
`Transfer` is one listening session: the accept loop (`Listen`, `RouteCommand`,
`Accept`), one worker per connection (`ReadHello`, `ReadConfirm` with admission,
`ReadOffer`, `WaitDecision`, `NextRecord`, `ReadRecord`, `Import`, `Report`), the
senders that dial, and the window with its queue of events.  Frames can be lost
or repeated inside a connection, which shows as a record that does not open; a
deadline is `GivesUp`, possible at every wait.  `Delivers == Promise!Spec` is the
refinement; its mapping reads the two command queues, the workers' positions and
the senders' last event.

Admission (the compare-exchange) and the registration of the private channel are
one step: a command forwarded between them is dropped exactly as one forwarded
just before.  A second session shares nothing with the first.  The expected sender
is a verified contact of the same copy of the contact book the workers consult,
so the unverified-sender branch cannot be reached and is not an action.  A connection
sends one Hello of its own: the replay cache can refuse one only when it is full, which
the run does not reach, and no property is about it.

In `VaultCommit`, `VaultLifecycle`, `Migration` and `Session`, `faults` is chosen
initially from `FaultSets` and says which kinds of trouble a behaviour may meet.
A property that needs some kind to be absent says so in its first conjunct, so the
assumption is part of the statement and not of a configuration.

How the modules compose.  `ProtectedStore`, `VaultCommit` and `Keystore` use the
chain of `StateChain`; `Transfer` instantiates `Delivery`.  The other boundaries
are contracts: `VaultLifecycle` and `Session` take from `ProtectedStore` that a
save succeeds, leaves the file alone or replaces it before failing; `Session` and
`VaultTree` take from `VaultCommit` that a batch is applied whole or refused, and
refused when its reader is stale (`AckedKept`); `Transfer`'s import is the receive
path of `VaultLifecycle`; what it streams is a container of `Container`.

## Runs

| Run | What it shows | Bounds |
|---|---|---|
| `store_threads` | acknowledged saves stay anchored, the owner is never locked out, anchors only advance | 2 threads, keystore and contacts, 2 payloads, 2 epochs, both backends |
| `store_tampered` | loads are fresh although old files are put back; keystore writes never fork | 1 thread, contacts exposed, 2 payloads, 2 epochs |
| `keystore` | every way in the user was told of keeps working, what was removed stays removed, anchors are not downgraded | 3 secrets (the identity and two keys or tokens), 2 security keys, 1 failing keychain call, 1 damage, 1 recovery, any number of kills |
| `keystore_moved` | **violated**: a store recovered onto file anchors is refused once the keychain answers again | 4 secrets, 2 failing calls, no damage |
| `vault_commit` | no dangling blob, power-loss safety, readable current readers, no leaks, acknowledged mutations kept | 2 sessions, 2 paths, 2 blobs, 2 mutations, batches of 2 operations, four fault sets |
| `vault_tree` | everything is reachable, no live file is lost, everything trashed is restorable, extraction clobbers nothing | bases `a`, `A`, `.trash`, one that looks like a trash token and one only older versions accepted; 4 spellings, two of them not exact; 3 documents; 4 entries, depth 6, paths up to 3 names, 1 marked path, `unique_name_in` counting to 1, selections of 2 |
| `tree_depth` | **violated**: a folder moved or trashed takes what is beneath it below the depth limit and the vault no longer opens | one name, depth 3, 5 entries |
| `lifecycle` | listed vaults have data, deleted ones stay away, an unlock lists everything it could read, what the user was told exists is kept | 3 vaults, three fault sets |
| `migration` | all old or all new, nothing lost, resumable, anchors follow moves, eventually completes | keystore, contacts, registry, one vault; interruptions alone and with everything else |
| `session` | plaintext always has somebody who wipes it, a clean exit leaves none, half-wiped bytes are never stored, edits keep their vault, the browser is current, a close ends | 1 vault, 1 file, 2 texts, 2 temporary files, 2 revisions, three fault sets |
| `container` | a reader gets what a writer was given or nothing; undamaged containers open for exactly their recipients; damaged ones are never imported | 3 identities (one of them another's upgrade), 3 vaults, chunk sizes 0 to 3, 5 additions (one of folders alone), 2 writes, 1 damage, 6 entries, 2 recipients in a header |
| `transfer` | the listener implements `Delivery`, every connection ends, a stopped session stores nothing unfinished | 2 connections from one address (2 and 1 data records; the second by anybody), 1 handshake slot, backoff after 1 failure, 1 frame of the first connection lost or repeated |

Why the bounds suffice.  Two epochs beyond nothing give an older, a current and a
newer state and the overflow at the last epoch; two payloads give a fork at the
same epoch.  Two threads are the most that matter for a pair of mutexes.  Two
mutations and two blobs give a manifest, its successor and a blob that one of
them references and the other supersedes.  Three vaults give one that is being
deleted, one being created and one at rest.  Four entries give two files of one
name in two folders, or a folder with a file beside the trash and one trashed
item, which is what moves, restores and case collisions need.  `unique_name_in` counts
to 9999 in the code and to 1 here, so that the end of its count is met.  Two temporary files
give a view beside a check-out; a third would only repeat one of them.  Chunk
sizes 0 to 3 over contents of 0 to 3 units give files that end inside, at and
across a chunk, an empty file and the refused size; two writes give a container
and one written from it, whose sections one damage can mix.  Two connections and
one slot reach the full pool, the admission race, a command that arrives after
its worker has gone, and a backed-off address that a success clears; only the
capacity of the replay cache (4096) is not reached.  Three secrets, or one on top of
a store that has a key, give a removed and a re-enrolled key or a key beside a
device token.  Symmetry is used where values are only compared
for equality, never in a run with a liveness property.

Deadlock is checked in `store_*`, `vault_commit`, `vault_tree`, `tree_depth` and
`lifecycle`.  In the others the system may stop: a finished migration, a process
that has ended for the last time within the bounds, two connections that are over.

Fairness.
* `migration`: the code does not stop between two steps, so each step of the
  resumption and the opening of the store is weakly fair, and the user quits an
  app that shows `State::Fatal` and starts it again.  Interruptions are not fair;
  the property speaks of the time after they have ended (`calm`).
* `session`: frames keep coming while a close is held (`request_repaint_after`) and
  the exit path is a bounded wait (`EXIT_WIPE_GRACE`, `Wiper::finish`), so
  `ReleaseClose`, `OnExit` and `Finish` are weakly fair.  Neither the wiper nor a
  running job is assumed to make progress, nor the user to do anything.
* `transfer`: each worker thread keeps being scheduled, and every wait of a worker
  has a deadline (`HANDSHAKE_DEADLINE`, `SOCKET_TIMEOUT`, `OFFER_DECISION_TIMEOUT`),
  so `Worker(c)` is weakly fair.  Peer, user, window and accept loop are not fair.

The type invariants of `ProtectedStore` and `VaultCommit` are checked in
`store_threads` and `vault_commit`; those of the other modules are part of the
inductive invariants that are proved.

## Disagreements

Two runs end in a violation of something the repository says; each is quoted in
`PROJECT.json`:

* `tree_depth`: `VaultBatch::rename` checks the depth of the new name and not of
  what moves along (`core/format_v2.rs:1580`); moving or trashing a deep folder
  commits a manifest that `open` refuses.
* `keystore_moved`: `recover_rollback_anchors` onto file anchors leaves the
  keychain's record in place (`gui/store.rs:622`), and the next start at which the
  keychain answers judges the store by it.

Others showed up while modelling, as the assumptions of passing properties or as
behaviours no property could be stated for:

* Backend errors and quarantine: `accept_state` (`gui/store.rs:1020`) quarantines a
  valid keystore, contact book or registry on any backend error, while
  `docs/README.md:208` reads as if only a state that fails its check were moved.
* `NoDanglingUnlessAnchorFails`: blobs are reclaimed (`core/format_v2.rs:852`)
  before the anchor is known to be written; when that write fails, the session's
  older reader can commit a successor that references a deleted blob.
* `SurvivesPowerLoss` and kills: a process killed between the manifest's rename
  and its directory sync leaves a manifest that the next open anchors before it
  syncs (`core/format_v2.rs:870`); a power loss then brings back one the anchor
  refuses.  With failing syncs the anchor advances although the rename is not
  durable ("the cost is disk space", `docs/THREAT_MODEL.md:132`).
* `UnlockListsAll` and unreadable directories: an unlock passes over a vault directory
  it cannot read or cannot move to quarantine (`gui/store.rs:1936`) and still succeeds,
  without a note to the user; the comment at `gui/store.rs:1899` says that it is left in
  place.  It stays unlisted until a later unlock can open it (hence `unread`).
* `ToldIsKeptUnlessBothFail`: after "the vault was kept", a registry file that had
  been replaced before its save failed lets the next unlock wipe the tombstone
  (`gui/store.rs:1835`).
* `CompleteIfAlone` and waiting work: a listener import that waited for the
  migration creates a vault of the old identity (`gui/app.rs:4222`,
  `store/migration.rs:30`); a waiting registry save overwrites the moved registry
  after a migration that failed half-way ("Nothing was lost", `gui/app.rs:4230`).
* `Resumable` and ambiguous errors: `set_migration_record` may fail although the
  record was kept; the journal is wiped and the next `Store::at` refuses to open
  ("After it, the migration always completes", `store/migration.rs:24`).
* `ListedHasData` and a listener: `NetEvent::Received` saves the session's
  registry, which lists a vault whose deletion a job has just committed;
  `reconcile_vaults` never drops such an entry.
* An error of any connection clears the offer on screen (`gui/app.rs:4995`): a
  different contact that has the code, or the previous worker reporting after it
  let go of the transfer, takes away the offer of the active worker, which then
  waits for its timeout.  `net/listener.rs:336-338` says others are closed
  "silently rather than clobbering the active transfer's UI".
* An Accept pressed as its worker times out can reach the next admitted worker
  and accept that offer before it is shown.  `Delivers` still holds: one import
  per press.
* "Sent" is shown when Done is written, before the receiver imports; stopping
  during the import still stores the vault, unlisted until the next unlock.
* The receiver's `Received` event ignores a failed `save_registry`.
* A name that only older versions accepted cannot be trashed, although a comment
  says it can always be deleted, and a vault that has one exports a container
  every importer refuses.
* `append_files` accepts a file beneath an existing file; the container never
  opens.  `ContainerPlan::new` checks neither `MAX_MANIFEST_LEN` nor
  `MAX_MANIFEST_ENTRIES`.  A source that changes between hashing and streaming
  with equal length is noticed only by readers.
* `LiveNeverLost` and spellings: "already exists here" (`gui/app.rs:3083`) and "skip
  collisions" (`gui/app.rs:8983`) compare the spelling with the stored paths, and the
  batch normalizes it afterwards.  A name typed with a backslash, an OS name with one,
  or, on Windows, a folder added a second time is not recognised and `place`
  (`core/format_v2.rs:1423`) replaces the file that is there (hence `PutsUnseen`).
* `unique_name_in` returns the taken name after 9999 copies, and the batch replaces the
  file (also in `PutsUnseen`).
* `.trash` is not reserved: what the user calls so is hidden from the file list, is
  deleted by Empty Trash, and a *file* of that name makes every later trashing fail.
  What the user puts below it is listed as trash if its name looks like a token.
  `TrashRestorable` therefore speaks of what trashing put there.
* `unique_name_in` (`gui/app.rs:8921`) looks for the last dot of the whole path,
  so a dotted folder gets the mark in its middle.
* `gui/wipe.rs:108` "Zero means every enqueued file is gone" does not hold for a
  file whose wipe failed (hence `unwiped` in the session's properties).
* The removal of a passkey uses the index of the session's possibly older list
  (`gui/app.rs:2591`).
* A check-in whose registry save fails leaves a check-out without its temporary
  file and a stale reader (hence the condition of `BrowserCurrent`).

## Proofs

Each module of the core has a proof module beside it; `ExchangeProofs` is about two,
`Container` and `Transfer`, the container and what carries it.  A theorem holds for every
value of the constants its assumption admits: any sets of threads, objects,
payloads, vaults, connections or files, any bound, and any set of `FaultSets`,
where a run takes a few.  Most of the properties are not inductive as they stand;
each module ends with the `IInv` its proofs need, a conjunction of named parts
that TLC was given as an invariant before it was proved.  The proofs have one lemma
per part, or for the two largest modules one *effect* lemma per action (what the
action does to each variable) from which the step lemmas follow, and each
theorem combines `Init => IInv`, the step and `IInv => P` with PTL.

The lemmas about `StateChain` stand at the head of `ProtectedStoreProofs` and of
`VaultCommitProofs`, which use them: `NextState` and `FromMetadata` stay in their
types, `Continues` is reflexive and transitive, a well-formed state continues its
predecessor, and a successor of an anchor continues the anchor.

`ProtectedStoreProofs`: `TypeOK`, `AckedIsAnchored`, `UntamperedLoadable`,
`AnchorOnlyAdvances`, `LoadsAreFresh`, `KeystoreWritesContinue`.
* `LockInv`: a running operation holds its object's mutex, keystore operations
  belong to the job thread, a thread about to write an anchor holds the guard;
* `GenuineInv`: every record on disk, in copies, in memory and in flight is a
  well-formed record of its own object (so no foreign or forged state appears);
* `AnchorInv`: anchors are filed under the object they belong to;
* `FlightInv`: what is about to be written follows from the anchor as it is *now*
  (this is where the mutexes are needed: the anchor cannot have moved since it was
  read, and `seen` equals the backend's content while the guard is held);
* `MemoryInv`: the keystore in the job's memory is the one on disk unless its
  successor is just being saved or the file was changed from outside.

`VaultCommitProofs`: `TypeOK`, `AckedKept`, `NoDanglingUnlessAnchorFails`,
`CurrentReaderReadable`, `SurvivesPowerLoss`, `NoOrphans`.
* `ChainInv`: every manifest on disk, in memory or lost behind a missing sync is a
  manifest of this vault, its hash a chain as long as its epoch;
* `TxnInv`, `FallbackInv`: where manifest, clone and anchor stand at each step of a
  transaction, and when an older manifest can still come back;
* `AckedInv`: what was acknowledged is in the anchor, hence in all that builds on it;
* `BlobInv`: blob ids are used once, so what a batch stages is in no earlier
  manifest, and what it supersedes is in no tree it may still write;
* `AnchoredInv`, `ReadableInv`, `AcceptableInv`, `LeakInv`: each says for one set of
  faults how far the disk can be from the anchor, which blobs are there, which
  manifests still open, and that every blob is referenced or queued for deletion.

`VaultLifecycleProofs`: `ListedHasData`, `DeletedNeverListed`, `UnlockListsAll`,
`ToldIsKeptUnlessBothFail`.  `ControlInv` ties each job to its steps; `UsedInv`,
`FreshInv`, `BornInv` and `EventInv` say who can know a vault's id from its creation
to the moment the session learns of it, which keeps a listener's import, a job and
an unlock apart; `JobInv` relates the registry a job was given, its own and the
session's; `GoneInv` says that the terminal anchor comes before the data goes;
`ListedInv`, `ReconciledInv` and `KeptInv` carry the promises: without a listener
every registry in use lists vaults with data, how far the unlock's reconciliation
has come (what is not listed is still to do, unread, late or gone), and that a vault left as a tombstone only is in every registry from which
the next unlock restores it.

`MigrationProofs`: `NothingLost`, `CompleteIfAlone`, `Resumable`,
`AnchorsFollowMoves`.  `StepInv` holds whatever fails: nothing is recorded before
the commit point, and what has been moved is live.  `AloneInv` is about a migration
that is only interrupted: before the commit point the old store is complete and
what is staged covers it; after it the journal is the record, what is not yet moved
is staged, and what is moved is new.

`ExchangeProofs`, about `Container`: `Faithful`, `HonestOpens`, `DamageRefused`, for any
vaults, recipients, options, additions and damage.  The invariant `ContainerIInv` has
two halves.
* `MadeInv`: each container ever written is `Written` from *sound* input: a manifest
  with each path once and its files laid end to end, a plaintext of that total size
  which (unless a source was torn while it was being added) carries the bytes of each
  entry where the entry says, and the tree the writer was asked for.  `ExportSound`,
  `AppendSound`, `RemoveSound` and `ReplaceSound` show that each operation hands sound
  input to the writer; the last three start from `OriginIs`: a stream that opens to
  its end is the whole stream of the container whose content key opened it
  (`SourceIs`).
* `DiskInv`: the file at the path is a mix of sections, chunks and signatures that
  were written with ones that mean nothing (`PartsOk`), and the last container
  written as long as nothing has damaged it.

`Faithful` follows from `OpenedIs`: a manifest that opens under a container's key is the
one sealed under it, the header it is bound to is that container's and names the
recipients, and the hash ties the bytes to the entry.  `DamageRefused`: the signature
covers preamble, header, manifest and data, so what verifies agrees with the signed
container in all of them, and the declared length leaves no room for another trailer
(`SameTrailer`).  `HonestOpens` needs the arithmetic of the chunks: `ChunkCountIs`,
`StreamIs` (length, order and offset of each chunk), `QuotientBelow` and `BytesOf` (the
bytes of an entry lie in the chunks the reader fetches).  Sums, concatenations and
appended folders and files are recursive functions; like the batches of `VaultTree`
they are shown to exist and to satisfy their equations by `InductionOverNat`.

`ExchangeProofs`, about `Transfer`: `TransferDelivers` is the refinement `Spec => Delivers`, and with it
`StopMeansStop`.  `PromiseInit` maps the initial states to initial states of
`Delivery`, `PromiseStep` each step to a step of it or to a stutter.  `OwnerInv`: the
active worker is the only one that transfers and the private channel is its own (so
what is in the channel was forwarded to the worker that reads it, which need not be the
one whose offer the user saw: Disagreements); `AnswerInv`: what an
accept or a decline on its way says of the worker that gave it; `StoppedInv`: what
the session's end found unfinished does not come near its import.  Lemmas about
`Accepts` count the chunks a worker has read against what was sent.  `Spec` includes the
fairness; the refinement and the invariants use its `Init` and steps only.

`SessionProofs`: `PlaintextOwned`, `CleanExit`, `NeverStoresShredded`, `EditsStayHome`,
`BrowserCurrent`.  `ControlInv`, `CourseInv` and `JobInv`: what each screen, each step
of a job and each stage of the exit leave behind, and that what a job was given
still holds when its result is applied; `HomeInv`: an edit has its vault open below
it; `CurrentInv`: a job that has committed carries the only current reader;
`ApartInv`: the wiper is never given the file of a check-out; `CleanInv`,
`ShreddedInv`: no bytes of a half-wiped file are on their way into a vault, because
a check-out whose file was shredded faces a vault that has moved on and cannot be
stored; `OwnedInv`: a job lets go of a temporary file only when it is wiped.

`KeystoreProofs`: `StillGetsIn` and the action properties `NeverDowngraded` and
`RevokedStaysRevoked`.
* `CourseInv`: the steps of each kind of job, the screen below it, what it carries;
* `BackendInv`: until something is damaged from outside or moved onto file anchors,
  the marker, the root record and the anchors agree about the backend at every step
  of choosing, marking and upgrading it;
* `AnchorInv`: whatever will be compared with the keystore on disk accepts it, and a
  running job works on that keystore;
* `SlotsInv`: what the user was told opens the store has a slot in the keystore on
  disk and in the one a job is about to put there; while the device token changes
  it is not among the promises.

`RevokedStaysRevoked` needs more, `RevocationInv`, because what a slot opens depends on
which keystores may still be put back and under which anchor they would load.  It
speaks of every keystore there is: on disk, in the copy and in the running job.
* `SoundInv`: each is committed to by its own state and holds each credential once;
  credentials, tokens and what was revoked were all made before `fresh`;
* `SecretsInv`: what a job carries is a new secret, the token it is about to forget,
  or a key that the keystore it is about to save no longer has;
* `BarredInv`: while the keychain's anchor has always been this store's own
  (`trusted`), no keystore is more than one update ahead of it, and one that it
  accepts has no revoked slot;
* `TrustedInv`: such an anchor is the one in use, and a removal is the next update of
  the keystore it accepts;
* `NewestInv`: until something happens to the store, the keystore on disk is newer than
  a copy of it and has nothing revoked, which is why the first anchor may be trusted.

The anchor moves only to a keystore it accepts (`FollowBarred`): another keystore that
the moved anchor accepts has the same hash, hence the same body (`CommittedBody`),
or is its successor, two updates ahead of the old anchor, which `BarredInv` excludes.
TLC found no violation of `RevocationInv` in the state space of the run `keystore`.

`VaultTreeProofs`: `TypeOK`, `Reachable`, `TrashRestorable`, `LiveNeverLost`,
`ExtractionLosesNothing`, for any bases, `.trash` and token-like ones among them, and any
spellings.  The inductive invariant is `TypeOK /\ Reachable`: every entry of the tree is a
live path or a path of the trash (`LivePath`, `TrashedPath`), every folder above it is
there, and the folder on screen exists.  A lemma per batch method says that it keeps such
trees and the documents in their files; for a folder's move (`MovedKeeps`) and for a batch
of renames (`RenameAllKeeps`) none is lost because the new paths are pairwise different.
`Put` keeps what the tree holds unless a file was at its path (`ReplaceKeeps`,
`PutKeeps`), and the three steps that add (`AddFileStep`, `NewFileStep`, `AddFolderStep`)
show that one the browser looked for was not.  `LeastFree`, a pigeonhole argument, shows
that the search for a free name (`DedupPath`, `TrashDest`) finds one among the first
`n + 1` when `n` entries exist.  The two batch functions (`RenameAll`, `ExtractEach`) are
recursive: the module proves by induction over the naturals (`InductionOverNat`, for a set
of numbers) that such a function exists and satisfies its equations, and then what it
keeps.

The assumptions are `ChainAssumption`, `StoreAssumption`, `VaultAssumption`,
`LifecycleAssumption`, `MigrationAssumption`, `TransferAssumption`,
`SessionAssumption`, `KeystoreAssumption`, `TreeAssumption` and `ContainerAssumption`:
the sentinels are no values, the fixed objects differ, sizes, limits and bounds are
positive, fault sets name faults the model has, a vault to begin with has each path
once and no content in a folder, a path to add is not empty.  TLC evaluates each in the runs of its module.

Only model-checked: `EventuallyMigrated`, `CloseCompletes` and `TransfersEnd`, for
good, because liveness under fairness is out of the prover's reach.  Every other
property of a passing run is a theorem.

## Plan

What would come next are the hazards no property covers: the quarantine after a failing
anchor backend during a load (`gui/store.rs:1020`), a kill between the rename of a
manifest and its directory sync followed by an open (`core/format_v2.rs:870`), the
wait of `Store::exclusively` (`gui/store.rs:902`), the errors of other connections
(`gui/app.rs:4995`), a decision that meets the next worker (`net/listener.rs:510`), a
handshake slot or transfer flag that is not given back, which the model cannot express
because a guard's `Drop` is part of the step that ends its worker
(`net/concurrency.rs:36`), and additions that do not see a file under another
spelling (`gui/app.rs:3082`).  `Resumable` speaks of interruptions only; for an ambiguous
commit and for work that waits for the migration `NothingLost` is what is left.

## Not modelled, and why

* Cryptographic primitives, encodings and byte layouts: assumed ideal; where the
  order or binding of sections matters (`Container`, `Transfer`) they are terms.
* Contacts and trust: a map with a level per contact, one assignment per
  operation; its persistence is `ProtectedStore`, and the listener's copy is taken
  when it starts.
* Router port mapping: its failure changes only the address shown.
* Transfer codes as text, and the consent to a weaker suite: one check each.
* Extraction of a container to a directory (`extract_to`): the preflight it shares
  with vaults is in `VaultTree`.
* The export form and the contact screens of the app, drawing, preferences,
  themes, packaging.
* In `Keystore`: the other objects' anchors during a recovery (a failure only
  aborts it), and writes of the degraded file are taken to succeed; `Migration`
  has the keystore's part in the upgrade.
* The OS lock that keeps a second process out of the data directory is assumed.
