------------------------------ MODULE VaultCommit ------------------------------
(***************************************************************************)
(* One v2 vault directory: the sealed manifest, one blob per file, the     *)
(* manifest's high-water anchor, and the sessions that hold a reader of it *)
(* (filesec-core/src/format_v2.rs, and the vault transactions of           *)
(* filesec-gui/src/store.rs).                                              *)
(*                                                                         *)
(* A mutation clones a reader, stages blobs, writes the successor manifest *)
(* by rename, deletes what it superseded and advances the anchor, all in   *)
(* one transaction on the vault.  Renames and unlinks are visible at once  *)
(* and survive a power loss only after their directory was synced.  The    *)
(* payload of a manifest state is its tree: path -> blob.                  *)
(***************************************************************************)
EXTENDS StateChain, FiniteSets

CONSTANTS
    Session,      \* holders of a VaultReaderV2
    Path,         \* file paths in the vault
    Blob,         \* blob file ids; new_file_id never returns one twice
    NoBlob,       \* no file at the path
    Self, Vault,  \* the owner's fingerprint and the vault's object id
    SuiteId,      \* the vault's suite
    MaxBatchOps,  \* MAX_BATCH_OPS
    FaultSets,    \* the kinds of trouble considered together, as sets of
                  \* "sync", "anchor" (failures), "power", "kill"
    None          \* no manifest, no reader, no session

Tree == [Path -> Blob \cup {NoBlob}]

\* The payload of a manifest is a tree; the sentinels are no values.
ASSUME VaultAssumption ==
    /\ Payload = Tree
    /\ Self \in Identity /\ Vault \in Object /\ SuiteId \in Suite
    /\ NoBlob \notin Blob
    /\ None \notin StateMetadata /\ None \notin Session
    /\ MaxBatchOps \in Nat \ {0}
    /\ FaultSets \subseteq SUBSET {"sync", "anchor", "power", "kill"}

VARIABLES
    disk,         \* the manifest at manifest.cbor
    fallback,     \* older manifests a power loss may bring back
    blobs,        \* the blob files that exist
    unsynced,     \* blobs whose directory entry a power loss may change
    used,         \* history: blob ids handed out
    unlinked,     \* history: blobs the program deleted
    anchor,       \* the manifest's anchor
    readers,      \* session -> the state its reader was opened at
    pc, who,      \* step of the running transaction, and its session
    writer,       \* the state the transaction's clone has reached
    tree,         \* the batch's edited copy of the manifest
    staged,       \* blobs the batch has written
    superseded,   \* blobs the batch no longer references
    pending,      \* pending_reclaim of the clone
    changed, ops, \* VaultBatch::changed and ::ops
    acked,        \* history: hash of the newest mutation that returned Ok
    crashed,      \* history: an interruption since the last collection
    quarantined,  \* the vault directory was moved to quarantine
    faults        \* what may happen in this behaviour

diskVars  == <<disk, fallback, blobs, unsynced, used, unlinked, anchor, quarantined>>
batchVars == <<tree, staged, superseded, changed, ops>>
txnVars   == <<pc, who, writer, pending, batchVars>>
vars == <<diskVars, txnVars, readers, acked, crashed, faults>>

Pc == {"idle", "edit", "rename", "sync_dir", "reclaim", "anchor", "collect"}

Manifest == StateMetadata \cup {None}

\* Type invariant.
TypeOK ==
    /\ disk \in Manifest
    /\ fallback \subseteq StateMetadata
    /\ blobs \subseteq Blob /\ unsynced \subseteq Blob
    /\ used \subseteq Blob /\ unlinked \subseteq Blob
    /\ anchor \in StateAnchor \cup {NoAnchor}
    /\ readers \in [Session -> Manifest]
    /\ pc \in Pc
    /\ who \in Session \cup {None}
    /\ writer \in Manifest
    /\ tree \in Tree
    /\ staged \subseteq Blob /\ superseded \subseteq Blob /\ pending \subseteq Blob
    /\ changed \in BOOLEAN
    /\ ops \in 0..MaxBatchOps
    /\ acked \in Hash
    /\ crashed \in BOOLEAN
    /\ quarantined \in BOOLEAN
    /\ faults \in FaultSets

EmptyTree == [p \in Path |-> NoBlob]

\* The tree a manifest state carries, and the blobs a tree references.
TreeOf(m) == m.cur[Len(m.cur)].payload
RefsOfTree(t) == {t[p] : p \in Path} \ {NoBlob}
Refs(m) == RefsOfTree(TreeOf(m))

\* The first manifest of a new, empty vault (VaultReaderV2::create_empty).
Genesis == NextState(Self, Vault, SuiteId, NoAnchor, EmptyTree)

\* create_vault_dir has renamed the finished directory into place; the process
\* may have been killed before the first anchor was written.
Init ==
    /\ disk = Genesis
    /\ anchor \in {NoAnchor, FromMetadata(Genesis)}
    /\ acked = GENESIS_HASH
    /\ readers = [r \in Session |-> None]
    /\ fallback = {} /\ blobs = {} /\ unsynced = {} /\ used = {} /\ unlinked = {}
    /\ pc = "idle" /\ who = None /\ writer = None /\ tree = EmptyTree
    /\ staged = {} /\ superseded = {} /\ pending = {} /\ changed = FALSE /\ ops = 0
    /\ crashed = FALSE /\ quarantined = FALSE
    /\ faults \in FaultSets

-------------------------------------------------------------------------------
(* Pieces shared by the operations.                                          *)

\* safe_io::sync_dir: the outcomes possible here.
SyncDir == IF "sync" \in faults THEN BOOLEAN ELSE {TRUE}

\* VaultBatch::new over the state the clone has reached.
NewBatch(m) ==
    /\ tree' = TreeOf(m)
    /\ staged' = {} /\ superseded' = {} /\ changed' = FALSE /\ ops' = 0

\* The transaction ends: the clone and its batch are dropped.
EndTxn ==
    /\ pc' = "idle" /\ who' = None /\ writer' = None /\ pending' = {}
    /\ tree' = EmptyTree
    /\ staged' = {} /\ superseded' = {} /\ changed' = FALSE /\ ops' = 0

\* Mutant: a failed batch leaves its blobs behind.
AbortBatchKeeping ==
    /\ EndTxn
    /\ UNCHANGED <<diskVars, readers, acked, crashed>>

\* Mutant: a failed batch also deletes what it would have superseded.
AbortBatchReclaiming ==
    /\ blobs' = blobs \ (staged \cup superseded)
    /\ unsynced' = unsynced \cup staged \cup superseded
    /\ unlinked' = unlinked \cup staged \cup superseded
    /\ EndTxn
    /\ UNCHANGED <<disk, fallback, used, anchor, quarantined, readers, acked, crashed>>

\* commit_with on any error: every staged blob is deleted, the reader is as it was.
AbortBatch ==
    /\ blobs' = blobs \ staged
    /\ unsynced' = unsynced \cup staged
    /\ unlinked' = unlinked \cup staged
    /\ EndTxn
    /\ UNCHANGED <<disk, fallback, used, anchor, quarantined, readers, acked, crashed>>

-------------------------------------------------------------------------------
(* Opening.                                                                  *)

\* accept_state on the opened manifest ends well: nothing to do, or the first or
\* next anchor is written.
AcceptOk(m) ==
    /\ anchor # NoAnchor => Acceptable(anchor, m)
    /\ anchor' = IF anchor = NoAnchor \/ IsSuccessor(anchor, m)
                 THEN FromMetadata(m) ELSE anchor

\* accept_state fails: the manifest is not acceptable, or the backend cannot be
\* read or written (a failed write may have landed).
AcceptFails(m) ==
    \/ anchor # NoAnchor /\ ~Acceptable(anchor, m) /\ UNCHANGED anchor
    \/ "anchor" \in faults /\ (UNCHANGED anchor \/ AcceptOk(m))

\* open_vault up to accept_state; a directory that is refused is quarantined.
OpenVault(r) ==
    /\ pc = "idle" /\ disk # None
    /\ \/ /\ AcceptOk(disk)
          /\ pc' = "collect" /\ who' = r /\ writer' = disk
          /\ UNCHANGED <<disk, fallback, quarantined, pending, batchVars>>
       \/ /\ AcceptFails(disk)
          /\ disk' = None /\ fallback' = {} /\ quarantined' = TRUE
          /\ UNCHANGED txnVars
    /\ readers' = [readers EXCEPT ![r] = None]
    /\ UNCHANGED <<blobs, unsynced, used, unlinked, acked, crashed>>

\* collect_garbage, then the reader is handed out.  Both directories must sync
\* before anything is deleted.
CollectGarbage ==
    /\ pc = "collect"
    /\ \E dir \in SyncDir, sub \in SyncDir :
          LET orphans == IF dir /\ sub THEN blobs \ Refs(writer) ELSE {} IN
          /\ fallback' = IF dir THEN {} ELSE fallback
          /\ blobs' = blobs \ orphans
          /\ unlinked' = unlinked \cup orphans
          /\ unsynced' = (IF dir /\ sub THEN {} ELSE unsynced) \cup orphans
          /\ crashed' = (crashed /\ ~(dir /\ sub))
    /\ readers' = [readers EXCEPT ![who] = writer]
    /\ EndTxn
    /\ UNCHANGED <<disk, used, anchor, quarantined, acked>>

-------------------------------------------------------------------------------
(* Mutating: mutate_vault, mutate_vault_in_batches, append_files_to_vault.   *)

\* Mutant: a stale reader may be mutated.
EnsureCurrentSkipped(r) == TRUE

\* ensure_current_vault: the reader is the anchored state.
EnsureCurrent(r) ==
    anchor # NoAnchor =>
        anchor.epoch = readers[r].epoch /\ anchor.cur = readers[r].cur

\* in_txn, ensure_current_vault, reader.clone().
BeginMutation(r) ==
    /\ pc = "idle" /\ disk # None
    /\ readers[r] # None
    /\ EnsureCurrent(r)
    /\ pc' = "edit" /\ who' = r /\ writer' = readers[r] /\ pending' = {}
    /\ NewBatch(readers[r])
    /\ UNCHANGED <<diskVars, readers, acked, crashed>>

\* Mutant: a batch never fills up.
CountOpUnbounded == pc = "edit" /\ ops' = ops + 1

\* VaultBatch::count_op: a batch is full after MAX_BATCH_OPS operations.
CountOp == pc = "edit" /\ ops < MaxBatchOps /\ ops' = ops + 1

\* put_file, put_bytes: a fresh blob replaces what the path referenced.
PutFile(p, b) ==
    /\ CountOp
    /\ b \notin used
    /\ used' = used \cup {b}
    /\ blobs' = blobs \cup {b}
    /\ unsynced' = unsynced \cup {b}
    /\ staged' = staged \cup {b}
    /\ superseded' = superseded \cup ({tree[p]} \ {NoBlob})
    /\ tree' = [tree EXCEPT ![p] = b]
    /\ changed' = TRUE
    /\ UNCHANGED <<disk, fallback, unlinked, anchor, quarantined, pc, who, writer,
                   pending, readers, acked, crashed>>

\* VaultBatch::remove: a no-op where nothing is.
Remove(p) ==
    /\ CountOp
    /\ superseded' = superseded \cup ({tree[p]} \ {NoBlob})
    /\ tree' = [tree EXCEPT ![p] = NoBlob]
    /\ changed' = (changed \/ tree[p] # NoBlob)
    /\ UNCHANGED <<diskVars, staged, pc, who, writer, pending, readers, acked, crashed>>

\* VaultBatch::rename: manifest only.
Rename(p, q) ==
    /\ CountOp
    /\ tree[p] # NoBlob /\ tree[q] = NoBlob
    /\ tree' = [tree EXCEPT ![p] = NoBlob, ![q] = tree[p]]
    /\ changed' = TRUE
    /\ UNCHANGED <<diskVars, staged, superseded, pc, who, writer, pending, readers,
                   acked, crashed>>

\* An edit of the batch fails: unreadable source, name taken, batch full, disk full.
EditFails == pc = "edit" /\ AbortBatch

\* Mutant: the blob directory is not synced before the manifest is written.
SealUnsynced ==
    /\ pc = "edit"
    /\ \/ ~changed /\ pc' = "anchor"
       \/ changed /\ NextAllowed(Self, Vault, FromMetadata(writer)) /\ pc' = "rename"
    /\ UNCHANGED <<diskVars, who, writer, pending, batchVars, readers, acked, crashed>>

\* commit_with: a batch that changed nothing goes straight to its anchor check;
\* otherwise seal_and_write syncs the blob directory (best effort) and seals.
Seal ==
    /\ pc = "edit"
    /\ \/ ~changed /\ pc' = "anchor" /\ UNCHANGED unsynced
       \/ /\ changed
          /\ NextAllowed(Self, Vault, FromMetadata(writer))
          /\ pc' = "rename"
          /\ \E synced \in SyncDir : unsynced' = IF synced THEN {} ELSE unsynced
    /\ UNCHANGED <<disk, fallback, blobs, used, unlinked, anchor, quarantined, who,
                   writer, pending, batchVars, readers, acked, crashed>>

\* write_atomic: the rename happens, or an error aborts the batch.
WriteManifest ==
    LET new == NextState(Self, Vault, SuiteId, FromMetadata(writer), tree) IN
    /\ pc = "rename"
    /\ \/ /\ fallback' = fallback \cup {disk}
          /\ disk' = new
          /\ writer' = new
          /\ pc' = "sync_dir"
          /\ UNCHANGED <<blobs, unsynced, used, unlinked, anchor, quarantined, who,
                         pending, batchVars, readers, acked, crashed>>
       \/ AbortBatch

\* Mutant: superseded blobs are reclaimed whether or not the rename is durable.
SyncManifestEager ==
    /\ pc = "sync_dir"
    /\ pending' = pending \cup superseded
    /\ \E durable \in SyncDir : fallback' = IF durable THEN {} ELSE fallback
    /\ pc' = "reclaim"
    /\ UNCHANGED <<disk, blobs, unsynced, used, unlinked, anchor, quarantined, who,
                   writer, batchVars, readers, acked, crashed>>

\* The directory sync of commit_durable; only a durable commit reclaims.
SyncManifest ==
    /\ pc = "sync_dir"
    /\ pending' = pending \cup superseded
    /\ \E durable \in SyncDir :
          /\ fallback' = IF durable THEN {} ELSE fallback
          /\ pc' = IF durable THEN "reclaim" ELSE "anchor"
    /\ UNCHANGED <<disk, blobs, unsynced, used, unlinked, anchor, quarantined, who,
                   writer, batchVars, readers, acked, crashed>>

\* reclaim: unlink every queued blob.
Reclaim ==
    /\ pc = "reclaim"
    /\ blobs' = blobs \ pending
    /\ unlinked' = unlinked \cup pending
    /\ unsynced' = unsynced \cup pending
    /\ pending' = {}
    /\ pc' = "anchor"
    /\ UNCHANGED <<disk, fallback, used, anchor, quarantined, who, writer, batchVars,
                   readers, acked, crashed>>

\* commit_vault_reader = commit_state: on success the next batch starts or the
\* mutation returns Ok; on failure it returns Err and nothing is taken back.
CommitAnchor ==
    /\ pc = "anchor"
    /\ \/ /\ AcceptOk(writer)
          /\ \/ pc' = "edit" /\ NewBatch(writer) /\ UNCHANGED <<who, writer, pending, acked>>
             \/ EndTxn /\ acked' = writer.cur
       \/ AcceptFails(writer) /\ EndTxn /\ UNCHANGED acked
    /\ UNCHANGED <<disk, fallback, blobs, unsynced, used, unlinked, quarantined,
                   readers, crashed>>

-------------------------------------------------------------------------------
(* Interruptions.                                                            *)

Interrupt ==
    /\ EndTxn
    /\ readers' = [r \in Session |-> None]
    /\ crashed' = TRUE
    /\ UNCHANGED <<used, unlinked, anchor, quarantined, acked>>

\* The process is killed; what it did to the disk stays visible.
Kill ==
    /\ "kill" \in faults
    /\ Interrupt
    /\ UNCHANGED <<disk, fallback, blobs, unsynced>>

\* The machine loses power: renames and unlinks that were never synced may be lost.
PowerLoss ==
    /\ "power" \in faults
    /\ Interrupt
    /\ disk' \in {disk} \cup fallback
    /\ fallback' = {}
    /\ \E kept \in SUBSET unsynced : blobs' = (blobs \ unsynced) \cup kept
    /\ unsynced' = {}

Step ==
    \/ \E r \in Session : OpenVault(r) \/ BeginMutation(r)
    \/ \E p \in Path, b \in Blob : PutFile(p, b)
    \/ \E p \in Path : Remove(p)
    \/ \E p, q \in Path : Rename(p, q)
    \/ CollectGarbage \/ EditFails \/ Seal \/ WriteManifest \/ SyncManifest
    \/ Reclaim \/ CommitAnchor \/ Kill \/ PowerLoss

Next == Step /\ UNCHANGED faults

Spec == Init /\ [][Next]_vars

-------------------------------------------------------------------------------
(* Properties.                                                               *)

\* The manifests the next open may find, should the power fail now.
Candidates == IF disk = None THEN {} ELSE {disk} \cup fallback

\* A directory sync may fail and the power as well.
SyncsMayLose == {"sync", "power"} \subseteq faults

\* "never a manifest that points at a deleted blob (FS-10)": neither the manifest
\* on disk nor one a lost rename could bring back references a blob the program
\* has unlinked (reclaim, collect_garbage, commit_with).
NoDangling == \A m \in Candidates : Refs(m) \cap unlinked = {}

\* The same while the anchor backend works: failing syncs, power losses and
\* kills at any step.
NoDanglingUnlessAnchorFails == "anchor" \notin faults => NoDangling

\* A session that passes ensure_current_vault can read every file it lists, and
\* what it commits next references only blobs that exist, while the anchor
\* backend works and no power loss meets a failed sync.
CurrentReaderReadable ==
    ("anchor" \notin faults /\ ~SyncsMayLose /\ pc = "idle" /\ disk # None) =>
        \A r \in Session :
            (readers[r] # None /\ anchor # NoAnchor /\ readers[r].cur = anchor.cur) =>
                Refs(readers[r]) \subseteq blobs

\* A mutation that returned Ok is never undone by another session's older reader,
\* by a failed mutation or by a killed process: every manifest on disk descends
\* from it (ensure_current_vault and the anchor check in one transaction).  A
\* power loss may undo one whose directory could not be synced.
AckedKept ==
    (disk # None /\ ~SyncsMayLose) => Continues(disk.cur, acked)

\* While directories can be synced and the backend works, a power loss at any
\* step leaves a vault that opens (its manifest is anchored or the direct
\* successor) and in which every listed file has its blob on stable storage.
\* (A process killed between the rename and its directory sync is outside this
\* claim: the next open anchors that manifest first and syncs only afterwards.)
SurvivesPowerLoss ==
    faults \subseteq {"power"} =>
    \A m \in Candidates :
        /\ anchor # NoAnchor => Acceptable(anchor, m)
        /\ Refs(m) \subseteq blobs \ unsynced

\* No space leaks without an interruption or a failing sync: between transactions the blob
\* directory holds exactly the files the manifest lists.
NoOrphans ==
    (faults \subseteq {"power"} /\ pc = "idle" /\ disk # None /\ ~crashed) => blobs = Refs(disk)

-------------------------------------------------------------------------------
(* The inductive invariant behind the properties above, in named parts.       *)

\* Every file has a blob of its own.
OneBlobPerPath(t) == \A p, q \in Path : t[p] = t[q] => p = q \/ t[p] = NoBlob

\* A manifest of this vault: its hash closes a chain as long as its epoch whose
\* last link carries a tree.
Genuine(m) ==
    /\ m \in StateMetadata
    /\ m.identity = Self /\ m.object = Vault /\ m.suite = SuiteId
    /\ m.epoch = Len(m.cur)
    /\ \E t \in Tree : /\ m.cur = ExpectedHash(Self, Vault, SuiteId, m.prev, t)
                      /\ OneBlobPerPath(t)

GenuineAnchor ==
    /\ anchor.identity = Self /\ anchor.object = Vault /\ anchor.suite = SuiteId
    /\ anchor.epoch = Len(anchor.cur)

\* Only manifests of this vault are written, handed out or anchored.
ChainInv ==
    /\ disk # None => Genuine(disk)
    /\ writer # None => Genuine(writer)
    /\ \A m \in fallback : Genuine(m)
    /\ \A r \in Session : readers[r] # None => Genuine(readers[r])
    /\ anchor # NoAnchor => GenuineAnchor

\* Somebody has opened the vault since the last interruption.
Live == pc # "idle" \/ \E r \in Session : readers[r] # None

\* Where a transaction stands between the manifest, its clone and the anchor.
TxnInv ==
    /\ disk = None => pc = "idle" /\ fallback = {}
    /\ Live => anchor # NoAnchor
    /\ pc # "idle" => writer # None
    /\ pc \in {"edit", "rename"} => writer.cur = anchor.cur
    /\ pc = "rename" => NextAllowed(Self, Vault, FromMetadata(writer))
    /\ pc \in {"sync_dir", "reclaim"} => writer = disk /\ IsSuccessor(anchor, disk)
    /\ pc = "anchor" => \/ writer.cur = anchor.cur
                        \/ writer = disk /\ IsSuccessor(anchor, disk)
    /\ pc = "collect" => writer = disk /\ disk.cur = anchor.cur

\* Where an older manifest may come back after a power loss.
FallbackInv ==
    /\ pc = "reclaim" => fallback = {}
    /\ ("sync" \notin faults /\ fallback # {}) =>
          \/ pc = "sync_dir"
          \/ /\ "kill" \in faults /\ pc \in {"idle", "collect"}
             /\ \A r \in Session : readers[r] = None

\* What was acknowledged is in the anchor, and so in what is built on it.
AckedInv ==
    /\ IF anchor = NoAnchor THEN acked = GENESIS_HASH ELSE Continues(anchor.cur, acked)
    /\ ~SyncsMayLose =>
          /\ disk # None => Continues(disk.cur, acked)
          /\ Live /\ disk # None => Continues(disk.cur, anchor.cur)
          /\ "sync" \notin faults => \A m \in fallback : Continues(m.cur, acked)

\* Blob ids are never used twice: what a batch stages is new to every manifest,
\* and what it supersedes is in no tree it may still write.
BlobInv ==
    /\ blobs \cup unsynced \cup unlinked \cup staged \cup superseded \cup pending \subseteq used
    /\ \A m \in Candidates : Refs(m) \subseteq used
    /\ writer # None => Refs(writer) \subseteq used
    /\ \A r \in Session : readers[r] # None => Refs(readers[r]) \subseteq used
    /\ pc \in {"edit", "rename"} =>
          /\ OneBlobPerPath(tree)
          /\ RefsOfTree(tree) \subseteq Refs(writer) \cup staged
          /\ (superseded \cup pending) \cap RefsOfTree(tree) = {}
          /\ pending \cap Refs(writer) = {}
          /\ staged \cap unlinked = {}
          /\ \A m \in Candidates : Refs(m) \cap staged = {}
          /\ ~changed => tree = TreeOf(writer) /\ staged = {} /\ superseded = {}
    /\ pc = "sync_dir" => (superseded \cup pending) \cap Refs(disk) = {}
    /\ pc = "reclaim" => pending \cap Refs(disk) = {}
    /\ pc = "anchor" => pending \cap Refs(writer) = {}

\* While the anchor backend works, the anchor is the manifest on disk or one
\* transaction behind it.
AnchoredInv ==
    "anchor" \notin faults =>
        /\ (Live /\ disk # None /\ pc \in {"idle", "edit", "rename"}) => disk.cur = anchor.cur
        /\ pc = "anchor" => writer.cur = disk.cur
        /\ NoDangling

\* What the manifests reference is there, and on stable storage where directory
\* syncs work.
ReadableInv ==
    ("anchor" \notin faults /\ ~SyncsMayLose) =>
        /\ disk # None => Refs(disk) \subseteq blobs
        /\ "sync" \notin faults => \A m \in Candidates : Refs(m) \subseteq blobs \ unsynced
        /\ pc \in {"edit", "rename"} => RefsOfTree(tree) \subseteq blobs
        /\ (pc = "rename" /\ "sync" \notin faults) => RefsOfTree(tree) \cap unsynced = {}

\* Where only power losses happen, every manifest that may come back is one the
\* anchor accepts.
AcceptableInv ==
    faults \subseteq {"power"} =>
        \A m \in Candidates : anchor # NoAnchor => Acceptable(anchor, m)

\* And every blob is referenced, or queued to be deleted.
LeakInv ==
    (faults \subseteq {"power"} /\ ~crashed /\ disk # None) =>
        /\ pc \in {"idle", "anchor"} => blobs \subseteq Refs(disk)
        /\ pc \in {"edit", "rename"} =>
              /\ blobs \subseteq Refs(disk) \cup staged
              /\ blobs \subseteq RefsOfTree(tree) \cup superseded
        /\ pc = "sync_dir" => blobs \subseteq Refs(disk) \cup superseded
        /\ pc = "reclaim" => blobs \subseteq Refs(disk) \cup pending

IInv ==
    /\ TypeOK
    /\ ChainInv /\ TxnInv /\ FallbackInv /\ AckedInv
    /\ BlobInv /\ AnchoredInv /\ ReadableInv
    /\ AcceptableInv /\ LeakInv
===============================================================================
