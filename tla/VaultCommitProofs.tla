---------------------------- MODULE VaultCommitProofs ----------------------------
(* Machine-checked proofs of VaultCommit's safety properties, for any sessions,   *)
(* paths, blobs and batch size, and any combination of failing syncs, failing     *)
(* anchor writes, kills and power losses.                                         *)
EXTENDS VaultCommit, TLAPS

-------------------------------------------------------------------------------
(* The state chain: what StateMetadata::next returns, and that accepting a     *)
(* successor never forgets an update.                                         *)

\* StateMetadata::next returns a well-formed record of the right object whenever
\* it does not return an error.
LEMMA NextStateType ==
    ASSUME NEW i \in Identity, NEW o \in Object, NEW s \in Suite,
           NEW a \in StateAnchor \cup {NoAnchor}, NEW p \in Payload,
           NextAllowed(i, o, a)
    PROVE  /\ NextState(i, o, s, a, p) \in StateMetadata
           /\ WellFormed(NextState(i, o, s, a, p))
           /\ NextState(i, o, s, a, p).identity = i
           /\ NextState(i, o, s, a, p).object = o
           /\ NextState(i, o, s, a, p).suite = s
<1> DEFINE epoch == IF a = NoAnchor THEN 1 ELSE a.epoch + 1
           prev  == IF a = NoAnchor THEN GENESIS_HASH ELSE a.cur
           lnk   == [identity |-> i, object |-> o, suite |-> s, payload |-> p]
           new   == NextState(i, o, s, a, p)
<1>1. epoch \in 1..MaxEpoch
  BY ChainAssumption DEF NextAllowed, StateAnchor
<1>2. prev \in Seq(Link)
  BY DEF StateAnchor, Hash, GENESIS_HASH
<1>3. lnk \in Link
  BY DEF Link
<1>4. Append(prev, lnk) \in Seq(Link)
  BY <1>2, <1>3
<1>5. new = [identity |-> i, object |-> o, suite |-> s, epoch |-> epoch,
             prev |-> prev, cur |-> Append(prev, lnk)]
  BY DEF NextState, ExpectedHash
<1> HIDE DEF epoch, prev, lnk, new
<1>6. new \in StateMetadata
  BY <1>1, <1>2, <1>4, <1>5 DEF StateMetadata, Hash
<1>7. /\ new.identity = i /\ new.object = o /\ new.suite = s
      /\ new.epoch = epoch /\ new.prev = prev /\ new.cur = Append(prev, lnk)
  BY <1>5
<1>8. WellFormed(new)
  <2>1. new.epoch # 0
    BY <1>1, <1>7
  <2>2. new.cur = ExpectedHash(new.identity, new.object, new.suite, new.prev, p)
    BY <1>7 DEF ExpectedHash, lnk
  <2> QED BY <2>1, <2>2 DEF WellFormed, VerifyPayload
<1> QED BY <1>6, <1>7, <1>8 DEF new

\* An anchor made from a record is an anchor of the same object and hash.
LEMMA FromMetadataType ==
    ASSUME NEW s \in StateMetadata
    PROVE  /\ FromMetadata(s) \in StateAnchor
           /\ FromMetadata(s).identity = s.identity
           /\ FromMetadata(s).object = s.object
           /\ FromMetadata(s).suite = s.suite
           /\ FromMetadata(s).epoch = s.epoch
           /\ FromMetadata(s).cur = s.cur
BY DEF FromMetadata, StateMetadata, StateAnchor

\* Continuation of hashes is reflexive.
LEMMA ContinuesRefl == ASSUME NEW h \in Hash PROVE Continues(h, h)
BY DEF Continues, Hash

\* Continuation of hashes is transitive.
LEMMA ContinuesTrans ==
    ASSUME NEW f \in Hash, NEW g \in Hash, NEW h \in Hash,
           Continues(f, g), Continues(g, h)
    PROVE  Continues(f, h)
BY DEF Continues, Hash

\* A genuine record continues its own predecessor.
LEMMA WellFormedContinues ==
    ASSUME NEW s \in StateMetadata, WellFormed(s)
    PROVE  Continues(s.cur, s.prev)
<1>1. PICK p \in Payload :
        s.cur = Append(s.prev, [identity |-> s.identity, object |-> s.object,
                                suite |-> s.suite, payload |-> p])
  BY DEF WellFormed, VerifyPayload, ExpectedHash
<1>2. s.prev \in Seq(Link)
  BY DEF StateMetadata, Hash
<1> DEFINE lnk == [identity |-> s.identity, object |-> s.object,
                   suite |-> s.suite, payload |-> p]
<1>3. lnk \in Link
  BY DEF Link, StateMetadata
<1> HIDE DEF lnk
<1>4. s.cur = Append(s.prev, lnk)
  BY <1>1 DEF lnk
<1> QED BY <1>2, <1>3, <1>4 DEF Continues

\* Accepting a genuine successor keeps every update the anchor commits to.
LEMMA SuccessorContinues ==
    ASSUME NEW a \in StateAnchor, NEW c \in StateMetadata,
           WellFormed(c), Acceptable(a, c)
    PROVE  Continues(c.cur, a.cur)
<1>1. CASE IsCurrent(a, c)
  BY <1>1, ContinuesRefl DEF IsCurrent, StateMetadata
<1>2. CASE IsSuccessor(a, c)
  BY <1>2, WellFormedContinues DEF IsSuccessor
<1> QED BY <1>1, <1>2 DEF Acceptable


-------------------------------------------------------------------------------
(* Trees.                                                                     *)

\* A tree is edited one path at a time: a fresh blob is put at a path.
LEMMA TreePut ==
    ASSUME NEW t \in Tree, NEW p \in Path, NEW b \in Blob,
           OneBlobPerPath(t), b \notin RefsOfTree(t)
    PROVE  LET u == [t EXCEPT ![p] = b] IN
           /\ u \in Tree /\ OneBlobPerPath(u)
           /\ RefsOfTree(u) = (RefsOfTree(t) \ {t[p]}) \cup {b}
BY VaultAssumption DEF Tree, OneBlobPerPath, RefsOfTree

\* A path is emptied.
LEMMA TreeRemove ==
    ASSUME NEW t \in Tree, NEW p \in Path, OneBlobPerPath(t)
    PROVE  LET u == [t EXCEPT ![p] = NoBlob] IN
           /\ u \in Tree /\ OneBlobPerPath(u)
           /\ RefsOfTree(u) = RefsOfTree(t) \ {t[p]}
BY VaultAssumption DEF Tree, OneBlobPerPath, RefsOfTree

\* A file is renamed.
LEMMA TreeMove ==
    ASSUME NEW t \in Tree, NEW p \in Path, NEW q \in Path, OneBlobPerPath(t),
           t[p] # NoBlob, t[q] = NoBlob
    PROVE  LET u == [t EXCEPT ![p] = NoBlob, ![q] = t[p]] IN
           /\ u \in Tree /\ OneBlobPerPath(u)
           /\ RefsOfTree(u) = RefsOfTree(t)
<1> DEFINE u == [t EXCEPT ![p] = NoBlob, ![q] = t[p]]
<1>1. p # q /\ u \in Tree
  BY VaultAssumption DEF Tree
<1>2. /\ u[p] = NoBlob /\ u[q] = t[p]
      /\ \A x \in Path : x # p /\ x # q => u[x] = t[x]
  BY <1>1 DEF Tree
<1> HIDE DEF u
<1>3. OneBlobPerPath(u)
  BY <1>1, <1>2 DEF OneBlobPerPath
<1>4. RefsOfTree(u) = RefsOfTree(t)
  <2>1. ASSUME NEW b PROVE b \in RefsOfTree(u) => b \in RefsOfTree(t)
    BY <1>2 DEF RefsOfTree
  <2>2. ASSUME NEW b PROVE b \in RefsOfTree(t) => b \in RefsOfTree(u)
    <3>1. SUFFICES ASSUME NEW x \in Path, b = t[x], b # NoBlob PROVE \E y \in Path : b = u[y]
      BY DEF RefsOfTree
    <3> QED
      BY <1>1, <1>2, <3>1
  <2> QED
    BY <2>1, <2>2
<1> QED
  BY <1>1, <1>3, <1>4 DEF u

\* What a tree references are blobs, and the empty tree references none.
LEMMA TreeRefs ==
    /\ \A t \in Tree : RefsOfTree(t) \subseteq Blob
    /\ \A t \in Tree, p \in Path : t[p] \in Blob \cup {NoBlob}
    /\ \A t \in Tree, p \in Path : {t[p]} \ {NoBlob} \subseteq RefsOfTree(t)
    /\ EmptyTree \in Tree /\ OneBlobPerPath(EmptyTree) /\ RefsOfTree(EmptyTree) = {}
BY DEF Tree, RefsOfTree, EmptyTree, OneBlobPerPath

-------------------------------------------------------------------------------
(* Manifests and the anchor.                                                  *)

\* A manifest carries a tree, is genuine in the sense of the state chain, and
\* two manifests that close the same chain list the same files.
LEMMA GenuineFacts ==
    ASSUME NEW m, Genuine(m)
    PROVE  /\ m \in StateMetadata /\ m # None
           /\ m.cur \in Hash /\ m.prev \in Hash /\ m.epoch \in 1..MaxEpoch
           /\ WellFormed(m)
           /\ TreeOf(m) \in Tree /\ OneBlobPerPath(TreeOf(m))
           /\ Refs(m) \subseteq Blob
<1>1. PICK t \in Tree : /\ m.cur = ExpectedHash(Self, Vault, SuiteId, m.prev, t)
                        /\ OneBlobPerPath(t)
  BY DEF Genuine
<1>2. m \in StateMetadata /\ m.identity = Self /\ m.object = Vault /\ m.suite = SuiteId
  BY DEF Genuine
<1>3. m.cur \in Hash /\ m.prev \in Hash /\ m.epoch \in 1..MaxEpoch /\ m # None
  BY <1>2, VaultAssumption DEF StateMetadata
<1> DEFINE lnk == [identity |-> Self, object |-> Vault, suite |-> SuiteId, payload |-> t]
<1>4. m.cur = Append(m.prev, lnk) /\ lnk.payload = t /\ lnk \in Link
  BY <1>1, VaultAssumption DEF ExpectedHash, Link
<1> HIDE DEF lnk
<1>5. TreeOf(m) = t
  <2>1. m.prev \in Seq(Link) /\ Len(m.cur) = Len(m.prev) + 1 /\ m.cur[Len(m.cur)] = lnk
    BY <1>3, <1>4 DEF Hash
  <2> QED
    BY <1>4, <2>1 DEF TreeOf
<1>6. WellFormed(m)
  BY <1>1, <1>2, <1>3, VaultAssumption DEF WellFormed, VerifyPayload
<1> QED
  BY <1>1, <1>2, <1>3, <1>5, <1>6, TreeRefs DEF Refs

\* Manifests of the same hash have the same tree.
LEMMA SameFiles ==
    ASSUME NEW m, NEW n, m.cur = n.cur
    PROVE  TreeOf(m) = TreeOf(n) /\ Refs(m) = Refs(n)
BY DEF TreeOf, Refs

\* The successor that seal_and_write writes is a genuine manifest of the edited
\* tree, and follows the state it was made from.
LEMMA SuccessorGenuine ==
    ASSUME NEW m, Genuine(m), NextAllowed(Self, Vault, FromMetadata(m)),
           NEW t \in Tree, OneBlobPerPath(t)
    PROVE  LET new == NextState(Self, Vault, SuiteId, FromMetadata(m), t) IN
           /\ Genuine(new) /\ TreeOf(new) = t /\ Refs(new) = RefsOfTree(t)
           /\ new.prev = m.cur /\ new.epoch = m.epoch + 1
<1> DEFINE a == FromMetadata(m)
           new == NextState(Self, Vault, SuiteId, a, t)
           lnk == [identity |-> Self, object |-> Vault, suite |-> SuiteId, payload |-> t]
<1>1. m \in StateMetadata /\ m.cur \in Seq(Link) /\ m.epoch = Len(m.cur)
  BY GenuineFacts DEF Genuine, Hash
<1>2. a \in StateAnchor /\ a # NoAnchor /\ a.cur = m.cur /\ a.epoch = m.epoch
  BY <1>1, FromMetadataType, ChainAssumption
<1>3. new \in StateMetadata /\ new.identity = Self /\ new.object = Vault /\ new.suite = SuiteId
  BY <1>2, NextStateType, VaultAssumption
<1>4. new.prev = m.cur /\ new.epoch = m.epoch + 1 /\ new.cur = Append(m.cur, lnk)
  BY <1>2 DEF NextState, ExpectedHash
<1>5. lnk \in Link /\ lnk.payload = t
  BY VaultAssumption DEF Link
<1>6. new.cur = ExpectedHash(Self, Vault, SuiteId, new.prev, t)
  BY <1>4 DEF ExpectedHash
<1> HIDE DEF a, new, lnk
<1>7. Len(new.cur) = Len(m.cur) + 1 /\ new.cur[Len(new.cur)] = lnk
  BY <1>1, <1>4, <1>5
<1>8. TreeOf(new) = t
  BY <1>5, <1>7 DEF TreeOf
<1>9. Genuine(new)
  BY <1>1, <1>3, <1>4, <1>6, <1>7 DEF Genuine
<1> QED
  BY <1>4, <1>8, <1>9 DEF Refs, a, new

\* The first manifest of a vault is genuine and lists nothing.
LEMMA GenesisGenuine == Genuine(Genesis) /\ Refs(Genesis) = {}
<1> DEFINE lnk == [identity |-> Self, object |-> Vault, suite |-> SuiteId, payload |-> EmptyTree]
<1>1. lnk \in Link /\ lnk.payload = EmptyTree
  BY VaultAssumption, TreeRefs DEF Link
<1>2. Genesis \in StateMetadata /\ Genesis.identity = Self /\ Genesis.object = Vault
      /\ Genesis.suite = SuiteId
  <2>1. NextAllowed(Self, Vault, NoAnchor)
    BY DEF NextAllowed
  <2> QED
    BY <2>1, NextStateType, VaultAssumption, TreeRefs DEF Genesis
<1>3. Genesis.prev = <<>> /\ Genesis.epoch = 1 /\ Genesis.cur = Append(<<>>, lnk)
  BY DEF Genesis, NextState, ExpectedHash, GENESIS_HASH
<1> HIDE DEF lnk
<1>4. <<>> \in Seq(Link) /\ Len(Genesis.cur) = 1 /\ Genesis.cur[1] = lnk
  BY <1>1, <1>3
<1>5. Genesis.cur = ExpectedHash(Self, Vault, SuiteId, Genesis.prev, EmptyTree)
  BY <1>3 DEF ExpectedHash, lnk
<1>6. TreeOf(Genesis) = EmptyTree
  BY <1>1, <1>4 DEF TreeOf
<1> QED
  BY <1>2, <1>3, <1>4, <1>5, <1>6, TreeRefs DEF Genuine, Refs

\* The anchor recognises the manifest it was made from.
LEMMA AnchoredIsCurrent ==
    ASSUME NEW m, Genuine(m), GenuineAnchor, m.cur = anchor.cur
    PROVE  IsCurrent(anchor, m)
BY DEF Genuine, GenuineAnchor, IsCurrent, SameObject

\* And the successor of that manifest.
LEMMA NextIsSuccessor ==
    ASSUME NEW m, Genuine(m), anchor \in StateAnchor, GenuineAnchor, m.prev = anchor.cur,
           m.epoch = anchor.epoch + 1
    PROVE  IsSuccessor(anchor, m)
<1>1. m.epoch \in 1..MaxEpoch /\ anchor.epoch \in 1..MaxEpoch /\ MaxEpoch \in Nat
  BY GenuineFacts, ChainAssumption DEF StateAnchor
<1> QED
  BY <1>1 DEF Genuine, GenuineAnchor, IsSuccessor, SameObject, SaturatingSucc

\* accept_state that ends well leaves an anchor at the manifest it was given, and
\* the anchor only ever moves forward.
LEMMA AcceptedIsAnchored ==
    ASSUME NEW m, Genuine(m), anchor \in StateAnchor \cup {NoAnchor},
           anchor # NoAnchor => GenuineAnchor, AcceptOk(m)
    PROVE  /\ anchor' \in StateAnchor /\ anchor' # NoAnchor /\ GenuineAnchor'
           /\ anchor'.cur = m.cur
           /\ anchor # NoAnchor => Continues(anchor'.cur, anchor.cur)
           /\ IsCurrent(anchor', m)
<1>1. m \in StateMetadata /\ WellFormed(m) /\ m.cur \in Hash
  BY GenuineFacts
<1>2. FromMetadata(m) \in StateAnchor /\ FromMetadata(m).cur = m.cur
      /\ FromMetadata(m).identity = m.identity /\ FromMetadata(m).object = m.object
      /\ FromMetadata(m).suite = m.suite /\ FromMetadata(m).epoch = m.epoch
  BY <1>1, FromMetadataType
<1>3. CASE anchor = NoAnchor \/ IsSuccessor(anchor, m)
  <2>1. anchor' = FromMetadata(m)
    BY <1>3 DEF AcceptOk
  <2>2. anchor' # NoAnchor /\ GenuineAnchor'
    BY <1>2, <2>1, ChainAssumption DEF Genuine, GenuineAnchor
  <2>3. anchor # NoAnchor => Continues(m.cur, anchor.cur)
    BY <1>1, <1>3, SuccessorContinues DEF Acceptable
  <2>4. IsCurrent(anchor', m)
    BY <1>2, <2>1 DEF IsCurrent, SameObject
  <2> QED
    BY <1>2, <2>1, <2>2, <2>3, <2>4
<1>4. CASE anchor # NoAnchor /\ ~IsSuccessor(anchor, m)
  <2>1. anchor' = anchor /\ IsCurrent(anchor, m)
    BY <1>4 DEF AcceptOk, Acceptable
  <2>2. anchor.cur = m.cur /\ anchor \in StateAnchor
    BY <1>4, <2>1 DEF IsCurrent
  <2> QED
    BY <1>1, <1>4, <2>1, <2>2, ContinuesRefl DEF GenuineAnchor
<1> QED
  BY <1>3, <1>4

-------------------------------------------------------------------------------
(* Types, manifests and the course of a transaction.                          *)

\* The invariant holds for a new, empty vault.
LEMMA InitInv == Init => IInv
<1> SUFFICES ASSUME Init PROVE IInv
  OBVIOUS
<1>1. Genuine(Genesis) /\ Refs(Genesis) = {} /\ Genesis # None /\ Genesis.cur \in Hash
      /\ Genesis \in StateMetadata
  BY GenesisGenuine, GenuineFacts
<1>2. /\ FromMetadata(Genesis) \in StateAnchor /\ FromMetadata(Genesis).cur = Genesis.cur
      /\ FromMetadata(Genesis).identity = Self /\ FromMetadata(Genesis).object = Vault
      /\ FromMetadata(Genesis).suite = SuiteId
      /\ FromMetadata(Genesis).epoch = Len(FromMetadata(Genesis).cur)
  BY <1>1, FromMetadataType DEF Genuine
<1>3. disk = Genesis /\ Candidates = {Genesis} /\ ~Live /\ pc = "idle" /\ writer = None
  BY <1>1 DEF Init, Candidates, Live
<1>4. <<>> \in Hash /\ \A h \in Hash : Continues(h, <<>>)
  BY DEF Hash, Continues
<1>5. anchor # NoAnchor => GenuineAnchor /\ IsCurrent(anchor, Genesis)
  BY <1>1, <1>2, AnchoredIsCurrent DEF Init, GenuineAnchor
<1>6. TypeOK
  <2>1. ops \in 0..MaxBatchOps /\ EmptyTree \in Tree
    BY TreeRefs, VaultAssumption DEF Init
  <2> QED
    BY <1>1, <1>2, <1>4, <2>1
    DEF Init, TypeOK, Manifest, Pc, GENESIS_HASH
<1>7. ChainInv /\ TxnInv /\ FallbackInv
  BY <1>1, <1>3, <1>5 DEF Init, ChainInv, TxnInv, FallbackInv
<1>8. AckedInv
  BY <1>1, <1>2, <1>3, <1>4 DEF Init, AckedInv, GENESIS_HASH
<1>9. BlobInv /\ AnchoredInv /\ ReadableInv /\ LeakInv
  BY <1>1, <1>3 DEF Init, BlobInv, AnchoredInv, NoDangling, ReadableInv, LeakInv
<1>10. AcceptableInv
  BY <1>3, <1>5 DEF AcceptableInv, Acceptable
<1> QED
  BY <1>6, <1>7, <1>8, <1>9, <1>10 DEF IInv

\* The state a transaction is about to write.
LEMMA NewManifest ==
    ASSUME TypeOK, ChainInv, TxnInv, BlobInv, pc = "rename"
    PROVE  LET new == NextState(Self, Vault, SuiteId, FromMetadata(writer), tree) IN
           /\ Genuine(new) /\ new # None
           /\ TreeOf(new) = tree /\ Refs(new) = RefsOfTree(tree)
           /\ new.prev = writer.cur /\ new.prev = anchor.cur
           /\ IsSuccessor(anchor, new)
<1>1. Genuine(writer) /\ NextAllowed(Self, Vault, FromMetadata(writer))
      /\ tree \in Tree /\ OneBlobPerPath(tree)
  BY DEF TypeOK, ChainInv, TxnInv, BlobInv
<1>2. anchor \in StateAnchor /\ GenuineAnchor /\ writer.cur = anchor.cur
  BY DEF TypeOK, ChainInv, TxnInv, Live
<1> DEFINE new == NextState(Self, Vault, SuiteId, FromMetadata(writer), tree)
<1>3. /\ Genuine(new) /\ TreeOf(new) = tree /\ Refs(new) = RefsOfTree(tree)
      /\ new.prev = writer.cur /\ new.epoch = writer.epoch + 1
  BY <1>1, SuccessorGenuine
<1>4. anchor.epoch = writer.epoch
  BY <1>1, <1>2 DEF Genuine, GenuineAnchor
<1> HIDE DEF new
<1>5. IsSuccessor(anchor, new)
  BY <1>2, <1>3, <1>4, NextIsSuccessor
<1> QED
  BY <1>2, <1>3, <1>5, GenuineFacts DEF new

\* A batch never grows beyond its limit.
LEMMA OpsStep ==
    ASSUME TypeOK, [Next]_vars
    PROVE  (ops \in 0..MaxBatchOps)'
<1>0. UNCHANGED faults
  BY DEF Next, vars
<1>d. MaxBatchOps \in Nat \ {0} /\ ops \in 0..MaxBatchOps /\ 0 \in 0..MaxBatchOps
  BY VaultAssumption DEF TypeOK
<1> USE <1>0 DEF diskVars, txnVars, batchVars
<1>1. ASSUME NEW r \in Session, OpenVault(r) PROVE (ops \in 0..MaxBatchOps)'
  BY <1>1, <1>d DEF OpenVault, AcceptOk, AcceptFails
<1>2. ASSUME NEW r \in Session, BeginMutation(r) PROVE (ops \in 0..MaxBatchOps)'
  BY <1>2, <1>d DEF BeginMutation, NewBatch
<1>3. ASSUME NEW p \in Path, NEW b \in Blob, PutFile(p, b) PROVE (ops \in 0..MaxBatchOps)'
  BY <1>3, <1>d DEF PutFile, CountOp
<1>4. ASSUME NEW p \in Path, Remove(p) PROVE (ops \in 0..MaxBatchOps)'
  BY <1>4, <1>d DEF Remove, CountOp
<1>5. ASSUME NEW p \in Path, NEW q \in Path, Rename(p, q) PROVE (ops \in 0..MaxBatchOps)'
  BY <1>5, <1>d DEF Rename, CountOp
<1>6. CASE CollectGarbage
  BY <1>6, <1>d DEF CollectGarbage, EndTxn, SyncDir
<1>7. CASE EditFails
  BY <1>7, <1>d DEF EditFails, AbortBatch, EndTxn
<1>8. CASE Seal
  BY <1>8, <1>d DEF Seal, SyncDir
<1>9. CASE WriteManifest
  BY <1>9, <1>d DEF WriteManifest, AbortBatch, EndTxn
<1>10. CASE SyncManifest
  BY <1>10, <1>d DEF SyncManifest, SyncDir
<1>11. CASE Reclaim
  BY <1>11, <1>d DEF Reclaim
<1>12. CASE CommitAnchor
  BY <1>12, <1>d DEF CommitAnchor, AcceptOk, AcceptFails, NewBatch, EndTxn
<1>13. CASE Kill
  BY <1>13, <1>d DEF Kill, Interrupt, EndTxn
<1>14. CASE PowerLoss
  BY <1>14, <1>d DEF PowerLoss, Interrupt, EndTxn
<1>15. CASE UNCHANGED vars
  BY <1>15, <1>d DEF vars
<1> QED
  BY <1>1, <1>2, <1>3, <1>4, <1>5, <1>6, <1>7, <1>8, <1>9, <1>10, <1>11, <1>12, <1>13,
     <1>14, <1>15 DEF Next, Step


\* What a manifest write that does not abort has done.
LEMMA Written ==
    ASSUME TypeOK, ChainInv, TxnInv, BlobInv, WriteManifest, ~AbortBatch
    PROVE  /\ pc = "rename" /\ pc' = "sync_dir"
           /\ writer' = disk' /\ Genuine(disk') /\ disk' # None
           /\ disk'.prev = anchor.cur /\ IsSuccessor(anchor, disk')
           /\ Refs(disk') = RefsOfTree(tree)
           /\ fallback' = fallback \cup {disk} /\ disk # None
           /\ UNCHANGED <<blobs, unsynced, used, unlinked, anchor, quarantined, who,
                          pending, tree, staged, superseded, changed, ops, readers,
                          acked, crashed>>
<1> DEFINE new == NextState(Self, Vault, SuiteId, FromMetadata(writer), tree)
<1>1. /\ pc = "rename" /\ pc' = "sync_dir" /\ disk' = new /\ writer' = new
      /\ fallback' = fallback \cup {disk}
      /\ UNCHANGED <<blobs, unsynced, used, unlinked, anchor, quarantined, who, pending,
                     tree, staged, superseded, changed, ops, readers, acked, crashed>>
  BY DEF WriteManifest, batchVars
<1>2. /\ Genuine(new) /\ new # None /\ Refs(new) = RefsOfTree(tree)
      /\ new.prev = anchor.cur /\ IsSuccessor(anchor, new)
  BY <1>1, NewManifest
<1> HIDE DEF new
<1> QED
  BY <1>1, <1>2 DEF TxnInv

\* What an aborted batch has done.
LEMMA Aborted ==
    ASSUME AbortBatch
    PROVE  /\ pc' = "idle" /\ writer' = None /\ pending' = {}
           /\ blobs' = blobs \ staged /\ unsynced' = unsynced \cup staged
           /\ unlinked' = unlinked \cup staged
           /\ tree' = EmptyTree /\ staged' = {} /\ superseded' = {}
           /\ UNCHANGED <<disk, fallback, used, anchor, quarantined, readers, acked, crashed>>
BY DEF AbortBatch, EndTxn

\* What opening a vault has done, unless the directory went to quarantine.
LEMMA Opened ==
    ASSUME TypeOK, ChainInv, NEW r \in Session, OpenVault(r), disk' # None
    PROVE  /\ pc = "idle" /\ pc' = "collect" /\ disk # None /\ writer' = disk
           /\ anchor' # NoAnchor /\ anchor' \in StateAnchor /\ GenuineAnchor'
           /\ anchor'.cur = disk.cur /\ IsCurrent(anchor', disk)
           /\ anchor # NoAnchor => Continues(anchor'.cur, anchor.cur)
           /\ readers' = [readers EXCEPT ![r] = None]
           /\ UNCHANGED <<disk, fallback, quarantined, pending, tree, staged, superseded,
                          changed, ops, blobs, unsynced, used, unlinked, acked, crashed>>
<1>1. /\ pc = "idle" /\ pc' = "collect" /\ disk # None /\ writer' = disk /\ AcceptOk(disk)
      /\ readers' = [readers EXCEPT ![r] = None]
      /\ UNCHANGED <<disk, fallback, quarantined, pending, tree, staged, superseded,
                     changed, ops, blobs, unsynced, used, unlinked, acked, crashed>>
  BY DEF OpenVault, batchVars
<1> QED
  BY <1>1, AcceptedIsAnchored DEF TypeOK, ChainInv

\* What opening a vault has done when the directory went to quarantine.
LEMMA Refused ==
    ASSUME TypeOK, ChainInv, NEW r \in Session, OpenVault(r), disk' = None
    PROVE  /\ pc = "idle" /\ pc' = "idle" /\ disk # None /\ fallback' = {}
           /\ anchor # NoAnchor => anchor' # NoAnchor /\ Continues(anchor'.cur, anchor.cur)
           /\ anchor' # NoAnchor => GenuineAnchor'
           /\ anchor' = anchor \/ AcceptOk(disk)
           /\ readers' = [readers EXCEPT ![r] = None]
           /\ UNCHANGED <<writer, pending, tree, staged, superseded,
                          changed, ops, blobs, unsynced, used, unlinked, acked, crashed>>
<1>1. /\ pc = "idle" /\ pc' = "idle" /\ disk # None /\ fallback' = {}
      /\ anchor' = anchor \/ AcceptOk(disk)
      /\ readers' = [readers EXCEPT ![r] = None]
      /\ UNCHANGED <<writer, pending, tree, staged, superseded,
                     changed, ops, blobs, unsynced, used, unlinked, acked, crashed>>
  BY DEF OpenVault, AcceptFails, txnVars, batchVars
<1>2. (anchor' = anchor /\ anchor' # NoAnchor) =>
         GenuineAnchor' /\ Continues(anchor'.cur, anchor.cur)
  <2>1. anchor # NoAnchor => anchor.cur \in Hash
    BY DEF TypeOK, StateAnchor
  <2> QED
    BY <2>1, ContinuesRefl DEF ChainInv, GenuineAnchor
<1> QED
  BY <1>1, <1>2, AcceptedIsAnchored DEF TypeOK, ChainInv

\* What the end of a batch has done, in either outcome.
LEMMA Committed ==
    ASSUME TypeOK, ChainInv, TxnInv, CommitAnchor
    PROVE  /\ pc = "anchor" /\ anchor # NoAnchor /\ anchor' # NoAnchor
           /\ anchor' \in StateAnchor /\ GenuineAnchor' /\ Genuine(writer) /\ writer # None
           /\ Continues(anchor'.cur, anchor.cur)
           /\ \/ /\ anchor'.cur = writer.cur /\ IsCurrent(anchor', writer)
                 /\ pc' \in {"idle", "edit"}
              \/ "anchor" \in faults /\ pc' = "idle" /\ anchor' = anchor
           /\ pc' = "idle" => writer' = None /\ pending' = {} /\ staged' = {} /\ superseded' = {}
           /\ pc' = "edit" =>
                 /\ tree' = TreeOf(writer) /\ UNCHANGED <<writer, pending, acked>>
                 /\ staged' = {} /\ superseded' = {} /\ changed' = FALSE
           /\ acked' # acked => acked' = writer.cur /\ anchor'.cur = writer.cur
           /\ UNCHANGED <<disk, fallback, blobs, unsynced, used, unlinked, quarantined,
                          readers, crashed>>
<1>1. pc = "anchor" /\ Genuine(writer) /\ writer # None /\ anchor \in StateAnchor /\ GenuineAnchor
      /\ anchor # NoAnchor
  BY DEF CommitAnchor, TxnInv, ChainInv, TypeOK, Live
<1>2. Acceptable(anchor, writer)
  BY <1>1, AnchoredIsCurrent DEF TxnInv, Acceptable
<1>3. AcceptOk(writer) => /\ anchor' \in StateAnchor /\ anchor' # NoAnchor /\ GenuineAnchor'
                          /\ anchor'.cur = writer.cur /\ IsCurrent(anchor', writer)
                          /\ Continues(anchor'.cur, anchor.cur)
  BY <1>1, AcceptedIsAnchored
<1>4. anchor' = anchor => GenuineAnchor' /\ Continues(anchor'.cur, anchor.cur)
  <2>1. anchor.cur \in Hash
    BY <1>1 DEF StateAnchor
  <2> QED
    BY <1>1, <2>1, ContinuesRefl DEF GenuineAnchor
<1>5. \/ AcceptOk(writer)
      \/ "anchor" \in faults /\ pc' = "idle" /\ anchor' = anchor /\ acked' = acked
  BY <1>1, <1>2 DEF CommitAnchor, AcceptFails, EndTxn
<1>6. /\ pc' \in {"idle", "edit"}
      /\ pc' = "idle" => writer' = None /\ pending' = {} /\ staged' = {} /\ superseded' = {}
      /\ pc' = "edit" =>
            /\ tree' = TreeOf(writer) /\ UNCHANGED <<writer, pending, acked>>
            /\ staged' = {} /\ superseded' = {} /\ changed' = FALSE
      /\ acked' = acked \/ acked' = writer.cur
      /\ UNCHANGED <<disk, fallback, blobs, unsynced, used, unlinked, quarantined,
                     readers, crashed>>
  BY DEF CommitAnchor, NewBatch, EndTxn
<1>7. CASE AcceptOk(writer)
  BY <1>1, <1>3, <1>6, <1>7
<1>8. CASE "anchor" \in faults /\ pc' = "idle" /\ anchor' = anchor /\ acked' = acked
  BY <1>1, <1>4, <1>6, <1>8
<1> QED
  BY <1>5, <1>7, <1>8

\* Every step preserves the types.
LEMMA TypeStep ==
    ASSUME TypeOK, ChainInv, TxnInv, BlobInv, [Next]_vars
    PROVE  TypeOK'
<1>0. UNCHANGED faults
  BY DEF Next, vars
<1>a. ASSUME NEW m \in StateMetadata PROVE FromMetadata(m) \in StateAnchor
  BY FromMetadataType
<1>t. /\ EmptyTree \in Tree /\ \A p \in Path, b \in Blob \cup {NoBlob} : [tree EXCEPT ![p] = b] \in Tree
      /\ \A p \in Path : tree[p] \in Blob \cup {NoBlob}
      /\ \A p, q \in Path : [tree EXCEPT ![p] = NoBlob, ![q] = tree[p]] \in Tree
  BY TreeRefs DEF Tree, TypeOK
<1>n. /\ None \notin StateMetadata
      /\ disk # None => TreeOf(disk) \in Tree
      /\ writer # None => TreeOf(writer) \in Tree /\ writer.cur \in Hash
      /\ \A r \in Session : readers[r] # None => TreeOf(readers[r]) \in Tree
      /\ pc # "idle" => writer # None
  BY VaultAssumption, GenuineFacts DEF ChainInv, TxnInv
<1>o. ops' \in 0..MaxBatchOps
  BY OpsStep
<1> USE <1>0 DEF TypeOK, Manifest, Pc, diskVars, txnVars, batchVars
<1>1. ASSUME NEW r \in Session, OpenVault(r) PROVE TypeOK'
  BY <1>1, <1>a, <1>t, <1>o, <1>n DEF OpenVault, AcceptOk, AcceptFails
<1>2. ASSUME NEW r \in Session, BeginMutation(r) PROVE TypeOK'
  BY <1>2, <1>a, <1>t, <1>o, <1>n DEF BeginMutation, NewBatch
<1>3. ASSUME NEW p \in Path, NEW b \in Blob, PutFile(p, b) PROVE TypeOK'
  BY <1>3, <1>a, <1>t, <1>o, <1>n DEF PutFile
<1>4. ASSUME NEW p \in Path, Remove(p) PROVE TypeOK'
  BY <1>4, <1>a, <1>t, <1>o, <1>n DEF Remove
<1>5. ASSUME NEW p \in Path, NEW q \in Path, Rename(p, q) PROVE TypeOK'
  BY <1>5, <1>a, <1>t, <1>o, <1>n DEF Rename
<1>6. CASE CollectGarbage
  BY <1>6, <1>a, <1>t, <1>o, <1>n DEF CollectGarbage, EndTxn, SyncDir
<1>7. CASE EditFails
  BY <1>7, <1>a, <1>t, <1>o, <1>n DEF EditFails, AbortBatch, EndTxn
<1>8. CASE Seal
  BY <1>8, <1>a, <1>t, <1>o, <1>n DEF Seal, SyncDir
<1>9. CASE WriteManifest
  <2>1. CASE AbortBatch
    BY <1>9, <2>1, <1>a, <1>t, <1>o, <1>n DEF WriteManifest, AbortBatch, EndTxn
  <2>2. CASE ~AbortBatch
    <3>1. /\ writer' = disk' /\ disk' \in StateMetadata /\ disk \in StateMetadata
          /\ fallback' = fallback \cup {disk} /\ pc' = "sync_dir"
          /\ UNCHANGED <<blobs, unsynced, used, unlinked, anchor, quarantined, who,
                         pending, tree, staged, superseded, changed, ops, readers,
                         acked, crashed>>
      BY <1>9, <2>2, Written, GenuineFacts
    <3> QED
      BY <3>1
  <2> QED
    BY <2>1, <2>2
<1>10. CASE SyncManifest
  BY <1>10, <1>a, <1>t, <1>o, <1>n DEF SyncManifest, SyncDir
<1>11. CASE Reclaim
  BY <1>11, <1>a, <1>t, <1>o, <1>n DEF Reclaim
<1>12. CASE CommitAnchor
  BY <1>12, <1>a, <1>t, <1>o, <1>n DEF CommitAnchor, AcceptOk, AcceptFails, NewBatch,
     EndTxn
<1>13. CASE Kill
  BY <1>13, <1>a, <1>t, <1>o, <1>n DEF Kill, Interrupt, EndTxn
<1>14. CASE PowerLoss
  BY <1>14, <1>a, <1>t, <1>o, <1>n DEF PowerLoss, Interrupt, EndTxn
<1>15. CASE UNCHANGED vars
  BY <1>15, <1>a, <1>t, <1>o, <1>n DEF vars
<1> QED
  BY <1>1, <1>2, <1>3, <1>4, <1>5, <1>6, <1>7, <1>8, <1>9, <1>10, <1>11, <1>12, <1>13,
     <1>14, <1>15 DEF Next, Step

\* Only manifests of this vault are written, handed out or anchored.
LEMMA ChainStep ==
    ASSUME TypeOK, ChainInv, TxnInv, BlobInv, [Next]_vars
    PROVE  ChainInv'
<1>0. UNCHANGED faults
  BY DEF Next, vars
<1> USE <1>0 DEF ChainInv, GenuineAnchor, diskVars, txnVars, batchVars
<1>1. ASSUME NEW r \in Session, OpenVault(r) PROVE ChainInv'
  <2>1. CASE disk' # None
    <3>1. /\ UNCHANGED <<disk, fallback>> /\ writer' = disk /\ GenuineAnchor'
          /\ readers' = [readers EXCEPT ![r] = None]
      BY <1>1, <2>1, Opened
    <3> QED
      BY <2>1, <3>1 DEF TypeOK
  <2>2. CASE disk' = None
    <3>1. /\ fallback' = {} /\ writer' = writer
          /\ readers' = [readers EXCEPT ![r] = None] /\ (anchor' # NoAnchor => GenuineAnchor')
      BY <1>1, <2>2, Refused
    <3> QED
      BY <2>2, <3>1 DEF TypeOK
  <2> QED
    BY <2>1, <2>2
<1>2. ASSUME NEW r \in Session, BeginMutation(r) PROVE ChainInv'
  BY <1>2 DEF BeginMutation, NewBatch
<1>3. ASSUME NEW p \in Path, NEW b \in Blob, PutFile(p, b) PROVE ChainInv'
  BY <1>3 DEF PutFile, CountOp
<1>4. ASSUME NEW p \in Path, Remove(p) PROVE ChainInv'
  BY <1>4 DEF Remove, CountOp
<1>5. ASSUME NEW p \in Path, NEW q \in Path, Rename(p, q) PROVE ChainInv'
  BY <1>5 DEF Rename, CountOp
<1>6. CASE CollectGarbage
  <2>1. /\ readers' = [readers EXCEPT ![who] = writer] /\ writer' = None
        /\ fallback' \subseteq fallback /\ UNCHANGED <<disk, anchor>>
    BY <1>6 DEF CollectGarbage, EndTxn
  <2> QED
    BY <2>1 DEF TypeOK
<1>7. CASE EditFails
  BY <1>7, Aborted DEF EditFails
<1>8. CASE Seal
  BY <1>8 DEF Seal, SyncDir
<1>9. CASE WriteManifest
  <2>1. CASE AbortBatch
    BY <2>1, Aborted
  <2>2. CASE ~AbortBatch
    BY <1>9, <2>2, Written
  <2> QED
    BY <2>1, <2>2
<1>10. CASE SyncManifest
  <2>1. fallback' \subseteq fallback /\ UNCHANGED <<disk, writer, readers, anchor>>
    BY <1>10 DEF SyncManifest
  <2> QED
    BY <2>1
<1>11. CASE Reclaim
  BY <1>11 DEF Reclaim
<1>12. CASE CommitAnchor
  <2>1. /\ GenuineAnchor' /\ writer' \in {writer, None} /\ UNCHANGED <<disk, fallback, readers>>
    BY <1>12, Committed
  <2> QED
    BY <2>1
<1>13. CASE Kill
  BY <1>13 DEF Kill, Interrupt, EndTxn
<1>14. CASE PowerLoss
  <2>1. /\ disk' \in {disk} \cup fallback /\ fallback' = {} /\ writer' = None
        /\ readers' = [r \in Session |-> None] /\ anchor' = anchor
    BY <1>14 DEF PowerLoss, Interrupt, EndTxn
  <2> QED
    BY <2>1
<1>15. CASE UNCHANGED vars
  BY <1>15 DEF vars
<1> QED
  BY <1>1, <1>2, <1>3, <1>4, <1>5, <1>6, <1>7, <1>8, <1>9, <1>10, <1>11, <1>12, <1>13,
     <1>14, <1>15 DEF Next, Step

\* Every step keeps a transaction on its course.
LEMMA TxnStep ==
    ASSUME TypeOK, ChainInv, TxnInv, BlobInv, [Next]_vars
    PROVE  TxnInv'
<1>0. UNCHANGED faults
  BY DEF Next, vars
<1> USE <1>0 DEF TxnInv, Live, diskVars, txnVars, batchVars
<1>1. ASSUME NEW r \in Session, OpenVault(r) PROVE TxnInv'
  <2>1. CASE disk' # None
    BY <1>1, <2>1, Opened DEF TypeOK
  <2>2. CASE disk' = None
    BY <1>1, <2>2, Refused DEF TypeOK
  <2> QED
    BY <2>1, <2>2
<1>2. ASSUME NEW r \in Session, BeginMutation(r) PROVE TxnInv'
  BY <1>2 DEF BeginMutation, NewBatch, EnsureCurrent
<1>3. ASSUME NEW p \in Path, NEW b \in Blob, PutFile(p, b) PROVE TxnInv'
  BY <1>3 DEF PutFile, CountOp
<1>4. ASSUME NEW p \in Path, Remove(p) PROVE TxnInv'
  BY <1>4 DEF Remove, CountOp
<1>5. ASSUME NEW p \in Path, NEW q \in Path, Rename(p, q) PROVE TxnInv'
  BY <1>5 DEF Rename, CountOp
<1>6. CASE CollectGarbage
  BY <1>6 DEF CollectGarbage, EndTxn, SyncDir
<1>7. CASE EditFails
  BY <1>7, Aborted DEF EditFails
<1>8. CASE Seal
  BY <1>8 DEF Seal, SyncDir
<1>9. CASE WriteManifest
  <2>1. CASE AbortBatch
    BY <1>9, <2>1, Aborted
  <2>2. CASE ~AbortBatch
    BY <1>9, <2>2, Written
  <2> QED
    BY <2>1, <2>2
<1>10. CASE SyncManifest
  BY <1>10 DEF SyncManifest, SyncDir
<1>11. CASE Reclaim
  BY <1>11 DEF Reclaim
<1>12. CASE CommitAnchor
  BY <1>12, Committed DEF TypeOK
<1>13. CASE Kill
  BY <1>13 DEF Kill, Interrupt, EndTxn
<1>14. CASE PowerLoss
  BY <1>14 DEF PowerLoss, Interrupt, EndTxn
<1>15. CASE UNCHANGED vars
  BY <1>15 DEF vars
<1> QED
  BY <1>1, <1>2, <1>3, <1>4, <1>5, <1>6, <1>7, <1>8, <1>9, <1>10, <1>11, <1>12, <1>13,
     <1>14, <1>15 DEF Next, Step

\* An older manifest can come back only where a sync is outstanding.
LEMMA FallbackStep ==
    ASSUME TypeOK, ChainInv, TxnInv, BlobInv, FallbackInv, [Next]_vars
    PROVE  FallbackInv'
<1>0. UNCHANGED faults
  BY DEF Next, vars
<1> USE <1>0 DEF FallbackInv, diskVars, txnVars, batchVars
<1>1. ASSUME NEW r \in Session, OpenVault(r) PROVE FallbackInv'
  <2>1. CASE disk' # None
    BY <1>1, <2>1, Opened DEF TypeOK
  <2>2. CASE disk' = None
    BY <1>1, <2>2, Refused DEF TypeOK
  <2> QED
    BY <2>1, <2>2
<1>2. ASSUME NEW r \in Session, BeginMutation(r) PROVE FallbackInv'
  BY <1>2 DEF BeginMutation, NewBatch
<1>3. ASSUME NEW p \in Path, NEW b \in Blob, PutFile(p, b) PROVE FallbackInv'
  BY <1>3 DEF PutFile, CountOp
<1>4. ASSUME NEW p \in Path, Remove(p) PROVE FallbackInv'
  BY <1>4 DEF Remove, CountOp
<1>5. ASSUME NEW p \in Path, NEW q \in Path, Rename(p, q) PROVE FallbackInv'
  BY <1>5 DEF Rename, CountOp
<1>6. CASE CollectGarbage
  BY <1>6 DEF CollectGarbage, EndTxn, SyncDir
<1>7. CASE EditFails
  BY <1>7, Aborted DEF EditFails
<1>8. CASE Seal
  BY <1>8 DEF Seal, SyncDir
<1>9. CASE WriteManifest
  <2>1. CASE AbortBatch
    BY <1>9, <2>1, Aborted DEF WriteManifest
  <2>2. CASE ~AbortBatch
    BY <1>9, <2>2, Written
  <2> QED
    BY <2>1, <2>2
<1>10. CASE SyncManifest
  BY <1>10 DEF SyncManifest, SyncDir
<1>11. CASE Reclaim
  BY <1>11 DEF Reclaim
<1>12. CASE CommitAnchor
  BY <1>12, Committed DEF TypeOK
<1>13. CASE Kill
  BY <1>13 DEF Kill, Interrupt, EndTxn
<1>14. CASE PowerLoss
  BY <1>14 DEF PowerLoss, Interrupt, EndTxn
<1>15. CASE UNCHANGED vars
  BY <1>15 DEF vars
<1> QED
  BY <1>1, <1>2, <1>3, <1>4, <1>5, <1>6, <1>7, <1>8, <1>9, <1>10, <1>11, <1>12, <1>13,
     <1>14, <1>15 DEF Next, Step

\* Every step keeps what was acknowledged: the anchor moves forward only, and what is
\* written continues it.
LEMMA AckedStep ==
    ASSUME TypeOK, ChainInv, TxnInv, BlobInv, FallbackInv, AckedInv, [Next]_vars
    PROVE  AckedInv'
<1>0. UNCHANGED faults
  BY DEF Next, vars
<1>c. /\ \A h \in Hash : Continues(h, GENESIS_HASH) /\ Continues(h, h)
      /\ \A f, g, h \in Hash : Continues(f, g) /\ Continues(g, h) => Continues(f, h)
  <2>1. \A h \in Hash : Continues(h, GENESIS_HASH)
    BY DEF Hash, Continues, GENESIS_HASH
  <2> QED
    BY <2>1, ContinuesRefl, ContinuesTrans
<1>h. /\ acked \in Hash
      /\ anchor # NoAnchor => anchor.cur \in Hash
      /\ disk # None => disk.cur \in Hash
      /\ writer # None => writer.cur \in Hash
  BY GenuineFacts DEF TypeOK, StateAnchor, ChainInv
<1>t. anchor' \in StateAnchor \cup {NoAnchor} /\ (anchor' # NoAnchor => anchor'.cur \in Hash)
  BY TypeStep DEF TypeOK, StateAnchor
<1> USE <1>0 DEF AckedInv, Live, diskVars, txnVars, batchVars
<1>1. ASSUME NEW r \in Session, OpenVault(r) PROVE AckedInv'
  <2>1. CASE disk' # None
    <3>1. /\ anchor' # NoAnchor /\ anchor'.cur = disk.cur
          /\ anchor # NoAnchor => Continues(anchor'.cur, anchor.cur)
          /\ UNCHANGED <<disk, fallback, acked>> /\ disk # None
      BY <1>1, <2>1, Opened
    <3>2. Continues(anchor'.cur, acked)
      BY <3>1, <1>c, <1>h
    <3> QED
      BY <3>1, <3>2, <1>c, <1>h DEF SyncsMayLose
  <2>2. CASE disk' = None
    <3>1. /\ anchor # NoAnchor => anchor' # NoAnchor /\ Continues(anchor'.cur, anchor.cur)
          /\ fallback' = {} /\ acked' = acked
      BY <1>1, <2>2, Refused
    <3> QED
      BY <2>2, <3>1, <1>c, <1>h, <1>t DEF SyncsMayLose
  <2> QED
    BY <2>1, <2>2
<1>2. ASSUME NEW r \in Session, BeginMutation(r) PROVE AckedInv'
  BY <1>2 DEF BeginMutation, NewBatch, SyncsMayLose
<1>3. ASSUME NEW p \in Path, NEW b \in Blob, PutFile(p, b) PROVE AckedInv'
  BY <1>3 DEF PutFile, CountOp, SyncsMayLose
<1>4. ASSUME NEW p \in Path, Remove(p) PROVE AckedInv'
  BY <1>4 DEF Remove, CountOp, SyncsMayLose
<1>5. ASSUME NEW p \in Path, NEW q \in Path, Rename(p, q) PROVE AckedInv'
  BY <1>5 DEF Rename, CountOp, SyncsMayLose
<1>6. CASE CollectGarbage
  <2>1. pc = "collect" /\ fallback' \subseteq fallback /\ UNCHANGED <<disk, anchor, acked>>
    BY <1>6 DEF CollectGarbage
  <2> QED
    BY <2>1 DEF SyncsMayLose
<1>7. CASE EditFails
  BY <1>7, Aborted DEF EditFails, SyncsMayLose
<1>8. CASE Seal
  BY <1>8 DEF Seal, SyncDir, SyncsMayLose
<1>9. CASE WriteManifest
  <2>1. CASE AbortBatch
    BY <1>9, <2>1, Aborted DEF WriteManifest, SyncsMayLose
  <2>2. CASE ~AbortBatch
    <3>1. /\ IsSuccessor(anchor, disk') /\ Genuine(disk') /\ disk # None
          /\ fallback' = fallback \cup {disk} /\ UNCHANGED <<acked, anchor>> /\ pc = "rename"
      BY <1>9, <2>2, Written
    <3>2. anchor \in StateAnchor /\ anchor # NoAnchor
      BY <3>1 DEF TypeOK, TxnInv
    <3>3. disk' \in StateMetadata /\ WellFormed(disk') /\ disk'.cur \in Hash
      BY <3>1, GenuineFacts
    <3>4. Continues(disk'.cur, anchor.cur)
      BY <3>1, <3>2, <3>3, SuccessorContinues DEF Acceptable
    <3>5. Continues(disk'.cur, acked)
      BY <3>2, <3>3, <3>4, <1>c, <1>h
    <3> QED
      BY <3>1, <3>2, <3>4, <3>5 DEF SyncsMayLose
  <2> QED
    BY <2>1, <2>2
<1>10. CASE SyncManifest
  <2>1. pc = "sync_dir" /\ fallback' \subseteq fallback /\ UNCHANGED <<disk, anchor, acked>>
    BY <1>10 DEF SyncManifest
  <2> QED
    BY <2>1 DEF SyncsMayLose
<1>11. CASE Reclaim
  BY <1>11 DEF Reclaim, SyncsMayLose
<1>12. CASE CommitAnchor
  <2>1. /\ pc = "anchor" /\ anchor # NoAnchor /\ anchor' # NoAnchor /\ writer # None
        /\ Continues(anchor'.cur, anchor.cur)
        /\ anchor'.cur = writer.cur \/ anchor' = anchor
        /\ acked' # acked => acked' = writer.cur /\ anchor'.cur = writer.cur
        /\ UNCHANGED <<disk, fallback>>
    BY <1>12, Committed
  <2>2. Continues(anchor'.cur, acked')
    BY <2>1, <1>c, <1>h, <1>t
  <2>3. writer.cur = anchor.cur \/ writer = disk
    BY <2>1 DEF TxnInv
  <2>4. (~SyncsMayLose /\ disk # None) => Continues(disk.cur, anchor'.cur)
    BY <2>1, <2>3, <1>c, <1>h
  <2>5. "sync" \notin faults => fallback = {}
    BY <2>1 DEF FallbackInv
  <2>6. (~SyncsMayLose /\ disk # None) => Continues(disk.cur, acked')
    <3>1. acked' \in Hash
      BY TypeStep DEF TypeOK
    <3> QED
      BY <2>1, <2>2, <2>4, <3>1, <1>c, <1>h, <1>t
  <2> QED
    BY <2>1, <2>2, <2>4, <2>5, <2>6 DEF SyncsMayLose
<1>13. CASE Kill
  BY <1>13 DEF Kill, Interrupt, EndTxn, SyncsMayLose
<1>14. CASE PowerLoss
  <2>1. /\ disk' \in {disk} \cup fallback /\ fallback' = {} /\ pc' = "idle"
        /\ readers' = [r \in Session |-> None] /\ UNCHANGED <<anchor, acked>>
        /\ "power" \in faults
    BY <1>14 DEF PowerLoss, Interrupt, EndTxn
  <2>2. disk # None \/ fallback = {}
    BY DEF TxnInv
  <2> QED
    BY <2>1, <2>2 DEF SyncsMayLose
<1>15. CASE UNCHANGED vars
  BY <1>15 DEF vars, SyncsMayLose
<1> QED
  BY <1>1, <1>2, <1>3, <1>4, <1>5, <1>6, <1>7, <1>8, <1>9, <1>10, <1>11, <1>12, <1>13,
     <1>14, <1>15 DEF Next, Step

-------------------------------------------------------------------------------
(* Blobs.                                                                     *)

\* Every step keeps staged blobs new to every manifest and superseded blobs out of
\* every tree that may be written.
LEMMA BlobStep ==
    ASSUME TypeOK, ChainInv, TxnInv, BlobInv, [Next]_vars
    PROVE  BlobInv'
<1>0. UNCHANGED faults
  BY DEF Next, vars
<1>g. /\ \A r \in Session : readers[r] # None => OneBlobPerPath(TreeOf(readers[r]))
      /\ writer # None => OneBlobPerPath(TreeOf(writer))
  BY GenuineFacts DEF ChainInv
<1> USE <1>0 DEF BlobInv, Candidates, diskVars, txnVars, batchVars
<1>1. ASSUME NEW r \in Session, OpenVault(r) PROVE BlobInv'
  <2>1. CASE disk' # None
    BY <1>1, <2>1, Opened DEF TypeOK
  <2>2. CASE disk' = None
    BY <1>1, <2>2, Refused DEF TypeOK
  <2> QED
    BY <2>1, <2>2
<1>2. ASSUME NEW r \in Session, BeginMutation(r) PROVE BlobInv'
  BY <1>2, <1>g DEF BeginMutation, NewBatch, Refs
<1>3. ASSUME NEW p \in Path, NEW b \in Blob, PutFile(p, b) PROVE BlobInv'
  <2> DEFINE old == {tree[p]} \ {NoBlob}
  <2>1. /\ pc = "edit" /\ b \notin used /\ used' = used \cup {b} /\ blobs' = blobs \cup {b}
        /\ unsynced' = unsynced \cup {b} /\ staged' = staged \cup {b}
        /\ superseded' = superseded \cup old
        /\ tree' = [tree EXCEPT ![p] = b] /\ changed' = TRUE
        /\ UNCHANGED <<disk, fallback, unlinked, pc, writer, pending, readers>>
    BY <1>3 DEF PutFile, CountOp
  <2>2. RefsOfTree(tree) \subseteq used /\ OneBlobPerPath(tree) /\ tree \in Tree
        /\ writer # None
    BY <2>1 DEF TypeOK, TxnInv
  <2>3. OneBlobPerPath(tree') /\ RefsOfTree(tree') = (RefsOfTree(tree) \ {tree[p]}) \cup {b}
    BY <2>1, <2>2, TreePut
  <2>4. old \subseteq RefsOfTree(tree) /\ old \subseteq {tree[p]}
    BY <2>2, TreeRefs
  <2> HIDE DEF old
  <2>5. (superseded' \cup pending') \cap RefsOfTree(tree') = {}
    <3>1. /\ superseded' = superseded \cup old /\ pending' = pending /\ b \notin used
          /\ superseded \cup pending \subseteq used
          /\ (superseded \cup pending) \cap RefsOfTree(tree) = {}
      BY <2>1
    <3> QED
      BY <2>2, <2>3, <2>4, <3>1
  <2>6. blobs' \cup unsynced' \cup unlinked' \cup staged' \cup superseded' \cup pending' \subseteq used'
    BY <2>1, <2>2, <2>4
  <2>7. RefsOfTree(tree') \subseteq Refs(writer) \cup staged'
    BY <2>1, <2>3
  <2>8. staged' \cap unlinked' = {} /\ \A m \in Candidates' : Refs(m) \cap staged' = {}
    BY <2>1
  <2> QED
    BY <2>1, <2>2, <2>3, <2>5, <2>6, <2>7, <2>8
<1>4. ASSUME NEW p \in Path, Remove(p) PROVE BlobInv'
  <2> DEFINE old == {tree[p]} \ {NoBlob}
  <2>1. /\ pc = "edit" /\ superseded' = superseded \cup old
        /\ tree' = [tree EXCEPT ![p] = NoBlob] /\ changed' = (changed \/ tree[p] # NoBlob)
        /\ UNCHANGED <<disk, fallback, blobs, unsynced, used, unlinked, staged, pc, writer,
                       pending, readers>>
    BY <1>4 DEF Remove, CountOp
  <2>2. RefsOfTree(tree) \subseteq used /\ OneBlobPerPath(tree) /\ tree \in Tree
        /\ writer # None
    BY <2>1 DEF TypeOK, TxnInv
  <2>3. OneBlobPerPath(tree') /\ RefsOfTree(tree') = RefsOfTree(tree) \ {tree[p]}
    BY <2>1, <2>2, TreeRemove
  <2>4. old \subseteq RefsOfTree(tree) /\ old \subseteq {tree[p]}
    BY <2>2, TreeRefs
  <2>5. tree[p] = NoBlob => tree' = tree /\ old = {}
    BY <2>1, <2>2 DEF Tree
  <2> HIDE DEF old
  <2>6. (superseded' \cup pending') \cap RefsOfTree(tree') = {}
    BY <2>1, <2>3, <2>4
  <2>7. ~changed' => tree' = TreeOf(writer) /\ staged' = {} /\ superseded' = {}
    BY <2>1, <2>5
  <2> QED
    BY <2>1, <2>2, <2>3, <2>4, <2>6, <2>7
<1>5. ASSUME NEW p \in Path, NEW q \in Path, Rename(p, q) PROVE BlobInv'
  <2>1. /\ pc = "edit" /\ tree[p] # NoBlob /\ tree[q] = NoBlob
        /\ tree' = [tree EXCEPT ![p] = NoBlob, ![q] = tree[p]] /\ changed' = TRUE
        /\ UNCHANGED <<disk, fallback, blobs, unsynced, used, unlinked, staged, superseded, pc,
                       writer, pending, readers>>
    BY <1>5 DEF Rename, CountOp
  <2>2. OneBlobPerPath(tree') /\ RefsOfTree(tree') = RefsOfTree(tree)
    BY <2>1, TreeMove DEF TypeOK
  <2> QED
    BY <2>1, <2>2
<1>6. CASE CollectGarbage
  <2>1. /\ blobs' \subseteq blobs /\ unlinked' \subseteq unlinked \cup blobs
        /\ unsynced' \subseteq unsynced \cup blobs
        /\ pc' = "idle" /\ writer' = None /\ staged' = {} /\ superseded' = {} /\ pending' = {}
        /\ readers' = [readers EXCEPT ![who] = writer]
        /\ fallback' \subseteq fallback /\ UNCHANGED <<disk, used>>
    BY <1>6 DEF CollectGarbage, EndTxn
  <2> QED
    BY <2>1 DEF TypeOK
<1>7. CASE EditFails
  BY <1>7, Aborted DEF EditFails
<1>8. CASE Seal
  BY <1>8 DEF Seal, TxnInv
<1>9. CASE WriteManifest
  <2>1. CASE AbortBatch
    BY <1>9, <2>1, Aborted DEF WriteManifest
  <2>2. CASE ~AbortBatch
    BY <1>9, <2>2, Written DEF TxnInv
  <2> QED
    BY <2>1, <2>2
<1>10. CASE SyncManifest
  <2>1. /\ pc = "sync_dir" /\ pending' = pending \cup superseded /\ fallback' \subseteq fallback
        /\ pc' \in {"reclaim", "anchor"}
        /\ UNCHANGED <<disk, blobs, unsynced, used, unlinked, writer, staged, superseded, readers>>
    BY <1>10 DEF SyncManifest
  <2> QED
    BY <2>1 DEF TxnInv
<1>11. CASE Reclaim
  BY <1>11 DEF Reclaim
<1>12. CASE CommitAnchor
  <2>1. /\ pc = "anchor" /\ writer # None /\ pc' \in {"idle", "edit"}
        /\ pc' = "idle" => writer' = None /\ pending' = {} /\ staged' = {} /\ superseded' = {}
        /\ pc' = "edit" =>
              /\ tree' = TreeOf(writer) /\ UNCHANGED <<writer, pending>>
              /\ staged' = {} /\ superseded' = {} /\ changed' = FALSE
        /\ UNCHANGED <<disk, fallback, blobs, unsynced, used, unlinked, readers>>
    BY <1>12, Committed
  <2>2. RefsOfTree(TreeOf(writer)) = Refs(writer)
    BY DEF Refs
  <2> QED
    BY <2>1, <2>2, <1>g
<1>13. CASE Kill
  BY <1>13 DEF Kill, Interrupt, EndTxn
<1>14. CASE PowerLoss
  <2>1. /\ disk' \in {disk} \cup fallback /\ fallback' = {} /\ pc' = "idle" /\ writer' = None
        /\ readers' = [r \in Session |-> None] /\ blobs' \subseteq blobs \cup unsynced
        /\ unsynced' = {} /\ staged' = {} /\ superseded' = {} /\ pending' = {}
        /\ UNCHANGED <<used, unlinked>>
    BY <1>14 DEF PowerLoss, Interrupt, EndTxn
  <2> QED
    BY <2>1 DEF TxnInv
<1>15. CASE UNCHANGED vars
  BY <1>15 DEF vars
<1> QED
  BY <1>1, <1>2, <1>3, <1>4, <1>5, <1>6, <1>7, <1>8, <1>9, <1>10, <1>11, <1>12, <1>13,
     <1>14, <1>15 DEF Next, Step

\* While the anchor backend works, every step keeps the anchor at most one transaction
\* behind the disk and deletes nothing a manifest references.
LEMMA AnchoredStep ==
    ASSUME TypeOK, ChainInv, TxnInv, FallbackInv, BlobInv, AnchoredInv, [Next]_vars
    PROVE  AnchoredInv'
<1>0. UNCHANGED faults
  BY DEF Next, vars
<1> USE <1>0 DEF AnchoredInv, NoDangling, Candidates, Live, diskVars, txnVars,
   batchVars
<1>1. ASSUME NEW r \in Session, OpenVault(r) PROVE AnchoredInv'
  <2>1. CASE disk' # None
    BY <1>1, <2>1, Opened DEF TypeOK
  <2>2. CASE disk' = None
    BY <1>1, <2>2, Refused DEF TypeOK
  <2> QED
    BY <2>1, <2>2
<1>2. ASSUME NEW r \in Session, BeginMutation(r) PROVE AnchoredInv'
  BY <1>2 DEF BeginMutation, NewBatch
<1>3. ASSUME NEW p \in Path, NEW b \in Blob, PutFile(p, b) PROVE AnchoredInv'
  BY <1>3 DEF PutFile, CountOp
<1>4. ASSUME NEW p \in Path, Remove(p) PROVE AnchoredInv'
  BY <1>4 DEF Remove, CountOp
<1>5. ASSUME NEW p \in Path, NEW q \in Path, Rename(p, q) PROVE AnchoredInv'
  BY <1>5 DEF Rename, CountOp
<1>6. CASE CollectGarbage
  <2>1. /\ pc = "collect" /\ pc' = "idle" /\ fallback' \subseteq fallback
        /\ \/ unlinked' = unlinked
           \/ fallback' = {} /\ unlinked' = unlinked \cup (blobs \ Refs(writer))
        /\ UNCHANGED <<disk, anchor>>
    BY <1>6 DEF CollectGarbage, EndTxn
  <2> QED
    BY <2>1 DEF TxnInv
<1>7. CASE EditFails
  BY <1>7, Aborted DEF EditFails, BlobInv
<1>8. CASE Seal
  BY <1>8 DEF Seal, TxnInv
<1>9. CASE WriteManifest
  <2>1. CASE AbortBatch
    BY <1>9, <2>1, Aborted DEF WriteManifest, BlobInv
  <2>2. CASE ~AbortBatch
    <3>1. /\ pc = "rename" /\ pc' = "sync_dir" /\ disk # None
          /\ Refs(disk') = RefsOfTree(tree) /\ fallback' = fallback \cup {disk}
          /\ UNCHANGED <<unlinked, anchor, readers>>
      BY <1>9, <2>2, Written
    <3>2. "anchor" \notin faults => Refs(writer) = Refs(disk)
      BY <3>1, SameFiles DEF TxnInv
    <3>3. RefsOfTree(tree) \subseteq Refs(writer) \cup staged /\ staged \cap unlinked = {}
      BY <3>1 DEF BlobInv
    <3> QED
      BY <3>1, <3>2, <3>3
  <2> QED
    BY <2>1, <2>2
<1>10. CASE SyncManifest
  <2>1. /\ pc = "sync_dir" /\ pc' \in {"reclaim", "anchor"} /\ fallback' \subseteq fallback
        /\ UNCHANGED <<disk, unlinked, anchor, writer, readers>>
    BY <1>10 DEF SyncManifest
  <2> QED
    BY <2>1 DEF TxnInv
<1>11. CASE Reclaim
  BY <1>11 DEF Reclaim, TxnInv, FallbackInv, BlobInv
<1>12. CASE CommitAnchor
  BY <1>12, Committed DEF CommitAnchor, AcceptOk, AcceptFails, NewBatch, EndTxn
<1>13. CASE Kill
  BY <1>13 DEF Kill, Interrupt, EndTxn
<1>14. CASE PowerLoss
  <2>1. /\ disk' \in {disk} \cup fallback /\ fallback' = {} /\ unlinked' = unlinked
        /\ readers' = [r \in Session |-> None] /\ pc' = "idle"
    BY <1>14 DEF PowerLoss, Interrupt, EndTxn
  <2> QED
    BY <2>1 DEF TxnInv
<1>15. CASE UNCHANGED vars
  BY <1>15 DEF vars
<1> QED
  BY <1>1, <1>2, <1>3, <1>4, <1>5, <1>6, <1>7, <1>8, <1>9, <1>10, <1>11, <1>12, <1>13,
     <1>14, <1>15 DEF Next, Step

\* Every step keeps what the manifests reference, on stable storage where directory
\* syncs work.
LEMMA ReadableStep ==
    ASSUME TypeOK, ChainInv, TxnInv, FallbackInv, BlobInv, AnchoredInv, ReadableInv,
       [Next]_vars
    PROVE  ReadableInv'
<1>0. UNCHANGED faults
  BY DEF Next, vars
<1> USE <1>0 DEF ReadableInv, Candidates, SyncsMayLose, diskVars, txnVars, batchVars
<1>1. ASSUME NEW r \in Session, OpenVault(r) PROVE ReadableInv'
  <2>1. CASE disk' # None
    BY <1>1, <2>1, Opened DEF TypeOK
  <2>2. CASE disk' = None
    BY <1>1, <2>2, Refused DEF TypeOK
  <2> QED
    BY <2>1, <2>2
<1>2. ASSUME NEW r \in Session, BeginMutation(r) PROVE ReadableInv'
  <2>1. /\ pc = "idle" /\ pc' = "edit" /\ disk # None /\ readers[r] # None
        /\ writer' = readers[r] /\ tree' = TreeOf(readers[r])
        /\ UNCHANGED <<disk, fallback, blobs, unsynced, anchor>>
    BY <1>2 DEF BeginMutation, NewBatch
  <2>2. anchor # NoAnchor /\ readers[r].cur = anchor.cur
    BY <1>2, <2>1 DEF BeginMutation, EnsureCurrent, TxnInv, Live
  <2>3. "anchor" \notin faults => readers[r].cur = disk.cur
    BY <2>1, <2>2 DEF AnchoredInv, Live
  <2>4. "anchor" \notin faults => RefsOfTree(tree') = Refs(disk)
    BY <2>1, <2>3, SameFiles DEF Refs
  <2> QED
    BY <2>1, <2>4
<1>3. ASSUME NEW p \in Path, NEW b \in Blob, PutFile(p, b) PROVE ReadableInv'
  <2>1. /\ pc = "edit" /\ b \notin used /\ blobs' = blobs \cup {b}
        /\ unsynced' = unsynced \cup {b} /\ tree' = [tree EXCEPT ![p] = b]
        /\ UNCHANGED <<disk, fallback, pc>>
    BY <1>3 DEF PutFile, CountOp
  <2>2. b \notin RefsOfTree(tree) /\ OneBlobPerPath(tree) /\ tree \in Tree
    BY <2>1 DEF TypeOK, TxnInv, BlobInv
  <2>3. RefsOfTree(tree') = (RefsOfTree(tree) \ {tree[p]}) \cup {b}
    <3>1. tree' = [tree EXCEPT ![p] = b]
      BY <2>1
    <3> QED
      BY <2>2, <3>1, TreePut
  <2>4. \A m \in Candidates : b \notin Refs(m)
    BY <2>1 DEF BlobInv
  <2> QED
    BY <2>1, <2>3, <2>4
<1>4. ASSUME NEW p \in Path, Remove(p) PROVE ReadableInv'
  <2>1. /\ pc = "edit" /\ tree' = [tree EXCEPT ![p] = NoBlob]
        /\ UNCHANGED <<disk, fallback, blobs, unsynced, pc>>
    BY <1>4 DEF Remove, CountOp
  <2>2. RefsOfTree(tree') = RefsOfTree(tree) \ {tree[p]}
    BY <2>1, TreeRemove DEF TypeOK, BlobInv
  <2> QED
    BY <2>1, <2>2
<1>5. ASSUME NEW p \in Path, NEW q \in Path, Rename(p, q) PROVE ReadableInv'
  <2>1. /\ pc = "edit" /\ tree[p] # NoBlob /\ tree[q] = NoBlob
        /\ tree' = [tree EXCEPT ![p] = NoBlob, ![q] = tree[p]]
        /\ UNCHANGED <<disk, fallback, blobs, unsynced, pc>>
    BY <1>5 DEF Rename, CountOp
  <2>2. RefsOfTree(tree') = RefsOfTree(tree)
    BY <2>1, TreeMove DEF TypeOK, BlobInv
  <2> QED
    BY <2>1, <2>2
<1>6. CASE CollectGarbage
  <2>1. /\ pc = "collect" /\ pc' = "idle" /\ disk' = disk /\ writer = disk
    BY <1>6 DEF CollectGarbage, EndTxn, TxnInv
  <2>2. PICK orphans : /\ orphans \cap Refs(disk) = {} /\ blobs' = blobs \ orphans
                       /\ unsynced' \subseteq unsynced \cup orphans
                       /\ "sync" \notin faults => fallback' = {}
    BY <1>6, <2>1 DEF CollectGarbage, SyncDir
  <2> QED
    BY <2>1, <2>2
<1>7. CASE EditFails
  BY <1>7, Aborted DEF EditFails, BlobInv
<1>8. CASE Seal
  <2>1. /\ pc = "edit" /\ pc' \in {"anchor", "rename"} /\ unsynced' \subseteq unsynced
        /\ (pc' = "rename" /\ "sync" \notin faults) => unsynced' = {}
        /\ UNCHANGED <<disk, fallback, blobs, tree>>
    BY <1>8 DEF Seal, SyncDir
  <2> QED
    BY <2>1
<1>9. CASE WriteManifest
  <2>1. CASE AbortBatch
    BY <1>9, <2>1, Aborted DEF WriteManifest, BlobInv
  <2>2. CASE ~AbortBatch
    BY <1>9, <2>2, Written
  <2> QED
    BY <2>1, <2>2
<1>10. CASE SyncManifest
  <2>1. /\ pc = "sync_dir" /\ pc' \in {"reclaim", "anchor"} /\ fallback' \subseteq fallback
        /\ UNCHANGED <<disk, blobs, unsynced>>
    BY <1>10 DEF SyncManifest
  <2> QED
    BY <2>1
<1>11. CASE Reclaim
  BY <1>11 DEF Reclaim, TxnInv, FallbackInv, BlobInv
<1>12. CASE CommitAnchor
  <2>1. /\ pc = "anchor" /\ pc' \in {"idle", "edit"}
        /\ pc' = "edit" => tree' = TreeOf(writer)
        /\ UNCHANGED <<disk, fallback, blobs, unsynced>>
    BY <1>12, Committed
  <2>2. "anchor" \notin faults => RefsOfTree(TreeOf(writer)) = Refs(disk)
    BY <2>1, SameFiles DEF AnchoredInv, Refs
  <2>3. disk # None
    BY <2>1 DEF TxnInv
  <2> QED
    BY <2>1, <2>2, <2>3
<1>13. CASE Kill
  BY <1>13 DEF Kill, Interrupt, EndTxn
<1>14. CASE PowerLoss
  <2>1. /\ disk' \in {disk} \cup fallback /\ fallback' = {} /\ "power" \in faults
        /\ blobs \ unsynced \subseteq blobs' /\ unsynced' = {} /\ pc' = "idle"
    BY <1>14 DEF PowerLoss, Interrupt, EndTxn
  <2> QED
    BY <2>1 DEF TxnInv
<1>15. CASE UNCHANGED vars
  BY <1>15 DEF vars
<1> QED
  BY <1>1, <1>2, <1>3, <1>4, <1>5, <1>6, <1>7, <1>8, <1>9, <1>10, <1>11, <1>12, <1>13,
     <1>14, <1>15 DEF Next, Step

\* Where only power losses happen, every step keeps every manifest that may come back
\* acceptable to the anchor.
LEMMA AcceptableStep ==
    ASSUME TypeOK, ChainInv, TxnInv, FallbackInv, BlobInv, AnchoredInv, AcceptableInv,
       [Next]_vars
    PROVE  AcceptableInv'
<1>0. UNCHANGED faults
  BY DEF Next, vars
<1>f. faults \subseteq {"power"} => "sync" \notin faults /\ "kill" \notin faults /\ "anchor" \notin faults
  OBVIOUS
<1> USE <1>0 DEF AcceptableInv, Candidates, diskVars, txnVars, batchVars
<1>1. ASSUME NEW r \in Session, OpenVault(r) PROVE AcceptableInv'
  <2>1. CASE disk' # None
    <3>1. /\ pc = "idle" /\ disk' = disk /\ fallback' = fallback /\ IsCurrent(anchor', disk)
      BY <1>1, <2>1, Opened
    <3>2. faults \subseteq {"power"} => fallback = {}
      BY <1>f, <3>1 DEF FallbackInv
    <3> QED
      BY <2>1, <3>1, <3>2 DEF Acceptable
  <2>2. CASE disk' = None
    BY <2>2
  <2> QED
    BY <2>1, <2>2
<1>2. ASSUME NEW r \in Session, BeginMutation(r) PROVE AcceptableInv'
  BY <1>2 DEF BeginMutation, NewBatch
<1>3. ASSUME NEW p \in Path, NEW b \in Blob, PutFile(p, b) PROVE AcceptableInv'
  BY <1>3 DEF PutFile, CountOp
<1>4. ASSUME NEW p \in Path, Remove(p) PROVE AcceptableInv'
  BY <1>4 DEF Remove, CountOp
<1>5. ASSUME NEW p \in Path, NEW q \in Path, Rename(p, q) PROVE AcceptableInv'
  BY <1>5 DEF Rename, CountOp
<1>6. CASE CollectGarbage
  <2>1. fallback' \subseteq fallback /\ UNCHANGED <<disk, anchor>>
    BY <1>6 DEF CollectGarbage
  <2> QED
    BY <2>1
<1>7. CASE EditFails
  BY <1>7, Aborted DEF EditFails
<1>8. CASE Seal
  BY <1>8 DEF Seal, SyncDir
<1>9. CASE WriteManifest
  <2>1. CASE AbortBatch
    BY <2>1, Aborted
  <2>2. CASE ~AbortBatch
    <3>1. /\ pc = "rename" /\ IsSuccessor(anchor, disk') /\ disk # None
          /\ fallback' = fallback \cup {disk} /\ anchor' = anchor
      BY <1>9, <2>2, Written
    <3>2. faults \subseteq {"power"} => fallback = {} /\ disk.cur = anchor.cur
      BY <1>f, <3>1 DEF FallbackInv, AnchoredInv, Live
    <3>3. faults \subseteq {"power"} => IsCurrent(anchor, disk)
      BY <3>1, <3>2, AnchoredIsCurrent DEF ChainInv, TxnInv, Live
    <3> QED
      BY <3>1, <3>2, <3>3 DEF Acceptable
  <2> QED
    BY <2>1, <2>2
<1>10. CASE SyncManifest
  <2>1. fallback' \subseteq fallback /\ UNCHANGED <<disk, anchor>>
    BY <1>10 DEF SyncManifest
  <2> QED
    BY <2>1
<1>11. CASE Reclaim
  BY <1>11 DEF Reclaim
<1>12. CASE CommitAnchor
  <2>1. /\ pc = "anchor" /\ UNCHANGED <<disk, fallback>> /\ GenuineAnchor'
        /\ "anchor" \notin faults => anchor'.cur = writer.cur
    BY <1>12, Committed
  <2>2. faults \subseteq {"power"} => fallback = {} /\ anchor'.cur = disk.cur
    BY <1>f, <2>1 DEF FallbackInv, AnchoredInv
  <2>3. disk # None /\ Genuine(disk)
    BY <2>1 DEF TxnInv, ChainInv
  <2>4. faults \subseteq {"power"} => IsCurrent(anchor', disk)
    BY <2>1, <2>2, <2>3 DEF Genuine, GenuineAnchor, IsCurrent, SameObject
  <2> QED
    BY <2>1, <2>2, <2>4 DEF Acceptable
<1>13. CASE Kill
  BY <1>13 DEF Kill, Interrupt, EndTxn
<1>14. CASE PowerLoss
  <2>1. disk' \in {disk} \cup fallback /\ fallback' = {} /\ anchor' = anchor
    BY <1>14 DEF PowerLoss, Interrupt
  <2> QED
    BY <2>1 DEF TxnInv
<1>15. CASE UNCHANGED vars
  BY <1>15 DEF vars
<1> QED
  BY <1>1, <1>2, <1>3, <1>4, <1>5, <1>6, <1>7, <1>8, <1>9, <1>10, <1>11, <1>12, <1>13,
     <1>14, <1>15 DEF Next, Step

\* Where only power losses happen, every step keeps every blob referenced or queued
\* for deletion.
LEMMA LeakStep ==
    ASSUME TypeOK, ChainInv, TxnInv, FallbackInv, BlobInv, AnchoredInv, LeakInv,
       [Next]_vars
    PROVE  LeakInv'
<1>0. UNCHANGED faults
  BY DEF Next, vars
<1>f. faults \subseteq {"power"} => "sync" \notin faults /\ "kill" \notin faults /\ "anchor" \notin faults
  OBVIOUS
<1> USE <1>0 DEF LeakInv, diskVars, txnVars, batchVars
<1>1. ASSUME NEW r \in Session, OpenVault(r) PROVE LeakInv'
  <2>1. CASE disk' # None
    BY <1>1, <2>1, Opened
  <2>2. CASE disk' = None
    BY <1>1, <2>2, Refused
  <2> QED
    BY <2>1, <2>2
<1>2. ASSUME NEW r \in Session, BeginMutation(r) PROVE LeakInv'
  <2>1. /\ pc = "idle" /\ pc' = "edit" /\ disk # None /\ readers[r] # None
        /\ tree' = TreeOf(readers[r]) /\ UNCHANGED <<disk, blobs, anchor, crashed>>
    BY <1>2 DEF BeginMutation, NewBatch
  <2>2. anchor # NoAnchor /\ readers[r].cur = anchor.cur
    BY <1>2, <2>1 DEF BeginMutation, EnsureCurrent, TxnInv, Live
  <2>3. "anchor" \notin faults => RefsOfTree(tree') = Refs(disk)
    BY <2>1, <2>2, SameFiles DEF AnchoredInv, Live, Refs
  <2> QED
    BY <2>1, <2>3, <1>f
<1>3. ASSUME NEW p \in Path, NEW b \in Blob, PutFile(p, b) PROVE LeakInv'
  <2>1. /\ pc = "edit" /\ b \notin used /\ blobs' = blobs \cup {b}
        /\ staged' = staged \cup {b} /\ superseded' = superseded \cup ({tree[p]} \ {NoBlob})
        /\ tree' = [tree EXCEPT ![p] = b]
        /\ UNCHANGED <<disk, pc, crashed>>
    BY <1>3 DEF PutFile, CountOp
  <2>2. b \notin RefsOfTree(tree) /\ OneBlobPerPath(tree) /\ tree \in Tree
    BY <2>1 DEF TypeOK, TxnInv, BlobInv
  <2>3. RefsOfTree(tree') = (RefsOfTree(tree) \ {tree[p]}) \cup {b}
    <3>1. tree' = [tree EXCEPT ![p] = b]
      BY <2>1
    <3> QED
      BY <2>2, <3>1, TreePut
  <2>4. NoBlob \notin RefsOfTree(tree)
    BY DEF RefsOfTree
  <2>5. RefsOfTree(tree) \cup superseded \subseteq RefsOfTree(tree') \cup superseded'
    BY <2>1, <2>3, <2>4
  <2> QED
    BY <2>1, <2>3, <2>5
<1>4. ASSUME NEW p \in Path, Remove(p) PROVE LeakInv'
  <2>1. /\ pc = "edit" /\ superseded' = superseded \cup ({tree[p]} \ {NoBlob})
        /\ tree' = [tree EXCEPT ![p] = NoBlob]
        /\ UNCHANGED <<disk, blobs, staged, pc, crashed>>
    BY <1>4 DEF Remove, CountOp
  <2>2. RefsOfTree(tree') = RefsOfTree(tree) \ {tree[p]}
    BY <2>1, TreeRemove DEF TypeOK, BlobInv
  <2>3. NoBlob \notin RefsOfTree(tree)
    BY DEF RefsOfTree
  <2>4. RefsOfTree(tree) \cup superseded \subseteq RefsOfTree(tree') \cup superseded'
    BY <2>1, <2>2, <2>3
  <2> QED
    BY <2>1, <2>4
<1>5. ASSUME NEW p \in Path, NEW q \in Path, Rename(p, q) PROVE LeakInv'
  <2>1. /\ pc = "edit" /\ tree[p] # NoBlob /\ tree[q] = NoBlob
        /\ tree' = [tree EXCEPT ![p] = NoBlob, ![q] = tree[p]]
        /\ UNCHANGED <<disk, blobs, staged, superseded, pc, crashed>>
    BY <1>5 DEF Rename, CountOp
  <2>2. RefsOfTree(tree') = RefsOfTree(tree)
    BY <2>1, TreeMove DEF TypeOK, BlobInv
  <2> QED
    BY <2>1, <2>2
<1>6. CASE CollectGarbage
  <2>1. /\ pc = "collect" /\ pc' = "idle" /\ disk' = disk /\ writer = disk
    BY <1>6 DEF CollectGarbage, EndTxn, TxnInv
  <2>2. "sync" \notin faults => blobs' \subseteq Refs(disk)
    BY <1>6, <2>1 DEF CollectGarbage, SyncDir
  <2> QED
    BY <2>1, <2>2, <1>f
<1>7. CASE EditFails
  BY <1>7, Aborted DEF EditFails, BlobInv
<1>8. CASE Seal
  BY <1>8 DEF Seal, BlobInv
<1>9. CASE WriteManifest
  <2>1. CASE AbortBatch
    BY <1>9, <2>1, Aborted DEF WriteManifest, BlobInv
  <2>2. CASE ~AbortBatch
    BY <1>9, <2>2, Written
  <2> QED
    BY <2>1, <2>2
<1>10. CASE SyncManifest
  BY <1>10, <1>f DEF SyncManifest, SyncDir
<1>11. CASE Reclaim
  BY <1>11 DEF Reclaim
<1>12. CASE CommitAnchor
  <2>1. /\ pc = "anchor" /\ pc' \in {"idle", "edit"}
        /\ pc' = "edit" => tree' = TreeOf(writer)
        /\ UNCHANGED <<disk, blobs, crashed>>
    BY <1>12, Committed
  <2>2. "anchor" \notin faults => RefsOfTree(TreeOf(writer)) = Refs(disk)
    BY <2>1, SameFiles DEF AnchoredInv, Refs
  <2> QED
    BY <2>1, <2>2, <1>f
<1>13. CASE Kill
  BY <1>13, <1>f DEF Kill
<1>14. CASE PowerLoss
  BY <1>14 DEF PowerLoss, Interrupt
<1>15. CASE UNCHANGED vars
  BY <1>15 DEF vars
<1> QED
  BY <1>1, <1>2, <1>3, <1>4, <1>5, <1>6, <1>7, <1>8, <1>9, <1>10, <1>11, <1>12, <1>13,
     <1>14, <1>15 DEF Next, Step

-------------------------------------------------------------------------------
(* The theorems.                                                              *)

\* The invariant is inductive.
THEOREM Invariance == Spec => []IInv
<1>1. ASSUME IInv, [Next]_vars PROVE IInv'
  BY <1>1, TypeStep, ChainStep, TxnStep, FallbackStep, AckedStep, BlobStep, AnchoredStep,
     ReadableStep, AcceptableStep, LeakStep DEF IInv
<1> QED
  BY <1>1, InitInv, PTL DEF Spec

\* Type correctness: every variable keeps its type, whatever fails.
THEOREM TypeCorrect == Spec => []TypeOK
<1>1. IInv => TypeOK
  BY DEF IInv
<1> QED
  BY <1>1, Invariance, PTL

\* A mutation that returned Ok is in every manifest the vault directory holds from
\* then on, for any number of sessions, unless a directory sync failed before a
\* power loss (ensure_current_vault and commit_state in one transaction).
THEOREM AcknowledgedIsKept == Spec => []AckedKept
<1>1. IInv => AckedKept
  BY DEF IInv, AckedInv, AckedKept
<1> QED
  BY <1>1, Invariance, PTL

\* While the anchor backend works, no manifest that is on disk or may come back
\* references a blob that reclaim, collect_garbage or commit_with has deleted.
THEOREM ListedBlobsAreNotDeleted == Spec => []NoDanglingUnlessAnchorFails
<1>1. IInv => NoDanglingUnlessAnchorFails
  BY DEF IInv, AnchoredInv, NoDanglingUnlessAnchorFails
<1> QED
  BY <1>1, Invariance, PTL

\* A reader that ensure_current_vault lets through finds all its blobs.
THEOREM CurrentReadersRead == Spec => []CurrentReaderReadable
<1>1. IInv => CurrentReaderReadable
  <2>1. SUFFICES ASSUME IInv, "anchor" \notin faults, ~SyncsMayLose, pc = "idle", disk # None,
                        NEW r \in Session, readers[r] # None, readers[r].cur = anchor.cur
                 PROVE  Refs(readers[r]) \subseteq blobs
    BY DEF CurrentReaderReadable
  <2>2. disk.cur = anchor.cur
    BY <2>1 DEF IInv, AnchoredInv, Live
  <2>3. Refs(readers[r]) = Refs(disk)
    BY <2>1, <2>2, SameFiles
  <2> QED
    BY <2>1, <2>3 DEF IInv, ReadableInv
<1> QED
  BY <1>1, Invariance, PTL

\* Where syncs and the backend work, a power loss at any step leaves a vault that
\* the anchor accepts and whose files are all on stable storage.
THEOREM OpensAfterPowerLoss == Spec => []SurvivesPowerLoss
<1>1. IInv => SurvivesPowerLoss
  BY DEF IInv, AcceptableInv, ReadableInv, SyncsMayLose, SurvivesPowerLoss
<1> QED
  BY <1>1, Invariance, PTL

\* And between transactions the blob directory holds exactly what the manifest
\* lists, unless an interruption is still to be cleaned up.
THEOREM NothingLeaks == Spec => []NoOrphans
<1>1. IInv => NoOrphans
  BY DEF IInv, LeakInv, ReadableInv, SyncsMayLose, NoOrphans
<1> QED
  BY <1>1, Invariance, PTL
=================================================================================
