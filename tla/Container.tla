------------------------------- MODULE Container -------------------------------
(***************************************************************************)
(* The signed container a vault travels in (filesec-core/src/format.rs,    *)
(* aead.rs, envelope.rs, manifest.rs; format_v2.rs: export_plan and        *)
(* from_reader_v1): preamble, header, sealed manifest, chunked data stream *)
(* and signature trailer.  Containers are written from the local vault and *)
(* from one another, damaged on their way, read back lazily or as a whole, *)
(* and unpacked into the local vault.                                      *)
(*                                                                         *)
(* Cryptography is symbolic: a sealed section is the record of the key,    *)
(* place and associated data it was sealed under, a signature the record   *)
(* of who signed what, a hash is the content.  A content key and its       *)
(* nonces are fresh for every container and named by its number.  Lengths  *)
(* count a tag, the preamble, the header and a signature as one unit.      *)
(***************************************************************************)
EXTENDS Naturals, Sequences, SequencesExt, FiniteSets, FiniteSetsExt

CONSTANTS
    Ids,           \* identities, named by their fingerprints
    KemKey(_),     \* an identity's X25519 key: an upgrade keeps it
    PqIds,         \* the identities that also hold post-quantum keys
    Vaults,        \* local vaults to begin with
    Audiences,     \* recipient lists offered to a writer
    Options,       \* ExportOptions: suite and chunk size
    Additions,     \* folders and files to append; of a file the path, the content
                   \* hashed and the content streamed
    Deceptive,     \* names only an older version accepted
    MaxChunk,      \* aead::MAX_CHUNK_SIZE
    MaxRecipients, \* recipients that fit MAX_CONTAINER_HEADER_LEN
    MaxEntries,    \* MAX_MANIFEST_ENTRIES
    MaxWrites,     \* bound: containers written
    MaxDamage      \* bound: damaged places

IsSeq(s) == s \in Seq(ToSet(s))

\* Entries of a vault: each path once, a folder without content.
IsTree(vs) ==
    /\ IsSeq(vs)
    /\ \A i \in DOMAIN vs :
          /\ vs[i] = [path |-> vs[i].path, kind |-> vs[i].kind, content |-> vs[i].content]
          /\ vs[i].kind = "file" \/ (vs[i].kind = "dir" /\ vs[i].content = <<>>)
          /\ IsSeq(vs[i].path) /\ IsSeq(vs[i].content)
          /\ \A j \in DOMAIN vs : vs[i].path = vs[j].path => i = j

ASSUME ContainerAssumption ==
    /\ PqIds \subseteq Ids /\ Audiences \subseteq SUBSET Ids
    /\ Options \subseteq [suite : {"classic", "aes", "hybrid"}, chunk : Nat]
    /\ \A vs \in Vaults : IsTree(vs)
    /\ \A add \in Additions :
          /\ IsSeq(add.files) /\ IsSeq(add.dirs)
          /\ \A p \in ToSet(add.dirs) : IsSeq(p)
          /\ \A f \in ToSet(add.files) : IsSeq(f.path) /\ f.path # <<>> /\ IsSeq(f.hashed) /\ IsSeq(f.streamed)
    /\ MaxChunk \in Nat \ {0} /\ {MaxRecipients, MaxEntries, MaxWrites, MaxDamage} \subseteq Nat

VARIABLES
    local,   \* the local vault's entries in manifest order
    disk,    \* the container at the path in use, or NoFile
    made,    \* per container written: what its writer was given, and the file
    damage   \* places of disk that are not as written

containerVars == <<local, disk, made, damage>>

NoFile == [pre |-> "none"]
Tag == 1

-------------------------------------------------------------------------------
(* Manifests (manifest.rs, vault.rs).                                        *)

IsTrashed(p) == p[1] = ".trash"
Ancestors(p) == {SubSeq(p, 1, n) : n \in 1 .. Len(p) - 1}
Beneath(roots, p) == \E r \in roots : IsPrefix(r, p)

\* normalize_path's strict rule.
WellNamed(p) == \A i \in DOMAIN p : p[i] \notin Deceptive

EntryOf(v) == [path |-> v.path, kind |-> v.kind, size |-> Len(v.content), hash |-> v.content, offset |-> 0]
DirEntry(p) == [path |-> p, kind |-> "dir", size |-> 0, hash |-> <<>>, offset |-> 0]
SumOf(lens) ==
    LET sum[n \in 0 .. Len(lens)] == IF n = 0 THEN 0 ELSE sum[n - 1] + lens[n]
    IN sum[Len(lens)]
TotalSize(es) == SumOf([i \in DOMAIN es |-> es[i].size])
IsFile(e) == e.kind = "file"
PathsOf(es) == {es[i].path : i \in DOMAIN es}

\* Mutant: the offsets of the source are kept.
OffsetsKept(es) == es

\* Files laid end to end in entry order, as every writer but append recomputes them.
LaidOut(es) ==
    [i \in DOMAIN es |->
        [path |-> es[i].path, kind |-> es[i].kind, size |-> es[i].size, hash |-> es[i].hash,
         offset |-> IF IsFile(es[i]) THEN TotalSize(SubSeq(es, 1, i - 1)) ELSE es[i].offset]]

\* Those of a sequence that are not dropped, in their order.
Kept(es, gone) == FlattenSeq([i \in DOMAIN es |-> IF es[i] \in gone THEN <<>> ELSE <<es[i]>>])

ContentsOf(vs) == FlattenSeq([i \in DOMAIN vs |-> vs[i].content])

DivCeil(n, d) == (n + d - 1) \div d
ChunkCount(n, chunk) == IF n = 0 THEN 1 ELSE DivCeil(n, chunk)
DataCiphertextLen(n, chunk) == n + ChunkCount(n, chunk) * Tag

TreeShapeOk(es) ==
    \A i, j \in DOMAIN es : IsFile(es[i]) => es[i].path \notin Ancestors(es[j].path)

ValidManifestLayout(es, chunk, dataLen) ==
    /\ Len(es) <= MaxEntries
    /\ \A i \in DOMAIN es :
          /\ WellNamed(es[i].path)
          /\ \A j \in DOMAIN es : es[i].path = es[j].path => i = j
          /\ IsFile(es[i]) => es[i].offset = TotalSize(SubSeq(es, 1, i - 1))
    /\ TreeShapeOk(es)
    /\ DataCiphertextLen(TotalSize(es), chunk) = dataLen

-------------------------------------------------------------------------------
(* Sealing and signing (aead.rs, envelope.rs, sign.rs).                      *)

SealedManifest(key, aad, es) == [key |-> key, aad |-> aad, body |-> es]
ManifestOpens(m, key, aad) == m.key = key /\ m.aad = aad
ManifestLen(m) == Len(m.body) + Tag

\* encrypt_stream_with: chunk i under counter i - 1, the last one flagged.
Stream(key, aad, plain, chunk) ==
    LET last == ChunkCount(Len(plain), chunk)
    IN [i \in 1 .. last |->
          [key |-> key, n |-> i - 1, last |-> i = last, aad |-> aad,
           body |-> SubSeq(plain, (i - 1) * chunk + 1, IF i = last THEN Len(plain) ELSE i * chunk)]]

\* decrypt_chunk_with.
ChunkOpens(c, key, aad, n, last) == c.key = key /\ c.aad = aad /\ c.n = n /\ c.last = last
ChunkLen(c) == Len(c.body) + Tag
DataLen(data) == SumOf([i \in DOMAIN data |-> ChunkLen(data[i])])

\* StreamDecryptReader: every chunk in its place, the last one last.
StreamOpens(data, key, aad) == \A i \in DOMAIN data : ChunkOpens(data[i], key, aad, i - 1, i = Len(data))
PlaintextOf(data) == FlattenSeq([i \in DOMAIN data |-> data[i].body])

IsHybrid(suite) == suite = "hybrid"
NonceLen(suite) == IF suite = "aes" THEN 12 ELSE 24

WrapForRecipient(key, r, suite) ==
    [fpr |-> r, kem |-> KemKey(r), mlkem |-> IF IsHybrid(suite) THEN {r} ELSE {}, cek |-> key]
Unwraps(s, me) == s.kem = KemKey(me) /\ (s.mlkem # {} => me \in PqIds /\ me \in s.mlkem)

Body(c) == <<c.pre, c.hdr, c.man, c.data>>
SignatureOf(by, body) == [by |-> by, over |-> body]
TrailerLen(suite) == IF IsHybrid(suite) THEN 2 ELSE 1

-------------------------------------------------------------------------------
(* Writing (ContainerPlan).                                                  *)

PlanRefused(sender, to, opt) ==
    \/ to = {}
    \/ opt.chunk = 0
    \/ IsHybrid(opt.suite) /\ ~({sender} \cup to \subseteq PqIds)
    \/ Cardinality(to) > MaxRecipients
    \/ opt.chunk > MaxChunk

HeaderFor(key, es, total, sender, to, opt) ==
    [suite |-> opt.suite, nonce |-> NonceLen(opt.suite), sender |-> sender, fpr |-> sender,
     recipients |-> {WrapForRecipient(key, r, opt.suite) : r \in to},
     manifestLen |-> Len(es) + Tag, chunk |-> opt.chunk, dataLen |-> DataCiphertextLen(total, opt.chunk)]

ContainerLen(hdr) == 2 + hdr.manifestLen + hdr.dataLen + TrailerLen(hdr.suite)

SignedBy(sender, c) ==
    [pre |-> c.pre, hdr |-> c.hdr, man |-> c.man, data |-> c.data,
     ed |-> SignatureOf(sender, Body(c)),
     pq |-> IF IsHybrid(c.hdr.suite) THEN {SignatureOf(sender, Body(c))} ELSE {}]

\* write_container: the container for these entries and this data, signed.
Written(key, es, plain, sender, to, opt) ==
    LET hdr == HeaderFor(key, es, TotalSize(es), sender, to, opt)
    IN SignedBy(sender, [pre |-> "v1", hdr |-> hdr, man |-> SealedManifest(key, hdr, es),
                         data |-> Stream(key, hdr, plain, opt.chunk)])

\* The new file replaces the one at the path, or nothing changes (SafeFileWriter).
\* want: the tree the writer was asked for.
\* torn: a source changed between the hash and the stream.
WriteContainer(es, plain, want, torn, sender, to, opt) ==
    /\ ~PlanRefused(sender, to, opt)
    /\ DataCiphertextLen(Len(plain), opt.chunk) = DataCiphertextLen(TotalSize(es), opt.chunk)
    /\ LET c == Written(Len(made) + 1, es, plain, sender, to, opt)
       IN /\ disk' = c /\ damage' = 0
          /\ made' = Append(made, [to |-> to, want |-> want, torn |-> torn, len |-> ContainerLen(c.hdr), file |-> c])
    /\ UNCHANGED local

-------------------------------------------------------------------------------
(* Reading (open_reader_inner, import_vault, VaultReader).                   *)

ActualLen(c) ==
    2 + ManifestLen(c.man) + DataLen(c.data) + 1 + Cardinality(c.pq)

HeaderValid(c) ==
    /\ c.pre = "v1"
    /\ c.hdr.nonce = NonceLen(c.hdr.suite)
    /\ c.hdr.chunk \in 1 .. MaxChunk
    /\ c.hdr.manifestLen >= Tag /\ c.hdr.dataLen >= Tag
    /\ ActualLen(c) = ContainerLen(c.hdr)

StanzaFor(c, me) == {s \in c.hdr.recipients : s.fpr = me /\ Unwraps(s, me)}

\* open_reader_inner: header, manifest and layout, but no signature and no data.
OpensLazily(c, me) ==
    /\ c # NoFile
    /\ HeaderValid(c)
    /\ c.hdr.fpr = c.hdr.sender
    /\ \E s \in StanzaFor(c, me) : ManifestOpens(c.man, s.cek, c.hdr)
    /\ ValidManifestLayout(c.man.body, c.hdr.chunk, c.hdr.dataLen)

CekOf(c, me) == (CHOOSE s \in StanzaFor(c, me) : TRUE).cek

\* Mutant: the post-quantum half of the trailer is not looked at.
ClassicalSignatureOnly(c) == c.ed = SignatureOf(c.hdr.sender, Body(c))

\* sign::verify and the post-quantum half.
SignatureOk(c) ==
    LET good == SignatureOf(c.hdr.sender, Body(c))
    IN c.ed = good /\ (IsHybrid(c.hdr.suite) => c.hdr.sender \in PqIds /\ c.pq = {good})

VerifyAndOpen(c, me) == OpensLazily(c, me) /\ SignatureOk(c)

\* decrypt_entry_to_writer: the chunks that cover the file, each read at its
\* computed place, then the hash of the whole file.
CoveringChunks(e, chunk) == e.offset \div chunk .. (e.offset + e.size - 1) \div chunk
StartOf(data, i) == DataLen(SubSeq(data, 1, i - 1))
ReadsChunk(c, me, n) ==
    /\ n < Len(c.data)
    /\ StartOf(c.data, n + 1) = n * (c.hdr.chunk + Tag)
    /\ ChunkOpens(c.data[n + 1], CekOf(c, me), c.hdr, n, n + 1 = Len(c.data))
FileBytes(plain, e) == SubSeq(plain, e.offset + 1, e.offset + e.size)

\* Mutant: the hash is not compared.
HashUnchecked(plain, e) == TRUE

HashMatches(plain, e) == FileBytes(plain, e) = e.hash

ReadsEntry(c, me, e) ==
    /\ e.size > 0 => \A n \in CoveringChunks(e, c.hdr.chunk) : ReadsChunk(c, me, n)
    /\ HashMatches(PlaintextOf(c.data), e)

FilesOf(es) == {e \in ToSet(es) : IsFile(e)}

\* reconstruct_vault_streaming and from_reader_v1: one pass over the stream.
\* The layout leaves no byte behind the last file.
ReadsAll(c, me) ==
    /\ StreamOpens(c.data, CekOf(c, me), c.hdr)
    /\ \A e \in FilesOf(c.man.body) : HashMatches(PlaintextOf(c.data), e)

\* import_vault, and verify_and_open followed by from_reader_v1.
Imports(c, me) == VerifyAndOpen(c, me) /\ ReadsAll(c, me)

\* The tree a reader sees.
TreeOf(c) ==
    LET plain == PlaintextOf(c.data)
    IN {[path |-> e.path, kind |-> e.kind, content |-> FileBytes(plain, e)] : e \in ToSet(c.man.body)}

-------------------------------------------------------------------------------
(* Operations.                                                               *)

ContainerInit ==
    /\ local \in Vaults
    /\ disk = NoFile /\ made = <<>> /\ damage = 0

Exported(vs, sender, to, opt) ==
    WriteContainer(LaidOut([i \in DOMAIN vs |-> EntryOf(vs[i])]), ContentsOf(vs), ToSet(vs), FALSE, sender, to, opt)

Live == Kept(local, {v \in ToSet(local) : IsTrashed(v.path)})

\* VaultReaderV2::export_plan and V2ExportPlan::write_to.
ExportPlan(sender, to, opt) == Exported(Live, sender, to, opt)

\* export_vault, of the vault in memory.
ExportVault(sender, to, opt) == Exported(local, sender, to, opt)

\* The data of the open container, decrypted on the fly: a chunk that does not
\* open fails the write.
SourceReads(me) == OpensLazily(disk, me) /\ StreamOpens(disk.data, CekOf(disk, me), disk.hdr)
Source == PlaintextOf(disk.data)
Origin(me) == made[CekOf(disk, me)]

\* VaultReader::reexport: the manifest as it is.
Reexport(me, to, opt) ==
    /\ WriteContainer(disk.man.body, Source, Origin(me).want, Origin(me).torn, me, to, opt)

\* push_ancestor_dirs and push_dir_entry: p and the folders above it, where missing.
PushDirs(es, p) ==
    es \o Kept([n \in 1 .. Len(p) |-> DirEntry(SubSeq(p, 1, n))], {DirEntry(q) : q \in PathsOf(es)})

PushFile(es, f) ==
    LET dirs == PushDirs(es, Front(f.path))
    IN Append(dirs, [path |-> f.path, kind |-> "file", size |-> Len(f.hashed), hash |-> f.hashed, offset |-> TotalSize(es)])

WithDirs(es, ds) ==
    LET dirs[n \in 0 .. Len(ds)] == IF n = 0 THEN es ELSE PushDirs(dirs[n - 1], ds[n])
    IN dirs[Len(ds)]
WithFiles(es, fs) ==
    LET files[n \in 0 .. Len(fs)] == IF n = 0 THEN es ELSE PushFile(files[n - 1], fs[n])
    IN files[Len(fs)]
Appended(es, fs, ds) == WithFiles(WithDirs(es, ds), fs)

Changed(fs) == \E i \in DOMAIN fs : fs[i].hashed # fs[i].streamed
TreeWith(es) == {[path |-> e.path, kind |-> e.kind, content |-> e.hash] : e \in ToSet(es)}

\* VaultReader::append_files: offsets go on after the existing data.  A source
\* that changed between hashing and streaming is only noticed by its length.
AppendFiles(me, to, opt, fs, ds) ==
    /\ \A i \in DOMAIN fs :
          fs[i].path \notin PathsOf(Appended(disk.man.body, SubSeq(fs, 1, i - 1), ds))
    /\ LET es == Appended(disk.man.body, fs, ds)
       IN WriteContainer(es, Source \o FlattenSeq([i \in DOMAIN fs |-> fs[i].streamed]),
                         TreeWith(es), Origin(me).torn \/ Changed(fs), me, to, opt)

\* SelectReader: the kept files' segments of the stream.
KeptData(es, gone) ==
    FlattenSeq([i \in DOMAIN es |->
        IF IsFile(es[i]) /\ es[i] \notin gone
        THEN SubSeq(Source, TotalSize(SubSeq(es, 1, i - 1)) + 1, TotalSize(SubSeq(es, 1, i)))
        ELSE <<>>])

\* VaultReader::remove_paths.
RemovePaths(me, to, opt, roots) ==
    /\ \A r \in roots : WellNamed(r)
    /\ LET es == disk.man.body
           gone == {e \in ToSet(es) : Beneath(roots, e.path)}
       IN WriteContainer(LaidOut(Kept(es, gone)), KeptData(es, gone),
                         {v \in Origin(me).want : ~Beneath(roots, v.path)}, Origin(me).torn, me, to, opt)

\* VaultReader::replace_file: dropped where it was, appended at the end.
ReplaceFile(me, to, opt, f) ==
    /\ \E e \in FilesOf(disk.man.body) : e.path = f.path
    /\ LET es == disk.man.body
           gone == {e \in ToSet(es) : e.path = f.path /\ IsFile(e)}
           new == [path |-> f.path, kind |-> "file", content |-> f.hashed]
       IN WriteContainer(LaidOut(Append(Kept(es, gone), EntryOf(new))), KeptData(es, gone) \o f.streamed,
                         {v \in Origin(me).want : v.path # f.path} \cup {new}, Origin(me).torn \/ Changed(<<f>>), me, to, opt)

\* Store import: verify_and_open, then from_reader_v1 into a new local vault.
ImportContainer(me) ==
    /\ disk # NoFile
    /\ Imports(disk, me)
    /\ local' = [i \in DOMAIN disk.man.body |->
                    [path |-> disk.man.body[i].path, kind |-> disk.man.body[i].kind,
                     content |-> FileBytes(PlaintextOf(disk.data), disk.man.body[i])]]
    /\ UNCHANGED <<disk, made, damage>>

-------------------------------------------------------------------------------
(* Damage on the way: sections and chunks lost, repeated, exchanged, mixed   *)
(* up with the file that was there before, or overwritten.                   *)

NoiseFor(c) == [c EXCEPT !.key = 0]
DamagedChunks(data, other) ==
    {RemoveAt(data, i) : i \in DOMAIN data}
    \cup {InsertAt(data, i, data[i]) : i \in DOMAIN data}
    \cup {[data EXCEPT ![i] = NoiseFor(data[i])] : i \in DOMAIN data}
    \cup {[data EXCEPT ![i] = data[i + 1], ![i + 1] = data[i]] : i \in 1 .. Len(data) - 1}
    \cup {[data EXCEPT ![i] = other[i]] : i \in DOMAIN data \cap DOMAIN other}

DamagedHeaders(h) ==
    {[h EXCEPT !.sender = id] : id \in Ids} \cup {[h EXCEPT !.fpr = id] : id \in Ids}
    \cup {[h EXCEPT !.suite = s] : s \in {"classic", "aes", "hybrid"}}
    \cup {[h EXCEPT !.recipients = @ \ {s}] : s \in h.recipients}
    \cup {[h EXCEPT !.chunk = n] : n \in {0, MaxChunk + 1}}
    \cup {[h EXCEPT !.dataLen = @ - 1]}

\* other: a container written earlier, or the same one.
Damaged(c, other) ==
    {[c EXCEPT !.pre = "v2"], [c EXCEPT !.man = NoiseFor(@)], [c EXCEPT !.ed = SignatureOf(c.hdr.sender, <<>>)],
     [c EXCEPT !.pq = {}], [c EXCEPT !.pq = {SignatureOf(c.hdr.sender, <<>>)}],
     [c EXCEPT !.hdr = other.hdr], [c EXCEPT !.man = other.man], [c EXCEPT !.data = other.data],
     [c EXCEPT !.ed = other.ed, !.pq = other.pq], [c EXCEPT !.hdr = other.hdr, !.man = other.man]}
    \cup {[c EXCEPT !.data = d] : d \in DamagedChunks(c.data, other.data)}
    \cup {[c EXCEPT !.hdr = h] : h \in DamagedHeaders(c.hdr)}

Damage ==
    /\ disk # NoFile /\ damage < MaxDamage
    /\ \E i \in DOMAIN made : disk' \in Damaged(disk, made[i].file)
    /\ damage' = damage + 1
    /\ UNCHANGED <<local, made>>

-------------------------------------------------------------------------------

\* A container written from the one at the path.
Rewrite(me, to, opt) ==
    /\ SourceReads(me)
    /\ \/ Reexport(me, to, opt)
       \/ \E add \in Additions :
             \/ AppendFiles(me, to, opt, add.files, add.dirs)
             \/ \E f \in ToSet(add.files) : ReplaceFile(me, to, opt, f)
       \/ \E r \in PathsOf(local) : RemovePaths(me, to, opt, {r})

ContainerNext ==
    \/ /\ Len(made) < MaxWrites
       /\ \E me \in Ids, to \in Audiences, opt \in Options :
             \/ ExportPlan(me, to, opt)
             \/ ExportVault(me, to, opt)
             \/ Rewrite(me, to, opt)
    \/ \E me \in Ids : ImportContainer(me)
    \/ Damage

ContainerSpec == ContainerInit /\ [][ContainerNext]_containerVars

-------------------------------------------------------------------------------
(* Properties.                                                               *)

\* Whatever happened to the file: a file that any identity reads out of it, even
\* lazily and without the signature, is one the writer of that container was
\* given, with exactly its bytes, and the reader was a recipient.
Faithful ==
    disk # NoFile =>
        \A me \in Ids : OpensLazily(disk, me) =>
            \A e \in FilesOf(disk.man.body) : ReadsEntry(disk, me, e) =>
                LET m == made[CekOf(disk, me)]
                IN /\ me \in m.to
                   /\ [path |-> e.path, kind |-> "file", content |-> FileBytes(PlaintextOf(disk.data), e)] \in m.want

Acceptable(tree) ==
    /\ Cardinality(tree) <= MaxEntries
    /\ \A v \in tree : WellNamed(v.path)
    /\ \A v, w \in tree : v.kind = "file" => v.path \notin Ancestors(w.path)

\* An undamaged container has the length its plan declared, opens for its
\* recipients and for no one else - for no one at all when its tree has names or
\* a shape that readers refuse - and every way to read it yields the tree its
\* writer was asked for, unless a source changed while it was being added.
HonestOpens ==
    disk # NoFile /\ damage = 0 =>
        LET m == made[Len(made)]
        IN /\ ActualLen(disk) = m.len
           /\ \A me \in Ids :
                 /\ VerifyAndOpen(disk, me) <=> me \in m.to /\ Acceptable(m.want)
                 /\ VerifyAndOpen(disk, me) /\ ~m.torn =>
                       /\ Imports(disk, me) /\ TreeOf(disk) = m.want
                       /\ \A e \in FilesOf(disk.man.body) : ReadsEntry(disk, me, e)

\* A container that is not, byte for byte, one that was written is never imported.
DamageRefused ==
    disk # NoFile /\ (\A i \in DOMAIN made : made[i].file # disk) =>
        \A me \in Ids : ~Imports(disk, me)

================================================================================
