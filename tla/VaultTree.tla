------------------------------- MODULE VaultTree -------------------------------
(***************************************************************************)
(* The tree of an open vault and the file browser's operations on it       *)
(* (filesec-core/src/format_v2.rs: VaultBatch, validate_manifest_v2;       *)
(* vault.rs: normalize_path, check_tree_shape, preflight_extraction;       *)
(* filesec-gui/src/app.rs: the browser, its trash and its extractions).    *)
(*                                                                         *)
(* An operation is one step: it is planned against the open revision and   *)
(* committed as one batch, which is refused or applied as a whole.  That a *)
(* stale revision is refused, and how a batch reaches the disk, are the    *)
(* business of Session and VaultCommit.                                    *)
(*                                                                         *)
(* A path is a sequence of names.  A name is a base with the marks " (n)"  *)
(* and " (restored n)" it was given, or a trash token, which carries the   *)
(* path its entry had.  What the user types or an OS file is called is a   *)
(* spelling: normalize_path turns it into names, but the browser looks for *)
(* what exists under the spelling itself.                                  *)
(***************************************************************************)
EXTENDS Naturals, Sequences, SequencesExt, FiniteSets, FiniteSetsExt

CONSTANTS
    Bases,       \* what a user may call a file or a folder, ".trash" included
    Spellings,   \* what may be typed or found on disk: the names it stands for, and
                 \* whether it is written exactly as they are, joined by slashes,
                 \* without backslash, "." or empty component
    Decoded(_),  \* the original path in a base that looks like a trash token, else <<>>
    Documents,   \* what a file may hold, with its later versions; no two files are
                 \* made with the same
    Dotted,      \* the bases with a dot inside
    Deceptive,   \* bases with invisible or bidirectional characters, which only
                 \* an older version accepted
    Lower(_),    \* a base in lower case
    MaxDepth,    \* MAX_PATH_DEPTH
    MaxCopies,   \* how far unique_name_in counts
    MaxEntries,  \* bound: entries of a vault
    MaxLen,      \* bound: names in a path
    MaxMarked,   \* bound: paths with a mark
    MaxSelected, \* bound: rows selected together
    Destinations \* folders to extract to

ASSUME TreeAssumption ==
    /\ Deceptive \cup Dotted \subseteq Bases
    /\ \A b \in Bases :
         /\ Lower(b) \in Bases
         /\ Decoded(b) \in Seq([base : Bases, marks : {<<>>}, orig : {<<>>}, tag : {0}])
    /\ \A s \in Spellings : s.parts \in Seq(Bases)
    /\ "Dir" \notin Documents
    /\ MaxDepth \in Nat \ {0, 1} /\ {MaxEntries, MaxCopies} \subseteq Nat \ {0}
    /\ {MaxLen, MaxMarked, MaxSelected} \subseteq Nat

VARIABLES
    tree,      \* the manifest: path -> "Dir" or the document in a file
    dir,       \* Session::current_dir
    view       \* the file list, the trash, or the trash with its deletion armed

browse == <<dir, view>>
vars == <<tree, browse>>

-------------------------------------------------------------------------------
(* Paths (vault.rs, app.rs).                                                 *)

Plain(base) == [base |-> base, marks |-> <<>>, orig |-> <<>>, tag |-> 0]
Marked(name, kind, n) == [name EXCEPT !.marks = Append(@, <<kind, n>>)]

TrashDir == <<Plain(".trash")>>
IsTrashed(p) == p[1] = TrashDir[1]

ParentDir(p) == Front(p)
LeafName(p) == Last(p)

\* The entry and what is beneath it.
Within(root, p) == IsPrefix(root, p)
Ancestors(p) == {SubSeq(p, 1, n) : n \in 1 .. Len(p) - 1}

\* Every character of a name, those of a trashed entry's path included.
BasesOf(name) == {name.base} \cup {name.orig[i].base : i \in DOMAIN name.orig}
Truthful(p) == \A i \in DOMAIN p : BasesOf(p[i]) \cap Deceptive = {}

\* What normalize_stored_path and normalize_path make of a spelling below a folder: a
\* backslash separates, "." and empty components go.
Spelled(d, spelling) ==
    [path |-> d \o [i \in DOMAIN spelling.parts |-> Plain(spelling.parts[i])],
     exact |-> spelling.exact]

\* A single name, as far as leaf.contains('/') tells; what an OS file is called.
Typed == {s \in Spellings : s.exact => Len(s.parts) = 1}

\* existing.contains and entries().iter().any, which compare the spelling.
Exists(t, spelled) == spelled.exact /\ spelled.path \in DOMAIN t

\* They accept the path.  The other rules are about characters no name here has.
NormalizeStoredPath(p) == p # <<>> /\ Len(p) <= MaxDepth
NormalizePath(p) == NormalizeStoredPath(p) /\ Truthful(p)

\* portable_collision_key.
FoldName(name) ==
    [name EXCEPT !.base = IF @ \in Bases THEN Lower(@) ELSE @]
PortableCollisionKey(p) == [i \in DOMAIN p |-> FoldName(p[i])]

-------------------------------------------------------------------------------
(* VaultBatch: a candidate tree, or the first error.                         *)

Candidate(t) == [ok |-> TRUE, tree |-> t]
Refused(b) == [b EXCEPT !.ok = FALSE]

HasFile(t, p) == p \in DOMAIN t /\ t[p] # "Dir"
HasDir(t, p) == p \in DOMAIN t /\ t[p] = "Dir"

Place(t, p, what) == [q \in DOMAIN t \cup {p} |-> IF q = p THEN what ELSE t[q]]

\* ensure_dirs.
DirsBlocked(t, p) == \E q \in Ancestors(p) : HasFile(t, q)
EnsureDirs(t, p) ==
    [q \in DOMAIN t \cup Ancestors(p) |-> IF q \in DOMAIN t THEN t[q] ELSE "Dir"]

\* mkdir.
Mkdir(b, p) ==
    IF ~NormalizePath(p) \/ HasFile(b.tree, p) THEN Refused(b)
    ELSE IF HasDir(b.tree, p) THEN b
    ELSE IF DirsBlocked(b.tree, p) THEN Refused(b)
    ELSE Candidate(Place(EnsureDirs(b.tree, p), p, "Dir"))

\* put_file and put_bytes: reject_dir, then place, which replaces a file and
\* supersedes its blob.
Put(b, p, doc) ==
    IF ~NormalizePath(p) \/ HasDir(b.tree, p) THEN Refused(b)
    ELSE IF HasFile(b.tree, p) THEN Candidate(Place(b.tree, p, doc))
    ELSE IF DirsBlocked(b.tree, p) THEN Refused(b)
    ELSE Candidate(Place(EnsureDirs(b.tree, p), p, doc))

\* remove.
RemoveEntry(b, p) ==
    IF ~NormalizeStoredPath(p) THEN Refused(b)
    ELSE Candidate([q \in {r \in DOMAIN b.tree : ~Within(p, r)} |-> b.tree[q]])

\* Every path under from, with to in its place.
NewPath(from, to, p) == IF Within(from, p) THEN to \o SubSeq(p, Len(from) + 1, Len(p)) ELSE p

Moved(t, from, to) ==
    [q \in {NewPath(from, to, p) : p \in DOMAIN t} |->
        t[CHOOSE p \in DOMAIN t : NewPath(from, to, p) = q]]

\* Mutant: the entry that is in the way is dropped.
RenameReplaces(b, from, to) ==
    IF ~NormalizeStoredPath(from) \/ ~NormalizePath(to) THEN Refused(b)
    ELSE IF from = to THEN b
    ELSE IF Within(from, to) \/ from \notin DOMAIN b.tree \/ DirsBlocked(b.tree, to)
    THEN Refused(b)
    ELSE Candidate(Moved(EnsureDirs(RemoveEntry(b, to).tree, to), from, to))

\* Mutant: the folders above the new name are not made.
RenameBare(b, from, to) ==
    IF ~NormalizeStoredPath(from) \/ ~NormalizePath(to) THEN Refused(b)
    ELSE IF from = to THEN b
    ELSE IF Within(from, to) \/ from \notin DOMAIN b.tree \/ to \in DOMAIN b.tree
            \/ DirsBlocked(b.tree, to)
    THEN Refused(b)
    ELSE Candidate(Moved(b.tree, from, to))

\* rename.
Rename(b, from, to) ==
    IF ~NormalizeStoredPath(from) \/ ~NormalizePath(to) THEN Refused(b)
    ELSE IF from = to THEN b
    ELSE IF Within(from, to) \/ from \notin DOMAIN b.tree \/ to \in DOMAIN b.tree
            \/ DirsBlocked(b.tree, to)
    THEN Refused(b)
    ELSE Candidate(Moved(EnsureDirs(b.tree, to), from, to))

\* rename_in_vault: the pairs in order, as one batch.
RenameNext(b, pair) == IF b.ok THEN Rename(b, pair[1], pair[2]) ELSE b

RenameAll(t, pairs) ==
    LET batch[n \in 0 .. Len(pairs)] ==
            IF n = 0 THEN Candidate(t) ELSE RenameNext(batch[n - 1], pairs[n])
    IN  batch[Len(pairs)]

\* validate_manifest_v2, with check_tree_shape: what open accepts.
ValidateManifest(t) ==
    \A p \in DOMAIN t : NormalizeStoredPath(p) /\ ~DirsBlocked(t, p)

-------------------------------------------------------------------------------
(* What the browser shows.                                                   *)

Live(t) == {p \in DOMAIN t : ~IsTrashed(p)}

\* clamp_dir.  <<>> is the root.
ClampDir(t, d) ==
    CHOOSE p \in {<<>>} \cup {q \in Ancestors(d) \cup {d} : q # <<>> /\ HasDir(t, q)} :
        \A q \in Ancestors(d) \cup {d} : q # <<>> /\ HasDir(t, q) => Len(q) <= Len(p)

\* visible_rows: a folder's children, or what a search finds in any folder.
VisibleRows == Live(tree)

\* parse_trash_token: of a token of trash_dest the path, of another name what it
\* looks like, with its own marks.
ParseTrashToken(p) ==
    IF p[2].orig # <<>> \/ Decoded(p[2].base) = <<>> THEN p[2].orig
    ELSE LET d == Decoded(p[2].base)
         IN  Append(Front(d), [Last(d) EXCEPT !.marks = p[2].marks])

\* trashed_items: the children of .trash with a well-formed token.
TrashedItems(t) ==
    {p \in DOMAIN t : Len(p) = 2 /\ IsTrashed(p) /\ ParseTrashToken(p) # <<>>}

\* trash_dest, with a random tag no token of the same path has.
TrashDest(t, p) ==
    LET With(tag) ==
            TrashDir \o << [base |-> "token", marks |-> <<>>, orig |-> p, tag |-> tag] >>
    IN  With(Min({tag \in 1 .. MaxEntries + 1 : With(tag) \notin DOMAIN t}))

\* Mutant: the suffix is not counted up.
DedupPathOnce(t, p) ==
    IF p \notin DOMAIN t THEN p
    ELSE Append(ParentDir(p), Marked(LeafName(p), "restored", 1))

\* dedup_path: " (restored)", " (restored 2)", ...
DedupPath(t, p) ==
    IF p \notin DOMAIN t THEN p
    ELSE LET With(n) == Append(ParentDir(p), Marked(LeafName(p), "restored", n))
         IN  With(Min({n \in 1 .. MaxEntries + 1 : With(n) \notin DOMAIN t}))

\* unique_name_in: " (n)" goes before the last dot of the whole path, or at its end.
\* When every n was tried the taken name is returned.
UniqueNameIn(existing, p) ==
    IF p \notin existing THEN p
    ELSE LET dots == {i \in DOMAIN p : p[i].base \in Dotted}
             at == IF dots = {} THEN Len(p) ELSE Max(dots)
             With(n) == [p EXCEPT ![at] = Marked(@, "copy", n)]
             free == {n \in 1 .. MaxCopies : With(n) \notin existing}
         IN  IF free = {} THEN p ELSE With(Min(free))

\* prune_nested.
PruneNested(ps) == {p \in ps : \A q \in ps : q = p \/ ~Within(q, p)}

\* move_folder_options.
MoveFolderOptions(t, moving) ==
    {<<>>} \cup {p \in Live(t) : HasDir(t, p) /\ \A q \in moving : ~Within(q, p)}

-------------------------------------------------------------------------------
\* The tree is within the model's bounds.
MarksOf(p) ==
    UNION {ToSet(p[i].marks) \cup UNION {ToSet(p[i].orig[j].marks) : j \in DOMAIN p[i].orig}
           : i \in DOMAIN p}

Bounded(t) ==
    /\ Cardinality(DOMAIN t) <= MaxEntries
    /\ \A p \in DOMAIN t : Len(p) <= MaxLen /\ \A i \in DOMAIN p : Len(p[i].marks) <= 1
    /\ Cardinality({p \in DOMAIN t : MarksOf(p) # {}}) <= MaxMarked

\* A job's batch is committed and the vault reopened, or the job reports an error.
\* The next frame of browser_ui makes the browse state fit the new revision.
Commit(b) ==
    /\ b.ok /\ Bounded(b.tree)
    /\ tree' = b.tree
    /\ dir' = ClampDir(b.tree, dir)

\* What the files of a tree hold, and what a new file may.
FilesIn(t) == {p \in DOMAIN t : t[p] # "Dir"}
Held(t) == {t[p] : p \in FilesIn(t)}
Unused(doc) == doc \in Documents \ Held(tree)

-------------------------------------------------------------------------------
(* The file list.                                                            *)

Listing == view = "files"

\* EnterDir and the breadcrumb: a visible folder or one above the current one.
EnterDir(d) ==
    /\ Listing
    /\ d = <<>> \/ (d \in Live(tree) /\ HasDir(tree, d))
    /\ dir' = d
    /\ UNCHANGED <<tree, view>>

\* The rows a user may have selected: in a folder, or anywhere after a search
\* (apply_row_click, SelectAllVisible).  browser_ui drops from the selection what is
\* no longer live before anything can be done with it.
Selections ==
    {ps \in SUBSET VisibleRows : ps # {} /\ Cardinality(ps) <= MaxSelected}

\* ShowTrash.
ShowTrash ==
    /\ view' = IF view = "files" THEN "trash" ELSE "files"
    /\ UNCHANGED <<tree, dir>>

\* add_sources with one OS file: plan_additions, then append_files_to_vault.
AddFile(name, doc) ==
    LET spelled == Spelled(dir, name)
        p == IF spelled.exact THEN UniqueNameIn(DOMAIN tree, spelled.path) ELSE spelled.path
    IN  /\ Listing /\ Unused(doc)
        /\ Commit(Put(Candidate(tree), p, doc))
        /\ UNCHANGED view

\* add_sources with an OS folder that holds one file: a path that exists is skipped,
\* and with nothing left to add the job is refused.  Below the folder Windows
\* separates with backslashes.
Inside(name, inner) ==
    [parts |-> name.parts \o inner.parts, exact |-> name.exact /\ inner.exact]

AddFolder(name, inner, doc) ==
    LET spelled == Spelled(dir, Inside(name, inner)) IN
    /\ Listing /\ ~Exists(tree, spelled) /\ Unused(doc)
    /\ Commit(Put(Candidate(tree), spelled.path, doc))
    /\ UNCHANGED view

\* spawn_new_folder and spawn_new_file refuse a name that exists.
NewFolder(name) ==
    LET spelled == Spelled(dir, name) IN
    /\ Listing /\ ~Exists(tree, spelled)
    /\ Commit(Mkdir(Candidate(tree), spelled.path))
    /\ UNCHANGED view

NewFile(name, doc) ==
    LET spelled == Spelled(dir, name) IN
    /\ Listing /\ ~Exists(tree, spelled) /\ Unused(doc)
    /\ Commit(Put(Candidate(tree), spelled.path, doc))
    /\ UNCHANGED view

\* spawn_save_text_file: a later version of what the file holds.  The editor is modal,
\* so the file is still the one it opened.
SaveTextFile(p) ==
    /\ Listing /\ p \in VisibleRows /\ HasFile(tree, p)
    /\ Commit(Put(Candidate(tree), p, tree[p]))
    /\ UNCHANGED view

\* spawn_rename.  The composer may have been opened on an entry that is gone since;
\* VaultBatch::rename then finds nothing to rename.
ConfirmRename(from, name) ==
    LET to == Spelled(ParentDir(from), name) IN
    /\ Listing /\ ~Exists(tree, to)
    /\ Commit(Rename(Candidate(tree), from, to.path))
    /\ UNCHANGED view

\* The move dialog, which nothing else interrupts, then spawn_move.
Move(ps, into) ==
    LET paths == {p \in PruneNested(ps) : ParentDir(p) # into}
        To(p) == Append(into, LeafName(p))
    IN  /\ Listing /\ ps # {}
        /\ into \in MoveFolderOptions(tree, ps)
        /\ paths # {} /\ \A p \in paths : To(p) \notin DOMAIN tree
        /\ Commit(RenameAll(tree, SetToSeq({<<p, To(p)>> : p \in paths})))
        /\ UNCHANGED view

MoveSelected(ps, into) == ps \in Selections /\ Move(ps, into)

\* spawn_trash_entry and spawn_trash_selected.
TrashAll(ps) ==
    /\ Listing
    /\ Commit(RenameAll(tree,
                SetToSeq({<<p, TrashDest(tree, p)>> : p \in PruneNested(ps)})))
    /\ UNCHANGED view

TrashSelected(ps) == ps \in Selections /\ TrashAll(ps)

-------------------------------------------------------------------------------
(* The trash view.                                                           *)

\* spawn_restore.
RestoreBatch(t, p) == Rename(Candidate(t), p, DedupPath(t, ParseTrashToken(p)))

RestoreTrashed(p) ==
    /\ view # "files" /\ p \in TrashedItems(tree)
    /\ Commit(RestoreBatch(tree, p))
    /\ UNCHANGED view

\* spawn_purge.
PurgeTrashed(p) ==
    /\ view # "files" /\ p \in TrashedItems(tree)
    /\ Commit(RemoveEntry(Candidate(tree), p))
    /\ UNCHANGED view

\* PromptEmptyTrash, then spawn_empty_trash, which disarms the confirmation.
PromptEmptyTrash ==
    /\ view # "files" /\ TrashedItems(tree) # {}
    /\ view' = IF view = "trash" THEN "confirm" ELSE "trash"
    /\ UNCHANGED <<tree, dir>>

EmptyTrash ==
    /\ view = "confirm" /\ TrashedItems(tree) # {}
    /\ Commit(RemoveEntry(Candidate(tree), TrashDir))
    /\ view' = "trash"

-------------------------------------------------------------------------------
(* Extraction of ps to a destination folder d that ignores case: folded path    *)
(* -> "File" or "Dir" for what was there, the entry's path for what is new.     *)
(* It leaves the vault and the browser alone.                                   *)

\* preflight_extraction.
Preflight(d, ps) ==
    /\ \A p \in ps : NormalizePath(p)
    /\ \A p, q \in ps : PortableCollisionKey(p) = PortableCollisionKey(q) => p = q
    /\ \A p \in ps : HasFile(tree, p) => ~HasFile(d.had, PortableCollisionKey(p))

\* extract_dir_hardened and extract_file_hardened, where files of the destination
\* are d.had and d.new: a folder in the way of a file, or a file in the way of a
\* folder, fails that entry; a file is renamed over a file.
Blocked(d, at) ==
    \E q \in Ancestors(at) : HasFile(d.had, q) \/ q \in DOMAIN d.new

ExtractOne(d, p) ==
    LET at == PortableCollisionKey(p)
    IN  IF Blocked(d, at) THEN d
        ELSE IF HasDir(tree, p)
             THEN IF HasFile(d.had, at) \/ at \in DOMAIN d.new THEN d
                  ELSE [d EXCEPT !.had = Place(EnsureDirs(@, at), at, "Dir")]
        ELSE IF HasDir(d.had, at) THEN d
             ELSE [had |-> [q \in DOMAIN EnsureDirs(d.had, at) \ {at} |->
                                EnsureDirs(d.had, at)[q]],
                   new |-> Place(d.new, at, p)]

\* The entries one after the other.
ExtractEach(d, entries) ==
    LET done[n \in 0 .. Len(entries)] ==
            IF n = 0 THEN d ELSE ExtractOne(done[n - 1], entries[n])
    IN  done[Len(entries)]

\* Mutant: only the destination is looked at.
ExtractAliases(d, ps) ==
    IF \A p \in ps : HasFile(tree, p) => ~HasFile(d.had, PortableCollisionKey(p))
    THEN ExtractEach(d, SetToSeq(ps)) ELSE d

\* The destination after the job: nothing is written if the preflight objects.
Extract(d, ps) ==
    IF Preflight(d, ps) THEN ExtractEach(d, SetToSeq(ps)) ELSE d

\* spawn_extract_all: the live tree.
ExtractAll(d) == Extract(d, Live(tree))

\* spawn_extract_selected: a folder stands for the files in it.
FilesOf(ps) == {p \in Live(tree) : HasFile(tree, p) /\ \E s \in ps : Within(s, p)}
ExtractSelected(d, ps) == Extract(d, FilesOf(ps))

-------------------------------------------------------------------------------
\* A vault with one file, whose name an older version may have accepted.
Init ==
    /\ \E b \in Bases, doc \in Documents : tree = [p \in {<<Plain(b)>>} |-> doc]
    /\ dir = <<>> /\ view = "files"

Next ==
    \/ \E d \in {<<>>} \cup Live(tree) : EnterDir(d)
    \/ \E ps \in Selections :
         TrashSelected(ps) \/ \E d \in {<<>>} \cup Live(tree) : MoveSelected(ps, d)
    \/ ShowTrash
    \/ \E name \in Typed :
         \/ NewFolder(name) \/ \E p \in Live(tree) : ConfirmRename(p, name)
         \/ \E doc \in Documents :
              \/ AddFile(name, doc) \/ NewFile(name, doc)
              \/ \E inner \in Spellings : AddFolder(name, inner, doc)
    \/ \E p \in VisibleRows : SaveTextFile(p)
    \/ \E p \in TrashedItems(tree) : RestoreTrashed(p) \/ PurgeTrashed(p)
    \/ PromptEmptyTrash \/ EmptyTrash

Spec == Init /\ [][Next]_vars

-------------------------------------------------------------------------------
(* Properties.                                                               *)

\* The names of files and folders, and the tokens trash_dest makes.
Label == [base : Bases, marks : Seq({"copy", "restored"} \X Nat), orig : {<<>>}, tag : {0}]
NamedPath == Seq(Label) \ {<<>>}
LivePath == {p \in NamedPath : ~IsTrashed(p)}
Token == {k \in [base : {"token"}, marks : {<<>>}, orig : LivePath, tag : Nat] : NormalizePath(k.orig)}

\* What is in the trash: the trash itself, an item or what else was put there, or what
\* is in one.
TrashedPath ==
    {p \in Seq(Label \cup Token \cup {TrashDir[1]}) \ {<<>>} :
        /\ IsTrashed(p)
        /\ Len(p) > 1 => p[2] \in Label \cup Token
        /\ \A i \in 3 .. Len(p) : p[i] \in Label}

\* Type invariant: a path is a live one or one in the trash.
TypeOK ==
    /\ DOMAIN tree \subseteq LivePath \cup TrashedPath
    /\ IsFiniteSet(DOMAIN tree) /\ Cardinality(DOMAIN tree) <= MaxEntries
    /\ \A p \in DOMAIN tree : tree[p] \in Documents \cup {"Dir"}
    /\ view \in {"files", "trash", "confirm"}

\* Every entry can be reached from the root through folders (so the browser or the
\* trash shows it, and check_tree_shape accepts the tree), and the folder on
\* screen is one that exists, whatever was added, renamed, moved, trashed and
\* restored before: VaultBatch::ensure_dirs, clamp_dir.
Reachable ==
    /\ \A p \in DOMAIN tree : \A q \in Ancestors(p) : HasDir(tree, q)
    /\ dir = <<>> \/ (HasDir(tree, dir) /\ ~IsTrashed(dir))

\* The additions that see no file at p and yet put theirs there: under another
\* spelling of the path, or when unique_name_in has counted to its end.
Unseen(p, spelling) == Spelled(dir, spelling).path = p /\ ~spelling.exact

PutsUnseen(p) ==
    \E name \in Typed, doc \in Documents :
        \/ /\ AddFile(name, doc)
           /\ Unseen(p, name) \/ (Spelled(dir, name).path = p /\ UniqueNameIn(DOMAIN tree, p) = p)
        \/ NewFile(name, doc) /\ Unseen(p, name)
        \/ \E inner \in Spellings : AddFolder(name, inner, doc) /\ Unseen(p, Inside(name, inner))

\* No operation makes what a live file holds disappear, but an addition that does not
\* see the file.  In particular a batch of moves of two files with the same name, a
\* rename onto another spelling of a file or of a stale target, trashing and a restore
\* over a newer file lose nothing: VaultBatch::rename checks the normalized path.
LiveNeverLost ==
    [][\A p \in FilesIn(tree) : ~IsTrashed(p) =>
         tree[p] \in Held(tree') \/ PutsUnseen(p)]_vars

\* Whatever trashing put into the trash belongs to an item the trash view lists, and
\* restoring an item makes all its files live again, with what they held, unless a
\* file has taken the place of a folder above its original path (spawn_restore,
\* dedup_path, trash_dest).  What the user called .trash or put there by name is no
\* such item.
TrashRestorable ==
    /\ \A p \in DOMAIN tree :
         IsTrashed(p) /\ Len(p) > 1 /\ p[2].orig # <<>> =>
             \E i \in TrashedItems(tree) : Within(i, p)
    /\ \A i \in TrashedItems(tree) : i[2].orig # <<>> =>
         LET b == RestoreBatch(tree, i)
         IN  IF b.ok THEN \A p \in FilesIn(tree) : Within(i, p) =>
                              \E q \in Live(b.tree) : b.tree[q] = tree[p]
                     ELSE DirsBlocked(tree, ParseTrashToken(i))

\* Every file that an extraction of ps does not merely skip is there, once.
NothingClobbered(d, after, ps) ==
    /\ \A k \in DOMAIN d.had : HasFile(d.had, k) => HasFile(after.had, k)
    /\ \A k \in DOMAIN after.new : after.new[k] \in Live(tree)
    /\ after # d => \A p \in ps : HasFile(tree, p) =>
         LET at == PortableCollisionKey(p)
         IN  \/ at \in DOMAIN after.new /\ after.new[at] = p
             \/ Blocked(after, at) \/ HasDir(after.had, at)

\* Extracting everything or a selection replaces no file at the destination, writes
\* no trashed file, and never lets one entry's copy replace another's, on a
\* destination that ignores case: preflight_extraction, FS-09.
ExtractionLosesNothing ==
    \A had \in Destinations :
        LET d == [had |-> had, new |-> << >>]
        IN  /\ NothingClobbered(d, ExtractAll(d), Live(tree))
            /\ \A ps \in Selections :
                 NothingClobbered(d, ExtractSelected(d, ps), FilesOf(ps))

\* "after every operation the vault reopened from disk must match a model updated
\* only on success" (docs/FUZZING.md): what a batch committed, open accepts.
Reopens == ValidateManifest(tree)

===============================================================================
