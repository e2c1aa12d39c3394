--------------------------- MODULE VaultTreeProofs ---------------------------
(* Proofs about VaultTree, for every set of names and spellings, depth and      *)
(* number of entries: the tree stays connected, the trash restorable, no        *)
(* operation loses what a live file holds unseen, and no extraction replaces a  *)
(* file.                                                                        *)
EXTENDS VaultTree, FiniteSetTheorems, SequenceTheorems, NaturalsInduction, WellFoundedInduction, TLAPS

-------------------------------------------------------------------------------
(* Induction over the naturals, with a set for the predicate.                *)

LEMMA LeastNumber ==
    ASSUME NEW T \in SUBSET Nat, T # {}
    PROVE  \E n \in T : \A m \in T : n <= m
<1>1. IsWellFoundedOn(OpToRel(<, Nat), Nat)
  BY NatLessThanWellFounded
<1>2. PICK n \in T : \A m \in T : ~(<<m, n>> \in OpToRel(<, Nat))
  BY <1>1, WFMin
<1>3. \A m \in T : ~(m < n)
  BY <1>2 DEF OpToRel
<1> QED BY <1>3

LEMMA InductionOverNat ==
    ASSUME NEW P, 0 \in P, \A n \in Nat : n \in P => n + 1 \in P
    PROVE  Nat \subseteq P
<1> DEFINE T == Nat \ P
<1> SUFFICES ASSUME T # {} PROVE FALSE
  OBVIOUS
<1>1. PICK n \in T : \A m \in T : n <= m
  BY LeastNumber
<1> QED BY <1>1

\* Min is defined on every nonempty set of naturals.
LEMMA MinIsMember ==
    ASSUME NEW T \in SUBSET Nat, T # {}
    PROVE  Min(T) \in T
BY LeastNumber DEF Min

\* A bounded nonempty set of naturals has a greatest element.
LEMMA GreatestNumber ==
    ASSUME NEW T \in SUBSET Nat, T # {}, NEW b \in Nat, \A n \in T : n <= b
    PROVE  \E n \in T : \A m \in T : m <= n
<1> DEFINE U == {b - n : n \in T}
<1>1. U \in SUBSET Nat /\ U # {}
  <2>1. \A n \in T : b - n \in Nat
    OBVIOUS
  <2> QED BY <2>1
<1>2. PICK u \in U : \A v \in U : u <= v
  BY <1>1, LeastNumber
<1>3. PICK n \in T : u = b - n
  BY <1>2
<1>4. \A m \in T : b - n <= b - m
  BY <1>2, <1>3
<1> QED BY <1>3, <1>4

-------------------------------------------------------------------------------
(* Paths.                                                                    *)

LEMMA WithinIs ==
    ASSUME NEW S, NEW s \in Seq(S), NEW t \in Seq(S)
    PROVE  Within(s, t) <=> Len(s) <= Len(t) /\ \A i \in 1 .. Len(s) : s[i] = t[i]
<1>1. ASSUME Len(s) <= Len(t)
      PROVE  SubSeq(s, 1, Len(s)) = SubSeq(t, 1, Len(s)) <=> \A i \in 1 .. Len(s) : s[i] = t[i]
  BY <1>1
<1> QED BY <1>1 DEF Within, IsPrefix

LEMMA AncestorsAre ==
    ASSUME NEW S, NEW p \in Seq(S), NEW q
    PROVE  q \in Ancestors(p) <=>
             /\ q \in Seq(S) /\ Len(q) \in 1 .. Len(p) - 1
             /\ \A i \in 1 .. Len(q) : q[i] = p[i]
<1>1. ASSUME q \in Ancestors(p)
      PROVE  /\ q \in Seq(S) /\ Len(q) \in 1 .. Len(p) - 1
             /\ \A i \in 1 .. Len(q) : q[i] = p[i]
  <2>1. PICK n \in 1 .. Len(p) - 1 : q = SubSeq(p, 1, n)
    BY <1>1 DEF Ancestors
  <2> QED BY <2>1
<1>2. ASSUME q \in Seq(S), Len(q) \in 1 .. Len(p) - 1, \A i \in 1 .. Len(q) : q[i] = p[i]
      PROVE  q \in Ancestors(p)
  <2>1. q = SubSeq(p, 1, Len(q))
    BY <1>2
  <2> QED BY <1>2, <2>1 DEF Ancestors
<1> QED BY <1>1, <1>2

\* An ancestor's ancestor is one.
LEMMA AncestorOfAncestor ==
    ASSUME NEW S, NEW p \in Seq(S), NEW q \in Ancestors(p), NEW r \in Ancestors(q)
    PROVE  r \in Ancestors(p)
<1>1. q \in Seq(S) /\ Len(q) \in 1 .. Len(p) - 1 /\ \A i \in 1 .. Len(q) : q[i] = p[i]
  BY AncestorsAre
<1>2. r \in Seq(S) /\ Len(r) \in 1 .. Len(q) - 1 /\ \A i \in 1 .. Len(r) : r[i] = q[i]
  BY <1>1, AncestorsAre
<1>3. Len(r) \in 1 .. Len(p) - 1 /\ \A i \in 1 .. Len(r) : r[i] = p[i]
  BY <1>1, <1>2
<1> QED BY <1>2, <1>3, AncestorsAre

\* What is beneath an entry, and is not the entry, has it as an ancestor.
LEMMA BeneathHasAncestor ==
    ASSUME NEW S, NEW p \in Seq(S), NEW r \in Seq(S), r # <<>>, Within(r, p)
    PROVE  r = p \/ r \in Ancestors(p)
<1>1. Len(r) <= Len(p) /\ \A i \in 1 .. Len(r) : r[i] = p[i]
  BY WithinIs
<1>2. CASE Len(r) = Len(p)
  BY <1>1, <1>2
<1>3. CASE Len(r) # Len(p)
  <2>1. Len(r) \in 1 .. Len(p) - 1
    BY <1>1, <1>3
  <2> QED BY <2>1, <1>1, AncestorsAre
<1> QED BY <1>2, <1>3

\* What an ancestor is beneath, its descendant is beneath.
LEMMA WithinOfAncestor ==
    ASSUME NEW S, NEW p \in Seq(S), NEW q \in Ancestors(p), NEW r \in Seq(S), Within(r, q)
    PROVE  Within(r, p)
<1>1. q \in Seq(S) /\ Len(q) \in 1 .. Len(p) - 1 /\ \A i \in 1 .. Len(q) : q[i] = p[i]
  BY AncestorsAre
<1>2. Len(r) <= Len(q) /\ \A i \in 1 .. Len(r) : r[i] = q[i]
  BY <1>1, WithinIs
<1>3. Len(r) <= Len(p) /\ \A i \in 1 .. Len(r) : r[i] = p[i]
  BY <1>1, <1>2
<1> QED BY <1>3, WithinIs

LEMMA AncestorsFinite ==
    ASSUME NEW S, NEW p \in Seq(S)
    PROVE  IsFiniteSet(Ancestors(p))
<1> DEFINE f == [n \in 1 .. Len(p) - 1 |-> SubSeq(p, 1, n)]
<1>1. f \in Surjection(1 .. Len(p) - 1, Ancestors(p))
  BY DEF Surjection, Ancestors
<1>2. IsFiniteSet(1 .. Len(p) - 1)
  BY FS_Interval
<1> QED BY <1>1, <1>2, FS_Surjection
-------------------------------------------------------------------------------
(* Names and trees.                                                          *)

Name == Label \cup Token \cup {TrashDir[1]}
AnyPath == LivePath \cup TrashedPath

\* A child of the trash.
Item == {p \in TrashedPath : Len(p) = 2}

\* What an operation of the browser renames, and what to.
Movable == LivePath \cup Item
Placeable == NamedPath \cup Item

\* Every folder above an entry is there.
Connected(t) == \A p \in DOMAIN t : \A q \in Ancestors(p) : HasDir(t, q)

\* A tree of well-formed paths.
Shaped(t) ==
    /\ DOMAIN t \subseteq AnyPath
    /\ IsFiniteSet(DOMAIN t)
    /\ \A p \in DOMAIN t : t[p] \in Documents \cup {"Dir"}
    /\ Connected(t)

LEMMA LivePathIs ==
    ASSUME NEW p
    PROVE  p \in LivePath <=>
             /\ p \in Seq(Name) /\ Len(p) >= 1 /\ p[1] # TrashDir[1]
             /\ \A i \in 1 .. Len(p) : p[i] \in Label
<1>1. ASSUME p \in LivePath
      PROVE  /\ p \in Seq(Name) /\ Len(p) >= 1 /\ p[1] # TrashDir[1]
             /\ \A i \in 1 .. Len(p) : p[i] \in Label
  <2>1. p \in Seq(Label) /\ p # <<>> /\ p[1] # TrashDir[1]
    BY <1>1 DEF LivePath, NamedPath, IsTrashed
  <2>2. p \in Seq(Name)
    BY <2>1 DEF Name
  <2> QED BY <2>1, <2>2
<1>2. ASSUME p \in Seq(Name), Len(p) >= 1, p[1] # TrashDir[1], \A i \in 1 .. Len(p) : p[i] \in Label
      PROVE  p \in LivePath
  <2>1. p \in Seq(Label)
    BY <1>2
  <2> QED BY <1>2, <2>1 DEF LivePath, NamedPath, IsTrashed
<1> QED BY <1>1, <1>2

LEMMA TrashedPathIs ==
    ASSUME NEW p
    PROVE  p \in TrashedPath <=>
             /\ p \in Seq(Name) /\ Len(p) >= 1 /\ p[1] = TrashDir[1]
             /\ Len(p) > 1 => p[2] \in Label \cup Token
             /\ \A i \in 3 .. Len(p) : p[i] \in Label
<1>1. p \in Seq(Name) => (p # <<>> <=> Len(p) >= 1)
  OBVIOUS
<1> QED BY <1>1 DEF TrashedPath, Name, IsTrashed

\* A path is in the trash or it is not.
LEMMA TrashedOrLive ==
    ASSUME NEW p \in AnyPath
    PROVE  /\ p \in Seq(Name) /\ Len(p) >= 1
           /\ IsTrashed(p) <=> p \in TrashedPath
           /\ ~IsTrashed(p) <=> p \in LivePath
BY LivePathIs, TrashedPathIs DEF AnyPath, IsTrashed

\* What is called by names only is a path, if it leads into the trash or not.
LEMMA NamedIsPath ==
    ASSUME NEW p \in NamedPath
    PROVE  p \in AnyPath
<1>1. p \in Seq(Label) /\ p # <<>>
  BY DEF NamedPath
<1>2. p \in Seq(Name) /\ Len(p) >= 1 /\ \A i \in 1 .. Len(p) : p[i] \in Label
  BY <1>1 DEF Name
<1>3. CASE IsTrashed(p)
  BY <1>2, <1>3, TrashedPathIs DEF AnyPath, IsTrashed
<1>4. CASE ~IsTrashed(p)
  BY <1>4 DEF AnyPath, LivePath
<1> QED BY <1>3, <1>4

LEMMA AncestorIsPath ==
    ASSUME NEW p \in AnyPath, NEW q \in Ancestors(p)
    PROVE  /\ q \in AnyPath
           /\ IsTrashed(q) <=> IsTrashed(p)
<1>1. p \in Seq(Name)
  BY TrashedOrLive
<1>2. q \in Seq(Name) /\ Len(q) \in 1 .. Len(p) - 1 /\ \A i \in 1 .. Len(q) : q[i] = p[i]
  BY <1>1, AncestorsAre
<1>3. p \in LivePath => q \in LivePath
  BY <1>1, <1>2, LivePathIs
<1>4. p \in TrashedPath => q \in TrashedPath
  BY <1>1, <1>2, TrashedPathIs
<1>5. q[1] = p[1]
  BY <1>1, <1>2
<1> QED BY <1>3, <1>4, <1>5 DEF AnyPath, IsTrashed

-------------------------------------------------------------------------------
(* VaultBatch.                                                               *)

\* ensure_dirs keeps every entry and makes the folders above a path.
LEMMA EnsureDirsKeeps ==
    ASSUME NEW t, NEW p \in AnyPath, Shaped(t), ~DirsBlocked(t, p)
    PROVE  /\ Shaped(EnsureDirs(t, p))
           /\ \A q \in Ancestors(p) : HasDir(EnsureDirs(t, p), q)
           /\ DOMAIN EnsureDirs(t, p) = DOMAIN t \cup Ancestors(p)
           /\ FilesIn(EnsureDirs(t, p)) = FilesIn(t) /\ Held(EnsureDirs(t, p)) = Held(t)
           /\ \A q \in DOMAIN t : EnsureDirs(t, p)[q] = t[q]
<1> DEFINE u == EnsureDirs(t, p)
<1>1. DOMAIN u = DOMAIN t \cup Ancestors(p)
  BY DEF EnsureDirs
<1>2. \A q \in DOMAIN u : u[q] = IF q \in DOMAIN t THEN t[q] ELSE "Dir"
  BY DEF EnsureDirs
<1> HIDE DEF u
<1>3. p \in Seq(Name)
  BY TrashedOrLive
<1>4. DOMAIN u \subseteq AnyPath
  BY <1>1, AncestorIsPath DEF Shaped
<1>5. IsFiniteSet(DOMAIN u)
  BY <1>1, <1>3, AncestorsFinite, FS_Union DEF Shaped
<1>6. \A q \in Ancestors(p) : HasDir(u, q)
  <2> SUFFICES ASSUME NEW q \in Ancestors(p) PROVE HasDir(u, q)
    OBVIOUS
  <2>1. ~HasFile(t, q)
    BY DEF DirsBlocked
  <2>2. q \in DOMAIN t => t[q] = "Dir"
    BY <2>1 DEF HasFile, Shaped
  <2> QED BY <1>1, <1>2, <2>2 DEF HasDir
<1>7. \A q \in DOMAIN u : u[q] \in Documents \cup {"Dir"}
  BY <1>1, <1>2 DEF Shaped
<1>8. Connected(u)
  <2> SUFFICES ASSUME NEW q \in DOMAIN u, NEW a \in Ancestors(q) PROVE HasDir(u, a)
    BY DEF Connected
  <2>1. CASE q \in DOMAIN t
    BY <2>1, <1>1, <1>2 DEF Shaped, Connected, HasDir
  <2>2. CASE q \in Ancestors(p)
    BY <2>2, <1>3, <1>6, AncestorOfAncestor
  <2> QED BY <2>1, <2>2, <1>1
<1>9. FilesIn(u) = FilesIn(t) /\ \A q \in FilesIn(t) : u[q] = t[q]
  BY <1>1, <1>2 DEF FilesIn
<1>10. Held(u) = Held(t)
  BY <1>9 DEF Held
<1> QED BY <1>1, <1>2, <1>4, <1>5, <1>6, <1>7, <1>8, <1>9, <1>10 DEF u, Shaped

\* An entry placed where none is, beneath folders that are there.
LEMMA PlaceKeeps ==
    ASSUME NEW t, NEW p \in AnyPath, NEW k \in Documents \cup {"Dir"}, Shaped(t), p \notin DOMAIN t,
           ~DirsBlocked(t, p)
    PROVE  /\ Shaped(Place(EnsureDirs(t, p), p, k))
           /\ Held(t) \subseteq Held(Place(EnsureDirs(t, p), p, k))
<1> DEFINE u == EnsureDirs(t, p)
           v == Place(u, p, k)
<1>1. /\ Shaped(u) /\ \A q \in Ancestors(p) : HasDir(u, q)
      /\ DOMAIN u = DOMAIN t \cup Ancestors(p)
      /\ FilesIn(u) = FilesIn(t) /\ Held(u) = Held(t)
  BY EnsureDirsKeeps
<1>2. p \in Seq(Name)
  BY TrashedOrLive
<1>3. p \notin Ancestors(p)
  BY <1>2, AncestorsAre
<1>4. p \notin DOMAIN u
  BY <1>1, <1>3
<1>5. DOMAIN v = DOMAIN u \cup {p} /\ \A q \in DOMAIN v : v[q] = IF q = p THEN k ELSE u[q]
  BY DEF Place
<1> HIDE DEF u, v
<1>6. DOMAIN v \subseteq AnyPath /\ IsFiniteSet(DOMAIN v) /\ \A q \in DOMAIN v : v[q] \in Documents \cup {"Dir"}
  <2>1. DOMAIN u \subseteq AnyPath /\ IsFiniteSet(DOMAIN u) /\ \A q \in DOMAIN u : u[q] \in Documents \cup {"Dir"}
    BY <1>1 DEF Shaped
  <2>2. IsFiniteSet(DOMAIN v)
    BY <2>1, <1>5, FS_AddElement
  <2>3. \A q \in DOMAIN v : v[q] \in Documents \cup {"Dir"}
    BY <2>1, <1>5
  <2> QED BY <2>1, <2>2, <2>3, <1>5
<1>7. \A q : HasDir(u, q) => HasDir(v, q)
  BY <1>4, <1>5 DEF HasDir
<1>8. Connected(v)
  BY <1>1, <1>5, <1>7 DEF Connected, Shaped
<1>9. \A q \in FilesIn(u) : q \in FilesIn(v) /\ v[q] = u[q]
  BY <1>4, <1>5 DEF FilesIn
<1>10. Held(u) \subseteq Held(v)
  BY <1>9 DEF Held
<1> QED BY <1>1, <1>6, <1>8, <1>10 DEF Shaped, u, v

\* A file replaced by another.
LEMMA ReplaceKeeps ==
    ASSUME NEW t, Shaped(t), NEW p, HasFile(t, p), NEW doc \in Documents
    PROVE  /\ Shaped(Place(t, p, doc))
           /\ \A q \in FilesIn(t) : q # p => t[q] \in Held(Place(t, p, doc))
           /\ doc \in Held(Place(t, p, doc))
<1> DEFINE v == Place(t, p, doc)
<1>1. p \in DOMAIN t /\ t[p] # "Dir"
  BY DEF HasFile
<1>2. DOMAIN v = DOMAIN t /\ \A q \in DOMAIN v : v[q] = IF q = p THEN doc ELSE t[q]
  BY <1>1 DEF Place
<1> HIDE DEF v
<1>3. \A q : HasDir(t, q) => HasDir(v, q)
  BY <1>1, <1>2 DEF HasDir
<1>4. Connected(v)
  BY <1>2, <1>3 DEF Connected, Shaped
<1>5. Shaped(v)
  BY <1>2, <1>4 DEF Shaped
<1>6. \A q \in FilesIn(t) : q # p => q \in FilesIn(v) /\ v[q] = t[q]
  BY <1>2 DEF FilesIn
<1>7. p \in FilesIn(v) /\ v[p] = doc
  BY <1>1, <1>2, TreeAssumption DEF FilesIn
<1> QED BY <1>5, <1>6, <1>7 DEF Held, v

\* What a rename makes of a path beneath the entry, name by name.
LEMMA NewPathIs ==
    ASSUME NEW from \in Movable, NEW to \in Placeable, NEW p \in AnyPath, Within(from, p)
    PROVE  /\ NewPath(from, to, p) \in AnyPath
           /\ Len(NewPath(from, to, p)) = Len(to) + (Len(p) - Len(from))
           /\ \A i \in 1 .. Len(to) : NewPath(from, to, p)[i] = to[i]
           /\ \A i \in Len(to) + 1 .. Len(to) + (Len(p) - Len(from)) :
                 NewPath(from, to, p)[i] = p[Len(from) + (i - Len(to))]
<1> DEFINE tail == SubSeq(p, Len(from) + 1, Len(p))
           q == NewPath(from, to, p)
<1>1. /\ from \in AnyPath /\ to \in AnyPath
      /\ from \in Seq(Name) /\ to \in Seq(Name) /\ p \in Seq(Name)
      /\ Len(from) >= 1 /\ Len(to) >= 1 /\ Len(p) >= 1
  <2>1. from \in AnyPath /\ to \in AnyPath
    BY NamedIsPath DEF Movable, Placeable, Item, AnyPath
  <2> QED BY <2>1, TrashedOrLive
<1>2. Len(from) <= Len(p) /\ \A i \in 1 .. Len(from) : from[i] = p[i]
  BY <1>1, WithinIs
<1>3. tail \in Seq(Name) /\ Len(tail) = Len(p) - Len(from)
  BY <1>1, <1>2
<1>4. \A i \in 1 .. Len(p) - Len(from) : tail[i] = p[Len(from) + i]
  BY <1>1, <1>2
<1>5. q = to \o tail
  BY DEF NewPath
<1> HIDE DEF tail, q
<1>6. /\ q \in Seq(Name) /\ Len(q) = Len(to) + (Len(p) - Len(from))
      /\ \A i \in 1 .. Len(to) : q[i] = to[i]
  <2>1. q \in Seq(Name) /\ Len(q) = Len(to) + Len(tail)
    BY <1>1, <1>3, <1>5, ConcatProperties
  <2>2. \A i \in 1 .. Len(to) : q[i] = to[i]
    BY <1>1, <1>3, <1>5
  <2> QED BY <2>1, <2>2, <1>3
<1>7. \A i \in Len(to) + 1 .. Len(to) + (Len(p) - Len(from)) : q[i] = tail[i - Len(to)]
  BY <1>1, <1>3, <1>5
<1>8. \A i \in Len(to) + 1 .. Len(to) + (Len(p) - Len(from)) : q[i] = p[Len(from) + (i - Len(to))]
  <2> SUFFICES ASSUME NEW i \in Len(to) + 1 .. Len(to) + (Len(p) - Len(from))
               PROVE  q[i] = p[Len(from) + (i - Len(to))]
    OBVIOUS
  <2>1. i - Len(to) \in 1 .. Len(p) - Len(from)
    BY <1>1, <1>2
  <2> QED BY <2>1, <1>4, <1>7
<1>9. \A j \in Len(from) + 1 .. Len(p) : p[j] \in Label
  <2>1. CASE from \in LivePath
    <3>1. from[1] # TrashDir[1] /\ from[1] = p[1]
      BY <2>1, <1>1, <1>2, LivePathIs
    <3>2. p \in LivePath
      BY <3>1, TrashedOrLive DEF IsTrashed
    <3> QED BY <3>2, <1>1, LivePathIs
  <2>2. CASE from \in TrashedPath /\ Len(from) = 2
    <3>1. p[1] = TrashDir[1]
      BY <2>2, <1>1, <1>2, TrashedPathIs
    <3>2. p \in TrashedPath
      BY <3>1, TrashedOrLive DEF IsTrashed
    <3>3. \A i \in 3 .. Len(p) : p[i] \in Label
      BY <3>2, TrashedPathIs
    <3> QED BY <3>3, <2>2
  <2> QED BY <2>1, <2>2 DEF Movable, Item
<1>10. \A i \in Len(to) + 1 .. Len(q) : q[i] \in Label
  <2> SUFFICES ASSUME NEW i \in Len(to) + 1 .. Len(q) PROVE q[i] \in Label
    OBVIOUS
  <2>1. Len(from) + (i - Len(to)) \in Len(from) + 1 .. Len(p)
    BY <1>1, <1>2, <1>6
  <2>2. i \in Len(to) + 1 .. Len(to) + (Len(p) - Len(from))
    BY <1>6
  <2> QED BY <2>1, <2>2, <1>8, <1>9
<1>11. q \in AnyPath
  <2>1. CASE to \in NamedPath
    <3>1. \A i \in 1 .. Len(to) : q[i] \in Label
      BY <2>1, <1>6 DEF NamedPath
    <3>2. Len(q) >= 1
      BY <1>1, <1>2, <1>6
    <3>3. \A i \in 1 .. Len(q) : q[i] \in Label
      BY <3>1, <1>1, <1>6, <1>10
    <3>4. q \in Seq(Label) /\ q # <<>>
      BY <3>2, <3>3, <1>6
    <3> QED BY <3>4, NamedIsPath DEF NamedPath
  <2>2. CASE to \in TrashedPath /\ Len(to) = 2
    <3>1. to[1] = TrashDir[1] /\ to[2] \in Label \cup Token
      <4>1. Len(to) > 1
        BY <2>2
      <4> QED BY <4>1, <2>2, TrashedPathIs
    <3>2. q[1] = TrashDir[1] /\ q[2] \in Label \cup Token
      BY <3>1, <2>2, <1>6
    <3>3. Len(q) >= 1
      BY <1>1, <1>2, <1>6
    <3> QED BY <3>2, <3>3, <2>2, <1>6, <1>10, TrashedPathIs DEF AnyPath
  <2> QED BY <2>1, <2>2 DEF Placeable, Item
<1> QED BY <1>6, <1>8, <1>11 DEF q

\* The situation in which VaultBatch::rename moves entries: the folders above the
\* new path are there, nothing is at it, and it is not beneath the old one.
Clear(t, from, to) ==
    /\ Shaped(t) /\ from \in Movable /\ to \in Placeable
    /\ \A q \in Ancestors(to) : HasDir(t, q)
    /\ to \notin DOMAIN t /\ ~Within(from, to)

\* Then no two entries get the same path.
LEMMA NewPathInjective ==
    ASSUME NEW t, NEW from, NEW to, Clear(t, from, to),
           NEW p \in DOMAIN t, NEW q \in DOMAIN t, NewPath(from, to, p) = NewPath(from, to, q)
    PROVE  p = q
<1>1. p \in AnyPath /\ q \in AnyPath /\ from \in AnyPath /\ to \in AnyPath
  BY NamedIsPath DEF Clear, Shaped, Movable, Placeable, Item, AnyPath
<1>2. /\ p \in Seq(Name) /\ q \in Seq(Name) /\ from \in Seq(Name) /\ to \in Seq(Name)
      /\ Len(from) >= 1 /\ Len(to) >= 1
  BY <1>1, TrashedOrLive
<1>3. from \in Movable /\ to \in Placeable
  BY DEF Clear
<1>4. \A r \in DOMAIN t : ~Within(to, r)
  <2> SUFFICES ASSUME NEW r \in DOMAIN t, Within(to, r) PROVE FALSE
    OBVIOUS
  <2>1. r \in Seq(Name)
    BY TrashedOrLive DEF Clear, Shaped
  <2>2. to \in Ancestors(r)
    BY <2>1, <1>2, BeneathHasAncestor DEF Clear
  <2> QED BY <2>2 DEF Clear, Shaped, Connected, HasDir
<1>5. ASSUME NEW r \in DOMAIN t, Within(from, r) PROVE Within(to, NewPath(from, to, r))
  <2>1. r \in AnyPath
    BY DEF Clear, Shaped
  <2>2. r \in Seq(Name) /\ Len(from) <= Len(r)
    BY <2>1, <1>2, <1>5, TrashedOrLive, WithinIs
  <2>3. /\ NewPath(from, to, r) \in AnyPath
        /\ Len(NewPath(from, to, r)) = Len(to) + (Len(r) - Len(from))
        /\ \A i \in 1 .. Len(to) : NewPath(from, to, r)[i] = to[i]
    BY <2>1, <1>3, <1>5, NewPathIs
  <2>4. NewPath(from, to, r) \in Seq(Name) /\ Len(to) <= Len(NewPath(from, to, r))
    BY <2>2, <2>3, <1>2, TrashedOrLive
  <2> QED BY <2>3, <2>4, <1>2, WithinIs
<1>6. CASE ~Within(from, p) /\ ~Within(from, q)
  BY <1>6 DEF NewPath
<1>7. CASE Within(from, p) /\ ~Within(from, q)
  BY <1>4, <1>5, <1>7 DEF NewPath
<1>8. CASE ~Within(from, p) /\ Within(from, q)
  BY <1>4, <1>5, <1>8 DEF NewPath
<1>9. CASE Within(from, p) /\ Within(from, q)
  <2>1. /\ Len(from) <= Len(p) /\ \A i \in 1 .. Len(from) : from[i] = p[i]
        /\ Len(from) <= Len(q) /\ \A i \in 1 .. Len(from) : from[i] = q[i]
    BY <1>2, <1>9, WithinIs
  <2>2. Len(to) + (Len(p) - Len(from)) = Len(to) + (Len(q) - Len(from))
    BY <1>1, <1>3, <1>9, NewPathIs
  <2>3. Len(p) = Len(q)
    BY <1>2, <2>2
  <2>4. \A i \in Len(to) + 1 .. Len(to) + (Len(p) - Len(from)) :
           p[Len(from) + (i - Len(to))] = q[Len(from) + (i - Len(to))]
    BY <1>1, <1>3, <1>9, <2>3, NewPathIs
  <2>5. ASSUME NEW j \in Len(from) + 1 .. Len(p) PROVE p[j] = q[j]
    <3> DEFINE i == Len(to) + (j - Len(from))
    <3>1. i \in Len(to) + 1 .. Len(to) + (Len(p) - Len(from)) /\ Len(from) + (i - Len(to)) = j
      BY <1>2
    <3> QED BY <3>1, <2>4
  <2>6. ASSUME NEW j \in 1 .. Len(p) PROVE p[j] = q[j]
    <3>1. j \in 1 .. Len(from) \/ j \in Len(from) + 1 .. Len(p)
      BY <1>2
    <3>2. j \in 1 .. Len(from) => p[j] = from[j] /\ q[j] = from[j]
      BY <2>1
    <3> QED BY <3>1, <3>2, <2>5
  <2> QED BY <1>2, <2>3, <2>6, SeqEqual
<1> QED BY <1>6, <1>7, <1>8, <1>9

\* Moved renames every entry and keeps its kind.
LEMMA MovedIs ==
    ASSUME NEW t, NEW from, NEW to, Clear(t, from, to)
    PROVE  /\ DOMAIN Moved(t, from, to) = {NewPath(from, to, p) : p \in DOMAIN t}
           /\ \A p \in DOMAIN t : Moved(t, from, to)[NewPath(from, to, p)] = t[p]
<1>1. DOMAIN Moved(t, from, to) = {NewPath(from, to, p) : p \in DOMAIN t}
  BY DEF Moved
<1>2. ASSUME NEW p \in DOMAIN t
      PROVE  Moved(t, from, to)[NewPath(from, to, p)] = t[p]
  <2> DEFINE q == NewPath(from, to, p)
             old == CHOOSE r \in DOMAIN t : NewPath(from, to, r) = q
  <2>1. q \in {NewPath(from, to, r) : r \in DOMAIN t}
    OBVIOUS
  <2>2. Moved(t, from, to)[q] = t[old]
    BY <2>1 DEF Moved
  <2>3. \E r \in DOMAIN t : NewPath(from, to, r) = q
    OBVIOUS
  <2> HIDE DEF q
  <2>4. old \in DOMAIN t /\ NewPath(from, to, old) = q
    BY <2>3
  <2> HIDE DEF old
  <2>5. old = p
    BY <2>4, NewPathInjective DEF q
  <2> QED BY <2>2, <2>5 DEF q
<1> QED BY <1>1, <1>2

\* The renamed tree is one, and holds the same.
LEMMA MovedKeeps ==
    ASSUME NEW t, NEW from, NEW to, Clear(t, from, to)
    PROVE  /\ Shaped(Moved(t, from, to))
           /\ Held(t) \subseteq Held(Moved(t, from, to))
<1> DEFINE u == Moved(t, from, to)
           New(p) == NewPath(from, to, p)
<1>1. DOMAIN u = {New(p) : p \in DOMAIN t} /\ \A p \in DOMAIN t : u[New(p)] = t[p]
  BY MovedIs
<1> HIDE DEF u
<1>3. /\ from \in AnyPath /\ to \in AnyPath /\ from \in Movable /\ to \in Placeable
      /\ DOMAIN t \subseteq AnyPath /\ ~Within(from, to)
  BY NamedIsPath DEF Clear, Movable, Placeable, Item, AnyPath, Shaped
<1>4. /\ from \in Seq(Name) /\ to \in Seq(Name) /\ Len(from) >= 1 /\ Len(to) >= 1
      /\ \A p \in DOMAIN t : p \in Seq(Name)
  BY <1>3, TrashedOrLive
<1>5. \A p \in DOMAIN t : New(p) \in AnyPath
  BY <1>3, NewPathIs DEF NewPath
<1>6. ASSUME NEW a, HasDir(t, a), ~Within(from, a) PROVE HasDir(u, a)
  BY <1>1, <1>6 DEF HasDir, NewPath
<1>7. ASSUME NEW p \in DOMAIN t, NEW a \in Ancestors(New(p)) PROVE HasDir(u, a)
  <2>1. CASE ~Within(from, p)
    <3>1. a \in Ancestors(p)
      BY <2>1 DEF NewPath
    <3>2. HasDir(t, a)
      BY <3>1 DEF Clear, Shaped, Connected
    <3>3. ~Within(from, a)
      BY <2>1, <3>1, <1>4, WithinOfAncestor
    <3> QED BY <3>2, <3>3, <1>6
  <2>2. CASE Within(from, p)
    <3> DEFINE q == New(p)
    <3>1. /\ q \in AnyPath /\ Len(q) = Len(to) + (Len(p) - Len(from))
          /\ \A i \in 1 .. Len(to) : q[i] = to[i]
          /\ \A i \in Len(to) + 1 .. Len(to) + (Len(p) - Len(from)) : q[i] = p[Len(from) + (i - Len(to))]
      BY <2>2, <1>3, NewPathIs
    <3>2. a \in Ancestors(q)
      BY <1>7
    <3> HIDE DEF q
    <3>3. q \in Seq(Name)
      BY <3>1, TrashedOrLive
    <3>4. a \in Seq(Name) /\ Len(a) \in 1 .. Len(q) - 1 /\ \A i \in 1 .. Len(a) : a[i] = q[i]
      BY <3>2, <3>3, AncestorsAre
    <3>5. p \in Seq(Name) /\ Len(from) <= Len(p) /\ \A i \in 1 .. Len(from) : from[i] = p[i]
      BY <2>2, <1>4, WithinIs
    <3>6. CASE Len(a) < Len(to)
      <4>1. Len(a) \in 1 .. Len(to) - 1 /\ \A i \in 1 .. Len(a) : a[i] = to[i]
        BY <3>1, <3>4, <3>6, <1>4
      <4>2. a \in Ancestors(to)
        BY <4>1, <3>4, <1>4, AncestorsAre
      <4>3. HasDir(t, a)
        BY <4>2 DEF Clear
      <4>4. ~Within(from, a)
        BY <4>2, <1>3, <1>4, WithinOfAncestor
      <4> QED BY <4>3, <4>4, <1>6
    <3>7. CASE ~(Len(a) < Len(to))
      <4> DEFINE n == Len(from) + (Len(a) - Len(to))
                 b == SubSeq(p, 1, n)
      <4>1. n \in Len(from) .. Len(p) - 1 /\ n \in 1 .. Len(p) - 1
        BY <3>1, <3>4, <3>5, <3>7, <1>4
      <4>2. b \in Ancestors(p)
        BY <4>1 DEF Ancestors
      <4>3. b \in Seq(Name) /\ Len(b) = n /\ \A i \in 1 .. n : b[i] = p[i]
        BY <4>1, <3>5
      <4> HIDE DEF b
      <4>4. Within(from, b)
        <5>1. Len(from) <= Len(b) /\ \A i \in 1 .. Len(from) : from[i] = b[i]
          BY <4>1, <4>3, <3>5, <1>4
        <5> QED BY <5>1, <4>3, <1>4, WithinIs
      <4>5. HasDir(t, b)
        BY <4>2 DEF Clear, Shaped, Connected
      <4>6. b \in DOMAIN t
        BY <4>5 DEF HasDir
      <4>7. /\ New(b) \in AnyPath /\ Len(New(b)) = Len(to) + (Len(b) - Len(from))
            /\ \A i \in 1 .. Len(to) : New(b)[i] = to[i]
            /\ \A i \in Len(to) + 1 .. Len(to) + (Len(b) - Len(from)) : New(b)[i] = b[Len(from) + (i - Len(to))]
        BY <4>4, <4>6, <1>3, NewPathIs
      <4>8. New(b) \in Seq(Name) /\ Len(New(b)) = Len(a)
        BY <4>3, <4>7, <3>4, <1>4, TrashedOrLive
      <4>9. ASSUME NEW i \in 1 .. Len(a) PROVE New(b)[i] = a[i]
        <5>1. CASE i <= Len(to)
          BY <5>1, <4>7, <3>1, <3>4, <1>4
        <5>2. CASE i > Len(to)
          <6>1. /\ i \in Len(to) + 1 .. Len(to) + (Len(b) - Len(from))
                /\ i \in Len(to) + 1 .. Len(to) + (Len(p) - Len(from))
                /\ Len(from) + (i - Len(to)) \in 1 .. n
            BY <5>2, <4>1, <4>3, <3>1, <3>4, <3>5, <1>4
          <6>2. New(b)[i] = p[Len(from) + (i - Len(to))]
            BY <6>1, <4>3, <4>7
          <6> QED BY <6>1, <6>2, <3>1, <3>4
        <5> QED BY <5>1, <5>2, <1>4, <3>4
      <4>10. New(b) = a
        BY <4>8, <4>9, <3>4
      <4> QED BY <4>5, <4>6, <4>10, <1>1 DEF HasDir
    <3> QED BY <3>6, <3>7
  <2> QED BY <2>1, <2>2
<1>8. Connected(u)
  BY <1>1, <1>7 DEF Connected
<1>9. IsFiniteSet(DOMAIN u)
  <2> DEFINE f == [p \in DOMAIN t |-> New(p)]
  <2>1. f \in Surjection(DOMAIN t, DOMAIN u)
    BY <1>1 DEF Surjection
  <2> QED BY <2>1, FS_Surjection DEF Clear, Shaped
<1>10. \A q \in DOMAIN u : u[q] \in Documents \cup {"Dir"}
  BY <1>1 DEF Clear, Shaped
<1>11. \A p \in FilesIn(t) : New(p) \in FilesIn(u) /\ u[New(p)] = t[p]
  BY <1>1 DEF FilesIn
<1>12. Held(t) \subseteq Held(u)
  BY <1>11 DEF Held
<1>13. DOMAIN u \subseteq AnyPath
  BY <1>1, <1>5
<1> QED BY <1>8, <1>9, <1>10, <1>12, <1>13 DEF u, Shaped

-------------------------------------------------------------------------------
(* rename_in_vault.  The batches it goes through exist: the recursion is over    *)
(* the pairs done so far.                                                       *)

LEMMA RenameAllIs ==
    ASSUME NEW t, NEW pairs, Len(pairs) \in Nat
    PROVE  \E g : /\ g[0] = Candidate(t)
                  /\ \A n \in 1 .. Len(pairs) : g[n] = RenameNext(g[n - 1], pairs[n])
                  /\ RenameAll(t, pairs) = g[Len(pairs)]
<1> DEFINE Step(g, n) == IF n = 0 THEN Candidate(t) ELSE RenameNext(g[n - 1], pairs[n])
           P == {m \in Nat : \E g : g = [n \in 0 .. m |-> Step(g, n)]}
<1>1. 0 \in P
  <2> DEFINE g == [n \in 0 .. 0 |-> Candidate(t)]
  <2>1. g = [n \in 0 .. 0 |-> Step(g, n)]
    OBVIOUS
  <2> QED BY <2>1
<1>2. ASSUME NEW m \in Nat, m \in P PROVE m + 1 \in P
  <2>1. PICK g : g = [n \in 0 .. m |-> Step(g, n)]
    BY <1>2
  <2> DEFINE h == [n \in 0 .. m + 1 |-> IF n = m + 1 THEN RenameNext(g[m], pairs[m + 1]) ELSE g[n]]
  <2>2. \A n \in 0 .. m : h[n] = g[n] /\ g[n] = Step(g, n)
    BY <2>1
  <2>3. h[m + 1] = RenameNext(h[m], pairs[m + 1]) /\ h[0] = Candidate(t)
    BY <2>2
  <2>4. \A n \in 1 .. m : h[n] = RenameNext(h[n - 1], pairs[n])
    BY <2>2
  <2> HIDE DEF h
  <2>5. \A n \in 0 .. m + 1 : h[n] = Step(h, n)
    BY <2>3, <2>4
  <2>6. h = [n \in 0 .. m + 1 |-> Step(h, n)]
    BY <2>5 DEF h
  <2>7. \E k : k = [n \in 0 .. m + 1 |-> Step(k, n)]
    BY <2>6
  <2> QED BY <2>7
<1>3. Len(pairs) \in P
  BY <1>1, <1>2, InductionOverNat
<1>4. PICK f : f = [n \in 0 .. Len(pairs) |-> Step(f, n)]
  BY <1>3
<1> DEFINE g == CHOOSE g : g = [n \in 0 .. Len(pairs) |-> Step(g, n)]
<1>5. g = [n \in 0 .. Len(pairs) |-> Step(g, n)]
  BY <1>4
<1>6. RenameAll(t, pairs) = g[Len(pairs)]
  BY DEF RenameAll
<1> HIDE DEF g
<1>7. g[0] = Candidate(t) /\ \A n \in 1 .. Len(pairs) : g[n] = RenameNext(g[n - 1], pairs[n])
  BY <1>5
<1> QED BY <1>6, <1>7

IsBatch(b) == {"ok", "tree"} \subseteq DOMAIN b

LEMMA BatchFields ==
    ASSUME NEW t
    PROVE  /\ IsBatch(Candidate(t)) /\ Candidate(t).tree = t /\ Candidate(t).ok
           /\ \A b : IsBatch(b) => IsBatch(Refused(b)) /\ Refused(b).tree = b.tree /\ ~Refused(b).ok
<1>1. IsBatch(Candidate(t)) /\ Candidate(t).tree = t /\ Candidate(t).ok
  BY DEF IsBatch, Candidate
<1>2. ASSUME NEW b, IsBatch(b)
      PROVE  IsBatch(Refused(b)) /\ Refused(b).tree = b.tree /\ ~Refused(b).ok
  BY <1>2 DEF IsBatch, Refused
<1> QED BY <1>1, <1>2

\* A path the batch can be asked to rename to: one that fits, or one it refuses.
Target(from, to) == NormalizeStoredPath(from) /\ NormalizePath(to) => to \in Placeable

\* VaultBatch::rename, refused or not.
LEMMA RenameKeeps ==
    ASSUME NEW b, IsBatch(b), Shaped(b.tree),
           NEW from \in Movable, NEW to, Target(from, to)
    PROVE  /\ IsBatch(Rename(b, from, to))
           /\ Shaped(Rename(b, from, to).tree)
           /\ Held(b.tree) \subseteq Held(Rename(b, from, to).tree)
<1> DEFINE t == b.tree
           c == Rename(b, from, to)
           fits == NormalizeStoredPath(from) /\ NormalizePath(to)
           blocked == Within(from, to) \/ from \notin DOMAIN t \/ to \in DOMAIN t \/ DirsBlocked(t, to)
<1>1. CASE ~fits \/ from = to \/ blocked
  <2>1. c = Refused(b) \/ c = b
    BY <1>1 DEF Rename
  <2> HIDE DEF c
  <2>2. IsBatch(c) /\ c.tree = b.tree
    BY <2>1, BatchFields
  <2> QED BY <2>2 DEF c
<1>2. CASE fits /\ from # to /\ ~blocked
  <2> DEFINE u == EnsureDirs(t, to)
  <2>1. c = Candidate(Moved(u, from, to))
    BY <1>2 DEF Rename
  <2>2. to \in Placeable /\ to \in AnyPath
    BY <1>2, NamedIsPath DEF Target, Placeable, Item, AnyPath
  <2>3. /\ Shaped(u) /\ \A q \in Ancestors(to) : HasDir(u, q)
        /\ DOMAIN u = DOMAIN t \cup Ancestors(to) /\ Held(u) = Held(t)
    BY <1>2, <2>2, EnsureDirsKeeps
  <2>4. to \notin Ancestors(to)
    <3>1. to \in Seq(Name)
      BY <2>2, TrashedOrLive
    <3> QED BY <3>1, AncestorsAre
  <2> HIDE DEF u, c
  <2>5. Clear(u, from, to)
    BY <1>2, <2>2, <2>3, <2>4 DEF Clear
  <2>6. Shaped(Moved(u, from, to)) /\ Held(u) \subseteq Held(Moved(u, from, to))
    BY <2>5, MovedKeeps
  <2>7. IsBatch(c) /\ c.tree = Moved(u, from, to)
    BY <2>1, BatchFields
  <2> QED BY <2>3, <2>6, <2>7 DEF c
<1> QED BY <1>1, <1>2

\* rename_in_vault, whatever happens to its pairs on the way.
LEMMA RenameAllKeeps ==
    ASSUME NEW t, Shaped(t), NEW pairs, Len(pairs) \in Nat,
           \A n \in 1 .. Len(pairs) : pairs[n][1] \in Movable /\ Target(pairs[n][1], pairs[n][2])
    PROVE  /\ Shaped(RenameAll(t, pairs).tree)
           /\ Held(t) \subseteq Held(RenameAll(t, pairs).tree)
<1>1. PICK g : /\ g[0] = Candidate(t)
               /\ \A n \in 1 .. Len(pairs) : g[n] = RenameNext(g[n - 1], pairs[n])
               /\ RenameAll(t, pairs) = g[Len(pairs)]
  BY RenameAllIs
<1> DEFINE Good(b) == IsBatch(b) /\ Shaped(b.tree) /\ Held(t) \subseteq Held(b.tree)
           P == {m \in Nat : m <= Len(pairs) => Good(g[m])}
<1>2. 0 \in P
  <2>1. Good(g[0])
    BY <1>1, BatchFields
  <2> QED BY <2>1
<1>3. ASSUME NEW m \in Nat, m \in P PROVE m + 1 \in P
  <2> SUFFICES ASSUME m + 1 <= Len(pairs) PROVE Good(g[m + 1])
    OBVIOUS
  <2>1. Good(g[m])
    BY <1>3
  <2>2. m + 1 \in 1 .. Len(pairs) /\ (m + 1) - 1 = m
    OBVIOUS
  <2>3. g[m + 1] = RenameNext(g[m], pairs[m + 1])
    BY <1>1, <2>2
  <2> HIDE DEF Good
  <2>4. CASE ~g[m].ok
    BY <2>1, <2>3, <2>4 DEF RenameNext
  <2>5. CASE g[m].ok
    <3>1. g[m + 1] = Rename(g[m], pairs[m + 1][1], pairs[m + 1][2])
      BY <2>3, <2>5 DEF RenameNext
    <3>2. pairs[m + 1][1] \in Movable /\ Target(pairs[m + 1][1], pairs[m + 1][2])
      BY <2>2
    <3> QED BY <2>1, <3>1, <3>2, RenameKeeps DEF Good
  <2> QED BY <2>4, <2>5
<1>4. Len(pairs) \in P
  BY <1>2, <1>3, InductionOverNat
<1> QED BY <1>1, <1>4

\* VaultBatch::remove leaves what is not beneath the path.
LEMMA RemoveKeeps ==
    ASSUME NEW t, Shaped(t), NEW p \in AnyPath
    PROVE  LET u == RemoveEntry(Candidate(t), p).tree
           IN  /\ Shaped(u)
               /\ IsTrashed(p) => \A q \in FilesIn(t) : ~IsTrashed(q) => t[q] \in Held(u)
<1> DEFINE c == RemoveEntry(Candidate(t), p)
           u == c.tree
<1>1. p \in Seq(Name) /\ \A r \in DOMAIN t : r \in AnyPath /\ r \in Seq(Name)
  BY TrashedOrLive DEF Shaped
<1>2. CASE ~NormalizeStoredPath(p)
  <2>1. c = Refused(Candidate(t))
    BY <1>2 DEF RemoveEntry
  <2>2. c.tree = t
    BY <2>1, BatchFields
  <2> QED BY <2>2 DEF Held
<1>3. CASE NormalizeStoredPath(p)
  <2> DEFINE v == [q \in {r \in DOMAIN t : ~Within(p, r)} |-> t[q]]
  <2>1. c = Candidate(v)
    BY <1>3, BatchFields DEF RemoveEntry
  <2>2. c.tree = v
    BY <2>1, BatchFields
  <2>3. DOMAIN v = {r \in DOMAIN t : ~Within(p, r)} /\ \A q \in DOMAIN v : v[q] = t[q]
    OBVIOUS
  <2> HIDE DEF v, c
  <2>4. Connected(v)
    <3> SUFFICES ASSUME NEW r \in DOMAIN v, NEW a \in Ancestors(r) PROVE HasDir(v, a)
      BY DEF Connected
    <3>1. HasDir(t, a)
      BY <2>3 DEF Shaped, Connected
    <3>2. ~Within(p, a)
      BY <1>1, <2>3, WithinOfAncestor
    <3> QED BY <3>1, <3>2, <2>3 DEF HasDir
  <2>5. IsFiniteSet(DOMAIN v)
    BY <2>3, FS_Subset DEF Shaped
  <2>6. Shaped(v)
    BY <2>3, <2>4, <2>5 DEF Shaped
  <2>7. ASSUME IsTrashed(p), NEW r \in DOMAIN t, ~IsTrashed(r) PROVE r \in DOMAIN v
    <3>1. Len(p) >= 1
      BY TrashedOrLive
    <3>2. Within(p, r) => p[1] = r[1]
      BY <3>1, <1>1, WithinIs
    <3> QED BY <3>2, <2>3, <2>7 DEF IsTrashed
  <2>8. IsTrashed(p) => \A q \in FilesIn(t) : ~IsTrashed(q) => q \in FilesIn(v) /\ v[q] = t[q]
    BY <2>3, <2>7 DEF FilesIn
  <2> QED BY <2>2, <2>6, <2>8 DEF c, Held
<1> QED BY <1>2, <1>3

\* VaultBatch::mkdir at a path of names, or one it refuses.
LEMMA MkdirKeeps ==
    ASSUME NEW t, Shaped(t), NEW p \in Seq(Label)
    PROVE  Shaped(Mkdir(Candidate(t), p).tree) /\ Held(t) \subseteq Held(Mkdir(Candidate(t), p).tree)
<1> DEFINE c == Candidate(t)
           b == Mkdir(c, p)
<1>1. IsBatch(c) /\ c.tree = t
  BY BatchFields
<1> HIDE DEF c
<1>2. \/ b = Refused(c) \/ b = c
      \/ /\ NormalizePath(p) /\ p \notin DOMAIN t /\ ~DirsBlocked(t, p)
         /\ b = Candidate(Place(EnsureDirs(t, p), p, "Dir"))
  BY <1>1 DEF Mkdir, HasFile, HasDir
<1> HIDE DEF b
<1>3. CASE b = Refused(c) \/ b = c
  <2>1. b.tree = t
    BY <1>1, <1>3, BatchFields
  <2> QED BY <2>1 DEF b, c
<1>4. CASE /\ NormalizePath(p) /\ p \notin DOMAIN t /\ ~DirsBlocked(t, p)
           /\ b = Candidate(Place(EnsureDirs(t, p), p, "Dir"))
  <2>1. b.tree = Place(EnsureDirs(t, p), p, "Dir")
    BY <1>4, BatchFields
  <2>2. p \in AnyPath
    BY <1>4, NamedIsPath DEF NormalizePath, NormalizeStoredPath, NamedPath
  <2> QED BY <2>1, <2>2, <1>4, PlaceKeeps DEF b, c
<1> QED BY <1>2, <1>3, <1>4

\* VaultBatch::put_file and put_bytes: what was in a file at the path is replaced,
\* the rest stays.
LEMMA PutKeeps ==
    ASSUME NEW t, Shaped(t), NEW p \in Seq(Label), NEW doc \in Documents
    PROVE  LET b == Put(Candidate(t), p, doc)
           IN  /\ Shaped(b.tree)
               /\ \A q \in FilesIn(t) : q # p => t[q] \in Held(b.tree)
               /\ b.ok => doc \in Held(b.tree)
<1> DEFINE c == Candidate(t)
           b == Put(c, p, doc)
<1>1. IsBatch(c) /\ c.tree = t
  BY BatchFields
<1> HIDE DEF c
<1>2. \/ b = Refused(c)
      \/ HasFile(t, p) /\ b = Candidate(Place(t, p, doc))
      \/ /\ NormalizePath(p) /\ p \notin DOMAIN t /\ ~DirsBlocked(t, p)
         /\ b = Candidate(Place(EnsureDirs(t, p), p, doc))
  BY <1>1 DEF Put, HasFile, HasDir
<1> HIDE DEF b
<1>3. CASE b = Refused(c)
  <2>1. b.tree = t /\ ~b.ok
    BY <1>1, <1>3, BatchFields
  <2> QED BY <2>1 DEF b, c, Held
<1>4. CASE HasFile(t, p) /\ b = Candidate(Place(t, p, doc))
  <2>1. b.tree = Place(t, p, doc)
    BY <1>4, BatchFields
  <2> QED BY <2>1, <1>4, ReplaceKeeps DEF b, c
<1>5. CASE /\ NormalizePath(p) /\ p \notin DOMAIN t /\ ~DirsBlocked(t, p)
           /\ b = Candidate(Place(EnsureDirs(t, p), p, doc))
  <2> DEFINE v == Place(EnsureDirs(t, p), p, doc)
  <2>1. b.tree = v
    BY <1>5, BatchFields
  <2>2. p \in AnyPath
    BY <1>5, NamedIsPath DEF NormalizePath, NormalizeStoredPath, NamedPath
  <2>3. Shaped(v) /\ Held(t) \subseteq Held(v)
    BY <2>2, <1>5, PlaceKeeps
  <2>4. p \in FilesIn(v) /\ v[p] = doc
    BY TreeAssumption DEF Place, FilesIn
  <2> HIDE DEF v
  <2> QED BY <2>1, <2>3, <2>4 DEF b, c, Held
<1> QED BY <1>2, <1>3, <1>4, <1>5

-------------------------------------------------------------------------------
(* The names the browser makes up.                                           *)

LEMMA EntriesInNat == MaxEntries \in Nat /\ MaxEntries >= 1
BY TreeAssumption

\* Of more candidates than there are entries, one is free.
LEMMA OneIsFree ==
    ASSUME NEW D, IsFiniteSet(D), Cardinality(D) <= MaxEntries, NEW f,
           \A m, n \in 1 .. MaxEntries + 1 : f[m] = f[n] => m = n
    PROVE  \E n \in 1 .. MaxEntries + 1 : f[n] \notin D
<1> DEFINE N == 1 .. MaxEntries + 1
<1> SUFFICES ASSUME \A n \in N : f[n] \in D PROVE FALSE
  OBVIOUS
<1>1. IsFiniteSet(N) /\ Cardinality(N) = MaxEntries + 1
  BY EntriesInNat, FS_Interval
<1>2. Cardinality(D) \in Nat
  BY FS_CardinalityType
<1>3. Cardinality(D) < Cardinality(N)
  BY <1>1, <1>2, EntriesInNat
<1> DEFINE F == [n \in N |-> f[n]]
<1>4. F \in [N -> D] /\ \A n \in N : F[n] = f[n]
  OBVIOUS
<1> HIDE DEF N, F
<1>5. \E m, n \in N : m # n /\ F[m] = F[n]
  BY <1>1, <1>3, <1>4, FS_PigeonHole
<1> QED BY <1>4, <1>5 DEF N

\* The least free candidate is free.
LEMMA LeastFree ==
    ASSUME NEW D, IsFiniteSet(D), Cardinality(D) <= MaxEntries, NEW f,
           \A m, n \in 1 .. MaxEntries + 1 : f[m] = f[n] => m = n
    PROVE  LET k == Min({n \in 1 .. MaxEntries + 1 : f[n] \notin D})
           IN  k \in Nat /\ k \in 1 .. MaxEntries + 1 /\ f[k] \notin D
<1> DEFINE T == {n \in 1 .. MaxEntries + 1 : f[n] \notin D}
<1>1. T \in SUBSET Nat /\ T # {}
  BY OneIsFree, EntriesInNat
<1> HIDE DEF T
<1>2. Min(T) \in T
  BY <1>1, MinIsMember
<1> QED BY <1>2, EntriesInNat DEF T

LEMMA MarkedIs ==
    ASSUME NEW name \in Label, NEW kind \in {"copy", "restored"}, NEW n \in Nat
    PROVE  /\ Marked(name, kind, n) \in Label
           /\ Marked(name, kind, n).base = name.base
           /\ Marked(name, kind, n).orig = <<>>
           /\ \A m \in Nat : Marked(name, kind, m) = Marked(name, kind, n) => m = n
<1>1. name.marks \in Seq({"copy", "restored"} \X Nat) /\ name.orig = <<>>
  BY DEF Label
<1>2. \A m \in Nat : <<kind, m>> \in {"copy", "restored"} \X Nat
  OBVIOUS
<1>3. \A m \in Nat : Append(name.marks, <<kind, m>>) \in Seq({"copy", "restored"} \X Nat)
  BY <1>1, <1>2
<1>4. \A m \in Nat : /\ Marked(name, kind, m) \in Label
                     /\ Marked(name, kind, m).base = name.base
                     /\ Marked(name, kind, m).orig = name.orig
                     /\ Marked(name, kind, m).marks = Append(name.marks, <<kind, m>>)
  BY <1>3 DEF Marked, Label
<1>5. ASSUME NEW m \in Nat, Append(name.marks, <<kind, m>>) = Append(name.marks, <<kind, n>>)
      PROVE  m = n
  <2>1. <<kind, m>> = <<kind, n>>
    BY <1>1, <1>2, <1>5, AppendProperties
  <2> QED BY <2>1
<1> QED BY <1>1, <1>4, <1>5

LEMMA PlainIsLabel ==
    ASSUME NEW b \in Bases
    PROVE  Plain(b) \in Label
<1>1. <<>> \in Seq({"copy", "restored"} \X Nat)
  OBVIOUS
<1> QED BY <1>1 DEF Plain, Label

\* A path made from a folder and a name.
LEMMA AppendIsNamed ==
    ASSUME NEW d \in Seq(Label), NEW name \in Label
    PROVE  Append(d, name) \in NamedPath
<1> DEFINE p == Append(d, name)
<1>1. p \in Seq(Label) /\ Len(p) = Len(d) + 1 /\ Len(d) \in Nat
  OBVIOUS
<1> HIDE DEF p
<1>2. p # <<>>
  BY <1>1
<1> QED BY <1>1, <1>2 DEF NamedPath, p

LEMMA ParentIsNamed ==
    ASSUME NEW p \in NamedPath
    PROVE  /\ ParentDir(p) \in Seq(Label) /\ Len(ParentDir(p)) = Len(p) - 1
           /\ \A i \in 1 .. Len(p) - 1 : ParentDir(p)[i] = p[i]
           /\ LeafName(p) \in Label /\ LeafName(p) = p[Len(p)] /\ Len(p) >= 1
<1>1. p \in Seq(Label) /\ p # <<>>
  BY DEF NamedPath
<1>2. Len(p) >= 1 /\ Len(p) \in Nat
  BY <1>1
<1>3. /\ SubSeq(p, 1, Len(p) - 1) \in Seq(Label) /\ Len(SubSeq(p, 1, Len(p) - 1)) = Len(p) - 1
      /\ \A i \in 1 .. Len(p) - 1 : SubSeq(p, 1, Len(p) - 1)[i] = p[i]
  BY <1>1, <1>2
<1> QED BY <1>1, <1>2, <1>3 DEF ParentDir, LeafName, Front, Last

\* normalize_path: a sequence of names.
LEMMA SpelledIsNamed ==
    ASSUME NEW d \in Seq(Label), NEW spelling, spelling.parts \in Seq(Bases)
    PROVE  Spelled(d, spelling).path \in Seq(Label)
<1> DEFINE tail == [i \in DOMAIN spelling.parts |-> Plain(spelling.parts[i])]
<1>1. \A i \in 1 .. Len(spelling.parts) : Plain(spelling.parts[i]) \in Label
  BY PlainIsLabel, ElementOfSeq
<1>2. DOMAIN spelling.parts = 1 .. Len(spelling.parts) /\ Len(spelling.parts) \in Nat
  OBVIOUS
<1>3. tail \in Seq(Label)
  BY <1>1, <1>2, IsASeq
<1> HIDE DEF tail
<1>4. d \o tail \in Seq(Label)
  BY <1>3, ConcatProperties
<1> QED BY <1>4 DEF Spelled, tail

\* unique_name_in: a path of names.
LEMMA UniqueNameIsNamed ==
    ASSUME NEW D, <<>> \notin D, NEW p \in Seq(Label)
    PROVE  UniqueNameIn(D, p) \in Seq(Label)
<1> DEFINE dots == {i \in DOMAIN p : p[i].base \in Dotted}
           at == IF dots = {} THEN Len(p) ELSE Max(dots)
           With(n) == [p EXCEPT ![at] = Marked(@, "copy", n)]
           free == {n \in 1 .. MaxCopies : With(n) \notin D}
<1> SUFFICES ASSUME p \in D, free # {} PROVE UniqueNameIn(D, p) \in Seq(Label)
  BY DEF UniqueNameIn
<1>1. Len(p) \in Nat /\ Len(p) >= 1 /\ DOMAIN p = 1 .. Len(p)
  OBVIOUS
<1>2. at \in 1 .. Len(p)
  <2>1. CASE dots = {}
    BY <1>1, <2>1
  <2>2. CASE dots # {}
    <3>1. dots \in SUBSET Nat /\ \A i \in dots : i <= Len(p)
      BY <1>1
    <3> HIDE DEF dots
    <3>2. \E i \in dots : \A j \in dots : j <= i
      BY <1>1, <3>1, <2>2, GreatestNumber
    <3>3. \E i \in dots : \A j \in dots : i >= j
      BY <3>1, <3>2
    <3>4. Max(dots) \in dots
      BY <3>3 DEF Max
    <3> QED BY <3>4, <2>2, <1>1 DEF dots
  <2> QED BY <2>1, <2>2
<1>3. UniqueNameIn(D, p) = With(Min(free))
  BY DEF UniqueNameIn
<1>4. Min(free) \in free
  <2>1. free \in SUBSET Nat
    OBVIOUS
  <2> HIDE DEF free
  <2> QED BY <2>1, MinIsMember
<1>5. Min(free) \in Nat
  BY <1>4
<1> HIDE DEF at, free
<1>6. p[at] \in Label
  BY <1>1, <1>2
<1>7. Marked(p[at], "copy", Min(free)) \in Label
  BY <1>5, <1>6, MarkedIs
<1>8. With(Min(free)) \in Seq(Label)
  BY <1>1, <1>2, <1>7, ExceptSeq
<1> QED BY <1>3, <1>8

\* dedup_path: a free path that differs from the original one at most in the marks of
\* its last name.
LEMMA DedupPathIs ==
    ASSUME NEW t, IsFiniteSet(DOMAIN t), Cardinality(DOMAIN t) <= MaxEntries, NEW p \in NamedPath
    PROVE  /\ DedupPath(t, p) \in NamedPath /\ DedupPath(t, p) \notin DOMAIN t
           /\ ~IsTrashed(p) => ~IsTrashed(DedupPath(t, p))
           /\ NormalizePath(p) => NormalizePath(DedupPath(t, p))
           /\ Ancestors(DedupPath(t, p)) = Ancestors(p)
<1> DEFINE With(n) == Append(ParentDir(p), Marked(LeafName(p), "restored", n))
           f == [n \in Nat |-> With(n)]
           k == Min({n \in 1 .. MaxEntries + 1 : f[n] \notin DOMAIN t})
<1>1. CASE p \notin DOMAIN t
  BY <1>1 DEF DedupPath
<1>2. CASE p \in DOMAIN t
  <2>1. /\ ParentDir(p) \in Seq(Label) /\ Len(ParentDir(p)) = Len(p) - 1
        /\ \A i \in 1 .. Len(p) - 1 : ParentDir(p)[i] = p[i]
        /\ LeafName(p) \in Label /\ LeafName(p) = p[Len(p)] /\ Len(p) >= 1
    BY ParentIsNamed
  <2>2. p \in Seq(Label)
    BY DEF NamedPath
  <2>3. ASSUME NEW n \in Nat
        PROVE  /\ With(n) \in NamedPath /\ With(n) \in Seq(Label) /\ Len(With(n)) = Len(p)
               /\ \A i \in 1 .. Len(p) - 1 : With(n)[i] = p[i]
               /\ With(n)[Len(p)] = Marked(LeafName(p), "restored", n)
    <3>1. Marked(LeafName(p), "restored", n) \in Label
      BY <2>1, MarkedIs
    <3>2. With(n) \in NamedPath
      BY <3>1, <2>1, AppendIsNamed
    <3>3. With(n) \in Seq(Label) /\ Len(With(n)) = Len(p)
      BY <3>1, <2>1, <2>2
    <3>4. \A i \in 1 .. Len(p) - 1 : With(n)[i] = p[i]
      BY <3>1, <2>1, <2>2
    <3>5. With(n)[Len(p)] = Marked(LeafName(p), "restored", n)
      BY <3>1, <2>1, <2>2
    <3> QED BY <3>2, <3>3, <3>4, <3>5
  <2>4. \A m, n \in 1 .. MaxEntries + 1 : f[m] = f[n] => m = n
    <3> SUFFICES ASSUME NEW m \in 1 .. MaxEntries + 1, NEW n \in 1 .. MaxEntries + 1, f[m] = f[n]
                 PROVE  m = n
      OBVIOUS
    <3>1. m \in Nat /\ n \in Nat
      BY EntriesInNat
    <3>2. With(m) = With(n)
      BY <3>1
    <3>3. Marked(LeafName(p), "restored", m) = Marked(LeafName(p), "restored", n)
      BY <3>1, <3>2, <2>3
    <3> QED BY <3>1, <3>3, <2>1, MarkedIs
  <2> HIDE DEF f, With
  <2>5. k \in Nat /\ k \in 1 .. MaxEntries + 1 /\ f[k] \notin DOMAIN t
    BY <2>4, LeastFree
  <2>6. {n \in 1 .. MaxEntries + 1 : f[n] \notin DOMAIN t}
          = {n \in 1 .. MaxEntries + 1 : With(n) \notin DOMAIN t}
    BY EntriesInNat DEF f
  <2> HIDE DEF k
  <2> DEFINE q == DedupPath(t, p)
  <2>7. q = With(k)
    BY <1>2, <2>6 DEF DedupPath, With, k
  <2>8. q \notin DOMAIN t
    BY <2>5, <2>7 DEF f
  <2> HIDE DEF q
  <2>9. /\ q \in NamedPath /\ q \in Seq(Label) /\ Len(q) = Len(p)
        /\ \A i \in 1 .. Len(p) - 1 : q[i] = p[i]
        /\ q[Len(p)] = Marked(LeafName(p), "restored", k)
    BY <2>3, <2>5, <2>7
  <2>10. ASSUME NormalizePath(p) PROVE NormalizePath(q)
    <3>1. q # <<>> /\ Len(q) <= MaxDepth
      BY <2>10, <2>9 DEF NormalizePath, NormalizeStoredPath, NamedPath
    <3>2. ASSUME NEW i \in 1 .. Len(p) PROVE BasesOf(q[i]) \cap Deceptive = {}
      <4>1. BasesOf(p[i]) \cap Deceptive = {}
        BY <2>2, <2>10 DEF NormalizePath, Truthful
      <4>2. CASE i # Len(p)
        BY <4>1, <4>2, <2>9, <2>2
      <4>3. CASE i = Len(p)
        <5>1. q[i].base = p[i].base /\ q[i].orig = <<>> /\ p[i].orig = <<>>
          BY <4>3, <2>1, <2>5, <2>9, MarkedIs DEF Label
        <5> QED BY <5>1, <4>1 DEF BasesOf
      <4> QED BY <4>2, <4>3
    <3> QED BY <3>1, <3>2, <2>9 DEF NormalizePath, NormalizeStoredPath, Truthful
  <2>11. Ancestors(q) = Ancestors(p)
    <3>1. ASSUME NEW a PROVE a \in Ancestors(q) <=> a \in Ancestors(p)
      <4>1. a \in Ancestors(q) <=> a \in Seq(Label) /\ Len(a) \in 1 .. Len(p) - 1 /\ \A i \in 1 .. Len(a) : a[i] = q[i]
        BY <2>9, AncestorsAre
      <4>2. a \in Ancestors(p) <=> a \in Seq(Label) /\ Len(a) \in 1 .. Len(p) - 1 /\ \A i \in 1 .. Len(a) : a[i] = p[i]
        BY <2>2, AncestorsAre
      <4>3. ASSUME a \in Seq(Label), Len(a) \in 1 .. Len(p) - 1
            PROVE  \A i \in 1 .. Len(a) : p[i] = q[i]
        BY <4>3, <2>2, <2>9
      <4> QED BY <4>1, <4>2, <4>3
    <3> QED BY <3>1
  <2>12. ASSUME ~IsTrashed(p) PROVE ~IsTrashed(q)
    <3>1. CASE Len(p) = 1
      <4>1. q[1].marks = Append(LeafName(p).marks, <<"restored", k>>)
        BY <3>1, <2>9, <2>1 DEF Marked, Label
      <4>2. LeafName(p).marks \in Seq({"copy", "restored"} \X Nat)
        BY <2>1 DEF Label
      <4>3. q[1].marks # <<>>
        <5>1. <<"restored", k>> \in {"copy", "restored"} \X Nat
          BY <2>5
        <5> HIDE DEF k
        <5>2. Len(q[1].marks) = Len(LeafName(p).marks) + 1 /\ Len(LeafName(p).marks) \in Nat
          BY <4>1, <4>2, <5>1
        <5>3. Len(q[1].marks) # 0
          BY <5>2
        <5> QED BY <5>3
      <4> QED BY <4>3 DEF IsTrashed, TrashDir, Plain
    <3>2. CASE Len(p) # 1
      <4>1. 1 \in 1 .. Len(p) - 1
        BY <3>2, <2>1, <2>2
      <4> QED BY <4>1, <2>9, <2>12 DEF IsTrashed
    <3> QED BY <3>1, <3>2
  <2> QED BY <2>8, <2>9, <2>10, <2>11, <2>12 DEF q
<1> QED BY <1>1, <1>2

LEMMA TwoNames == ASSUME NEW a, NEW b PROVE <<a>> \o <<b>> = <<a, b>>
<1>1. <<a>> \in Seq({a, b}) /\ <<b>> \in Seq({a, b}) /\ <<a, b>> \in Seq({a, b})
  OBVIOUS
<1>2. <<a>> \o <<b>> \in Seq({a, b}) /\ Len(<<a>> \o <<b>>) = 2
  BY <1>1
<1>3. (<<a>> \o <<b>>)[1] = a /\ (<<a>> \o <<b>>)[2] = b
  BY <1>1
<1>4. \A i \in 1 .. 2 : (<<a>> \o <<b>>)[i] = <<a, b>>[i]
  <2>1. \A i \in 1 .. 2 : i = 1 \/ i = 2
    OBVIOUS
  <2> QED BY <2>1, <1>3
<1>5. Len(<<a, b>>) = 2
  OBVIOUS
<1> QED BY <1>1, <1>2, <1>4, <1>5, SeqEqual

\* trash_dest: an item of the trash that remembers the path, or a path the batch
\* refuses because it would not be restorable.
LEMMA TrashDestIs ==
    ASSUME NEW t, IsFiniteSet(DOMAIN t), Cardinality(DOMAIN t) <= MaxEntries, NEW p \in LivePath
    PROVE  Target(p, TrashDest(t, p))
<1> DEFINE Tok(tag) == [base |-> "token", marks |-> <<>>, orig |-> p, tag |-> tag]
           With(tag) == TrashDir \o <<Tok(tag)>>
           f == [n \in Nat |-> With(n)]
           k == Min({n \in 1 .. MaxEntries + 1 : f[n] \notin DOMAIN t})
           q == TrashDest(t, p)
<1>1. ASSUME NEW n \in Nat
      PROVE  /\ Len(With(n)) = 2 /\ With(n)[1] = TrashDir[1] /\ With(n)[2] = Tok(n)
             /\ With(n) = <<TrashDir[1], Tok(n)>>
  <2>1. TrashDir = <<TrashDir[1]>>
    BY DEF TrashDir
  <2> HIDE DEF Tok
  <2>2. With(n) = <<TrashDir[1], Tok(n)>>
    BY <2>1, TwoNames
  <2> HIDE DEF With
  <2> QED BY <2>2
<1>2. \A m, n \in 1 .. MaxEntries + 1 : f[m] = f[n] => m = n
  <2> SUFFICES ASSUME NEW m \in 1 .. MaxEntries + 1, NEW n \in 1 .. MaxEntries + 1, f[m] = f[n]
               PROVE  m = n
    OBVIOUS
  <2>1. m \in Nat /\ n \in Nat
    BY EntriesInNat
  <2>2. With(m) = With(n)
    BY <2>1
  <2>3. Tok(m) = Tok(n)
    BY <2>1, <2>2, <1>1
  <2>4. Tok(m).tag = Tok(n).tag
    BY <2>3
  <2> QED BY <2>4
<1> HIDE DEF f, With
<1>3. k \in Nat /\ k \in 1 .. MaxEntries + 1
  BY <1>2, LeastFree
<1>4. {n \in 1 .. MaxEntries + 1 : f[n] \notin DOMAIN t}
        = {n \in 1 .. MaxEntries + 1 : With(n) \notin DOMAIN t}
  BY EntriesInNat DEF f
<1> HIDE DEF k
<1>5. q = With(k)
  BY <1>4 DEF TrashDest, With, k
<1> HIDE DEF q
<1>6. ASSUME NormalizeStoredPath(p), NormalizePath(q) PROVE q \in Placeable
  <2>1. Truthful(q) /\ Len(q) = 2 /\ q[2] = Tok(k) /\ q[1] = TrashDir[1] /\ q = <<TrashDir[1], Tok(k)>>
    BY <1>1, <1>3, <1>5, <1>6 DEF NormalizePath
  <2>2. BasesOf(q[2]) \cap Deceptive = {}
    <3>1. 2 \in DOMAIN q
      BY <2>1
    <3> QED BY <2>1, <3>1 DEF Truthful
  <2>3. p \in Seq(Label) /\ DOMAIN p = 1 .. Len(p)
    BY DEF LivePath, NamedPath
  <2>4. \A i \in DOMAIN p : p[i].base \notin Deceptive /\ p[i].orig = <<>>
    <3>1. q[2].orig = p
      BY <2>1
    <3>2. \A i \in DOMAIN p : p[i].base \in BasesOf(q[2])
      BY <3>1 DEF BasesOf
    <3>3. \A i \in DOMAIN p : p[i].orig = <<>>
      <4>1. \A i \in DOMAIN p : p[i] \in Label
        BY <2>3
      <4> QED BY <4>1 DEF Label
    <3> QED BY <3>2, <3>3, <2>2
  <2>5. \A i \in DOMAIN p : BasesOf(p[i]) \cap Deceptive = {}
    BY <2>4 DEF BasesOf
  <2>6. NormalizePath(p)
    BY <2>5, <1>6 DEF NormalizePath, Truthful
  <2>7. Tok(k) \in Token
    <3>1. Tok(k) \in [base : {"token"}, marks : {<<>>}, orig : LivePath, tag : Nat]
      BY <1>3
    <3> QED BY <3>1, <2>6 DEF Token
  <2>8. q \in Seq(Name)
    <3>1. TrashDir[1] \in Name /\ Tok(k) \in Name
      BY <2>7 DEF Name
    <3> HIDE DEF Tok
    <3> QED BY <3>1, <2>1
  <2>9. q \in TrashedPath
    <3>1. Len(q) >= 1 /\ q[2] \in Token /\ 3 .. Len(q) = {}
      BY <2>1, <2>7
    <3> QED BY <3>1, <2>1, <2>8, TrashedPathIs
  <2> QED BY <2>1, <2>9 DEF Placeable, Item
<1> QED BY <1>6 DEF Target, q

-------------------------------------------------------------------------------
(* The operations of the browser.                                            *)

Inv == TypeOK /\ Reachable

\* What the invariant says of the tree and of the folder on screen.
LEMMA InvIs ==
    Inv <=> /\ Shaped(tree) /\ Cardinality(DOMAIN tree) <= MaxEntries
            /\ view \in {"files", "trash", "confirm"}
            /\ dir = <<>> \/ (HasDir(tree, dir) /\ ~IsTrashed(dir))
BY DEF Inv, TypeOK, Reachable, Shaped, Connected, AnyPath

\* The live entries have live paths, and there are finitely many.
LEMMA LiveAreLive ==
    ASSUME NEW t, Shaped(t)
    PROVE  Live(t) \subseteq LivePath /\ IsFiniteSet(Live(t))
<1>1. \A p \in DOMAIN t : ~IsTrashed(p) => p \in LivePath
  BY TrashedOrLive DEF Shaped
<1> QED BY <1>1, FS_Subset DEF Live, Shaped

LEMMA DirIsLive ==
    ASSUME Inv
    PROVE  /\ dir = <<>> \/ dir \in LivePath
           /\ dir \in Seq(Label)
<1>1. Shaped(tree) /\ (dir = <<>> \/ (HasDir(tree, dir) /\ ~IsTrashed(dir)))
  BY InvIs
<1>2. dir = <<>> \/ dir \in LivePath
  BY <1>1, LiveAreLive DEF HasDir, Live
<1>3. <<>> \in Seq(Label)
  OBVIOUS
<1> QED BY <1>2, <1>3 DEF LivePath, NamedPath

\* clamp_dir: the root or a live folder that exists.
LEMMA ClampDirIs ==
    ASSUME NEW t, NEW d, d = <<>> \/ d \in LivePath
    PROVE  \/ ClampDir(t, d) = <<>>
           \/ HasDir(t, ClampDir(t, d)) /\ ~IsTrashed(ClampDir(t, d))
<1> DEFINE up == Ancestors(d) \cup {d}
           F == {q \in up : q # <<>> /\ HasDir(t, q)}
           C == {<<>>} \cup F
           Longest(p) == \A q \in up : q # <<>> /\ HasDir(t, q) => Len(q) <= Len(p)
<1>1. d \in Seq(Label)
  <2>1. <<>> \in Seq(Label)
    OBVIOUS
  <2> QED BY <2>1 DEF LivePath, NamedPath
<1>2. \A q \in up : q \in Seq(Label) /\ Len(q) <= Len(d) /\ (q # <<>> => q[1] = d[1])
  BY <1>1, AncestorsAre
<1>3. \A q \in F : ~IsTrashed(q)
  <2> SUFFICES ASSUME NEW q \in F PROVE ~IsTrashed(q)
    OBVIOUS
  <2>1. q[1] = d[1] /\ d # <<>>
    BY <1>1, <1>2
  <2> QED BY <2>1 DEF LivePath, IsTrashed
<1>4. \E p \in C : Longest(p)
  <2>1. CASE F = {}
    BY <2>1
  <2>2. CASE F # {}
    <3> DEFINE L == {Len(q) : q \in F}
    <3>1. L \in SUBSET Nat /\ L # {} /\ \A n \in L : n <= Len(d)
      <4>1. \A q \in F : Len(q) \in Nat /\ Len(q) <= Len(d)
        BY <1>2
      <4> HIDE DEF F
      <4> QED BY <4>1, <2>2
    <3>2. Len(d) \in Nat
      BY <1>1
    <3> HIDE DEF L
    <3>3. PICK n \in L : \A m \in L : m <= n
      BY <3>1, <3>2, GreatestNumber
    <3>4. PICK p \in F : n = Len(p)
      BY <3>3 DEF L
    <3>5. Longest(p)
      BY <3>3, <3>4 DEF L
    <3> QED BY <3>4, <3>5
  <2> QED BY <2>1, <2>2
<1>5. ClampDir(t, d) = CHOOSE p \in C : Longest(p)
  BY DEF ClampDir
<1> HIDE DEF C, Longest
<1>6. ClampDir(t, d) \in C
  BY <1>4, <1>5
<1> QED BY <1>3, <1>6 DEF C

\* What live files hold is still there, or was put away unseen.
LiveKept == \A p \in FilesIn(tree) : ~IsTrashed(p) => tree[p] \in Held(tree') \/ PutsUnseen(p)

\* A batch that is a tree again is the next revision.
LEMMA CommitKeeps ==
    ASSUME Inv, NEW b, Commit(b), Shaped(b.tree), view' \in {"files", "trash", "confirm"}
    PROVE  Inv' /\ tree' = b.tree
<1>1. tree' = b.tree /\ dir' = ClampDir(b.tree, dir) /\ Cardinality(DOMAIN b.tree) <= MaxEntries
  BY DEF Commit, Bounded
<1>2. dir' = <<>> \/ (HasDir(tree', dir') /\ ~IsTrashed(dir'))
  BY <1>1, DirIsLive, ClampDirIs
<1>3. Shaped(tree')
  BY <1>1
<1>4. Inv'
  BY <1>1, <1>2, <1>3 DEF Inv, TypeOK, Reachable, Shaped, Connected, AnyPath
<1> QED BY <1>1, <1>4

\* Nothing is lost where everything is still held.
LEMMA HeldIsKept == ASSUME Held(tree) \subseteq Held(tree') PROVE LiveKept
BY DEF LiveKept, Held

\* SetToSeq lists every element of a finite set.
LEMMA SetToSeqIs ==
    ASSUME NEW S, IsFiniteSet(S)
    PROVE  /\ SetToSeq(S) \in Seq(S) /\ Len(SetToSeq(S)) = Cardinality(S)
           /\ \A x \in S : \E n \in 1 .. Len(SetToSeq(S)) : SetToSeq(S)[n] = x
<1> DEFINE n == Cardinality(S)
           s == SetToSeq(S)
<1>1. n \in Nat /\ ExistsBijection(1 .. n, S)
  BY FS_CardinalityType
<1>2. PICK f : f \in Bijection(1 .. n, S)
  BY <1>1 DEF ExistsBijection
<1>3. f \in [1 .. n -> S] /\ IsInjective(f)
  BY <1>2 DEF Bijection, Injection, IsInjective
<1>4. s \in [1 .. n -> S] /\ IsInjective(s)
  BY <1>3 DEF SetToSeq
<1> HIDE DEF s
<1>5. s \in Seq(S) /\ Len(s) = n
  BY <1>1, <1>4, IsASeq
<1>6. s \in Injection(1 .. n, S)
  BY <1>4 DEF Injection, IsInjective
<1>7. Cardinality(1 .. n) = n
  BY <1>1, FS_Interval
<1>8. s \in Surjection(1 .. n, S)
  BY <1>6, <1>7, FS_Injection
<1>9. \A x \in S : \E k \in 1 .. n : s[k] = x
  BY <1>8 DEF Surjection
<1> QED BY <1>5, <1>9 DEF s

\* A selection's batch of renames.
LEMMA RenameSetKeeps ==
    ASSUME Inv, NEW ps, IsFiniteSet(ps), NEW to,
           \A p \in ps : p \in Movable /\ Target(p, to[p]),
           NEW b, b = RenameAll(tree, SetToSeq({<<p, to[p]>> : p \in ps}))
    PROVE  Shaped(b.tree) /\ Held(tree) \subseteq Held(b.tree)
<1> DEFINE S == {<<p, to[p]>> : p \in ps}
           pairs == SetToSeq(S)
<1>1. IsFiniteSet(S)
  <2> DEFINE f == [p \in ps |-> <<p, to[p]>>]
  <2>1. f \in Surjection(ps, S)
    BY DEF Surjection
  <2> QED BY <2>1, FS_Surjection
<1>2. \A x \in S : x[1] \in Movable /\ Target(x[1], x[2])
  OBVIOUS
<1> HIDE DEF S
<1>3. pairs \in Seq(S) /\ Len(pairs) \in Nat
  BY <1>1, SetToSeqIs
<1>4. \A n \in 1 .. Len(pairs) : pairs[n] \in S
  BY <1>3, ElementOfSeq
<1> HIDE DEF pairs
<1>5. Shaped(tree)
  BY InvIs
<1>6. /\ Shaped(RenameAll(tree, pairs).tree)
      /\ Held(tree) \subseteq Held(RenameAll(tree, pairs).tree)
  BY <1>2, <1>3, <1>4, <1>5, RenameAllKeeps
<1> QED BY <1>6 DEF S, pairs

\* A file put at a path: what another live file holds is still there.
LEMMA PutStep ==
    ASSUME Inv, NEW p \in Seq(Label), NEW doc \in Documents, view' = view,
           Commit(Put(Candidate(tree), p, doc))
    PROVE  /\ Inv'
           /\ \A q \in FilesIn(tree) : q # p => tree[q] \in Held(tree')
           /\ doc \in Held(tree')
<1> DEFINE b == Put(Candidate(tree), p, doc)
<1>1. Shaped(tree) /\ view \in {"files", "trash", "confirm"}
  BY InvIs
<1>2. /\ Shaped(b.tree)
      /\ \A q \in FilesIn(tree) : q # p => tree[q] \in Held(b.tree)
      /\ b.ok => doc \in Held(b.tree)
  BY <1>1, PutKeeps
<1>3. b.ok
  BY DEF Commit
<1> HIDE DEF b
<1>4. Inv' /\ tree' = b.tree
  BY <1>1, <1>2, CommitKeeps DEF b
<1> QED BY <1>2, <1>3, <1>4

\* The path of a spelling in the folder on screen.
LEMMA TypedIsNamed ==
    ASSUME Inv, NEW name, name.parts \in Seq(Bases)
    PROVE  Spelled(dir, name).path \in Seq(Label)
BY DirIsLive, SpelledIsNamed

LEMMA SpellingParts ==
    ASSUME NEW name \in Spellings
    PROVE  name.parts \in Seq(Bases)
BY TreeAssumption

LEMMA EmptyIsNoEntry == ASSUME Inv PROVE <<>> \notin DOMAIN tree
<1>1. \A p \in DOMAIN tree : Len(p) >= 1
  BY InvIs, TrashedOrLive DEF Shaped
<1>2. Len(<<>>) = 0
  OBVIOUS
<1> QED BY <1>1, <1>2

\* unique_name_in returns a taken path only when it has counted to its end.
LEMMA UniqueNameTaken ==
    ASSUME NEW D, NEW p, UniqueNameIn(D, p) \in D
    PROVE  UniqueNameIn(D, p) = p
<1> DEFINE dots == {i \in DOMAIN p : p[i].base \in Dotted}
           at == IF dots = {} THEN Len(p) ELSE Max(dots)
           With(n) == [p EXCEPT ![at] = Marked(@, "copy", n)]
           free == {n \in 1 .. MaxCopies : With(n) \notin D}
<1>1. UniqueNameIn(D, p) = IF p \notin D \/ free = {} THEN p ELSE With(Min(free))
  BY DEF UniqueNameIn
<1>2. ASSUME free # {} PROVE With(Min(free)) \notin D
  <2>1. free \in SUBSET Nat
    OBVIOUS
  <2>2. Min(free) \in free
    <3> HIDE DEF free
    <3> QED BY <1>2, <2>1, MinIsMember
  <2> QED BY <2>2
<1> HIDE DEF free, With
<1> QED BY <1>1, <1>2

LEMMA AddFileStep ==
    ASSUME Inv, NEW name \in Typed, NEW doc \in Documents, AddFile(name, doc)
    PROVE  Inv' /\ LiveKept
<1> DEFINE s == Spelled(dir, name)
           p == IF s.exact THEN UniqueNameIn(DOMAIN tree, s.path) ELSE s.path
<1>1. name \in Spellings /\ s.path \in Seq(Label) /\ s.exact = name.exact
  BY SpellingParts, TypedIsNamed DEF Typed, Spelled
<1>2. p \in Seq(Label)
  <2> HIDE DEF s
  <2> QED BY <1>1, EmptyIsNoEntry, UniqueNameIsNamed
<1>3. Commit(Put(Candidate(tree), p, doc)) /\ view' = view
  BY DEF AddFile
<1>4. Inv' /\ \A q \in FilesIn(tree) : q # p => tree[q] \in Held(tree')
  <2> HIDE DEF p
  <2> QED BY <1>2, <1>3, PutStep
<1>5. ASSUME p \in FilesIn(tree) PROVE PutsUnseen(p)
  <2>1. p \in DOMAIN tree
    BY <1>5 DEF FilesIn
  <2>2. s.path = p /\ (s.exact => UniqueNameIn(DOMAIN tree, p) = p)
    <3> HIDE DEF s
    <3> QED BY <2>1, UniqueNameTaken
  <2>3. Unseen(p, name) \/ (Spelled(dir, name).path = p /\ UniqueNameIn(DOMAIN tree, p) = p)
    <3> HIDE DEF p
    <3> QED BY <2>2, <1>1 DEF Unseen
  <2> HIDE DEF p
  <2> QED BY <2>3 DEF PutsUnseen
<1> HIDE DEF p
<1> QED BY <1>4, <1>5 DEF LiveKept

LEMMA NewFileStep ==
    ASSUME Inv, NEW name \in Typed, NEW doc \in Documents, NewFile(name, doc)
    PROVE  Inv' /\ LiveKept
<1> DEFINE s == Spelled(dir, name)
           p == s.path
<1>1. name \in Spellings /\ p \in Seq(Label) /\ s.exact = name.exact
  BY SpellingParts, TypedIsNamed DEF Typed, Spelled
<1>2. Commit(Put(Candidate(tree), p, doc)) /\ view' = view /\ ~Exists(tree, s)
  BY DEF NewFile
<1>3. Inv' /\ \A q \in FilesIn(tree) : q # p => tree[q] \in Held(tree')
  <2> HIDE DEF p
  <2> QED BY <1>1, <1>2, PutStep
<1>4. ASSUME p \in FilesIn(tree) PROVE PutsUnseen(p)
  <2>1. Unseen(p, name)
    <3> HIDE DEF s
    <3> QED BY <1>1, <1>2, <1>4 DEF Exists, FilesIn, Unseen, s
  <2> HIDE DEF p
  <2> QED BY <2>1 DEF PutsUnseen
<1> HIDE DEF p
<1> QED BY <1>3, <1>4 DEF LiveKept

LEMMA AddFolderStep ==
    ASSUME Inv, NEW name \in Typed, NEW inner \in Spellings, NEW doc \in Documents,
           AddFolder(name, inner, doc)
    PROVE  Inv' /\ LiveKept
<1> DEFINE w == Inside(name, inner)
           s == Spelled(dir, w)
           p == s.path
<1>1. w.parts \in Seq(Bases)
  <2>1. name.parts \in Seq(Bases) /\ inner.parts \in Seq(Bases)
    BY SpellingParts DEF Typed
  <2>2. name.parts \o inner.parts \in Seq(Bases)
    BY <2>1, ConcatProperties
  <2> QED BY <2>2 DEF Inside
<1>2. Commit(Put(Candidate(tree), p, doc)) /\ view' = view /\ ~Exists(tree, s)
  BY DEF AddFolder
<1> HIDE DEF w
<1>3. p \in Seq(Label) /\ s.exact = w.exact
  BY <1>1, TypedIsNamed DEF Spelled
<1>4. Inv' /\ \A q \in FilesIn(tree) : q # p => tree[q] \in Held(tree')
  <2> HIDE DEF p
  <2> QED BY <1>2, <1>3, PutStep
<1>5. ASSUME p \in FilesIn(tree) PROVE PutsUnseen(p)
  <2>1. Unseen(p, w)
    <3> HIDE DEF s
    <3> QED BY <1>2, <1>3, <1>5 DEF Exists, FilesIn, Unseen, s
  <2> HIDE DEF p
  <2> QED BY <2>1 DEF PutsUnseen, w
<1> HIDE DEF p
<1> QED BY <1>4, <1>5 DEF LiveKept

LEMMA NewFolderStep ==
    ASSUME Inv, NEW name \in Typed, NewFolder(name)
    PROVE  Inv' /\ LiveKept
<1> DEFINE p == Spelled(dir, name).path
           b == Mkdir(Candidate(tree), p)
<1>1. p \in Seq(Label)
  BY SpellingParts, TypedIsNamed DEF Typed
<1>2. Commit(b) /\ view' = view
  BY DEF NewFolder
<1>3. Shaped(tree) /\ view \in {"files", "trash", "confirm"}
  BY InvIs
<1> HIDE DEF p
<1>4. Shaped(b.tree) /\ Held(tree) \subseteq Held(b.tree)
  BY <1>1, <1>3, MkdirKeeps
<1> HIDE DEF b
<1>5. Inv' /\ tree' = b.tree
  BY <1>2, <1>3, <1>4, CommitKeeps
<1> QED BY <1>4, <1>5, HeldIsKept

LEMMA SaveStep ==
    ASSUME Inv, NEW p \in VisibleRows, SaveTextFile(p)
    PROVE  Inv' /\ LiveKept
<1>1. p \in DOMAIN tree /\ tree[p] \in Documents
  BY InvIs DEF Shaped, SaveTextFile, HasFile
<1>2. p \in Seq(Label)
  BY InvIs, LiveAreLive DEF VisibleRows, LivePath, NamedPath
<1>3. Commit(Put(Candidate(tree), p, tree[p])) /\ view' = view
  BY DEF SaveTextFile
<1>4. /\ Inv' /\ \A q \in FilesIn(tree) : q # p => tree[q] \in Held(tree')
      /\ tree[p] \in Held(tree')
  BY <1>1, <1>2, <1>3, PutStep
<1> QED BY <1>4 DEF LiveKept

\* One rename as a batch.
LEMMA RenameStep ==
    ASSUME Inv, NEW from \in Movable, NEW to, Target(from, to),
           Commit(Rename(Candidate(tree), from, to)), view' = view
    PROVE  Inv' /\ LiveKept
<1> DEFINE b == Rename(Candidate(tree), from, to)
<1>1. Shaped(tree) /\ view \in {"files", "trash", "confirm"}
  BY InvIs
<1>2. IsBatch(Candidate(tree)) /\ Candidate(tree).tree = tree
  BY BatchFields
<1>3. Shaped(b.tree) /\ Held(tree) \subseteq Held(b.tree)
  BY <1>1, <1>2, RenameKeeps
<1> HIDE DEF b
<1>4. Inv' /\ tree' = b.tree
  BY <1>1, <1>3, CommitKeeps DEF b
<1> QED BY <1>3, <1>4, HeldIsKept

LEMMA ConfirmRenameStep ==
    ASSUME Inv, NEW from \in Live(tree), NEW name \in Typed, ConfirmRename(from, name)
    PROVE  Inv' /\ LiveKept
<1> DEFINE to == Spelled(ParentDir(from), name).path
<1>1. from \in LivePath
  BY InvIs, LiveAreLive
<1>2. ParentDir(from) \in Seq(Label)
  BY <1>1, ParentIsNamed DEF LivePath
<1>3. to \in Seq(Label)
  BY <1>2, SpellingParts, SpelledIsNamed DEF Typed
<1>4. Commit(Rename(Candidate(tree), from, to)) /\ view' = view
  BY DEF ConfirmRename
<1> HIDE DEF to
<1>5. from \in Movable /\ Target(from, to)
  BY <1>1, <1>3 DEF Movable, Target, Placeable, NamedPath, NormalizePath, NormalizeStoredPath
<1> QED BY <1>4, <1>5, RenameStep

LEMMA MoveStep ==
    ASSUME Inv, NEW ps, NEW into, MoveSelected(ps, into)
    PROVE  Inv' /\ LiveKept
<1> DEFINE paths == {p \in PruneNested(ps) : ParentDir(p) # into}
           to == [p \in paths |-> Append(into, LeafName(p))]
           b == RenameAll(tree, SetToSeq({<<p, to[p]>> : p \in paths}))
<1>1. Shaped(tree) /\ view \in {"files", "trash", "confirm"}
  BY InvIs
<1>2. Live(tree) \subseteq LivePath /\ IsFiniteSet(Live(tree))
  BY <1>1, LiveAreLive
<1>3. paths \subseteq Live(tree)
  BY DEF MoveSelected, Selections, VisibleRows, PruneNested
<1>4. IsFiniteSet(paths) /\ paths \subseteq LivePath
  BY <1>2, <1>3, FS_Subset
<1>5. into \in Seq(Label)
  <2>1. <<>> \in Seq(Label)
    OBVIOUS
  <2> QED BY <2>1, <1>2 DEF MoveSelected, Move, MoveFolderOptions, LivePath, NamedPath
<1>6. \A p \in paths : p \in Movable /\ Target(p, to[p])
  BY <1>4, <1>5, ParentIsNamed, AppendIsNamed DEF Movable, Target, Placeable, LivePath
<1>7. {<<p, to[p]>> : p \in paths} = {<<p, Append(into, LeafName(p))>> : p \in paths}
  OBVIOUS
<1>8. Commit(b) /\ view' = view
  BY <1>7 DEF MoveSelected, Move
<1> HIDE DEF paths, to
<1>9. Shaped(b.tree) /\ Held(tree) \subseteq Held(b.tree)
  BY <1>4, <1>6, RenameSetKeeps
<1>10. Inv' /\ tree' = b.tree
  BY <1>1, <1>8, <1>9, CommitKeeps
<1> QED BY <1>9, <1>10, HeldIsKept

LEMMA TrashStep ==
    ASSUME Inv, NEW ps, TrashSelected(ps)
    PROVE  Inv' /\ LiveKept
<1> DEFINE paths == PruneNested(ps)
           to == [p \in paths |-> TrashDest(tree, p)]
           b == RenameAll(tree, SetToSeq({<<p, to[p]>> : p \in paths}))
<1>1. Shaped(tree) /\ view \in {"files", "trash", "confirm"} /\ Cardinality(DOMAIN tree) <= MaxEntries
  BY InvIs
<1>2. Live(tree) \subseteq LivePath /\ IsFiniteSet(Live(tree)) /\ IsFiniteSet(DOMAIN tree)
  BY <1>1, LiveAreLive DEF Shaped
<1>3. paths \subseteq Live(tree)
  BY DEF TrashSelected, Selections, VisibleRows, PruneNested
<1>4. IsFiniteSet(paths) /\ paths \subseteq LivePath
  BY <1>2, <1>3, FS_Subset
<1>5. \A p \in paths : p \in Movable /\ Target(p, to[p])
  BY <1>1, <1>2, <1>4, TrashDestIs DEF Movable
<1>6. {<<p, to[p]>> : p \in paths} = {<<p, TrashDest(tree, p)>> : p \in paths}
  OBVIOUS
<1>7. Commit(b) /\ view' = view
  BY <1>6 DEF TrashSelected, TrashAll
<1> HIDE DEF paths, to
<1>8. Shaped(b.tree) /\ Held(tree) \subseteq Held(b.tree)
  BY <1>4, <1>5, RenameSetKeeps
<1>9. Inv' /\ tree' = b.tree
  BY <1>1, <1>7, <1>8, CommitKeeps
<1> QED BY <1>8, <1>9, HeldIsKept

\* An item of the trash stands for a path of names; one that trashing made for a live
\* path that can be restored.
LEMMA TrashedItemIs ==
    ASSUME Inv, NEW p \in TrashedItems(tree)
    PROVE  /\ p \in DOMAIN tree /\ p \in AnyPath /\ p \in Item /\ IsTrashed(p) /\ Len(p) = 2
           /\ ParseTrashToken(p) \in NamedPath
           /\ p[2].orig # <<>> =>
                /\ ParseTrashToken(p) = p[2].orig
                /\ ParseTrashToken(p) \in LivePath /\ NormalizePath(ParseTrashToken(p))
<1>1. /\ p \in DOMAIN tree /\ p \in AnyPath /\ Len(p) = 2 /\ IsTrashed(p)
      /\ ParseTrashToken(p) # <<>>
  BY InvIs DEF TrashedItems, Shaped
<1>2. p \in TrashedPath
  BY <1>1, TrashedOrLive
<1>3. p[2] \in Label \cup Token
  <2>1. Len(p) > 1
    BY <1>1
  <2> QED BY <2>1, <1>2, TrashedPathIs
<1>4. p \in Item
  BY <1>1, <1>2 DEF Item
<1>5. CASE p[2].orig # <<>>
  <2>1. p[2] \in Token
    BY <1>3, <1>5 DEF Label
  <2>2. ParseTrashToken(p) = p[2].orig
    BY <1>5 DEF ParseTrashToken
  <2>3. p[2].orig \in LivePath /\ NormalizePath(p[2].orig)
    BY <2>1 DEF Token
  <2> QED BY <1>1, <1>4, <1>5, <2>2, <2>3 DEF LivePath
<1>6. CASE p[2].orig = <<>>
  <2>1. p[2] \in Label
    <3>1. \A k \in Token : k.orig # <<>>
      BY DEF Token, LivePath, NamedPath
    <3> QED BY <3>1, <1>3, <1>6
  <2> DEFINE d == Decoded(p[2].base)
             name == [Last(d) EXCEPT !.marks = p[2].marks]
  <2>2. d # <<>> /\ ParseTrashToken(p) = Append(Front(d), name)
    BY <1>1, <1>6 DEF ParseTrashToken
  <2>3. p[2].base \in Bases /\ p[2].marks \in Seq({"copy", "restored"} \X Nat)
    BY <2>1 DEF Label
  <2>4. d \in Seq([base : Bases, marks : {<<>>}, orig : {<<>>}, tag : {0}])
    BY <2>3, TreeAssumption
  <2>5. \A n \in [base : Bases, marks : {<<>>}, orig : {<<>>}, tag : {0}] : n \in Label
    <3>1. <<>> \in Seq({"copy", "restored"} \X Nat)
      OBVIOUS
    <3> QED BY <3>1 DEF Label
  <2> HIDE DEF d
  <2>6. d \in Seq(Label)
    <3>1. \A i \in 1 .. Len(d) : d[i] \in Label
      BY <2>4, <2>5, ElementOfSeq
    <3> QED BY <3>1, <2>4
  <2>7. d \in NamedPath
    BY <2>2, <2>6 DEF NamedPath
  <2>8. Front(d) \in Seq(Label) /\ Last(d) \in Label
    BY <2>7, ParentIsNamed DEF ParentDir, LeafName
  <2>9. name \in Label
    BY <2>3, <2>8 DEF Label
  <2> HIDE DEF name
  <2> QED BY <2>2, <2>8, <2>9, AppendIsNamed, <1>1, <1>4, <1>6
<1> QED BY <1>5, <1>6

LEMMA RestoreStep ==
    ASSUME Inv, NEW p \in TrashedItems(tree), RestoreTrashed(p)
    PROVE  Inv' /\ LiveKept
<1> DEFINE to == DedupPath(tree, ParseTrashToken(p))
<1>1. p \in Movable /\ ParseTrashToken(p) \in NamedPath
  BY TrashedItemIs DEF Movable
<1>2. IsFiniteSet(DOMAIN tree) /\ Cardinality(DOMAIN tree) <= MaxEntries
  BY InvIs DEF Shaped
<1>3. Target(p, to)
  BY <1>1, <1>2, DedupPathIs DEF Target, Placeable
<1>4. Commit(Rename(Candidate(tree), p, to)) /\ view' = view
  BY DEF RestoreTrashed, RestoreBatch
<1> HIDE DEF to
<1> QED BY <1>1, <1>3, <1>4, RenameStep

\* Deleting from the trash.
LEMMA RemoveStep ==
    ASSUME Inv, NEW p \in AnyPath, IsTrashed(p), Commit(RemoveEntry(Candidate(tree), p)),
           view' \in {"files", "trash", "confirm"}
    PROVE  Inv' /\ LiveKept
<1> DEFINE b == RemoveEntry(Candidate(tree), p)
<1>1. Shaped(tree)
  BY InvIs
<1>2. /\ Shaped(b.tree)
      /\ \A q \in FilesIn(tree) : ~IsTrashed(q) => tree[q] \in Held(b.tree)
  BY <1>1, RemoveKeeps
<1> HIDE DEF b
<1>3. Inv' /\ tree' = b.tree
  BY <1>2, CommitKeeps DEF b
<1> QED BY <1>2, <1>3 DEF LiveKept

LEMMA PurgeStep ==
    ASSUME Inv, NEW p \in TrashedItems(tree), PurgeTrashed(p)
    PROVE  Inv' /\ LiveKept
<1>1. p \in AnyPath /\ IsTrashed(p)
  BY TrashedItemIs
<1>2. Commit(RemoveEntry(Candidate(tree), p)) /\ view' = view
  BY DEF PurgeTrashed
<1>3. view' \in {"files", "trash", "confirm"}
  BY <1>2, InvIs
<1> QED BY <1>1, <1>2, <1>3, RemoveStep

LEMMA EmptyTrashStep ==
    ASSUME Inv, EmptyTrash
    PROVE  Inv' /\ LiveKept
<1>1. TrashDir \in AnyPath /\ IsTrashed(TrashDir)
  <2>1. TrashDir = <<TrashDir[1]>> /\ Len(TrashDir) = 1
    BY DEF TrashDir
  <2>2. TrashDir[1] \in Name
    BY DEF Name
  <2>3. TrashDir \in Seq(Name)
    <3>1. \A x \in Name : <<x>> \in Seq(Name)
      OBVIOUS
    <3> QED BY <3>1, <2>1, <2>2
  <2>4. 3 .. Len(TrashDir) = {} /\ Len(TrashDir) >= 1 /\ ~(Len(TrashDir) > 1)
    BY <2>1
  <2> QED BY <2>3, <2>4, TrashedPathIs DEF AnyPath, IsTrashed
<1>2. Commit(RemoveEntry(Candidate(tree), TrashDir)) /\ view' = "trash"
  BY DEF EmptyTrash
<1> QED BY <1>1, <1>2, RemoveStep

\* What leaves the tree alone.
LEMMA BrowseStep ==
    ASSUME Inv, (\E d \in {<<>>} \cup Live(tree) : EnterDir(d)) \/ ShowTrash \/ PromptEmptyTrash
                \/ UNCHANGED vars
    PROVE  Inv' /\ LiveKept
<1>1. /\ Shaped(tree) /\ Cardinality(DOMAIN tree) <= MaxEntries
      /\ view \in {"files", "trash", "confirm"}
      /\ dir = <<>> \/ (HasDir(tree, dir) /\ ~IsTrashed(dir))
  BY InvIs
<1>2. /\ tree' = tree /\ view' \in {"files", "trash", "confirm"}
      /\ dir' = <<>> \/ (HasDir(tree, dir') /\ ~IsTrashed(dir'))
  BY <1>1 DEF EnterDir, ShowTrash, PromptEmptyTrash, vars, browse, Live
<1>3. Inv'
  BY <1>1, <1>2 DEF Inv, TypeOK, Reachable, Shaped, Connected, AnyPath
<1>4. LiveKept
  BY <1>2, HeldIsKept
<1> QED BY <1>3, <1>4

LEMMA EveryStep ==
    ASSUME Inv, [Next]_vars
    PROVE  Inv' /\ LiveKept
<1>1. CASE (\E d \in {<<>>} \cup Live(tree) : EnterDir(d)) \/ ShowTrash \/ PromptEmptyTrash
           \/ UNCHANGED vars
  BY <1>1, BrowseStep
<1>2. CASE \E ps \in Selections :
             TrashSelected(ps) \/ \E d \in {<<>>} \cup Live(tree) : MoveSelected(ps, d)
  BY <1>2, TrashStep, MoveStep
<1>3. CASE \E name \in Typed :
             \/ NewFolder(name) \/ \E p \in Live(tree) : ConfirmRename(p, name)
             \/ \E doc \in Documents :
                  \/ AddFile(name, doc) \/ NewFile(name, doc)
                  \/ \E inner \in Spellings : AddFolder(name, inner, doc)
  BY <1>3, NewFolderStep, ConfirmRenameStep, AddFileStep, NewFileStep, AddFolderStep
<1>4. CASE \E p \in TrashedItems(tree) : RestoreTrashed(p) \/ PurgeTrashed(p)
  BY <1>4, RestoreStep, PurgeStep
<1>5. CASE EmptyTrash
  BY <1>5, EmptyTrashStep
<1>6. CASE \E p \in VisibleRows : SaveTextFile(p)
  BY <1>6, SaveStep
<1> QED BY <1>1, <1>2, <1>3, <1>4, <1>5, <1>6 DEF Next

LEMMA InitInv == Init => Inv
<1> SUFFICES ASSUME Init PROVE Inv
  OBVIOUS
<1>1. PICK b \in Bases, doc \in Documents : tree = [p \in {<<Plain(b)>>} |-> doc]
  BY DEF Init
<1> DEFINE q == <<Plain(b)>>
<1>2. q \in NamedPath /\ Len(q) = 1
  <2>1. Plain(b) \in Label
    BY PlainIsLabel
  <2> QED BY <2>1 DEF NamedPath
<1> HIDE DEF q
<1>3. DOMAIN tree = {q} /\ tree[q] = doc
  BY <1>1 DEF q
<1>4. Ancestors(q) = {}
  <2>1. 1 .. Len(q) - 1 = {}
    BY <1>2
  <2> QED BY <2>1 DEF Ancestors
<1>5. IsFiniteSet(DOMAIN tree) /\ Cardinality(DOMAIN tree) <= MaxEntries
  <2>1. IsFiniteSet({q}) /\ Cardinality({q}) = 1
    BY FS_Singleton
  <2> QED BY <2>1, <1>3, EntriesInNat
<1>6. Shaped(tree)
  BY <1>2, <1>3, <1>4, <1>5, NamedIsPath DEF Shaped, Connected
<1> QED BY <1>5, <1>6, InvIs DEF Init

-------------------------------------------------------------------------------
(* The theorems about the tree.                                              *)

LEMMA InvAlways == Spec => []Inv
<1>1. Inv /\ [Next]_vars => Inv'
  BY EveryStep
<1> QED BY <1>1, InitInv, PTL DEF Spec

\* Every path is a live one or one of the trash, whatever was added, renamed, moved,
\* trashed and restored.
THEOREM TreeTypeOK == Spec => []TypeOK
<1>1. Inv => TypeOK
  BY DEF Inv
<1> QED BY <1>1, InvAlways, PTL

\* Every entry can be reached from the root through folders and the folder on screen
\* exists: VaultBatch::rename, ensure_dirs, clamp_dir.
THEOREM TreeReachable == Spec => []Reachable
<1>1. Inv => Reachable
  BY DEF Inv
<1> QED BY <1>1, InvAlways, PTL

\* No operation makes what a live file holds disappear, but an addition that does not
\* see the file: VaultBatch::rename checks the path, VaultBatch::place does not.
THEOREM TreeKeepsFiles == Spec => LiveNeverLost
<1>1. Inv /\ [Next]_vars =>
        [\A p \in FilesIn(tree) : ~IsTrashed(p) =>
            tree[p] \in Held(tree') \/ PutsUnseen(p)]_vars
  BY EveryStep DEF LiveKept
<1> QED BY <1>1, InvAlways, PTL DEF Spec, LiveNeverLost

\* What trashing put into the trash is listed, and all its files can be made live again,
\* with what they held, unless a file has taken the place of a folder above its original
\* path: trash_dest, dedup_path, spawn_restore.
THEOREM TreeTrashRestorable == Spec => []TrashRestorable
<1>1. ASSUME Inv PROVE TrashRestorable
  <2>1. /\ Shaped(tree) /\ IsFiniteSet(DOMAIN tree) /\ Cardinality(DOMAIN tree) <= MaxEntries
        /\ Connected(tree)
    BY <1>1, InvIs DEF Shaped
  <2>2. ASSUME NEW p \in DOMAIN tree, IsTrashed(p), Len(p) > 1, p[2].orig # <<>>
        PROVE  \E i \in TrashedItems(tree) : Within(i, p)
    <3>1. p \in AnyPath
      BY <2>1 DEF Shaped
    <3>2. p \in TrashedPath
      BY <2>2, <3>1, TrashedOrLive
    <3>3. /\ p \in Seq(Name) /\ p[1] = TrashDir[1]
          /\ Len(p) \in Nat /\ Len(p) >= 2
      BY <3>2, <2>2, TrashedPathIs
    <3> DEFINE i == SubSeq(p, 1, 2)
    <3>4. i \in Seq(Name) /\ Len(i) = 2 /\ \A n \in 1 .. 2 : i[n] = p[n]
      BY <3>3
    <3> HIDE DEF i
    <3>5. Within(i, p)
      BY <3>3, <3>4, WithinIs
    <3>6. i \in DOMAIN tree
      <4>1. i # <<>>
        BY <3>4
      <4>2. i = p \/ i \in Ancestors(p)
        BY <4>1, <3>3, <3>4, <3>5, BeneathHasAncestor
      <4> QED BY <4>2, <2>1 DEF Connected, HasDir
    <3>7. i[1] = TrashDir[1] /\ i[2].orig # <<>>
      BY <2>2, <3>3, <3>4
    <3> QED BY <3>4, <3>5, <3>6, <3>7 DEF TrashedItems, IsTrashed, ParseTrashToken
  <2>3. ASSUME NEW i \in TrashedItems(tree), i[2].orig # <<>>
        PROVE  LET b == RestoreBatch(tree, i)
               IN  IF b.ok THEN \A p \in FilesIn(tree) : Within(i, p) =>
                                    \E q \in Live(b.tree) : b.tree[q] = tree[p]
                           ELSE DirsBlocked(tree, ParseTrashToken(i))
    <3> DEFINE orig == ParseTrashToken(i)
               to == DedupPath(tree, orig)
               u == EnsureDirs(tree, to)
               b == RestoreBatch(tree, i)
    <3>1. /\ i \in DOMAIN tree /\ i \in AnyPath /\ IsTrashed(i) /\ Len(i) = 2 /\ i \in Movable
          /\ orig \in LivePath /\ orig \in NamedPath /\ NormalizePath(orig) /\ ~IsTrashed(orig)
      BY <1>1, <2>3, TrashedItemIs DEF LivePath, Movable
    <3>2. /\ to \in NamedPath /\ to \in LivePath /\ to \notin DOMAIN tree /\ NormalizePath(to)
          /\ ~IsTrashed(to) /\ Ancestors(to) = Ancestors(orig)
      BY <2>1, <3>1, DedupPathIs DEF LivePath
    <3> HIDE DEF to
    <3>3. NormalizeStoredPath(i)
      BY <3>1, TrashedOrLive, TreeAssumption DEF NormalizeStoredPath
    <3>4. i \in Seq(Name) /\ to \in Seq(Name) /\ Len(to) >= 1 /\ to \in AnyPath
      BY <3>1, <3>2, NamedIsPath, TrashedOrLive
    <3>5. ~Within(i, to)
      <4>1. Within(i, to) => i[1] = to[1]
        BY <3>1, <3>4, WithinIs
      <4> QED BY <4>1, <3>1, <3>2 DEF IsTrashed
    <3>6. i # to
      BY <3>1, <3>2
    <3>7. Candidate(tree).tree = tree
      BY BatchFields
    <3>8. CASE DirsBlocked(tree, to)
      <4>1. DirsBlocked(tree, orig)
        BY <3>2, <3>8 DEF DirsBlocked
      <4>2. b = Refused(Candidate(tree))
        BY <3>1, <3>2, <3>3, <3>6, <3>7, <3>8 DEF RestoreBatch, Rename, to
      <4>3. ~b.ok
        BY <4>2, BatchFields
      <4> QED BY <4>1, <4>3
    <3>9. CASE ~DirsBlocked(tree, to)
      <4>1. b = Candidate(Moved(u, i, to))
        BY <3>1, <3>2, <3>3, <3>5, <3>6, <3>7, <3>9 DEF RestoreBatch, Rename, to
      <4>2. b.ok /\ b.tree = Moved(u, i, to)
        BY <4>1, BatchFields
      <4>3. /\ Shaped(u) /\ \A q \in Ancestors(to) : HasDir(u, q)
            /\ DOMAIN u = DOMAIN tree \cup Ancestors(to)
            /\ \A q \in DOMAIN tree : u[q] = tree[q]
        BY <2>1, <3>4, <3>9, EnsureDirsKeeps
      <4>4. to \notin Ancestors(to)
        BY <3>4, AncestorsAre
      <4> HIDE DEF u, b
      <4>5. Clear(u, i, to)
        BY <3>1, <3>2, <3>5, <4>3, <4>4 DEF Clear, Placeable
      <4>6. ASSUME NEW p \in FilesIn(tree), Within(i, p)
            PROVE  \E q \in Live(b.tree) : b.tree[q] = tree[p]
        <5> DEFINE q == NewPath(i, to, p)
        <5>1. p \in DOMAIN u /\ p \in AnyPath /\ u[p] = tree[p]
          BY <2>1, <4>3 DEF FilesIn, Shaped
        <5>2. q \in DOMAIN b.tree /\ b.tree[q] = tree[p]
          <6>1. /\ DOMAIN Moved(u, i, to) = {NewPath(i, to, r) : r \in DOMAIN u}
                /\ \A r \in DOMAIN u : Moved(u, i, to)[NewPath(i, to, r)] = u[r]
            BY <4>5, MovedIs
          <6> QED BY <6>1, <4>2, <5>1
        <5>3. 1 \in 1 .. Len(to)
          BY <3>4
        <5>4. q[1] = to[1]
          BY <5>1, <5>3, <4>6, <4>5, NewPathIs DEF Clear
        <5>5. ~IsTrashed(q)
          BY <5>4, <3>2 DEF IsTrashed
        <5> QED BY <5>2, <5>5 DEF Live
      <4> QED BY <4>2, <4>6 DEF b
    <3> QED BY <3>8, <3>9
  <2> QED BY <2>2, <2>3 DEF TrashRestorable
<1> QED BY <1>1, InvAlways, PTL

-------------------------------------------------------------------------------
(* Extraction.  The state of the destination after each entry exists, as the    *)
(* batches of rename_in_vault do.                                              *)

LEMMA ExtractEachIs ==
    ASSUME NEW d, NEW entries, Len(entries) \in Nat
    PROVE  \E g : /\ g[0] = d
                  /\ \A n \in 1 .. Len(entries) : g[n] = ExtractOne(g[n - 1], entries[n])
                  /\ ExtractEach(d, entries) = g[Len(entries)]
<1> DEFINE Step(g, n) == IF n = 0 THEN d ELSE ExtractOne(g[n - 1], entries[n])
           P == {m \in Nat : \E g : g = [n \in 0 .. m |-> Step(g, n)]}
<1>1. 0 \in P
  <2> DEFINE g == [n \in 0 .. 0 |-> d]
  <2>1. g = [n \in 0 .. 0 |-> Step(g, n)]
    OBVIOUS
  <2> QED BY <2>1
<1>2. ASSUME NEW m \in Nat, m \in P PROVE m + 1 \in P
  <2>1. PICK g : g = [n \in 0 .. m |-> Step(g, n)]
    BY <1>2
  <2> DEFINE h == [n \in 0 .. m + 1 |-> IF n = m + 1 THEN ExtractOne(g[m], entries[m + 1]) ELSE g[n]]
  <2>2. \A n \in 0 .. m : h[n] = g[n] /\ g[n] = Step(g, n)
    BY <2>1
  <2>3. h[m + 1] = ExtractOne(h[m], entries[m + 1]) /\ h[0] = d
    BY <2>2
  <2>4. ASSUME NEW n \in 1 .. m PROVE h[n] = ExtractOne(h[n - 1], entries[n])
    <3>1. n \in 0 .. m /\ n - 1 \in 0 .. m /\ n # 0
      OBVIOUS
    <3>2. h[n] = g[n] /\ h[n - 1] = g[n - 1] /\ g[n] = Step(g, n)
      BY <2>2, <3>1
    <3> HIDE DEF h
    <3> QED BY <3>1, <3>2
  <2> HIDE DEF h
  <2>5. \A n \in 0 .. m + 1 : h[n] = Step(h, n)
    BY <2>3, <2>4
  <2>6. h = [n \in 0 .. m + 1 |-> Step(h, n)]
    BY <2>5 DEF h
  <2>7. \E k : k = [n \in 0 .. m + 1 |-> Step(k, n)]
    BY <2>6
  <2> QED BY <2>7
<1>3. Len(entries) \in P
  BY <1>1, <1>2, InductionOverNat
<1>4. PICK f : f = [n \in 0 .. Len(entries) |-> Step(f, n)]
  BY <1>3
<1> DEFINE g == CHOOSE g : g = [n \in 0 .. Len(entries) |-> Step(g, n)]
<1>5. g = [n \in 0 .. Len(entries) |-> Step(g, n)]
  BY <1>4
<1>6. ExtractEach(d, entries) = g[Len(entries)]
  BY DEF ExtractEach
<1> HIDE DEF g
<1>7. g[0] = d /\ \A n \in 1 .. Len(entries) : g[n] = ExtractOne(g[n - 1], entries[n])
  BY <1>5
<1> QED BY <1>6, <1>7

Key(p) == PortableCollisionKey(p)
IsDestination(e) == {"had", "new"} \subseteq DOMAIN e

\* The entry has its copy, or is skipped.
Settled(e, p) ==
    \/ Key(p) \in DOMAIN e.new /\ e.new[Key(p)] = p
    \/ Blocked(e, Key(p)) \/ HasDir(e.had, Key(p))

\* What the destination is while an extraction of ps to d is under way.
Extracting(d, ps, e) ==
    /\ IsDestination(e)
    /\ \A k : HasFile(d.had, k) => HasFile(e.had, k)
    /\ \A k \in DOMAIN e.new : e.new[k] \in ps /\ Key(e.new[k]) = k

\* The three things extract_dir_hardened and extract_file_hardened can do.
LEMMA ExtractOneIs ==
    ASSUME NEW e, IsDestination(e), NEW p
    PROVE  LET at == Key(p)
               f == ExtractOne(e, p)
           IN  \/ f = e /\ (HasFile(tree, p) => Blocked(e, at) \/ HasDir(e.had, at) \/ HasDir(tree, p))
               \/ /\ HasDir(tree, p) /\ ~HasFile(e.had, at)
                  /\ IsDestination(f) /\ f.new = e.new
                  /\ f.had = Place(EnsureDirs(e.had, at), at, "Dir")
               \/ /\ ~HasDir(tree, p) /\ ~HasDir(e.had, at)
                  /\ IsDestination(f) /\ f.new = Place(e.new, at, p)
                  /\ f.had = [q \in DOMAIN EnsureDirs(e.had, at) \ {at} |-> EnsureDirs(e.had, at)[q]]
<1> DEFINE at == Key(p)
           f == ExtractOne(e, p)
<1>1. CASE Blocked(e, at)
  BY <1>1 DEF ExtractOne, Key
<1>2. CASE ~Blocked(e, at) /\ HasDir(tree, p) /\ (HasFile(e.had, at) \/ at \in DOMAIN e.new)
  BY <1>2 DEF ExtractOne, Key
<1>3. CASE ~Blocked(e, at) /\ HasDir(tree, p) /\ ~(HasFile(e.had, at) \/ at \in DOMAIN e.new)
  <2>1. f = [e EXCEPT !.had = Place(EnsureDirs(@, at), at, "Dir")]
    BY <1>3 DEF ExtractOne, Key
  <2>2. IsDestination(f) /\ f.new = e.new /\ f.had = Place(EnsureDirs(e.had, at), at, "Dir")
    BY <2>1 DEF IsDestination
  <2> QED BY <2>2, <1>3
<1>4. CASE ~Blocked(e, at) /\ ~HasDir(tree, p) /\ HasDir(e.had, at)
  BY <1>4 DEF ExtractOne, Key
<1>5. CASE ~Blocked(e, at) /\ ~HasDir(tree, p) /\ ~HasDir(e.had, at)
  <2>1. f = [had |-> [q \in DOMAIN EnsureDirs(e.had, at) \ {at} |-> EnsureDirs(e.had, at)[q]],
             new |-> Place(e.new, at, p)]
    BY <1>5 DEF ExtractOne, Key
  <2>2. /\ IsDestination(f) /\ f.new = Place(e.new, at, p)
        /\ f.had = [q \in DOMAIN EnsureDirs(e.had, at) \ {at} |-> EnsureDirs(e.had, at)[q]]
    BY <2>1 DEF IsDestination
  <2> QED BY <2>2, <1>5
<1> QED BY <1>1, <1>2, <1>3, <1>4, <1>5

LEMMA EnsureDirsIs ==
    ASSUME NEW t, NEW p, NEW q
    PROVE  /\ HasFile(EnsureDirs(t, p), q) <=> HasFile(t, q)
           /\ HasDir(t, q) => HasDir(EnsureDirs(t, p), q)
BY DEF EnsureDirs, HasFile, HasDir

\* One entry keeps what the destination had, and what was settled before it.
LEMMA ExtractOneKeeps ==
    ASSUME NEW d, NEW ps, Preflight(d, ps), \A q \in ps : HasFile(tree, q) \/ HasDir(tree, q),
           NEW e, Extracting(d, ps, e), NEW p \in ps
    PROVE  /\ Extracting(d, ps, ExtractOne(e, p))
           /\ HasFile(tree, p) => Settled(ExtractOne(e, p), p)
           /\ \A q \in ps : Settled(e, q) => Settled(ExtractOne(e, p), q)
<1> DEFINE at == Key(p)
           f == ExtractOne(e, p)
           u == EnsureDirs(e.had, at)
<1>1. /\ \A q, r \in ps : Key(q) = Key(r) => q = r
      /\ \A q \in ps : HasFile(tree, q) => ~HasFile(d.had, Key(q))
  BY DEF Preflight, Key
<1>2. /\ IsDestination(e)
      /\ \A k : HasFile(d.had, k) => HasFile(e.had, k)
      /\ \A k \in DOMAIN e.new : e.new[k] \in ps /\ Key(e.new[k]) = k
  BY DEF Extracting
<1>3. ~(HasFile(tree, p) /\ HasDir(tree, p))
  BY DEF HasFile, HasDir
<1>4. \A q : (HasFile(u, q) <=> HasFile(e.had, q)) /\ (HasDir(e.had, q) => HasDir(u, q))
  BY EnsureDirsIs
<1>5. CASE f = e /\ (HasFile(tree, p) => Blocked(e, at) \/ HasDir(e.had, at) \/ HasDir(tree, p))
  BY <1>3, <1>5 DEF Settled
<1>6. CASE /\ HasDir(tree, p) /\ ~HasFile(e.had, at)
           /\ IsDestination(f) /\ f.new = e.new /\ f.had = Place(u, at, "Dir")
  <2>1. \A q : HasFile(e.had, q) => HasFile(f.had, q)
    <3>1. \A q : HasFile(u, q) /\ q # at => HasFile(Place(u, at, "Dir"), q)
      BY DEF Place, HasFile
    <3> QED BY <3>1, <1>4, <1>6
  <2>2. \A q : HasDir(e.had, q) => HasDir(f.had, q)
    <3>1. \A q : HasDir(u, q) => HasDir(Place(u, at, "Dir"), q)
      BY DEF Place, HasDir
    <3> QED BY <3>1, <1>4, <1>6
  <2> HIDE DEF f, at, u
  <2>3. \A k : Blocked(e, k) => Blocked(f, k)
    BY <2>1, <1>6 DEF Blocked
  <2>4. \A q \in ps : Settled(e, q) => Settled(f, q)
    BY <2>2, <2>3, <1>6 DEF Settled
  <2>5. Extracting(d, ps, f)
    BY <2>1, <1>2, <1>6 DEF Extracting
  <2> QED BY <2>4, <2>5, <1>3, <1>6 DEF f
<1>7. CASE /\ ~HasDir(tree, p) /\ ~HasDir(e.had, at)
           /\ IsDestination(f) /\ f.new = Place(e.new, at, p)
           /\ f.had = [q \in DOMAIN u \ {at} |-> u[q]]
  <2>1. \A q : HasFile(e.had, q) /\ q # at => HasFile(f.had, q)
    BY <1>4, <1>7 DEF HasFile
  <2>2. \A q : HasDir(e.had, q) => HasDir(f.had, q)
    <3>1. \A q : HasDir(u, q) /\ q # at => HasDir(f.had, q)
      BY <1>7 DEF HasDir
    <3> QED BY <3>1, <1>4, <1>7
  <2> HIDE DEF f, at, u
  <2>3. DOMAIN f.new = DOMAIN e.new \cup {at} /\ \A k \in DOMAIN f.new : f.new[k] = IF k = at THEN p ELSE e.new[k]
    BY <1>7 DEF Place
  <2>4. \A k : Blocked(e, k) => Blocked(f, k)
    BY <2>1, <2>3 DEF Blocked
  <2>5. ASSUME NEW q \in ps, Settled(e, q) PROVE Settled(f, q)
    <3>1. CASE Key(q) \in DOMAIN e.new /\ e.new[Key(q)] = q
      BY <3>1, <2>3, <1>1 DEF Settled, at
    <3>2. CASE Blocked(e, Key(q)) \/ HasDir(e.had, Key(q))
      BY <3>2, <2>2, <2>4 DEF Settled
    <3> QED BY <3>1, <3>2, <2>5 DEF Settled
  <2>6. Settled(f, p)
    BY <2>3 DEF Settled, at
  <2>7. \A k \in DOMAIN f.new : f.new[k] \in ps /\ Key(f.new[k]) = k
    BY <2>3, <1>2 DEF at
  <2>8. ASSUME HasFile(tree, p) PROVE \A k : HasFile(d.had, k) => HasFile(f.had, k)
    BY <2>1, <2>8, <1>1, <1>2 DEF at
  <2> QED BY <2>5, <2>6, <2>7, <2>8, <1>7 DEF Extracting, f
<1>8. \/ f = e /\ (HasFile(tree, p) => Blocked(e, at) \/ HasDir(e.had, at) \/ HasDir(tree, p))
      \/ /\ HasDir(tree, p) /\ ~HasFile(e.had, at)
         /\ IsDestination(f) /\ f.new = e.new /\ f.had = Place(u, at, "Dir")
      \/ /\ ~HasDir(tree, p) /\ ~HasDir(e.had, at)
         /\ IsDestination(f) /\ f.new = Place(e.new, at, p)
         /\ f.had = [q \in DOMAIN u \ {at} |-> u[q]]
  <2>1. IsDestination(e)
    BY <1>2
  <2> QED BY ONLY <2>1, ExtractOneIs
<1> QED BY <1>5, <1>6, <1>7, <1>8

\* A whole extraction of finitely many live entries.
LEMMA ExtractKeeps ==
    ASSUME Inv, NEW had \in Destinations, NEW ps \in SUBSET Live(tree)
    PROVE  LET d == [had |-> had, new |-> << >>]
           IN  NothingClobbered(d, Extract(d, ps), ps)
<1> DEFINE d == [had |-> had, new |-> << >>]
           s == SetToSeq(ps)
           after == Extract(d, ps)
<1>1. IsFiniteSet(ps)
  BY InvIs, LiveAreLive, FS_Subset
<1>2. /\ s \in Seq(ps) /\ Len(s) = Cardinality(ps)
      /\ \A p \in ps : \E n \in 1 .. Len(s) : s[n] = p
  BY <1>1, SetToSeqIs
<1>3. IsDestination(d) /\ DOMAIN d.new = {}
  BY DEF IsDestination
<1>4. \A q \in ps : HasFile(tree, q) \/ HasDir(tree, q)
  BY InvIs DEF Shaped, Live, HasFile, HasDir
<1> HIDE DEF d, s
<1>5. ASSUME ~Preflight(d, ps) PROVE NothingClobbered(d, after, ps)
  <2>1. after = d
    BY <1>5 DEF Extract
  <2> HIDE DEF after
  <2> QED BY <2>1, <1>3 DEF NothingClobbered
<1>6. ASSUME Preflight(d, ps) PROVE NothingClobbered(d, after, ps)
  <2>1. after = ExtractEach(d, s)
    BY <1>6 DEF Extract, s
  <2>2. Len(s) \in Nat
    BY <1>2
  <2>3. PICK g : /\ g[0] = d
                 /\ \A n \in 1 .. Len(s) : g[n] = ExtractOne(g[n - 1], s[n])
                 /\ after = g[Len(s)]
    BY <2>1, <2>2, ExtractEachIs
  <2> HIDE DEF after
  <2> DEFINE Good(m) == /\ Extracting(d, ps, g[m])
                        /\ \A n \in 1 .. m : HasFile(tree, s[n]) => Settled(g[m], s[n])
             P == {m \in Nat : m <= Len(s) => Good(m)}
  <2>4. 0 \in P
    <3>1. Extracting(d, ps, g[0])
      BY <2>3, <1>3 DEF Extracting
    <3> QED BY <3>1
  <2>5. ASSUME NEW m \in Nat, m \in P PROVE m + 1 \in P
    <3> SUFFICES ASSUME m + 1 <= Len(s) PROVE Good(m + 1)
      OBVIOUS
    <3>1. m + 1 \in 1 .. Len(s) /\ (m + 1) - 1 = m /\ Good(m)
      BY <2>5, <2>2
    <3>2. g[m + 1] = ExtractOne(g[m], s[m + 1])
      BY <2>3, <3>1
    <3>3. \A n \in 1 .. Len(s) : s[n] \in ps
      BY <1>2, ElementOfSeq
    <3>4. /\ Extracting(d, ps, g[m + 1])
          /\ HasFile(tree, s[m + 1]) => Settled(g[m + 1], s[m + 1])
          /\ \A q \in ps : Settled(g[m], q) => Settled(g[m + 1], q)
      BY <3>1, <3>2, <3>3, <1>4, <1>6, ExtractOneKeeps
    <3>5. ASSUME NEW n \in 1 .. m + 1, HasFile(tree, s[n]) PROVE Settled(g[m + 1], s[n])
      <4>1. CASE n = m + 1
        BY <4>1, <3>4, <3>5
      <4>2. CASE n # m + 1
        <5>1. n \in 1 .. m /\ n \in 1 .. Len(s)
          BY <4>2, <3>1
        <5> QED BY <5>1, <3>1, <3>3, <3>4, <3>5
      <4> QED BY <4>1, <4>2
    <3> QED BY <3>4, <3>5
  <2>6. Good(Len(s))
    <3>1. Len(s) \in P
      BY <2>2, <2>4, <2>5, InductionOverNat
    <3> QED BY <3>1, <2>2
  <2>7. Extracting(d, ps, after) /\ \A p \in ps : HasFile(tree, p) => Settled(after, p)
    BY <1>2, <2>3, <2>6
  <2>8. \A k : HasFile(d.had, k) => HasFile(after.had, k)
    BY <2>7 DEF Extracting
  <2>9. \A k \in DOMAIN after.new : after.new[k] \in Live(tree)
    BY <2>7 DEF Extracting
  <2>10. ASSUME NEW p \in ps, HasFile(tree, p)
         PROVE  LET at == PortableCollisionKey(p)
                IN  \/ at \in DOMAIN after.new /\ after.new[at] = p
                    \/ Blocked(after, at) \/ HasDir(after.had, at)
    BY <2>7, <2>10 DEF Settled, Key
  <2> QED BY <2>8, <2>9, <2>10 DEF NothingClobbered
<1> QED BY <1>5, <1>6 DEF d, after

\* Extracting everything or a selection replaces no file at the destination, writes
\* nothing from the trash, and gives every file its own copy: preflight_extraction.
THEOREM TreeExtractionSafe == Spec => []ExtractionLosesNothing
<1>1. ASSUME Inv PROVE ExtractionLosesNothing
  <2> SUFFICES ASSUME NEW had \in Destinations
               PROVE  LET d == [had |-> had, new |-> << >>]
                      IN  /\ NothingClobbered(d, ExtractAll(d), Live(tree))
                          /\ \A ps \in Selections :
                               NothingClobbered(d, ExtractSelected(d, ps), FilesOf(ps))
    BY DEF ExtractionLosesNothing
  <2>1. \A ps : FilesOf(ps) \in SUBSET Live(tree)
    BY DEF FilesOf
  <2> QED BY <1>1, <2>1, ExtractKeeps DEF ExtractAll, ExtractSelected
<1> QED BY <1>1, InvAlways, PTL

===============================================================================
