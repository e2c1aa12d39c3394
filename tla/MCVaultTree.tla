------------------------------ MODULE MCVaultTree ------------------------------
(* Bounds of VaultTree for TLC.                                                *)
EXTENDS VaultTree

\* Documents are interchangeable.
Symmetry == Permutations(Documents)

\* Two names as they are, "a" with a separator behind it, and a name that leads into
\* the trash and looks like a token of "a" there.  Others are in the vault initially.
MCSpellings ==
    {[parts |-> <<b>>, exact |-> TRUE] : b \in {"a", ".trash"}} \cup
    {[parts |-> parts, exact |-> FALSE] : parts \in {<<"a">>, <<".trash", "t">>}}

\* Only plain names.
MCPlain == {[parts |-> <<b>>, exact |-> TRUE] : b \in Bases}

MCDecoded(base) == IF base = "t" THEN <<Plain("a")>> ELSE <<>>

\* "A" and "a" are one name on a destination that ignores case.
MCLower(base) == IF base = "A" THEN "a" ELSE base

\* An empty folder, one with the file "a" and one with the folder "a".
MCDestinations ==
    {<< >>} \cup {[p \in {<<Plain("a")>>} |-> kind] : kind \in {"File", "Dir"}}
=================================================================================
