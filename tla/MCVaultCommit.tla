----------------------------- MODULE MCVaultCommit -----------------------------
(* Bounds of VaultCommit for TLC.  Blob ids are only compared for equality,   *)
(* and the two sessions and the two paths play the same part.                 *)
EXTENDS VaultCommit, TLC

CONSTANTS s1, s2, f, g, b1, b2, b3, alice, vault

MCTree == [Path -> Blob \cup {NoBlob}]

MCSymmetry == Permutations({s1, s2}) \cup Permutations({f, g}) \cup Permutations({b1, b2, b3})

\* Power losses where syncs work, and where they fail; kills where syncs fail,
\* and where the anchor backend fails.
MCFaultSets ==
    {{"power"}, {"sync", "power"}, {"sync", "kill"}, {"anchor", "kill"}}
===============================================================================
