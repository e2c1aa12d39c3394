---------------------------- MODULE MCVaultLifecycle ----------------------------
(* Bounds of VaultLifecycle for TLC.  Vault ids are only compared for         *)
(* equality.                                                                  *)
EXTENDS VaultLifecycle, TLC

CONSTANTS v1, v2, v3

MCSymmetry == Permutations({v1, v2, v3})

\* Every failure without a listener, a listener with every failure but those of
\* the directories, and a listener with those.
MCFaultSets == {{"save", "anchor", "fs", "crash", "copy"},
                {"save", "anchor", "crash", "net"}, {"fs", "crash", "net"}}
=================================================================================
