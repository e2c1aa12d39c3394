--------------------------- MODULE MCProtectedStore ---------------------------
(* Bounds of ProtectedStore for TLC: Symmetry is sound because payloads are  *)
(* only ever compared for equality.                                          *)
EXTENDS ProtectedStore, TLC

CONSTANTS ui, job, ks, contacts, alice, p1, p2

MCSuite == {0, 1}

PayloadSymmetry == Permutations({p1, p2})
===============================================================================
