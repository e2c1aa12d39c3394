------------------------------ MODULE MCKeystore ------------------------------
(* Bounds of Keystore for TLC.                                               *)
EXTENDS Keystore

MCDamages == {"restore", "marker", "keychain"}
===============================================================================
