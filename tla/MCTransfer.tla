------------------------------ MODULE MCTransfer ------------------------------
(* Bounds of Transfer for TLC: an attempt of the expected contact with two   *)
(* data records, and one of anybody, with one, from the same address.        *)
EXTENDS Transfer

CONSTANTS c1, c2, home

MCCallers == [c \in Conns |-> IF c = c1 THEN {"expected"} ELSE {"expected", "other", "nocode"}]
MCAddress == [c \in Conns |-> home]
MCSize == [c \in Conns |-> IF c = c1 THEN 2 ELSE 1]
===============================================================================
