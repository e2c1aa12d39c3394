------------------------------- MODULE MCSession -------------------------------
(* Bounds of Session for TLC: one vault, one file, two temporary files.       *)
EXTENDS Session

CONSTANTS a, b, t1, t2

\* Failing reads and saves, failing wipes, and a killed process, each on its own.
MCFaultSets == {{"io", "save"}, {"wipe"}, {"kill"}}
=================================================================================
