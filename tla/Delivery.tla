------------------------------- MODULE Delivery -------------------------------
(***************************************************************************)
(* What a direct transfer promises, without the network: every connection  *)
(* carries one vault.  The receiver takes at most one at a time, each for  *)
(* one press of Accept; a press can be lost but never counts twice.  The   *)
(* sender learns "sent" only of a vault that was taken, and "declined"     *)
(* only of one that will never be stored.                                  *)
(***************************************************************************)
EXTENDS Naturals

CONSTANT Conns      \* the connections senders make

VARIABLES
    clicks,         \* presses of Accept that have not been used or lost
    stage,          \* connection -> "open", "taking", "stored" or "closed"
    told            \* connection -> what its sender was told

vars == <<clicks, stage, told>>

Init ==
    /\ clicks = 0
    /\ stage = [c \in Conns |-> "open"]
    /\ told = [c \in Conns |-> "nothing"]

Click == clicks' = clicks + 1 /\ UNCHANGED <<stage, told>>

\* Presses that reach nobody who waits for a decision.
Lose == clicks' \in Nat /\ clicks' < clicks /\ UNCHANGED <<stage, told>>

Take(c) ==
    /\ stage[c] = "open"
    /\ \A d \in Conns : stage[d] # "taking"
    /\ clicks > 0
    /\ clicks' = clicks - 1
    /\ stage' = [stage EXCEPT ![c] = "taking"]
    /\ UNCHANGED told

\* The end of a connection; presses still queued for it are lost with it.
End(c, how) ==
    /\ stage' = [stage EXCEPT ![c] = how]
    /\ clicks' \in Nat /\ clicks' <= clicks
    /\ UNCHANGED told

Store(c) == stage[c] = "taking" /\ End(c, "stored")

Close(c) == stage[c] \in {"open", "taking"} /\ End(c, "closed")

Tell(c, what) ==
    /\ told[c] = "nothing"
    /\ told' = [told EXCEPT ![c] = what]
    /\ UNCHANGED <<clicks, stage>>

Sent(c) == stage[c] # "open" /\ Tell(c, "sent")

Declined(c) == stage[c] = "closed" /\ Tell(c, "declined")

Next ==
    \/ Click \/ Lose
    \/ \E c \in Conns : Take(c) \/ Store(c) \/ Close(c) \/ Sent(c) \/ Declined(c)

Spec == Init /\ [][Next]_vars
===============================================================================
