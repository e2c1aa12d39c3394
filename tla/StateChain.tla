------------------------------ MODULE StateChain ------------------------------
(***************************************************************************)
(* The hash-chained, epoch-numbered metadata of a protected state object   *)
(* (keystore, contact book, vault registry, vault manifest) and the        *)
(* high-water anchor kept apart from it: filesec-core/src/state.rs.        *)
(*                                                                         *)
(* A BLAKE3 state hash commits to the identity, object, suite, epoch,      *)
(* predecessor hash and payload.  It is modelled by what it commits to:    *)
(* the sequence of links from genesis, oldest first.  Two hashes are equal *)
(* exactly when the whole chains they close are equal, and the epoch of a  *)
(* link is its position.                                                   *)
(***************************************************************************)
EXTENDS Naturals, Sequences

CONSTANTS
    Identity,   \* identity fingerprints
    Object,     \* object type and id, as one value
    Suite,      \* suite ids
    Payload,    \* canonical payload bytes
    MaxEpoch,   \* u64::MAX: the last epoch, and the terminal epoch of a deletion
    NoAnchor    \* Option::None where an anchor is expected

Link == [identity : Identity, object : Object, suite : Suite, payload : Payload]

Hash == Seq(Link)

GENESIS_HASH == << >>

StateMetadata ==
    [identity : Identity, object : Object, suite : Suite,
     epoch : 1..MaxEpoch, prev : Hash, cur : Hash]

StateAnchor ==
    [identity : Identity, object : Object, suite : Suite,
     epoch : 1..MaxEpoch, cur : Hash]

\* An anchor is never confused with its absence, and at least one epoch exists.
ASSUME ChainAssumption ==
    /\ MaxEpoch \in Nat \ {0}
    /\ NoAnchor \notin StateAnchor

\* StateMetadata::expected_hash.
ExpectedHash(identity, object, suite, prev, payload) ==
    Append(prev, [identity |-> identity, object |-> object,
                  suite |-> suite, payload |-> payload])

\* StateAnchor::from_metadata.
FromMetadata(s) ==
    [identity |-> s.identity, object |-> s.object, suite |-> s.suite,
     epoch |-> s.epoch, cur |-> s.cur]

\* Mutant: the epoch is incremented without the overflow check.
NextAllowedUnchecked(identity, object, previous) ==
    previous # NoAnchor => previous.identity = identity /\ previous.object = object

\* StateMetadata::next returns Ok: the predecessor is the same object of the
\* same identity and its epoch can still be incremented (checked_add).
NextAllowed(identity, object, previous) ==
    previous # NoAnchor =>
        /\ previous.identity = identity
        /\ previous.object = object
        /\ previous.epoch < MaxEpoch

\* What StateMetadata::next returns when it returns Ok.
NextState(identity, object, suite, previous, payload) ==
    LET epoch == IF previous = NoAnchor THEN 1 ELSE previous.epoch + 1
        prev  == IF previous = NoAnchor THEN GENESIS_HASH ELSE previous.cur
    IN  [identity |-> identity, object |-> object, suite |-> suite,
         epoch |-> epoch, prev |-> prev,
         cur |-> ExpectedHash(identity, object, suite, prev, payload)]

\* StateMetadata::verify_payload: the record commits to exactly this payload.
VerifyPayload(s, payload) ==
    /\ s.epoch # 0
    /\ s.cur = ExpectedHash(s.identity, s.object, s.suite, s.prev, payload)

SameObject(a, c) == a.identity = c.identity /\ a.object = c.object

SaturatingSucc(epoch) == IF epoch < MaxEpoch THEN epoch + 1 ELSE epoch

\* Mutant: the anchored state is recognised by its epoch alone.
IsCurrentByEpoch(a, c) == SameObject(a, c) /\ c.epoch = a.epoch

\* StateAnchor::check_candidate returns Ok(false): c is the anchored state.
IsCurrent(a, c) ==
    /\ SameObject(a, c)
    /\ c.epoch = a.epoch
    /\ c.cur = a.cur
    /\ c.suite = a.suite

\* StateAnchor::check_candidate returns Ok(true): c directly follows a.
IsSuccessor(a, c) ==
    /\ SameObject(a, c)
    /\ c.epoch > a.epoch
    /\ c.epoch = SaturatingSucc(a.epoch)
    /\ c.prev = a.cur

\* Every other candidate is refused (rollback, fork, gap, foreign object).
Acceptable(a, c) == IsCurrent(a, c) \/ IsSuccessor(a, c)

\* The record passes verify_payload for some payload: it is genuine.
WellFormed(s) == \E p \in Payload : VerifyPayload(s, p)

\* One hash continues another: every update the older one commits to is in it.
Continues(new, old) ==
    /\ Len(old) <= Len(new)
    /\ \A i \in 1..Len(old) : new[i] = old[i]
===============================================================================
