------------------------- MODULE ProtectedStoreProofs -------------------------
(* Machine-checked proofs of ProtectedStore's properties, for any set of      *)
(* threads, objects and payloads and any epoch bound.                         *)
EXTENDS ProtectedStore, TLAPS

-------------------------------------------------------------------------------
(* The state chain: what StateMetadata::next returns, and that accepting a     *)
(* successor never forgets an update.                                         *)

\* StateMetadata::next returns a well-formed record of the right object whenever
\* it does not return an error.
LEMMA NextStateType ==
    ASSUME NEW i \in Identity, NEW o \in Object, NEW s \in Suite,
           NEW a \in StateAnchor \cup {NoAnchor}, NEW p \in Payload,
           NextAllowed(i, o, a)
    PROVE  /\ NextState(i, o, s, a, p) \in StateMetadata
           /\ WellFormed(NextState(i, o, s, a, p))
           /\ NextState(i, o, s, a, p).identity = i
           /\ NextState(i, o, s, a, p).object = o
           /\ NextState(i, o, s, a, p).suite = s
<1> DEFINE epoch == IF a = NoAnchor THEN 1 ELSE a.epoch + 1
           prev  == IF a = NoAnchor THEN GENESIS_HASH ELSE a.cur
           lnk   == [identity |-> i, object |-> o, suite |-> s, payload |-> p]
           new   == NextState(i, o, s, a, p)
<1>1. epoch \in 1..MaxEpoch
  BY ChainAssumption DEF NextAllowed, StateAnchor
<1>2. prev \in Seq(Link)
  BY DEF StateAnchor, Hash, GENESIS_HASH
<1>3. lnk \in Link
  BY DEF Link
<1>4. Append(prev, lnk) \in Seq(Link)
  BY <1>2, <1>3
<1>5. new = [identity |-> i, object |-> o, suite |-> s, epoch |-> epoch,
             prev |-> prev, cur |-> Append(prev, lnk)]
  BY DEF NextState, ExpectedHash
<1> HIDE DEF epoch, prev, lnk, new
<1>6. new \in StateMetadata
  BY <1>1, <1>2, <1>4, <1>5 DEF StateMetadata, Hash
<1>7. /\ new.identity = i /\ new.object = o /\ new.suite = s
      /\ new.epoch = epoch /\ new.prev = prev /\ new.cur = Append(prev, lnk)
  BY <1>5
<1>8. WellFormed(new)
  <2>1. new.epoch # 0
    BY <1>1, <1>7
  <2>2. new.cur = ExpectedHash(new.identity, new.object, new.suite, new.prev, p)
    BY <1>7 DEF ExpectedHash, lnk
  <2> QED BY <2>1, <2>2 DEF WellFormed, VerifyPayload
<1> QED BY <1>6, <1>7, <1>8 DEF new

\* An anchor made from a record is an anchor of the same object and hash.
LEMMA FromMetadataType ==
    ASSUME NEW s \in StateMetadata
    PROVE  /\ FromMetadata(s) \in StateAnchor
           /\ FromMetadata(s).identity = s.identity
           /\ FromMetadata(s).object = s.object
           /\ FromMetadata(s).suite = s.suite
           /\ FromMetadata(s).epoch = s.epoch
           /\ FromMetadata(s).cur = s.cur
BY DEF FromMetadata, StateMetadata, StateAnchor

\* Continuation of hashes is reflexive.
LEMMA ContinuesRefl == ASSUME NEW h \in Hash PROVE Continues(h, h)
BY DEF Continues, Hash

\* Continuation of hashes is transitive.
LEMMA ContinuesTrans ==
    ASSUME NEW f \in Hash, NEW g \in Hash, NEW h \in Hash,
           Continues(f, g), Continues(g, h)
    PROVE  Continues(f, h)
BY DEF Continues, Hash

\* A genuine record continues its own predecessor.
LEMMA WellFormedContinues ==
    ASSUME NEW s \in StateMetadata, WellFormed(s)
    PROVE  Continues(s.cur, s.prev)
<1>1. PICK p \in Payload :
        s.cur = Append(s.prev, [identity |-> s.identity, object |-> s.object,
                                suite |-> s.suite, payload |-> p])
  BY DEF WellFormed, VerifyPayload, ExpectedHash
<1>2. s.prev \in Seq(Link)
  BY DEF StateMetadata, Hash
<1> DEFINE lnk == [identity |-> s.identity, object |-> s.object,
                   suite |-> s.suite, payload |-> p]
<1>3. lnk \in Link
  BY DEF Link, StateMetadata
<1> HIDE DEF lnk
<1>4. s.cur = Append(s.prev, lnk)
  BY <1>1 DEF lnk
<1> QED BY <1>2, <1>3, <1>4 DEF Continues

\* Accepting a genuine successor keeps every update the anchor commits to.
LEMMA SuccessorContinues ==
    ASSUME NEW a \in StateAnchor, NEW c \in StateMetadata,
           WellFormed(c), Acceptable(a, c)
    PROVE  Continues(c.cur, a.cur)
<1>1. CASE IsCurrent(a, c)
  BY <1>1, ContinuesRefl DEF IsCurrent, StateMetadata
<1>2. CASE IsSuccessor(a, c)
  BY <1>2, WellFormedContinues DEF IsSuccessor
<1> QED BY <1>1, <1>2 DEF Acceptable

-------------------------------------------------------------------------------
(* The protected store.                                                       *)

\* What put_anchor_locked leaves in the backend is a set of anchors.
LEMMA PutType ==
    ASSUME TypeOK, NEW t \in Thread, cand[t] # NoFile
    PROVE  Put(t) \in [Object -> StateAnchor \cup {NoAnchor}]
<1>1. cand[t] \in StateMetadata
  BY DEF TypeOK
<1>2. FromMetadata(cand[t]) \in StateAnchor
  BY <1>1, FromMetadataType
<1> QED BY <1>2 DEF Put, TypeOK

\* The variables that leaving or refusing an operation changes keep their types.
LocalTypes ==
    /\ backend \in {"secure", "degraded"}
    /\ txn \in [Object -> Thread \cup {Free}]
    /\ pc \in [Thread -> Pc]
    /\ op \in [Thread -> Op]
    /\ obj \in [Thread -> Object]
    /\ cand \in [Thread -> StateMetadata \cup {NoFile}]
    /\ memory \in [Thread -> StateMetadata \cup {NoFile}]
    /\ out \in [Thread -> Outcome]
    /\ acked \in [Object -> Hash]
    /\ backup \in [Object -> StateMetadata \cup {NoFile}]
    /\ tampered \subseteq Object

\* Returning an error keeps the types.
LEMMA LeaveErrTypes ==
    ASSUME TypeOK, NEW t \in Thread, LeaveErr(t) PROVE LocalTypes'
BY StoreAssumption DEF LeaveErr, Leave, TypeOK, LocalTypes, Pc, Op, Outcome

\* Refusing a candidate keeps the types.
LEMMA RefuseTypes ==
    ASSUME TypeOK, NEW t \in Thread, Refuse(t) PROVE LocalTypes'
<1>1. CASE op[t] \in LoadOp
  BY <1>1 DEF Refuse, Goto, TypeOK, LocalTypes, Pc
<1>2. CASE op[t] \notin LoadOp
  BY <1>2, LeaveErrTypes DEF Refuse
<1> QED BY <1>1, <1>2

\* The initial states are well typed.
LEMMA TypeInit == Init => TypeOK
BY StoreAssumption DEF Init, TypeOK, Op, Pc, Outcome, Hash, GENESIS_HASH

\* Every step preserves the types, given that candidates in flight are records.
LEMMA TypeStep ==
    ASSUME TypeOK, GenuineInv, [Next]_vars PROVE TypeOK'
<1> USE StoreAssumption DEF Pc, Op, Outcome
<1>1. ASSUME NEW t \in Thread, NEW o \in Object, SaveBlob(t, o) PROVE TypeOK'
  BY <1>1 DEF SaveBlob, Enter, TypeOK
<1>2. ASSUME NEW t \in Thread, NEW o \in Object, LoadBlob(t, o) PROVE TypeOK'
  BY <1>2 DEF LoadBlob, Enter, TypeOK
<1>3. ASSUME NEW t \in Thread, NEW p \in Payload, SaveKeystore(t, p) PROVE TypeOK'
  <2> DEFINE previous == IF memory[t] = NoFile THEN NoAnchor
                         ELSE FromMetadata(memory[t])
             new == NextState(Self, Keystore, self_suite(Keystore), previous, p)
  <2>1. previous \in StateAnchor \cup {NoAnchor}
    BY FromMetadataType DEF TypeOK
  <2>2. NextAllowed(Self, Keystore, previous)
    BY <1>3 DEF SaveKeystore
  <2>3. new \in StateMetadata
    BY <2>1, <2>2, NextStateType DEF self_suite
  <2>4. cand' = [cand EXCEPT ![t] = new]
    BY <1>3 DEF SaveKeystore
  <2> HIDE DEF new
  <2> QED BY <1>3, <2>3, <2>4 DEF SaveKeystore, Enter, TypeOK
<1>4. ASSUME NEW t \in Thread, LoadKeystore(t) PROVE TypeOK'
  BY <1>4 DEF LoadKeystore, Enter, TypeOK
<1>5. ASSUME NEW t \in Thread, ConfirmKeystore(t) PROVE TypeOK'
  BY <1>5 DEF ConfirmKeystore, Enter, TypeOK
<1>6. ASSUME NEW t \in Thread, ReadAnchor(t) PROVE TypeOK'
  <2>1. UNCHANGED <<file, anchors, guard, seen, quarantined>>
    BY <1>6 DEF ReadAnchor
  <2>2. CASE LeaveErr(t)
    BY <2>1, <2>2, LeaveErrTypes DEF LocalTypes, TypeOK
  <2>3. ASSUME NEW p \in Payload, NextAllowed(Self, obj[t], anchors[obj[t]]),
               cand' = [cand EXCEPT ![t] = NextState(Self, obj[t],
                           self_suite(obj[t]), anchors[obj[t]], p)],
               Goto(t, "write")
        PROVE  TypeOK'
    <3> DEFINE new == NextState(Self, obj[t], self_suite(obj[t]), anchors[obj[t]], p)
    <3>1. new \in StateMetadata
      BY <2>3, NextStateType DEF TypeOK, self_suite
    <3>2. cand' = [cand EXCEPT ![t] = new]
      BY <2>3
    <3> HIDE DEF new
    <3> QED BY <2>1, <2>3, <3>1, <3>2 DEF Goto, TypeOK
  <2> QED BY <1>6, <2>2, <2>3 DEF ReadAnchor
<1>7. ASSUME NEW t \in Thread, CheckTransition(t) PROVE TypeOK'
  <2>1. UNCHANGED <<file, anchors, guard, seen, quarantined>>
    BY <1>7 DEF CheckTransition
  <2>2. CASE LeaveErr(t)
    BY <2>1, <2>2, LeaveErrTypes DEF LocalTypes, TypeOK
  <2>3. CASE Goto(t, "write") /\ UNCHANGED cand
    BY <2>1, <2>3 DEF Goto, TypeOK
  <2> QED BY <1>7, <2>2, <2>3 DEF CheckTransition
<1>8. ASSUME NEW t \in Thread, WriteFile(t) PROVE TypeOK'
  <2>1. UNCHANGED <<anchors, guard, seen, quarantined>>
    BY <1>8 DEF WriteFile
  <2>2. CASE LeaveErr(t) /\ UNCHANGED file
    BY <2>1, <2>2, LeaveErrTypes DEF LocalTypes, TypeOK
  <2>3. CASE file' = [file EXCEPT ![obj[t]] = cand[t]] /\ Goto(t, "get") /\ UNCHANGED cand
    BY <2>1, <2>3 DEF Goto, TypeOK
  <2> QED BY <1>8, <2>2, <2>3 DEF WriteFile
<1>9. ASSUME NEW t \in Thread, ReadFile(t) PROVE TypeOK'
  <2>1. UNCHANGED <<file, anchors, guard, seen, quarantined>>
    BY <1>9 DEF ReadFile
  <2>2. CASE LeaveErr(t)
    BY <2>1, <2>2, LeaveErrTypes DEF LocalTypes, TypeOK
  <2>3. CASE cand' = [cand EXCEPT ![t] = file[obj[t]]] /\ Goto(t, "get")
    BY <2>1, <2>3 DEF Goto, TypeOK
  <2>4. CASE LeaveDefault(t)
    BY <2>1, <2>4 DEF LeaveDefault, Leave, TypeOK
  <2> QED BY <1>9, <2>2, <2>3, <2>4 DEF ReadFile
<1>10. ASSUME NEW t \in Thread, GetAnchor(t) PROVE TypeOK'
  <2>1. UNCHANGED <<file, anchors, quarantined>> /\ pc[t] = "get"
    BY <1>10 DEF GetAnchor, LockAnchors
  <2>2. cand[t] \in StateMetadata
    BY <2>1 DEF GenuineInv, TypeOK
  <2>3. cand[t].cur \in Hash
    BY <2>2 DEF StateMetadata
  <2>4. CASE LeaveOk(t) /\ UNCHANGED <<guard, seen>>
    BY <2>1, <2>2, <2>3, <2>4 DEF LeaveOk, Leave, TypeOK
  <2>5. CASE Refuse(t) /\ UNCHANGED <<guard, seen>>
    BY <2>1, <2>5, RefuseTypes DEF LocalTypes, TypeOK
  <2>6. CASE /\ guard' = t
             /\ seen' = [seen EXCEPT ![t] = anchors]
             /\ Goto(t, "put")
             /\ UNCHANGED cand
    BY <2>1, <2>6 DEF Goto, TypeOK
  <2> QED BY <1>10, <2>4, <2>5, <2>6 DEF GetAnchor, LockAnchors
<1>11. ASSUME NEW t \in Thread, PutAnchor(t) PROVE TypeOK'
  <2>1. /\ UNCHANGED <<file, quarantined>>
        /\ pc[t] = "put"
        /\ guard' = Free
        /\ seen' = [seen EXCEPT ![t] = [o \in Object |-> NoAnchor]]
    BY <1>11 DEF PutAnchor
  <2>2. cand[t] \in StateMetadata
    BY <2>1 DEF GenuineInv, TypeOK
  <2>3. cand[t].cur \in Hash
    BY <2>2 DEF StateMetadata
  <2>4. anchors' \in [Object -> StateAnchor \cup {NoAnchor}]
    <3>1. Put(t) \in [Object -> StateAnchor \cup {NoAnchor}]
      BY <2>2, PutType
    <3>2. anchors' = anchors \/ anchors' = Put(t)
      BY <1>11 DEF PutAnchor
    <3> QED BY <3>1, <3>2 DEF TypeOK
  <2>5. CASE LeaveOk(t)
    BY <2>1, <2>2, <2>3, <2>4, <2>5 DEF LeaveOk, Leave, TypeOK
  <2>6. CASE Refuse(t)
    BY <2>1, <2>4, <2>6, RefuseTypes DEF LocalTypes, TypeOK
  <2> QED BY <1>11, <2>5, <2>6 DEF PutAnchor
<1>12. ASSUME NEW t \in Thread, Quarantine(t) PROVE TypeOK'
  BY <1>12, LeaveErrTypes DEF Quarantine, LocalTypes, TypeOK
<1>13. CASE Crash
  BY <1>13 DEF Crash, TypeOK
<1>14. ASSUME NEW o \in Object, CopyFile(o) PROVE TypeOK'
  BY <1>14 DEF CopyFile, TypeOK
<1>15. ASSUME NEW o \in Object, RestoreOldFile(o) PROVE TypeOK'
  BY <1>15 DEF RestoreOldFile, TypeOK
<1>16. ASSUME NEW o \in Object, RemoveFile(o) PROVE TypeOK'
  BY <1>16 DEF RemoveFile, TypeOK
<1>17. CASE UNCHANGED vars
  BY <1>17 DEF vars, TypeOK
<1> QED
  BY <1>1, <1>2, <1>3, <1>4, <1>5, <1>6, <1>7, <1>8, <1>9, <1>10, <1>11, <1>12,
     <1>13, <1>14, <1>15, <1>16, <1>17 DEF Next, ThreadStep

-------------------------------------------------------------------------------
(* The remaining parts of the inductive invariant, one lemma for each.        *)

\* What save_protected_blob prepares directly follows the anchor it read.
LEMMA NextIsSuccessor ==
    ASSUME NEW i \in Identity, NEW o \in Object, NEW s \in Suite,
           NEW a \in StateAnchor, NEW p \in Payload, NextAllowed(i, o, a)
    PROVE  IsSuccessor(a, NextState(i, o, s, a, p))
BY ChainAssumption DEF NextAllowed, NextState, IsSuccessor, SameObject,
   SaturatingSucc, StateAnchor

\* Once its anchor is written, a record is the anchored state.
LEMMA AnchoredIsCurrent ==
    ASSUME NEW s \in StateMetadata PROVE IsCurrent(FromMetadata(s), s)
BY FromMetadataType DEF IsCurrent, SameObject

\* The record in flight at the steps that use it.
LEMMA CandType ==
    ASSUME IInv, NEW t \in Thread, pc[t] \in {"check", "write", "get", "put"}
    PROVE  /\ cand[t] \in StateMetadata
           /\ obj[t] \in Object
           /\ WellFormed(cand[t])
           /\ cand[t].identity = Self
           /\ cand[t].object = obj[t]
BY DEF IInv, TypeOK, GenuineInv, Genuine

\* The four ways out of accept_state's decision.
LEMMA GetCases ==
    ASSUME NEW t \in Thread, GetAnchor(t)
    PROVE  /\ pc[t] = "get" /\ guard = Free
           /\ UNCHANGED <<file, anchors, quarantined>>
           /\ \/ /\ anchors[obj[t]] # NoAnchor => IsSuccessor(anchors[obj[t]], cand[t])
                 /\ guard' = t
                 /\ seen' = [seen EXCEPT ![t] = anchors]
                 /\ Goto(t, "put")
                 /\ UNCHANGED cand
              \/ /\ \/ anchors[obj[t]] # NoAnchor /\ IsCurrent(anchors[obj[t]], cand[t])
                    \/ anchors[obj[t]] = NoAnchor /\ op[t] = "load_keystore"
                 /\ LeaveOk(t)
                 /\ UNCHANGED <<guard, seen>>
              \/ /\ op[t] \in LoadOp
                 /\ Goto(t, "quarantine")
                 /\ UNCHANGED <<cand, guard, seen>>
              \/ LeaveErr(t) /\ UNCHANGED <<guard, seen>>
BY DEF GetAnchor, LockAnchors, Refuse

\* What the backend holds after a write: only the object's own anchor changed,
\* in either backend, because the set read under the guard is still the current one.
LEMMA PutCases ==
    ASSUME IInv, NEW t \in Thread, PutAnchor(t)
    PROVE  LET new == [anchors EXCEPT ![obj[t]] = FromMetadata(cand[t])] IN
           /\ pc[t] = "put" /\ guard' = Free
           /\ seen' = [seen EXCEPT ![t] = [o \in Object |-> NoAnchor]]
           /\ UNCHANGED <<file, quarantined>>
           /\ \/ anchors' = new /\ LeaveOk(t)
              \/ /\ anchors' \in {anchors, new}
                 /\ op[t] \in LoadOp
                 /\ Goto(t, "quarantine")
                 /\ UNCHANGED cand
              \/ anchors' \in {anchors, new} /\ LeaveErr(t)
<1>1. Put(t) = [anchors EXCEPT ![obj[t]] = FromMetadata(cand[t])]
  <2>1. seen[t] = anchors
    BY DEF PutAnchor, IInv, FlightInv
  <2> QED BY <2>1 DEF Put
<1> QED BY <1>1 DEF PutAnchor, Refuse

\* A write of an anchor ends the thread's own step and leaves the others alone.
LEMMA PutFrame ==
    ASSUME IInv, NEW t \in Thread, PutAnchor(t)
    PROVE  /\ UNCHANGED tampered
           /\ pc'[t] \in {"idle", "quarantine"}
           /\ \A u \in Thread \ {t} :
                 pc'[u] = pc[u] /\ obj'[u] = obj[u] /\ cand'[u] = cand[u]
<1>0. TypeOK
  BY DEF IInv
<1>1. \/ LeaveOk(t)
      \/ Goto(t, "quarantine") /\ UNCHANGED cand
      \/ LeaveErr(t)
  BY PutCases
<1>2. CASE LeaveOk(t)
  BY <1>0, <1>2 DEF LeaveOk, Leave, TypeOK
<1>3. CASE Goto(t, "quarantine") /\ UNCHANGED cand
  BY <1>0, <1>3 DEF Goto, TypeOK
<1>4. CASE LeaveErr(t)
  BY <1>0, <1>4 DEF LeaveErr, Leave, TypeOK
<1> QED BY <1>1, <1>2, <1>3, <1>4

\* Mutual exclusion: every step keeps the mutexes with the operations that took them.
LEMMA LockStep ==
    ASSUME IInv, TypeOK', [Next]_vars PROVE LockInv'
<1> USE StoreAssumption DEF IInv, Pc, Op, Outcome
<1>1. ASSUME NEW t \in Thread, NEW o \in Object, SaveBlob(t, o) PROVE LockInv'
  BY <1>1 DEF SaveBlob, Enter, TypeOK, OpOf, Blob, LoadOp, LockInv
<1>2. ASSUME NEW t \in Thread, NEW o \in Object, LoadBlob(t, o) PROVE LockInv'
  BY <1>2 DEF LoadBlob, Enter, TypeOK, OpOf, Blob, LoadOp, LockInv
<1>3. ASSUME NEW t \in Thread, NEW p \in Payload, SaveKeystore(t, p) PROVE LockInv'
  BY <1>3 DEF SaveKeystore, Enter, TypeOK, OpOf, Blob, LoadOp, LockInv
<1>4. ASSUME NEW t \in Thread, LoadKeystore(t) PROVE LockInv'
  BY <1>4 DEF LoadKeystore, Enter, TypeOK, OpOf, Blob, LoadOp, LockInv
<1>5. ASSUME NEW t \in Thread, ConfirmKeystore(t) PROVE LockInv'
  BY <1>5 DEF ConfirmKeystore, Enter, TypeOK, OpOf, Blob, LoadOp, LockInv
<1>6. ASSUME NEW t \in Thread, ReadAnchor(t) PROVE LockInv'
  BY <1>6 DEF ReadAnchor, Goto, LeaveErr, Leave, TypeOK, OpOf, Blob, LoadOp, LockInv
<1>7. ASSUME NEW t \in Thread, CheckTransition(t) PROVE LockInv'
  BY <1>7 DEF CheckTransition, Goto, LeaveErr, Leave, TypeOK, OpOf, Blob, LoadOp,
      LockInv
<1>8. ASSUME NEW t \in Thread, WriteFile(t) PROVE LockInv'
  BY <1>8 DEF WriteFile, Goto, LeaveErr, Leave, TypeOK, OpOf, Blob, LoadOp, LockInv
<1>9. ASSUME NEW t \in Thread, ReadFile(t) PROVE LockInv'
  BY <1>9 DEF ReadFile, Goto, LeaveErr, LeaveDefault, Leave, TypeOK, OpOf, Blob,
      LoadOp, LockInv
<1>10. ASSUME NEW t \in Thread, GetAnchor(t) PROVE LockInv'
  BY <1>10 DEF GetAnchor, LockAnchors, Goto, Refuse, LeaveErr, LeaveOk, Leave, TypeOK, OpOf, Blob,
      LoadOp, LockInv
<1>11. ASSUME NEW t \in Thread, PutAnchor(t) PROVE LockInv'
  BY <1>11 DEF PutAnchor, Goto, Refuse, LeaveErr, LeaveOk, Leave, TypeOK, OpOf, Blob,
      LoadOp, LockInv
<1>12. ASSUME NEW t \in Thread, Quarantine(t) PROVE LockInv'
  BY <1>12 DEF Quarantine, LeaveErr, Leave, TypeOK, OpOf, Blob, LoadOp, LockInv
<1>13. CASE Crash
  BY <1>13 DEF Crash, TypeOK, OpOf, Blob, LoadOp, LockInv
<1>14. ASSUME NEW o \in Object, CopyFile(o) PROVE LockInv'
  BY <1>14 DEF CopyFile, LockInv
<1>15. ASSUME NEW o \in Object, RestoreOldFile(o) PROVE LockInv'
  BY <1>15 DEF RestoreOldFile, LockInv
<1>16. ASSUME NEW o \in Object, RemoveFile(o) PROVE LockInv'
  BY <1>16 DEF RemoveFile, LockInv
<1>17. CASE UNCHANGED vars
  BY <1>17 DEF vars, LockInv
<1> QED
  BY <1>1, <1>2, <1>3, <1>4, <1>5, <1>6, <1>7, <1>8, <1>9, <1>10, <1>11, <1>12,
     <1>13, <1>14, <1>15, <1>16, <1>17 DEF Next, ThreadStep

\* Records stay genuine: every record written, loaded or kept passes verify_payload
\* for the object it is filed under.
LEMMA GenuineStep ==
    ASSUME IInv, TypeOK', [Next]_vars PROVE GenuineInv'
<1> USE StoreAssumption DEF IInv, Pc, Op, Outcome
<1>1. ASSUME NEW t \in Thread, NEW o \in Object, SaveBlob(t, o) PROVE GenuineInv'
  BY <1>1 DEF SaveBlob, Enter, GenuineInv, Genuine
<1>2. ASSUME NEW t \in Thread, NEW o \in Object, LoadBlob(t, o) PROVE GenuineInv'
  BY <1>2 DEF LoadBlob, Enter, GenuineInv, Genuine
<1>3. ASSUME NEW t \in Thread, NEW p \in Payload, SaveKeystore(t, p) PROVE GenuineInv'
  <2> DEFINE previous == IF memory[t] = NoFile THEN NoAnchor
                         ELSE FromMetadata(memory[t])
             new == NextState(Self, Keystore, self_suite(Keystore), previous, p)
  <2>1. previous \in StateAnchor \cup {NoAnchor}
    BY FromMetadataType DEF TypeOK
  <2>2. NextAllowed(Self, Keystore, previous)
    BY <1>3 DEF SaveKeystore
  <2>3. new \in StateMetadata /\ Genuine(new, Keystore)
    BY <2>1, <2>2, NextStateType DEF self_suite, Genuine
  <2>4. cand' = [cand EXCEPT ![t] = new]
    BY <1>3 DEF SaveKeystore
  <2> HIDE DEF new
  <2> QED BY <1>3, <2>3, <2>4 DEF SaveKeystore, Enter, TypeOK, GenuineInv, Genuine
<1>4. ASSUME NEW t \in Thread, LoadKeystore(t) PROVE GenuineInv'
  BY <1>4 DEF LoadKeystore, Enter, GenuineInv, Genuine
<1>5. ASSUME NEW t \in Thread, ConfirmKeystore(t) PROVE GenuineInv'
  BY <1>5 DEF ConfirmKeystore, Enter, TypeOK, GenuineInv, Genuine
<1>6. ASSUME NEW t \in Thread, ReadAnchor(t) PROVE GenuineInv'
  <2>1. CASE LeaveErr(t)
    BY <1>6, <2>1 DEF ReadAnchor, LeaveErr, Leave, TypeOK, GenuineInv, Genuine
  <2>2. ASSUME NEW p \in Payload, NextAllowed(Self, obj[t], anchors[obj[t]]),
               cand' = [cand EXCEPT ![t] = NextState(Self, obj[t],
                           self_suite(obj[t]), anchors[obj[t]], p)],
               Goto(t, "write")
        PROVE  GenuineInv'
    <3> DEFINE new == NextState(Self, obj[t], self_suite(obj[t]), anchors[obj[t]], p)
    <3>0. /\ obj[t] \in Object /\ self_suite(obj[t]) \in Suite
          /\ anchors[obj[t]] \in StateAnchor \cup {NoAnchor}
      BY DEF TypeOK, self_suite
    <3>1. new \in StateMetadata /\ Genuine(new, obj[t])
      BY <2>2, <3>0, NextStateType DEF Genuine
    <3>2. cand' = [cand EXCEPT ![t] = new] /\ UNCHANGED file
      BY <1>6, <2>2 DEF ReadAnchor
    <3> HIDE DEF new
    <3> QED BY <2>2, <3>1, <3>2 DEF Goto, TypeOK, GenuineInv, Genuine
  <2> QED BY <1>6, <2>1, <2>2 DEF ReadAnchor
<1>7. ASSUME NEW t \in Thread, CheckTransition(t) PROVE GenuineInv'
  BY <1>7 DEF CheckTransition, Goto, LeaveErr, Leave, TypeOK, LockInv, OpOf, Blob,
      LoadOp, GenuineInv, Genuine
<1>8. ASSUME NEW t \in Thread, WriteFile(t) PROVE GenuineInv'
  <2>1. CASE LeaveErr(t) /\ UNCHANGED file
    BY <2>1 DEF LeaveErr, Leave, TypeOK, GenuineInv, Genuine
  <2>2. CASE file' = [file EXCEPT ![obj[t]] = cand[t]] /\ Goto(t, "get") /\ UNCHANGED cand
    <3>1. pc[t] = "write"
      BY <1>8 DEF WriteFile
    <3>2. Genuine(cand[t], obj[t]) /\ cand[t] # NoFile
      BY <3>1 DEF GenuineInv
    <3>3. \A o \in Object : Genuine(file'[o], o) /\ Genuine(backup'[o], o)
      BY <2>2, <3>2 DEF Goto, TypeOK, GenuineInv
    <3>4. \A u \in Thread : Genuine(memory'[u], Keystore)
      BY <2>2 DEF Goto, GenuineInv
    <3>5. \A u \in Thread : pc'[u] \in {"check", "write", "get", "put"} =>
                                 cand'[u] # NoFile /\ Genuine(cand'[u], obj'[u])
      BY <2>2, <3>2 DEF Goto, TypeOK, GenuineInv
    <3> QED BY <3>3, <3>4, <3>5 DEF GenuineInv, Genuine
  <2> QED BY <1>8, <2>1, <2>2 DEF WriteFile
<1>9. ASSUME NEW t \in Thread, ReadFile(t) PROVE GenuineInv'
  <2>1. UNCHANGED file
    BY <1>9 DEF ReadFile
  <2>2. CASE LeaveErr(t)
    BY <2>1, <2>2 DEF LeaveErr, Leave, TypeOK, GenuineInv, Genuine
  <2>3. CASE LeaveDefault(t)
    BY <2>1, <2>3 DEF LeaveDefault, Leave, TypeOK, GenuineInv, Genuine
  <2>4. CASE /\ file[obj[t]] # NoFile
             /\ cand' = [cand EXCEPT ![t] = file[obj[t]]]
             /\ Goto(t, "get")
    BY <2>1, <2>4 DEF Goto, TypeOK, GenuineInv, Genuine
  <2> QED BY <1>9, <2>2, <2>3, <2>4 DEF ReadFile
<1>10. ASSUME NEW t \in Thread, GetAnchor(t) PROVE GenuineInv'
  <2>1. pc[t] = "get" /\ UNCHANGED file
    BY <1>10, GetCases
  <2>2. CASE LeaveOk(t)
    <3>1. Genuine(cand[t], obj[t]) /\ cand[t] # NoFile
      BY <2>1 DEF GenuineInv
    <3>2. \A u \in Thread : Genuine(memory'[u], Keystore)
      BY <3>1, <2>2 DEF LeaveOk, TypeOK, GenuineInv
    <3> QED BY <2>1, <2>2, <3>2 DEF LeaveOk, Leave, TypeOK, GenuineInv, Genuine
  <2>3. CASE LeaveErr(t)
    BY <2>1, <2>3 DEF LeaveErr, Leave, TypeOK, GenuineInv, Genuine
  <2>4. CASE (Goto(t, "put") \/ Goto(t, "quarantine")) /\ UNCHANGED cand
    BY <2>1, <2>4 DEF Goto, TypeOK, GenuineInv, Genuine
  <2> QED BY <1>10, <2>2, <2>3, <2>4, GetCases
<1>11. ASSUME NEW t \in Thread, PutAnchor(t) PROVE GenuineInv'
  <2>1. pc[t] = "put" /\ UNCHANGED file
    BY <1>11, PutCases
  <2>2. CASE LeaveOk(t)
    <3>1. Genuine(cand[t], obj[t]) /\ cand[t] # NoFile
      BY <2>1 DEF GenuineInv
    <3>2. \A u \in Thread : Genuine(memory'[u], Keystore)
      BY <3>1, <2>2 DEF LeaveOk, TypeOK, GenuineInv
    <3> QED BY <2>1, <2>2, <3>2 DEF LeaveOk, Leave, TypeOK, GenuineInv, Genuine
  <2>3. CASE LeaveErr(t)
    BY <2>1, <2>3 DEF LeaveErr, Leave, TypeOK, GenuineInv, Genuine
  <2>4. CASE Goto(t, "quarantine") /\ UNCHANGED cand
    BY <2>1, <2>4 DEF Goto, TypeOK, GenuineInv, Genuine
  <2> QED BY <1>11, <2>2, <2>3, <2>4, PutCases
<1>12. ASSUME NEW t \in Thread, Quarantine(t) PROVE GenuineInv'
  BY <1>12 DEF Quarantine, LeaveErr, Leave, TypeOK, GenuineInv, Genuine
<1>13. CASE Crash
  BY <1>13 DEF Crash, GenuineInv, Genuine
<1>14. ASSUME NEW o \in Object, CopyFile(o) PROVE GenuineInv'
  BY <1>14 DEF CopyFile, GenuineInv, Genuine
<1>15. ASSUME NEW o \in Object, RestoreOldFile(o) PROVE GenuineInv'
  BY <1>15 DEF RestoreOldFile, GenuineInv, Genuine
<1>16. ASSUME NEW o \in Object, RemoveFile(o) PROVE GenuineInv'
  BY <1>16 DEF RemoveFile, GenuineInv, Genuine
<1>17. CASE UNCHANGED vars
  BY <1>17 DEF vars, GenuineInv, Genuine
<1> QED
  BY <1>1, <1>2, <1>3, <1>4, <1>5, <1>6, <1>7, <1>8, <1>9, <1>10, <1>11, <1>12,
     <1>13, <1>14, <1>15, <1>16, <1>17 DEF Next, ThreadStep

\* Anchors stay with the object they are filed under.
LEMMA AnchorStep ==
    ASSUME IInv, TypeOK', [Next]_vars PROVE AnchorInv'
<1> USE StoreAssumption DEF IInv, Pc, Op, Outcome
<1>1. ASSUME NEW t \in Thread, NEW o \in Object, SaveBlob(t, o) PROVE AnchorInv'
  BY <1>1 DEF SaveBlob, Enter, AnchorInv
<1>2. ASSUME NEW t \in Thread, NEW o \in Object, LoadBlob(t, o) PROVE AnchorInv'
  BY <1>2 DEF LoadBlob, Enter, AnchorInv
<1>3. ASSUME NEW t \in Thread, NEW p \in Payload, SaveKeystore(t, p) PROVE AnchorInv'
  BY <1>3 DEF SaveKeystore, Enter, AnchorInv
<1>4. ASSUME NEW t \in Thread, LoadKeystore(t) PROVE AnchorInv'
  BY <1>4 DEF LoadKeystore, Enter, AnchorInv
<1>5. ASSUME NEW t \in Thread, ConfirmKeystore(t) PROVE AnchorInv'
  BY <1>5 DEF ConfirmKeystore, Enter, AnchorInv
<1>6. ASSUME NEW t \in Thread, ReadAnchor(t) PROVE AnchorInv'
  BY <1>6 DEF ReadAnchor, Goto, LeaveErr, Leave, AnchorInv
<1>7. ASSUME NEW t \in Thread, CheckTransition(t) PROVE AnchorInv'
  BY <1>7 DEF CheckTransition, Goto, LeaveErr, Leave, AnchorInv
<1>8. ASSUME NEW t \in Thread, WriteFile(t) PROVE AnchorInv'
  BY <1>8 DEF WriteFile, Goto, LeaveErr, Leave, AnchorInv
<1>9. ASSUME NEW t \in Thread, ReadFile(t) PROVE AnchorInv'
  BY <1>9 DEF ReadFile, Goto, LeaveErr, LeaveDefault, Leave, AnchorInv
<1>10. ASSUME NEW t \in Thread, GetAnchor(t) PROVE AnchorInv'
  BY <1>10 DEF GetAnchor, LockAnchors, Goto, Refuse, LeaveErr, LeaveOk, Leave, AnchorInv
<1>11. ASSUME NEW t \in Thread, PutAnchor(t) PROVE AnchorInv'
  <2> DEFINE new == [anchors EXCEPT ![obj[t]] = FromMetadata(cand[t])]
  <2>1. anchors' \in {anchors, new} /\ pc[t] = "put"
    BY <1>11, PutCases
  <2>2. /\ FromMetadata(cand[t]).identity = Self
        /\ FromMetadata(cand[t]).object = obj[t]
    BY <2>1, CandType, FromMetadataType
  <2> QED BY <2>1, <2>2 DEF TypeOK, AnchorInv
<1>12. ASSUME NEW t \in Thread, Quarantine(t) PROVE AnchorInv'
  BY <1>12 DEF Quarantine, LeaveErr, Leave, AnchorInv
<1>13. CASE Crash
  BY <1>13 DEF Crash, AnchorInv
<1>14. ASSUME NEW o \in Object, CopyFile(o) PROVE AnchorInv'
  BY <1>14 DEF CopyFile, AnchorInv
<1>15. ASSUME NEW o \in Object, RestoreOldFile(o) PROVE AnchorInv'
  BY <1>15 DEF RestoreOldFile, AnchorInv
<1>16. ASSUME NEW o \in Object, RemoveFile(o) PROVE AnchorInv'
  BY <1>16 DEF RemoveFile, AnchorInv
<1>17. CASE UNCHANGED vars
  BY <1>17 DEF vars, AnchorInv
<1> QED
  BY <1>1, <1>2, <1>3, <1>4, <1>5, <1>6, <1>7, <1>8, <1>9, <1>10, <1>11, <1>12,
     <1>13, <1>14, <1>15, <1>16, <1>17 DEF Next, ThreadStep

\* What a thread is about to write still follows from the anchor: the transaction
\* mutex and the anchors guard keep it so while other threads run.
LEMMA FlightStep ==
    ASSUME IInv, TypeOK', [Next]_vars PROVE FlightInv'
<1> USE StoreAssumption DEF IInv, Pc, Op, Outcome
<1>1. ASSUME NEW t \in Thread, NEW o \in Object, SaveBlob(t, o) PROVE FlightInv'
  BY <1>1 DEF SaveBlob, Enter, FlightInv
<1>2. ASSUME NEW t \in Thread, NEW o \in Object, LoadBlob(t, o) PROVE FlightInv'
  BY <1>2 DEF LoadBlob, Enter, FlightInv
<1>3. ASSUME NEW t \in Thread, NEW p \in Payload, SaveKeystore(t, p) PROVE FlightInv'
  BY <1>3 DEF SaveKeystore, Enter, FlightInv
<1>4. ASSUME NEW t \in Thread, LoadKeystore(t) PROVE FlightInv'
  BY <1>4 DEF LoadKeystore, Enter, FlightInv
<1>5. ASSUME NEW t \in Thread, ConfirmKeystore(t) PROVE FlightInv'
  BY <1>5 DEF ConfirmKeystore, Enter, TypeOK, LockInv, OpOf, MemoryInv, FlightInv
<1>6. ASSUME NEW t \in Thread, ReadAnchor(t) PROVE FlightInv'
  <2>1. UNCHANGED <<file, anchors, guard, seen>> /\ pc[t] = "read_anchor"
    BY <1>6 DEF ReadAnchor
  <2>2. CASE LeaveErr(t)
    BY <2>1, <2>2 DEF LeaveErr, Leave, TypeOK, FlightInv
  <2>3. ASSUME NEW p \in Payload, NextAllowed(Self, obj[t], anchors[obj[t]]),
               cand' = [cand EXCEPT ![t] = NextState(Self, obj[t],
                           self_suite(obj[t]), anchors[obj[t]], p)],
               Goto(t, "write")
        PROVE  FlightInv'
    <3> DEFINE new == NextState(Self, obj[t], self_suite(obj[t]), anchors[obj[t]], p)
    <3>1. anchors[obj[t]] # NoAnchor => Acceptable(anchors[obj[t]], new)
      BY <2>3, NextIsSuccessor DEF TypeOK, self_suite, Acceptable
    <3>2. cand' = [cand EXCEPT ![t] = new]
      BY <2>3
    <3> HIDE DEF new
    <3> QED BY <2>1, <2>3, <3>1, <3>2 DEF Goto, TypeOK, FlightInv
  <2> QED BY <1>6, <2>2, <2>3 DEF ReadAnchor
<1>7. ASSUME NEW t \in Thread, CheckTransition(t) PROVE FlightInv'
  BY <1>7 DEF CheckTransition, Goto, LeaveErr, Leave, TypeOK, FlightInv
<1>8. ASSUME NEW t \in Thread, WriteFile(t) PROVE FlightInv'
  <2>1. UNCHANGED <<anchors, seen>> /\ pc[t] = "write"
    BY <1>8 DEF WriteFile
  <2>2. CASE LeaveErr(t) /\ UNCHANGED file
    BY <2>1, <2>2 DEF LeaveErr, Leave, TypeOK, FlightInv
  <2>3. CASE file' = [file EXCEPT ![obj[t]] = cand[t]] /\ Goto(t, "get") /\ UNCHANGED cand
    <3>1. \A u \in Thread \ {t} : pc[u] # "idle" => obj[u] # obj[t]
      BY <2>1 DEF LockInv
    <3> QED BY <2>1, <2>3, <3>1 DEF Goto, TypeOK, FlightInv
  <2> QED BY <1>8, <2>2, <2>3 DEF WriteFile
<1>9. ASSUME NEW t \in Thread, ReadFile(t) PROVE FlightInv'
  BY <1>9 DEF ReadFile, Goto, LeaveErr, LeaveDefault, Leave, TypeOK, FlightInv
<1>10. ASSUME NEW t \in Thread, GetAnchor(t) PROVE FlightInv'
  BY <1>10 DEF GetAnchor, LockAnchors, Goto, Refuse, LeaveErr, LeaveOk, Leave, TypeOK, FlightInv
<1>11. ASSUME NEW t \in Thread, PutAnchor(t) PROVE FlightInv'
  <2> DEFINE new == [anchors EXCEPT ![obj[t]] = FromMetadata(cand[t])]
  <2>1. /\ UNCHANGED file
        /\ seen' = [seen EXCEPT ![t] = [o \in Object |-> NoAnchor]]
        /\ pc[t] = "put" /\ anchors' \in {anchors, new}
    BY <1>11, PutCases
  <2>2. \A u \in Thread \ {t} : /\ pc[u] # "idle" => obj[u] # obj[t]
                                /\ pc[u] # "put"
    BY <2>1 DEF LockInv
  <2>3. pc'[t] \in {"idle", "quarantine"} /\ UNCHANGED tampered
    BY <1>11, PutFrame
  <2>4. \A u \in Thread \ {t} : pc'[u] = pc[u] /\ obj'[u] = obj[u] /\ cand'[u] = cand[u]
    BY <1>11, PutFrame
  <2>5. \A u \in Thread \ {t} : pc[u] # "idle" => anchors'[obj[u]] = anchors[obj[u]]
    BY <2>1, <2>2 DEF TypeOK
  <2> HIDE DEF new
  <2>6. \A u \in Thread \ {t} : seen'[u] = seen[u]
    BY <2>1 DEF TypeOK
  <2> QED BY <2>1, <2>2, <2>3, <2>4, <2>5, <2>6 DEF FlightInv
<1>12. ASSUME NEW t \in Thread, Quarantine(t) PROVE FlightInv'
  BY <1>12 DEF Quarantine, LeaveErr, Leave, TypeOK, LockInv, FlightInv
<1>13. CASE Crash
  BY <1>13 DEF Crash, FlightInv
<1>14. ASSUME NEW o \in Object, CopyFile(o) PROVE FlightInv'
  BY <1>14 DEF CopyFile, FlightInv
<1>15. ASSUME NEW o \in Object, RestoreOldFile(o) PROVE FlightInv'
  BY <1>15 DEF RestoreOldFile, FlightInv
<1>16. ASSUME NEW o \in Object, RemoveFile(o) PROVE FlightInv'
  BY <1>16 DEF RemoveFile, FlightInv
<1>17. CASE UNCHANGED vars
  BY <1>17 DEF vars, FlightInv
<1> QED
  BY <1>1, <1>2, <1>3, <1>4, <1>5, <1>6, <1>7, <1>8, <1>9, <1>10, <1>11, <1>12,
     <1>13, <1>14, <1>15, <1>16, <1>17 DEF Next, ThreadStep

\* The keystore in memory stays the one on disk.
LEMMA MemoryStep ==
    ASSUME IInv, TypeOK', [Next]_vars PROVE MemoryInv'
<1> USE StoreAssumption DEF IInv, Pc, Op, Outcome
<1>1. ASSUME NEW t \in Thread, NEW o \in Object, SaveBlob(t, o) PROVE MemoryInv'
  BY <1>1 DEF SaveBlob, Enter, MemoryInv
<1>2. ASSUME NEW t \in Thread, NEW o \in Object, LoadBlob(t, o) PROVE MemoryInv'
  BY <1>2 DEF LoadBlob, Enter, MemoryInv
<1>3. ASSUME NEW t \in Thread, NEW p \in Payload, SaveKeystore(t, p) PROVE MemoryInv'
  BY <1>3 DEF SaveKeystore, Enter, MemoryInv
<1>4. ASSUME NEW t \in Thread, LoadKeystore(t) PROVE MemoryInv'
  BY <1>4 DEF LoadKeystore, Enter, MemoryInv
<1>5. ASSUME NEW t \in Thread, ConfirmKeystore(t) PROVE MemoryInv'
  BY <1>5 DEF ConfirmKeystore, Enter, TypeOK, MemoryInv
<1>6. ASSUME NEW t \in Thread, ReadAnchor(t) PROVE MemoryInv'
  BY <1>6 DEF ReadAnchor, Goto, LeaveErr, Leave, TypeOK, MemoryInv
<1>7. ASSUME NEW t \in Thread, CheckTransition(t) PROVE MemoryInv'
  BY <1>7 DEF CheckTransition, Goto, LeaveErr, Leave, TypeOK, MemoryInv
<1>8. ASSUME NEW t \in Thread, WriteFile(t) PROVE MemoryInv'
  BY <1>8 DEF WriteFile, Goto, LeaveErr, Leave, TypeOK, LockInv, OpOf, Blob, LoadOp,
      MemoryInv
<1>9. ASSUME NEW t \in Thread, ReadFile(t) PROVE MemoryInv'
  BY <1>9 DEF ReadFile, Goto, LeaveErr, LeaveDefault, Leave, TypeOK, LockInv, OpOf,
      Blob, LoadOp, MemoryInv
<1>10. ASSUME NEW t \in Thread, GetAnchor(t) PROVE MemoryInv'
  <2>1. UNCHANGED file /\ pc[t] = "get"
    BY <1>10, GetCases
  <2>2. CASE LeaveOk(t)
    BY <2>1, <2>2 DEF LeaveOk, Leave, TypeOK, LockInv, OpOf, FlightInv, MemoryInv
  <2>3. CASE LeaveErr(t)
    BY <2>1, <2>3 DEF LeaveErr, Leave, TypeOK, MemoryInv
  <2>4. CASE Goto(t, "put") /\ UNCHANGED cand
    BY <2>1, <2>4 DEF Goto, TypeOK, MemoryInv
  <2>5. CASE op[t] \in LoadOp /\ Goto(t, "quarantine") /\ UNCHANGED cand
    BY <2>1, <2>5 DEF Goto, TypeOK, LoadOp, MemoryInv
  <2> QED BY <1>10, <2>2, <2>3, <2>4, <2>5, GetCases
<1>11. ASSUME NEW t \in Thread, PutAnchor(t) PROVE MemoryInv'
  <2>1. UNCHANGED file /\ pc[t] = "put"
    BY <1>11, PutCases
  <2>2. CASE LeaveOk(t)
    BY <2>1, <2>2 DEF LeaveOk, Leave, TypeOK, LockInv, OpOf, FlightInv, MemoryInv
  <2>3. CASE LeaveErr(t)
    BY <2>1, <2>3 DEF LeaveErr, Leave, TypeOK, MemoryInv
  <2>4. CASE op[t] \in LoadOp /\ Goto(t, "quarantine") /\ UNCHANGED cand
    BY <2>1, <2>4 DEF Goto, TypeOK, LoadOp, MemoryInv
  <2> QED BY <1>11, <2>2, <2>3, <2>4, PutCases
<1>12. ASSUME NEW t \in Thread, Quarantine(t) PROVE MemoryInv'
  BY <1>12 DEF Quarantine, LeaveErr, Leave, TypeOK, LockInv, OpOf, Blob, LoadOp,
      MemoryInv
<1>13. CASE Crash
  BY <1>13 DEF Crash, MemoryInv
<1>14. ASSUME NEW o \in Object, CopyFile(o) PROVE MemoryInv'
  BY <1>14 DEF CopyFile, MemoryInv
<1>15. ASSUME NEW o \in Object, RestoreOldFile(o) PROVE MemoryInv'
  BY <1>15 DEF RestoreOldFile, MemoryInv
<1>16. ASSUME NEW o \in Object, RemoveFile(o) PROVE MemoryInv'
  BY <1>16 DEF RemoveFile, MemoryInv
<1>17. CASE UNCHANGED vars
  BY <1>17 DEF vars, MemoryInv
<1> QED
  BY <1>1, <1>2, <1>3, <1>4, <1>5, <1>6, <1>7, <1>8, <1>9, <1>10, <1>11, <1>12,
     <1>13, <1>14, <1>15, <1>16, <1>17 DEF Next, ThreadStep

\* An acknowledged save stays in the anchored history.
LEMMA AckedStep ==
    ASSUME IInv, TypeOK', [Next]_vars PROVE AckedIsAnchored'
<1> USE StoreAssumption DEF IInv, Pc, Op, Outcome
<1>1. ASSUME NEW t \in Thread, NEW o \in Object, SaveBlob(t, o) PROVE AckedIsAnchored'
  BY <1>1 DEF SaveBlob, Enter, AckedIsAnchored
<1>2. ASSUME NEW t \in Thread, NEW o \in Object, LoadBlob(t, o) PROVE AckedIsAnchored'
  BY <1>2 DEF LoadBlob, Enter, AckedIsAnchored
<1>3. ASSUME NEW t \in Thread, NEW p \in Payload, SaveKeystore(t, p) PROVE AckedIsAnchored'
  BY <1>3 DEF SaveKeystore, Enter, AckedIsAnchored
<1>4. ASSUME NEW t \in Thread, LoadKeystore(t) PROVE AckedIsAnchored'
  BY <1>4 DEF LoadKeystore, Enter, AckedIsAnchored
<1>5. ASSUME NEW t \in Thread, ConfirmKeystore(t) PROVE AckedIsAnchored'
  BY <1>5 DEF ConfirmKeystore, Enter, AckedIsAnchored
<1>6. ASSUME NEW t \in Thread, ReadAnchor(t) PROVE AckedIsAnchored'
  BY <1>6 DEF ReadAnchor, Goto, LeaveErr, Leave, AckedIsAnchored
<1>7. ASSUME NEW t \in Thread, CheckTransition(t) PROVE AckedIsAnchored'
  BY <1>7 DEF CheckTransition, Goto, LeaveErr, Leave, AckedIsAnchored
<1>8. ASSUME NEW t \in Thread, WriteFile(t) PROVE AckedIsAnchored'
  BY <1>8 DEF WriteFile, Goto, LeaveErr, Leave, AckedIsAnchored
<1>9. ASSUME NEW t \in Thread, ReadFile(t) PROVE AckedIsAnchored'
  BY <1>9 DEF ReadFile, Goto, LeaveErr, LeaveDefault, Leave, AckedIsAnchored
<1>10. ASSUME NEW t \in Thread, GetAnchor(t) PROVE AckedIsAnchored'
  <2>1. UNCHANGED anchors /\ pc[t] = "get"
    BY <1>10, GetCases
  <2>2. CASE UNCHANGED acked
    BY <2>1, <2>2 DEF AckedIsAnchored
  <2>3. CASE /\ op[t] \in {"save_blob", "save_keystore"}
             /\ acked' = [acked EXCEPT ![obj[t]] = cand[t].cur]
             /\ anchors[obj[t]] # NoAnchor
             /\ IsCurrent(anchors[obj[t]], cand[t])
    <3>1. cand[t].cur = anchors[obj[t]].cur /\ anchors[obj[t]].cur \in Hash
      BY <2>1, <2>3, CandType DEF IsCurrent, TypeOK, StateAnchor
    <3>2. Continues(anchors[obj[t]].cur, cand[t].cur)
      BY <3>1, ContinuesRefl
    <3> QED BY <2>1, <2>3, <3>2 DEF TypeOK, AckedIsAnchored
  <2> QED BY <1>10, <2>2, <2>3, GetCases DEF Goto, LeaveErr, LeaveOk
<1>11. ASSUME NEW t \in Thread, PutAnchor(t) PROVE AckedIsAnchored'
  <2> DEFINE a == anchors[obj[t]]
             new == [anchors EXCEPT ![obj[t]] = FromMetadata(cand[t])]
  <2>1. pc[t] = "put" /\ anchors' \in {anchors, new}
    BY <1>11, PutCases
  <2>2. a # NoAnchor => IsSuccessor(a, cand[t])
    BY <2>1 DEF FlightInv
  <2>3. /\ cand[t] \in StateMetadata /\ WellFormed(cand[t])
        /\ FromMetadata(cand[t]) \in StateAnchor
        /\ FromMetadata(cand[t]).cur = cand[t].cur
        /\ cand[t].cur \in Hash /\ obj[t] \in Object
    BY <2>1, CandType, FromMetadataType DEF StateMetadata
  <2>4. acked[obj[t]] # GENESIS_HASH => Continues(cand[t].cur, acked[obj[t]])
    <3> SUFFICES ASSUME acked[obj[t]] # GENESIS_HASH
                 PROVE  Continues(cand[t].cur, acked[obj[t]])
      OBVIOUS
    <3>1. a # NoAnchor /\ a \in StateAnchor /\ Continues(a.cur, acked[obj[t]])
      BY <2>3 DEF AckedIsAnchored, TypeOK
    <3>2. Continues(cand[t].cur, a.cur)
      BY <2>2, <2>3, <3>1, SuccessorContinues DEF Acceptable
    <3> QED BY <2>3, <3>1, <3>2, ContinuesTrans DEF TypeOK, StateAnchor
  <2>5. Continues(cand[t].cur, cand[t].cur)
    BY <2>3, ContinuesRefl
  <2>6. FromMetadata(cand[t]) # NoAnchor
    BY <2>3, ChainAssumption
  <2>7. \/ acked' = acked
        \/ acked' = [acked EXCEPT ![obj[t]] = cand[t].cur] /\ anchors' = new
    BY <1>11, PutCases DEF Goto, LeaveErr, LeaveOk
  <2>8. ASSUME NEW o \in Object, acked'[o] # GENESIS_HASH
        PROVE  anchors'[o] # NoAnchor /\ Continues(anchors'[o].cur, acked'[o])
    <3>1. CASE o # obj[t]
      BY <2>1, <2>7, <2>8, <3>1 DEF TypeOK, AckedIsAnchored
    <3>2. CASE o = obj[t] /\ anchors' = new
      BY <2>3, <2>4, <2>5, <2>6, <2>7, <2>8, <3>2 DEF TypeOK
    <3>3. CASE o = obj[t] /\ anchors' = anchors /\ acked' = acked
      BY <2>8, <3>3 DEF AckedIsAnchored
    <3> QED BY <2>1, <2>7, <3>1, <3>2, <3>3
  <2> QED BY <2>8 DEF AckedIsAnchored
<1>12. ASSUME NEW t \in Thread, Quarantine(t) PROVE AckedIsAnchored'
  BY <1>12 DEF Quarantine, LeaveErr, Leave, AckedIsAnchored
<1>13. CASE Crash
  BY <1>13 DEF Crash, AckedIsAnchored
<1>14. ASSUME NEW o \in Object, CopyFile(o) PROVE AckedIsAnchored'
  BY <1>14 DEF CopyFile, AckedIsAnchored
<1>15. ASSUME NEW o \in Object, RestoreOldFile(o) PROVE AckedIsAnchored'
  BY <1>15 DEF RestoreOldFile, AckedIsAnchored
<1>16. ASSUME NEW o \in Object, RemoveFile(o) PROVE AckedIsAnchored'
  BY <1>16 DEF RemoveFile, AckedIsAnchored
<1>17. CASE UNCHANGED vars
  BY <1>17 DEF vars, AckedIsAnchored
<1> QED
  BY <1>1, <1>2, <1>3, <1>4, <1>5, <1>6, <1>7, <1>8, <1>9, <1>10, <1>11, <1>12,
     <1>13, <1>14, <1>15, <1>16, <1>17 DEF Next, ThreadStep

\* The file stays acceptable to the anchor.
LEMMA LoadableStep ==
    ASSUME IInv, TypeOK', [Next]_vars PROVE UntamperedLoadable'
<1> USE StoreAssumption DEF IInv, Pc, Op, Outcome
<1>1. ASSUME NEW t \in Thread, NEW o \in Object, SaveBlob(t, o) PROVE UntamperedLoadable'
  BY <1>1 DEF SaveBlob, Enter, UntamperedLoadable
<1>2. ASSUME NEW t \in Thread, NEW o \in Object, LoadBlob(t, o) PROVE UntamperedLoadable'
  BY <1>2 DEF LoadBlob, Enter, UntamperedLoadable
<1>3. ASSUME NEW t \in Thread, NEW p \in Payload, SaveKeystore(t, p) PROVE UntamperedLoadable'
  BY <1>3 DEF SaveKeystore, Enter, UntamperedLoadable
<1>4. ASSUME NEW t \in Thread, LoadKeystore(t) PROVE UntamperedLoadable'
  BY <1>4 DEF LoadKeystore, Enter, UntamperedLoadable
<1>5. ASSUME NEW t \in Thread, ConfirmKeystore(t) PROVE UntamperedLoadable'
  BY <1>5 DEF ConfirmKeystore, Enter, UntamperedLoadable
<1>6. ASSUME NEW t \in Thread, ReadAnchor(t) PROVE UntamperedLoadable'
  BY <1>6 DEF ReadAnchor, Goto, LeaveErr, Leave, UntamperedLoadable
<1>7. ASSUME NEW t \in Thread, CheckTransition(t) PROVE UntamperedLoadable'
  BY <1>7 DEF CheckTransition, Goto, LeaveErr, Leave, UntamperedLoadable
<1>8. ASSUME NEW t \in Thread, WriteFile(t) PROVE UntamperedLoadable'
  <2>1. CASE LeaveErr(t) /\ UNCHANGED file
    BY <1>8, <2>1 DEF WriteFile, LeaveErr, Leave, UntamperedLoadable
  <2>2. CASE file' = [file EXCEPT ![obj[t]] = cand[t]] /\ Goto(t, "get")
    <3>1. UNCHANGED <<anchors, tampered>> /\ pc[t] = "write"
      BY <1>8, <2>2 DEF WriteFile, Goto
    <3>2. anchors[obj[t]] # NoAnchor => Acceptable(anchors[obj[t]], cand[t])
      BY <3>1 DEF FlightInv
    <3> QED BY <2>2, <3>1, <3>2 DEF TypeOK, UntamperedLoadable
  <2> QED BY <1>8, <2>1, <2>2 DEF WriteFile
<1>9. ASSUME NEW t \in Thread, ReadFile(t) PROVE UntamperedLoadable'
  BY <1>9 DEF ReadFile, Goto, LeaveErr, LeaveDefault, Leave, UntamperedLoadable
<1>10. ASSUME NEW t \in Thread, GetAnchor(t) PROVE UntamperedLoadable'
  BY <1>10 DEF GetAnchor, LockAnchors, Goto, Refuse, LeaveErr, LeaveOk, Leave, UntamperedLoadable
<1>11. ASSUME NEW t \in Thread, PutAnchor(t) PROVE UntamperedLoadable'
  <2> DEFINE new == [anchors EXCEPT ![obj[t]] = FromMetadata(cand[t])]
  <2>1. UNCHANGED file /\ pc[t] = "put" /\ anchors' \in {anchors, new}
    BY <1>11, PutCases
  <2>2. UNCHANGED tampered
    BY <1>11, PutFrame
  <2>3. obj[t] \notin tampered => file[obj[t]] = cand[t]
    BY <2>1 DEF FlightInv
  <2>4. Acceptable(FromMetadata(cand[t]), cand[t])
    BY <2>1, CandType, AnchoredIsCurrent DEF Acceptable
  <2> SUFFICES ASSUME NEW o \in Object \ tampered, file[o] # NoFile, anchors'[o] # NoAnchor
               PROVE  Acceptable(anchors'[o], file[o])
    BY <2>1, <2>2 DEF UntamperedLoadable
  <2>5. CASE anchors'[o] = anchors[o]
    BY <2>5 DEF UntamperedLoadable
  <2>6. CASE anchors'[o] # anchors[o]
    <3>1. o = obj[t] /\ anchors'[o] = FromMetadata(cand[t])
      BY <2>1, <2>6 DEF TypeOK
    <3> QED BY <3>1, <2>3, <2>4
  <2> QED BY <2>5, <2>6
<1>12. ASSUME NEW t \in Thread, Quarantine(t) PROVE UntamperedLoadable'
  BY <1>12 DEF Quarantine, LeaveErr, Leave, TypeOK, UntamperedLoadable
<1>13. CASE Crash
  BY <1>13 DEF Crash, UntamperedLoadable
<1>14. ASSUME NEW o \in Object, CopyFile(o) PROVE UntamperedLoadable'
  BY <1>14 DEF CopyFile, UntamperedLoadable
<1>15. ASSUME NEW o \in Object, RestoreOldFile(o) PROVE UntamperedLoadable'
  BY <1>15 DEF RestoreOldFile, UntamperedLoadable
<1>16. ASSUME NEW o \in Object, RemoveFile(o) PROVE UntamperedLoadable'
  BY <1>16 DEF RemoveFile, UntamperedLoadable
<1>17. CASE UNCHANGED vars
  BY <1>17 DEF vars, UntamperedLoadable
<1> QED
  BY <1>1, <1>2, <1>3, <1>4, <1>5, <1>6, <1>7, <1>8, <1>9, <1>10, <1>11, <1>12,
     <1>13, <1>14, <1>15, <1>16, <1>17 DEF Next, ThreadStep

-------------------------------------------------------------------------------
(* The theorems.                                                              *)

\* The inductive invariant holds initially.
LEMMA InductiveInit == Init => IInv
<1> SUFFICES ASSUME Init PROVE IInv
  OBVIOUS
<1>1. TypeOK
  BY TypeInit
<1>2. LockInv /\ AnchorInv /\ FlightInv /\ AckedIsAnchored /\ UntamperedLoadable
  BY StoreAssumption DEF Init, LockInv, OpOf, AnchorInv, FlightInv, AckedIsAnchored,
     UntamperedLoadable
<1>3. GenuineInv /\ MemoryInv
  BY StoreAssumption DEF Init, GenuineInv, Genuine, MemoryInv
<1> QED BY <1>1, <1>2, <1>3 DEF IInv

\* Every step preserves the inductive invariant.
LEMMA InductiveStep == IInv /\ [Next]_vars => IInv'
<1> SUFFICES ASSUME IInv, [Next]_vars PROVE IInv'
  OBVIOUS
<1>1. TypeOK'
  BY TypeStep DEF IInv
<1> QED
  BY <1>1, LockStep, GenuineStep, AnchorStep, FlightStep, MemoryStep, AckedStep,
     LoadableStep DEF IInv

\* The inductive invariant is an invariant.
LEMMA Inductive == Spec => []IInv
BY InductiveInit, InductiveStep, PTL DEF Spec

\* Type correctness of the store's state.
THEOREM TypeCorrect == Spec => []TypeOK
<1>1. IInv => TypeOK
  BY DEF IInv
<1> QED BY <1>1, Inductive, PTL

\* A save that returned Ok stays part of the anchored history, whatever threads,
\* failing writes, crashes and restored files do afterwards.
THEOREM AckedSavesStayAnchored == Spec => []AckedIsAnchored
<1>1. IInv => AckedIsAnchored
  BY DEF IInv
<1> QED BY <1>1, Inductive, PTL

\* A file nobody changed from outside is always the anchored state or its direct
\* successor, in particular after a crash between the two writes of a save.
THEOREM OwnerNeverLockedOut == Spec => []UntamperedLoadable
<1>1. IInv => UntamperedLoadable
  BY DEF IInv
<1> QED BY <1>1, Inductive, PTL

\* Only put_anchor_locked changes the backend.
LEMMA AnchorsChange ==
    ASSUME [Next]_vars
    PROVE  UNCHANGED anchors \/ \E t \in Thread : PutAnchor(t)
BY DEF Next, ThreadStep, SaveBlob, LoadBlob, SaveKeystore, LoadKeystore,
   ConfirmKeystore, Enter, ReadAnchor, CheckTransition, WriteFile, ReadFile, GetAnchor, LockAnchors,
   Quarantine, Crash, CopyFile, RestoreOldFile, RemoveFile, vars

\* The high-water mark of every object only ever moves to a direct successor.
THEOREM HighWaterMark == Spec => AnchorOnlyAdvances
<1> DEFINE Advances(o) ==
       \/ anchors'[o] = anchors[o]
       \/ /\ anchors[o] # NoAnchor =>
                /\ anchors'[o] # NoAnchor
                /\ anchors'[o].epoch = anchors[o].epoch + 1
                /\ Continues(anchors'[o].cur, anchors[o].cur)
          /\ \A q \in Object \ {o} : anchors'[q] = anchors[q]
<1>1. IInv /\ [Next]_vars => \A o \in Object : Advances(o)
  <2> SUFFICES ASSUME IInv, [Next]_vars, NEW o \in Object PROVE Advances(o)
    OBVIOUS
  <2>1. CASE UNCHANGED anchors
    BY <2>1
  <2>2. ASSUME NEW t \in Thread, PutAnchor(t) PROVE Advances(o)
    <3> DEFINE new == [anchors EXCEPT ![obj[t]] = FromMetadata(cand[t])]
    <3>1. pc[t] = "put" /\ anchors' \in {anchors, new}
      BY <2>2, PutCases
    <3>2. /\ cand[t] \in StateMetadata /\ WellFormed(cand[t]) /\ obj[t] \in Object
          /\ FromMetadata(cand[t]) \in StateAnchor
          /\ FromMetadata(cand[t]).cur = cand[t].cur
          /\ FromMetadata(cand[t]).epoch = cand[t].epoch
      BY <3>1, CandType, FromMetadataType
    <3>3. CASE anchors' = anchors \/ o # obj[t]
      BY <3>1, <3>3 DEF IInv, TypeOK
    <3>4. CASE anchors' = new /\ o = obj[t]
      <4>1. anchors'[o] = FromMetadata(cand[t])
        BY <3>4 DEF IInv, TypeOK
      <4>2. ASSUME anchors[o] # NoAnchor
            PROVE  /\ anchors'[o].epoch = anchors[o].epoch + 1
                   /\ Continues(anchors'[o].cur, anchors[o].cur)
        <5>1. IsSuccessor(anchors[o], cand[t]) /\ anchors[o] \in StateAnchor
          BY <3>1, <3>4, <4>2 DEF IInv, FlightInv, TypeOK
        <5>2. cand[t].epoch = anchors[o].epoch + 1
          BY <3>2, <5>1, ChainAssumption
          DEF IsSuccessor, SaturatingSucc, StateAnchor, StateMetadata
        <5>3. Continues(cand[t].cur, anchors[o].cur)
          BY <3>2, <5>1, SuccessorContinues DEF Acceptable
        <5> QED BY <3>2, <4>1, <5>2, <5>3
      <4>3. \A q \in Object \ {o} : anchors'[q] = anchors[q]
        BY <3>4 DEF IInv, TypeOK
      <4>4. anchors'[o] # NoAnchor
        BY <3>2, <4>1, ChainAssumption
      <4> QED BY <4>2, <4>3, <4>4
    <3> QED BY <3>1, <3>3, <3>4
  <2> QED BY <2>1, <2>2, AnchorsChange
<1>2. IInv /\ [Next]_vars => [\A o \in Object : Advances(o)]_vars
  BY <1>1
<1> QED BY <1>2, Inductive, PTL DEF Spec, AnchorOnlyAdvances

\* Only accept_state and check_loaded_state end an operation with Ok.
LEMMA OkComesFrom ==
    ASSUME IInv, [Next]_vars, NEW t \in Thread, pc[t] # "idle", out'[t] = "ok"
    PROVE  (GetAnchor(t) \/ PutAnchor(t)) /\ LeaveOk(t)
<1>1. out[t] = "none" /\ out \in [Thread -> Outcome]
  BY DEF IInv, LockInv, TypeOK
<1>2. ASSUME NEW u \in Thread, ThreadStep(u) PROVE u = t
  BY <1>1, <1>2 DEF ThreadStep, SaveBlob, LoadBlob, SaveKeystore, LoadKeystore,
     ConfirmKeystore, Enter, ReadAnchor, CheckTransition, WriteFile, ReadFile,
     GetAnchor, LockAnchors, PutAnchor, Quarantine, Goto, Refuse, LeaveErr, LeaveOk, LeaveDefault,
     Leave
<1>3. ThreadStep(t)
  BY <1>1, <1>2 DEF Next, Crash, CopyFile, RestoreOldFile, RemoveFile, vars
<1>4. GetAnchor(t) \/ PutAnchor(t)
  BY <1>1, <1>3 DEF ThreadStep, SaveBlob, LoadBlob, SaveKeystore, LoadKeystore,
     ConfirmKeystore, Enter, ReadAnchor, CheckTransition, WriteFile, ReadFile,
     Quarantine, Goto, LeaveErr, LeaveDefault, Leave
<1>5. CASE GetAnchor(t)
  BY <1>1, <1>5, GetCases DEF Goto, LeaveErr, Leave
<1>6. CASE PutAnchor(t)
  BY <1>1, <1>6, PutCases DEF Goto, LeaveErr, Leave
<1> QED BY <1>4, <1>5, <1>6

\* A load never returns a state that misses an acknowledged save.
THEOREM FreshLoads == Spec => LoadsAreFresh
<1> DEFINE Fresh(t) ==
       (op[t] \in {"load_blob", "load_keystore"} /\ pc[t] # "idle"
          /\ out'[t] = "ok" /\ acked[obj[t]] # GENESIS_HASH) =>
           /\ cand[t].cur = anchors'[obj[t]].cur
           /\ Continues(cand[t].cur, acked[obj[t]])
<1>1. IInv /\ [Next]_vars => \A t \in Thread : Fresh(t)
  <2> SUFFICES ASSUME IInv, [Next]_vars, NEW t \in Thread,
                      op[t] \in {"load_blob", "load_keystore"}, pc[t] # "idle",
                      out'[t] = "ok", acked[obj[t]] # GENESIS_HASH
               PROVE  /\ cand[t].cur = anchors'[obj[t]].cur
                      /\ Continues(cand[t].cur, acked[obj[t]])
    OBVIOUS
  <2> DEFINE a == anchors[obj[t]]
  <2>1. a # NoAnchor /\ a \in StateAnchor /\ Continues(a.cur, acked[obj[t]])
    BY DEF IInv, TypeOK, AckedIsAnchored
  <2>2. CASE GetAnchor(t) /\ LeaveOk(t)
    <3>1. IsCurrent(a, cand[t]) /\ UNCHANGED anchors
      BY <2>1, <2>2, GetCases DEF Goto, LeaveErr, LeaveOk, Leave, IInv, TypeOK
    <3> QED BY <2>1, <3>1 DEF IsCurrent
  <2>3. CASE PutAnchor(t) /\ LeaveOk(t)
    <3>1. pc[t] = "put"
      BY <2>3, PutCases
    <3>2. /\ cand[t] \in StateMetadata /\ WellFormed(cand[t])
          /\ FromMetadata(cand[t]).cur = cand[t].cur /\ cand[t].cur \in Hash
      BY <3>1, CandType, FromMetadataType DEF StateMetadata
    <3>3. IsSuccessor(a, cand[t])
      BY <2>1, <3>1 DEF IInv, FlightInv
    <3>4. Continues(cand[t].cur, a.cur)
      BY <2>1, <3>2, <3>3, SuccessorContinues DEF Acceptable
    <3>5. Continues(cand[t].cur, acked[obj[t]])
      BY <2>1, <3>2, <3>4, ContinuesTrans DEF IInv, TypeOK, StateAnchor
    <3>6. anchors' = [anchors EXCEPT ![obj[t]] = FromMetadata(cand[t])]
      <4>1. ~LeaveErr(t) /\ ~Goto(t, "quarantine")
        BY DEF LeaveErr, Leave, Goto, IInv, TypeOK, LockInv
      <4> QED BY <2>3, <4>1, PutCases
    <3> QED BY <3>2, <3>5, <3>6 DEF IInv, TypeOK
  <2> QED BY <2>2, <2>3, OkComesFrom
<1>2. IInv /\ [Next]_vars => [\A t \in Thread : Fresh(t)]_vars
  BY <1>1
<1> QED BY <1>2, Inductive, PTL DEF Spec, LoadsAreFresh

\* A keystore write never loses an acknowledged one.
THEOREM KeystoreNeverForks == Spec => KeystoreWritesContinue
<1> DEFINE Keeps(t) ==
       (op[t] = "save_keystore" /\ pc[t] = "write" /\ pc'[t] = "get"
          /\ acked[Keystore] # GENESIS_HASH) =>
           Continues(file'[Keystore].cur, acked[Keystore])
<1>1. IInv /\ [Next]_vars => \A t \in Thread : Keeps(t)
  <2> SUFFICES ASSUME IInv, [Next]_vars, NEW t \in Thread, op[t] = "save_keystore",
                      pc[t] = "write", pc'[t] = "get", acked[Keystore] # GENESIS_HASH
               PROVE  Continues(file'[Keystore].cur, acked[Keystore])
    OBVIOUS
  <2> DEFINE a == anchors[Keystore]
  <2>1. /\ a # NoAnchor /\ a \in StateAnchor /\ Continues(a.cur, acked[Keystore])
        /\ acked[Keystore] \in Hash
    BY StoreAssumption DEF IInv, TypeOK, AckedIsAnchored
  <2>2. obj[t] = Keystore
    BY DEF IInv, LockInv
  <2>3. /\ cand[t] \in StateMetadata /\ WellFormed(cand[t]) /\ cand[t].cur \in Hash
    BY CandType DEF StateMetadata
  <2>4. Acceptable(a, cand[t])
    BY <2>1, <2>2 DEF IInv, FlightInv
  <2>5. Continues(cand[t].cur, a.cur)
    BY <2>1, <2>3, <2>4, SuccessorContinues
  <2>6. Continues(cand[t].cur, acked[Keystore])
    BY <2>1, <2>3, <2>5, ContinuesTrans DEF StateAnchor
  <2>7. file'[Keystore] = cand[t]
    <3>1. pc \in [Thread -> Pc] /\ file \in [Object -> StateMetadata \cup {NoFile}]
      BY DEF IInv, TypeOK
    <3>2. ASSUME NEW u \in Thread, ThreadStep(u) PROVE u = t
      BY <3>1, <3>2 DEF ThreadStep, SaveBlob, LoadBlob, SaveKeystore, LoadKeystore,
         ConfirmKeystore, Enter, ReadAnchor, CheckTransition, WriteFile, ReadFile,
         GetAnchor, LockAnchors, PutAnchor, Quarantine, Goto, Refuse, LeaveErr, LeaveOk,
         LeaveDefault, Leave
    <3>3. ThreadStep(t)
      BY <3>1, <3>2 DEF Next, Crash, CopyFile, RestoreOldFile, RemoveFile, vars
    <3>4. WriteFile(t)
      BY <3>3 DEF ThreadStep, SaveBlob, LoadBlob, SaveKeystore, LoadKeystore,
         ConfirmKeystore, Enter, ReadAnchor, CheckTransition, ReadFile,
         GetAnchor, LockAnchors, PutAnchor, Quarantine
    <3> QED BY <2>2, <3>1, <3>4, StoreAssumption DEF WriteFile, LeaveErr, Leave
  <2> QED BY <2>6, <2>7
<1>2. IInv /\ [Next]_vars => [\A t \in Thread : Keeps(t)]_vars
  BY <1>1
<1> QED BY <1>2, Inductive, PTL DEF Spec, KeystoreWritesContinue
===============================================================================
