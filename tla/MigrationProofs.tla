---------------------------- MODULE MigrationProofs ----------------------------
(* Machine-checked proofs of Migration's safety properties, for any set of     *)
(* vaults and any combination of crashes, failing steps, ambiguous backend     *)
(* errors, waiting imports and waiting saves.                                  *)
EXTENDS Migration, TLAPS

-------------------------------------------------------------------------------
(* Types.                                                                     *)

\* The initial states are well typed.
LEMMA TypeInit == Init => TypeOK
BY DEF Init, TypeOK, Pc

\* Every step preserves the types.
LEMMA TypeStep == ASSUME TypeOK, [Next]_vars PROVE TypeOK'
<1> USE DEF TypeOK, Pc, Object, Fixed
<1>1. CASE Begin
  BY <1>1 DEF Begin
<1>2. CASE Stage
  BY <1>2 DEF Stage, Abandon
<1>3. CASE WriteJournal
  BY <1>3 DEF WriteJournal, Abandon
<1>4. CASE Commit
  BY <1>4 DEF Commit, Abandon, fileVars
<1>5. CASE ReadJournal
  BY <1>5 DEF ReadJournal, ResumePending, fileVars
<1>6. ASSUME NEW o \in Object, MoveAside(o) PROVE TypeOK'
  BY <1>6 DEF MoveAside
<1>7. ASSUME NEW o \in Object, Place(o) PROVE TypeOK'
  BY <1>7 DEF Place
<1>8. ASSUME NEW o \in Object, AlreadyMoved(o) PROVE TypeOK'
  BY <1>8 DEF AlreadyMoved, fileVars
<1>9. ASSUME NEW o \in Object, InstallAnchor(o) PROVE TypeOK'
  BY <1>9 DEF InstallAnchor, ResumePending, fileVars
<1>10. ASSUME NEW o \in Object, StartWaiting(o) PROVE TypeOK'
  BY <1>10 DEF StartWaiting, fileVars
<1>11. ASSUME NEW o \in Object, GoOn(o) PROVE TypeOK'
  BY <1>11 DEF GoOn
<1>12. CASE ApplyEnds
  BY <1>12 DEF ApplyEnds, ResumePending, fileVars
<1>13. CASE ClearRecord
  BY <1>13 DEF ClearRecord, ResumePending, fileVars
<1>14. CASE Discard
  BY <1>14 DEF Discard
<1>15. CASE OpenStore
  BY <1>15 DEF OpenStore, fileVars
<1>16. CASE Crash
  BY <1>16 DEF Crash, fileVars
<1>17. CASE Calm
  BY <1>17 DEF Calm, fileVars
<1>18. CASE UNCHANGED vars
  BY <1>18 DEF vars, fileVars
<1> QED
  BY <1>1, <1>2, <1>3, <1>4, <1>5, <1>6, <1>7, <1>8, <1>9, <1>10, <1>11, <1>12,
     <1>13, <1>14, <1>15, <1>16, <1>17, <1>18 DEF Next

-------------------------------------------------------------------------------
(* No copy is lost, whatever fails.                                           *)

\* The initial states have everything in place.
LEMMA StepInit == Init => NothingLost /\ StepInv
BY DEF Init, NothingLost, StepInv

\* Every step keeps a copy of what is anchored, and keeps StepInv: the commit
\* record guards what is moved, and a copy is discarded only when everything
\* anchored is live.
LEMMA StepStep ==
    ASSUME TypeOK, NothingLost, StepInv, [Next]_vars
    PROVE  NothingLost' /\ StepInv'
<1> USE DEF TypeOK, NothingLost, StepInv
<1>1. CASE Begin
  BY <1>1 DEF Begin
<1>2. CASE Stage
  BY <1>2 DEF Stage, Abandon
<1>3. CASE WriteJournal
  BY <1>3 DEF WriteJournal, Abandon
<1>4. CASE Commit
  BY <1>4 DEF Commit, Abandon, fileVars
<1>5. CASE ReadJournal
  BY <1>5 DEF ReadJournal, ResumePending, fileVars
<1>6. ASSUME NEW o \in Object, MoveAside(o) PROVE NothingLost' /\ StepInv'
  BY <1>6 DEF MoveAside
<1>7. ASSUME NEW o \in Object, Place(o) PROVE NothingLost' /\ StepInv'
  BY <1>7 DEF Place
<1>8. ASSUME NEW o \in Object, AlreadyMoved(o) PROVE NothingLost' /\ StepInv'
  BY <1>8 DEF AlreadyMoved, fileVars
<1>9. ASSUME NEW o \in Object, InstallAnchor(o) PROVE NothingLost' /\ StepInv'
  BY <1>9 DEF InstallAnchor, ResumePending, fileVars
<1>10. ASSUME NEW o \in Object, StartWaiting(o) PROVE NothingLost' /\ StepInv'
  BY <1>10 DEF StartWaiting, fileVars
<1>11. ASSUME NEW o \in Object, GoOn(o) PROVE NothingLost' /\ StepInv'
  BY <1>11 DEF GoOn
<1>12. CASE ApplyEnds
  BY <1>12 DEF ApplyEnds, ResumePending, fileVars
<1>13. CASE ClearRecord
  BY <1>13 DEF ClearRecord, ResumePending, fileVars
<1>14. CASE Discard
  BY <1>14 DEF Discard
<1>15. CASE OpenStore
  BY <1>15 DEF OpenStore, fileVars
<1>16. CASE Crash
  BY <1>16 DEF Crash, fileVars
<1>17. CASE Calm
  BY <1>17 DEF Calm, fileVars
<1>18. CASE UNCHANGED vars
  BY <1>18 DEF vars, fileVars
<1> QED
  BY <1>1, <1>2, <1>3, <1>4, <1>5, <1>6, <1>7, <1>8, <1>9, <1>10, <1>11, <1>12,
     <1>13, <1>14, <1>15, <1>16, <1>17, <1>18 DEF Next

-------------------------------------------------------------------------------
(* A migration that is only interrupted.                                      *)

\* Initially there is no migration.
LEMMA AloneInit == Init => AloneInv
BY DEF Init, AloneInv, BeforeCommit, AfterCommit, Complete, OnlyInterrupted

\* Every step of an interrupted migration keeps the old store complete before
\* the commit point and what is needed to finish after it.
LEMMA AloneStep ==
    ASSUME TypeOK, StepInv, AloneInv, [Next]_vars PROVE AloneInv'
<1> SUFFICES ASSUME OnlyInterrupted, OnlyInterrupted' PROVE AloneInv'
  <2>1. faults' = faults
    BY DEF Next, Begin, Stage, WriteJournal, Commit, ReadJournal, MoveAside, Place,
       AlreadyMoved, InstallAnchor, StartWaiting, GoOn, ApplyEnds, ClearRecord, Discard,
       OpenStore, Crash, Calm, vars
  <2> QED BY <2>1 DEF AloneInv, OnlyInterrupted
<1>0. /\ "ambiguous" \notin faults /\ "import" \notin faults /\ "save" \notin faults
      /\ waiting = {}
  BY DEF OnlyInterrupted, AloneInv
<1> USE DEF TypeOK, StepInv, AloneInv, BeforeCommit, AfterCommit, Complete
<1>1. CASE Begin
  BY <1>1 DEF Begin, Object
<1>2. CASE Stage
  BY <1>2 DEF Stage, Abandon
<1>3. CASE WriteJournal
  BY <1>3 DEF WriteJournal, Abandon
<1>4. CASE Commit
  BY <1>0, <1>4 DEF Commit, Abandon, fileVars
<1>5. CASE ReadJournal
  BY <1>5 DEF ReadJournal, ResumePending, fileVars
<1>6. ASSUME NEW o \in Object, MoveAside(o) PROVE AloneInv'
  BY <1>6 DEF MoveAside
<1>7. ASSUME NEW o \in Object, Place(o) PROVE AloneInv'
  BY <1>7 DEF Place
<1>8. ASSUME NEW o \in Object, AlreadyMoved(o) PROVE AloneInv'
  BY <1>8 DEF AlreadyMoved, fileVars
<1>9. ASSUME NEW o \in Object, InstallAnchor(o) PROVE AloneInv'
  BY <1>9 DEF InstallAnchor, ResumePending, fileVars
<1>10. ASSUME NEW o \in Object, StartWaiting(o) PROVE AloneInv'
  BY <1>0, <1>10 DEF StartWaiting, fileVars
<1>11. ASSUME NEW o \in Object, GoOn(o) PROVE AloneInv'
  BY <1>0, <1>11 DEF GoOn
<1>12. CASE ApplyEnds
  BY <1>12 DEF ApplyEnds, ResumePending, fileVars
<1>13. CASE ClearRecord
  BY <1>0, <1>13 DEF ClearRecord, ResumePending, fileVars
<1>14. CASE Discard
  BY <1>14 DEF Discard
<1>15. CASE OpenStore
  BY <1>15 DEF OpenStore, fileVars
<1>16. CASE Crash
  BY <1>16 DEF Crash, fileVars
<1>17. CASE Calm
  BY <1>17 DEF Calm, fileVars
<1>18. CASE UNCHANGED vars
  BY <1>18 DEF vars, fileVars
<1> QED
  BY <1>1, <1>2, <1>3, <1>4, <1>5, <1>6, <1>7, <1>8, <1>9, <1>10, <1>11, <1>12,
     <1>13, <1>14, <1>15, <1>16, <1>17, <1>18 DEF Next

-------------------------------------------------------------------------------
(* The theorems.                                                              *)

\* The inductive invariant holds in every state.
LEMMA Inductive == Spec => []IInv
<1>1. Init => IInv
  BY TypeInit, StepInit, AloneInit DEF IInv
<1>2. IInv /\ [Next]_vars => IInv'
  BY TypeStep, StepStep, AloneStep DEF IInv
<1> QED BY <1>1, <1>2, PTL DEF Spec

\* Whatever fails and whatever waits for the migration, no step destroys the only
\* copy of an anchored object.
THEOREM NoCopyIsLost == Spec => []NothingLost
<1>1. IInv => NothingLost
  BY DEF IInv
<1> QED BY <1>1, Inductive, PTL

\* A store that is open for use is the complete old or the complete new one,
\* wherever the migration and its resumptions were interrupted.
THEOREM AllOldOrAllNew == Spec => []CompleteIfAlone
<1>1. IInv => CompleteIfAlone
  BY DEF IInv, AloneInv, AfterCommit, CompleteIfAlone, CompleteStore
<1> QED BY <1>1, Inductive, PTL

\* A committed migration has, at every moment, what finishing it needs.
THEOREM AlwaysResumable == Spec => []Resumable
<1>1. IInv => Resumable
  BY DEF IInv, AloneInv, AfterCommit, Resumable
<1> QED BY <1>1, Inductive, PTL

\* No anchor is replaced before the migration is committed and its object moved.
THEOREM AnchorsAreLast == Spec => AnchorsFollowMoves
<1> DEFINE Follows(o) ==
      (OnlyInterrupted /\ anchor[o] # anchor'[o] /\ anchor'[o] = "new")
          => record # {} /\ live[o] = "new"
<1>1. IInv /\ [Next]_vars => [\A o \in Object : Follows(o)]_vars
  <2> SUFFICES ASSUME IInv, Next, NEW o \in Object, OnlyInterrupted,
                      anchor[o] # anchor'[o], anchor'[o] = "new"
               PROVE  record # {} /\ live[o] = "new"
    OBVIOUS
  <2>1. anchor \in [Object -> {"none", "old", "new"}]
    BY DEF IInv, TypeOK
  <2>2. \E q \in Object : InstallAnchor(q) \/ GoOn(q)
    BY DEF Next, Begin, Stage, WriteJournal, Commit, ReadJournal, MoveAside, Place,
       AlreadyMoved, StartWaiting, ApplyEnds, ClearRecord, Discard, OpenStore, Crash, Calm
  <2>3. PICK q \in Object : InstallAnchor(q) \/ GoOn(q)
    BY <2>2
  <2>4. ~GoOn(q)
    BY <2>1 DEF GoOn, IInv, AloneInv
  <2>5. InstallAnchor(q) /\ q = o
    BY <2>1, <2>3, <2>4 DEF InstallAnchor
  <2> QED BY <2>5 DEF InstallAnchor, IInv, StepInv, AloneInv, AfterCommit
<1> QED BY <1>1, Inductive, PTL DEF Spec, AnchorsFollowMoves
================================================================================
