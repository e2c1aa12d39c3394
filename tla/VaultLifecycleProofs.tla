-------------------------- MODULE VaultLifecycleProofs --------------------------
(* Machine-checked proofs of VaultLifecycle's safety properties, for any set of  *)
(* vaults and any combination of failures, crashes, copies and listeners.        *)
EXTENDS VaultLifecycle, TLAPS

-------------------------------------------------------------------------------
(* Types and control.                                                         *)

\* Every part of the invariant holds initially: nothing exists and nothing runs.
LEMMA InitInv == Init => IInv
<1> SUFFICES ASSUME Init PROVE IInv
  OBVIOUS
<1> USE DEF Init, Thread, Data
<1>1. TypeOK /\ ControlInv /\ UsedInv
  BY DEF TypeOK, Pc, ControlInv, UsedInv
<1>2. FreshInv /\ BornInv /\ EventInv /\ JobInv /\ GoneInv
  BY DEF FreshInv, BornInv, EventInv, JobInv, GoneInv
<1>3. ListedInv /\ ReconciledInv /\ KeptInv /\ ToldIsKeptUnlessBothFail
  BY DEF ListedInv, Good, ReconciledInv, KeptInv, Kept, Dropped, ToldIsKeptUnlessBothFail, ToldIsKept
<1> QED
  BY <1>1, <1>2, <1>3 DEF IInv

\* Every step preserves the types.
LEMMA TypeStep ==
    ASSUME TypeOK, ControlInv, [Next]_vars
    PROVE  TypeOK'
<1>0. UNCHANGED faults
  BY DEF Next, vars
<1>a. None \notin Vault
  BY LifecycleAssumption
<1> USE <1>0, <1>a DEF TypeOK, ControlInv, Pc, Thread, dirVars, jobVars, uiVars,
   histVars
<1>1. CASE Build("job")
  BY <1>1 DEF Build, Wiped, Fails, JobFails, Stop, Goto
<1>2. CASE Build("net")
  BY <1>2 DEF Build, Wiped, Fails, Stop, Goto
<1>3. CASE RenamePartial("job")
  BY <1>3 DEF RenamePartial, Wiped, Fails, JobFails, Stop, Goto
<1>4. CASE RenamePartial("net")
  BY <1>4 DEF RenamePartial, Wiped, Fails, Stop, Goto
<1>5. CASE AnchorNew("job")
  BY <1>5 DEF AnchorNew, Wiped, Fails, JobFails, Stop, Goto
<1>6. CASE AnchorNew("net")
  BY <1>6 DEF AnchorNew, Wiped, Fails, Stop, Goto
<1>7. ASSUME NEW v \in Vault, NEW o \in {"create", "import"}, SpawnCreate(v, o) PROVE TypeOK'
  BY <1>7 DEF SpawnCreate, Spawn, Goto
<1>8. ASSUME NEW v \in Vault, SpawnEdit(v) PROVE TypeOK'
  BY <1>8 DEF SpawnEdit, Spawn, Goto
<1>9. ASSUME NEW v \in Vault, SpawnDelete(v) PROVE TypeOK'
  BY <1>9 DEF SpawnDelete, Spawn, Goto
<1>10. ASSUME NEW v \in Vault, StartImport(v) PROVE TypeOK'
  BY <1>10 DEF StartImport, Goto
<1>11. ASSUME NEW v \in Vault, Received(v) PROVE TypeOK'
  BY <1>11 DEF Received, SaveOk, SaveFails
<1>12. ASSUME NEW v \in Vault, CopyBack(v) PROVE TypeOK'
  BY <1>12 DEF CopyBack
<1>13. CASE OpenVault
  BY <1>13 DEF OpenVault, OpenOk, OpenRefused, OpenFails, JobFails, Stop, Goto
<1>14. CASE SaveRegistry
  BY <1>14 DEF SaveRegistry, Upserted, SaveOk, SaveFails, JobFails, Stop, Goto
<1>15. CASE Apply
  BY <1>15 DEF Apply, Stop, Goto
<1>16. CASE Tombstone
  BY <1>16 DEF Tombstone, JobFails, Stop, Goto
<1>17. CASE CommitDelete
  BY <1>17 DEF CommitDelete, SaveOk, SaveFails, Goto
<1>18. CASE RestoreTombstone
  BY <1>18 DEF RestoreTombstone, RestoreOk, RestoreFails, JobFails, Stop, Goto
<1>19. CASE Retire
  BY <1>19 DEF Retire, PutDeletedAnchor, JobFails, Stop, Goto
<1>20. CASE WipeTombstone
  BY <1>20 DEF WipeTombstone, Wiped, Goto
<1>21. CASE SpawnUnlock
  BY <1>21 DEF SpawnUnlock, Spawn, Goto
<1>22. CASE LoadRegistry
  BY <1>22 DEF LoadRegistry, Stop, Goto
<1>23. CASE CleanPartialDirs
  BY <1>23 DEF CleanPartialDirs, Listings, Goto
<1>24. CASE ReconcileTombstone
  BY <1>24 DEF ReconcileTombstone, Listings, RestoreOk, RestoreFails, JobFails, Stop,
     Goto
<1>25. CASE ReconcileDir
  BY <1>25 DEF ReconcileDir, OpenOk, OpenRefused, OpenFails, Reregistered, OtherInTxn,
     InTxn, Goto
<1>26. CASE Lock
  BY <1>26 DEF Lock
<1>27. CASE Notify
  BY <1>27 DEF Notify, Stop, Goto
<1>28. CASE Crash
  BY <1>28 DEF Crash
<1>29. CASE UNCHANGED vars
  BY <1>29 DEF vars
<1> QED
  BY <1>1, <1>2, <1>3, <1>4, <1>5, <1>6, <1>7, <1>8, <1>9, <1>10, <1>11, <1>12, <1>13,
     <1>14, <1>15, <1>16, <1>17, <1>18, <1>19, <1>20, <1>21, <1>22, <1>23, <1>24,
     <1>25, <1>26, <1>27, <1>28, <1>29 DEF Next, Step

\* Every step preserves ControlInv: each kind of job takes its own steps only, and a
\* locked session has nothing.
LEMMA ControlStep ==
    ASSUME TypeOK, ControlInv, [Next]_vars
    PROVE  ControlInv'
<1>0. UNCHANGED faults
  BY DEF Next, vars
<1>a. None \notin Vault
  BY LifecycleAssumption
<1> USE <1>0, <1>a DEF TypeOK, ControlInv, Thread, dirVars, jobVars, uiVars, histVars
<1>1. CASE Build("job")
  BY <1>1 DEF Build, Wiped, Fails, JobFails, Stop, Goto
<1>2. CASE Build("net")
  BY <1>2 DEF Build, Wiped, Fails, Stop, Goto
<1>3. CASE RenamePartial("job")
  BY <1>3 DEF RenamePartial, Wiped, Fails, JobFails, Stop, Goto
<1>4. CASE RenamePartial("net")
  BY <1>4 DEF RenamePartial, Wiped, Fails, Stop, Goto
<1>5. CASE AnchorNew("job")
  BY <1>5 DEF AnchorNew, Wiped, Fails, JobFails, Stop, Goto
<1>6. CASE AnchorNew("net")
  BY <1>6 DEF AnchorNew, Wiped, Fails, Stop, Goto
<1>7. ASSUME NEW v \in Vault, NEW o \in {"create", "import"}, SpawnCreate(v, o) PROVE ControlInv'
  BY <1>7 DEF SpawnCreate, Spawn, Goto
<1>8. ASSUME NEW v \in Vault, SpawnEdit(v) PROVE ControlInv'
  BY <1>8 DEF SpawnEdit, Spawn, Goto
<1>9. ASSUME NEW v \in Vault, SpawnDelete(v) PROVE ControlInv'
  BY <1>9 DEF SpawnDelete, Spawn, Goto
<1>10. ASSUME NEW v \in Vault, StartImport(v) PROVE ControlInv'
  BY <1>10 DEF StartImport, Goto
<1>11. ASSUME NEW v \in Vault, Received(v) PROVE ControlInv'
  BY <1>11 DEF Received, SaveOk, SaveFails
<1>12. ASSUME NEW v \in Vault, CopyBack(v) PROVE ControlInv'
  BY <1>12 DEF CopyBack
<1>13. CASE OpenVault
  BY <1>13 DEF OpenVault, OpenOk, OpenRefused, OpenFails, JobFails, Stop, Goto
<1>14. CASE SaveRegistry
  BY <1>14 DEF SaveRegistry, Upserted, SaveOk, SaveFails, JobFails, Stop, Goto
<1>15. CASE Apply
  BY <1>15 DEF Apply, Stop, Goto
<1>16. CASE Tombstone
  BY <1>16 DEF Tombstone, JobFails, Stop, Goto
<1>17. CASE CommitDelete
  BY <1>17 DEF CommitDelete, SaveOk, SaveFails, Goto
<1>18. CASE RestoreTombstone
  BY <1>18 DEF RestoreTombstone, RestoreOk, RestoreFails, JobFails, Stop, Goto
<1>19. CASE Retire
  BY <1>19 DEF Retire, PutDeletedAnchor, JobFails, Stop, Goto
<1>20. CASE WipeTombstone
  BY <1>20 DEF WipeTombstone, Wiped, Goto
<1>21. CASE SpawnUnlock
  BY <1>21 DEF SpawnUnlock, Spawn, Goto
<1>22. CASE LoadRegistry
  BY <1>22 DEF LoadRegistry, Stop, Goto
<1>23. CASE CleanPartialDirs
  BY <1>23 DEF CleanPartialDirs, Listings, Goto
<1>24. CASE ReconcileTombstone
  BY <1>24 DEF ReconcileTombstone, Listings, RestoreOk, RestoreFails, JobFails, Stop,
     Goto
<1>25. CASE ReconcileDir
  BY <1>25 DEF ReconcileDir, OpenOk, OpenRefused, OpenFails, Reregistered, OtherInTxn,
     InTxn, Goto
<1>26. CASE Lock
  BY <1>26 DEF Lock
<1>27. CASE Notify
  BY <1>27 DEF Notify, Stop, Goto
<1>28. CASE Crash
  BY <1>28 DEF Crash
<1>29. CASE UNCHANGED vars
  BY <1>29 DEF vars
<1> QED
  BY <1>1, <1>2, <1>3, <1>4, <1>5, <1>6, <1>7, <1>8, <1>9, <1>10, <1>11, <1>12, <1>13,
     <1>14, <1>15, <1>16, <1>17, <1>18, <1>19, <1>20, <1>21, <1>22, <1>23, <1>24,
     <1>25, <1>26, <1>27, <1>28, <1>29 DEF Next, Step

-------------------------------------------------------------------------------
(* Who knows of a vault.                                                      *)

\* Every step preserves UsedInv: ids come from new_vault_id only.
LEMMA UsedStep ==
    ASSUME TypeOK, ControlInv, UsedInv, [Next]_vars
    PROVE  UsedInv'
<1>0. UNCHANGED faults
  BY DEF Next, vars
<1>a. None \notin Vault
  BY LifecycleAssumption
<1> USE <1>0, <1>a DEF TypeOK, ControlInv, UsedInv, Data, Thread, dirVars, jobVars,
   uiVars, histVars
<1>1. CASE Build("job")
  BY <1>1 DEF Build, Wiped, Fails, JobFails, Stop, Goto
<1>2. CASE Build("net")
  BY <1>2 DEF Build, Wiped, Fails, Stop, Goto
<1>3. CASE RenamePartial("job")
  BY <1>3 DEF RenamePartial, Wiped, Fails, JobFails, Stop, Goto
<1>4. CASE RenamePartial("net")
  BY <1>4 DEF RenamePartial, Wiped, Fails, Stop, Goto
<1>5. CASE AnchorNew("job")
  BY <1>5 DEF AnchorNew, Wiped, Fails, JobFails, Stop, Goto
<1>6. CASE AnchorNew("net")
  BY <1>6 DEF AnchorNew, Wiped, Fails, Stop, Goto
<1>7. ASSUME NEW v \in Vault, NEW o \in {"create", "import"}, SpawnCreate(v, o) PROVE UsedInv'
  BY <1>7 DEF SpawnCreate, Spawn, Goto
<1>8. ASSUME NEW v \in Vault, SpawnEdit(v) PROVE UsedInv'
  BY <1>8 DEF SpawnEdit, Spawn, Goto
<1>9. ASSUME NEW v \in Vault, SpawnDelete(v) PROVE UsedInv'
  BY <1>9 DEF SpawnDelete, Spawn, Goto
<1>10. ASSUME NEW v \in Vault, StartImport(v) PROVE UsedInv'
  BY <1>10 DEF StartImport, Goto
<1>11. ASSUME NEW v \in Vault, Received(v) PROVE UsedInv'
  BY <1>11 DEF Received, SaveOk, SaveFails
<1>12. ASSUME NEW v \in Vault, CopyBack(v) PROVE UsedInv'
  BY <1>12 DEF CopyBack
<1>13. CASE OpenVault
  BY <1>13 DEF OpenVault, OpenOk, OpenRefused, OpenFails, JobFails, Stop, Goto
<1>14. CASE SaveRegistry
  BY <1>14 DEF SaveRegistry, Upserted, SaveOk, SaveFails, JobFails, Stop, Goto
<1>15. CASE Apply
  BY <1>15 DEF Apply, Stop, Goto
<1>16. CASE Tombstone
  BY <1>16 DEF Tombstone, JobFails, Stop, Goto
<1>17. CASE CommitDelete
  BY <1>17 DEF CommitDelete, SaveOk, SaveFails, Goto
<1>18. CASE RestoreTombstone
  BY <1>18 DEF RestoreTombstone, RestoreOk, RestoreFails, JobFails, Stop, Goto
<1>19. CASE Retire
  BY <1>19 DEF Retire, PutDeletedAnchor, JobFails, Stop, Goto
<1>20. CASE WipeTombstone
  BY <1>20 DEF WipeTombstone, Wiped, Goto
<1>21. CASE SpawnUnlock
  BY <1>21 DEF SpawnUnlock, Spawn, Goto
<1>22. CASE LoadRegistry
  BY <1>22 DEF LoadRegistry, Stop, Goto
<1>23. CASE CleanPartialDirs
  BY <1>23 DEF CleanPartialDirs, Listings, Goto
<1>24. CASE ReconcileTombstone
  BY <1>24 DEF ReconcileTombstone, Listings, RestoreOk, RestoreFails, JobFails, Stop,
     Goto
<1>25. CASE ReconcileDir
  BY <1>25 DEF ReconcileDir, OpenOk, OpenRefused, OpenFails, Reregistered, OtherInTxn,
     InTxn, Goto
<1>26. CASE Lock
  BY <1>26 DEF Lock
<1>27. CASE Notify
  BY <1>27 DEF Notify, Stop, Goto
<1>28. CASE Crash
  BY <1>28 DEF Crash
<1>29. CASE UNCHANGED vars
  BY <1>29 DEF vars
<1> QED
  BY <1>1, <1>2, <1>3, <1>4, <1>5, <1>6, <1>7, <1>8, <1>9, <1>10, <1>11, <1>12, <1>13,
     <1>14, <1>15, <1>16, <1>17, <1>18, <1>19, <1>20, <1>21, <1>22, <1>23, <1>24,
     <1>25, <1>26, <1>27, <1>28, <1>29 DEF Next, Step

\* Every step preserves FreshInv: in_txn keeps a running unlock away from a vault that
\* is being created.
LEMMA FreshStep ==
    ASSUME TypeOK, ControlInv, UsedInv, FreshInv, BornInv, EventInv, JobInv,
       [Next]_vars
    PROVE  FreshInv'
<1>0. UNCHANGED faults
  BY DEF Next, vars
<1>a. None \notin Vault
  BY LifecycleAssumption
<1> USE <1>0, <1>a DEF TypeOK, ControlInv, UsedInv, FreshInv, BornInv, EventInv,
   JobInv, Data, Thread, dirVars, jobVars, uiVars, histVars
<1>1. CASE Build("job")
  BY <1>1 DEF Build, Wiped, Fails, JobFails, Stop, Goto
<1>2. CASE Build("net")
  BY <1>2 DEF Build, Wiped, Fails, Stop, Goto
<1>3. CASE RenamePartial("job")
  BY <1>3 DEF RenamePartial, Wiped, Fails, JobFails, Stop, Goto
<1>4. CASE RenamePartial("net")
  BY <1>4 DEF RenamePartial, Wiped, Fails, Stop, Goto
<1>5. CASE AnchorNew("job")
  BY <1>5 DEF AnchorNew, Wiped, Fails, JobFails, Stop, Goto
<1>6. CASE AnchorNew("net")
  BY <1>6 DEF AnchorNew, Wiped, Fails, Stop, Goto
<1>7. ASSUME NEW v \in Vault, NEW o \in {"create", "import"}, SpawnCreate(v, o) PROVE FreshInv'
  BY <1>7 DEF SpawnCreate, Spawn, Goto
<1>8. ASSUME NEW v \in Vault, SpawnEdit(v) PROVE FreshInv'
  BY <1>8 DEF SpawnEdit, Spawn, Goto
<1>9. ASSUME NEW v \in Vault, SpawnDelete(v) PROVE FreshInv'
  BY <1>9 DEF SpawnDelete, Spawn, Goto
<1>10. ASSUME NEW v \in Vault, StartImport(v) PROVE FreshInv'
  BY <1>10 DEF StartImport, Goto
<1>11. ASSUME NEW v \in Vault, Received(v) PROVE FreshInv'
  BY <1>11 DEF Received, SaveOk, SaveFails
<1>12. ASSUME NEW v \in Vault, CopyBack(v) PROVE FreshInv'
  BY <1>12 DEF CopyBack
<1>13. CASE OpenVault
  BY <1>13 DEF OpenVault, OpenOk, OpenRefused, OpenFails, JobFails, Stop, Goto
<1>14. CASE SaveRegistry
  BY <1>14 DEF SaveRegistry, Upserted, SaveOk, SaveFails, JobFails, Stop, Goto
<1>15. CASE Apply
  BY <1>15 DEF Apply, Stop, Goto
<1>16. CASE Tombstone
  BY <1>16 DEF Tombstone, JobFails, Stop, Goto
<1>17. CASE CommitDelete
  BY <1>17 DEF CommitDelete, SaveOk, SaveFails, Goto
<1>18. CASE RestoreTombstone
  BY <1>18 DEF RestoreTombstone, RestoreOk, RestoreFails, JobFails, Stop, Goto
<1>19. CASE Retire
  BY <1>19 DEF Retire, PutDeletedAnchor, JobFails, Stop, Goto
<1>20. CASE WipeTombstone
  BY <1>20 DEF WipeTombstone, Wiped, Goto
<1>21. CASE SpawnUnlock
  BY <1>21 DEF SpawnUnlock, Spawn, Goto
<1>22. CASE LoadRegistry
  BY <1>22 DEF LoadRegistry, Stop, Goto
<1>23. CASE CleanPartialDirs
  BY <1>23 DEF CleanPartialDirs, Listings, Goto
<1>24. CASE ReconcileTombstone
  BY <1>24 DEF ReconcileTombstone, Listings, RestoreOk, RestoreFails, JobFails, Stop,
     Goto
<1>25. CASE ReconcileDir
  BY <1>25 DEF ReconcileDir, OpenOk, OpenRefused, OpenFails, Reregistered, OtherInTxn,
     InTxn, Goto
<1>26. CASE Lock
  BY <1>26 DEF Lock
<1>27. CASE Notify
  BY <1>27 DEF Notify, Stop, Goto
<1>28. CASE Crash
  BY <1>28 DEF Crash
<1>29. CASE UNCHANGED vars
  BY <1>29 DEF vars
<1> QED
  BY <1>1, <1>2, <1>3, <1>4, <1>5, <1>6, <1>7, <1>8, <1>9, <1>10, <1>11, <1>12, <1>13,
     <1>14, <1>15, <1>16, <1>17, <1>18, <1>19, <1>20, <1>21, <1>22, <1>23, <1>24,
     <1>25, <1>26, <1>27, <1>28, <1>29 DEF Next, Step

\* Every step preserves BornInv: nobody else removes what a job creates.
LEMMA BornStep ==
    ASSUME TypeOK, ControlInv, UsedInv, FreshInv, BornInv, EventInv, JobInv,
       [Next]_vars
    PROVE  BornInv'
<1>0. UNCHANGED faults
  BY DEF Next, vars
<1>a. None \notin Vault
  BY LifecycleAssumption
<1> USE <1>0, <1>a DEF TypeOK, ControlInv, UsedInv, FreshInv, BornInv, EventInv,
   JobInv, Data, Thread, dirVars, jobVars, uiVars, histVars
<1>1. CASE Build("job")
  BY <1>1 DEF Build, Wiped, Fails, JobFails, Stop, Goto
<1>2. CASE Build("net")
  BY <1>2 DEF Build, Wiped, Fails, Stop, Goto
<1>3. CASE RenamePartial("job")
  BY <1>3 DEF RenamePartial, Wiped, Fails, JobFails, Stop, Goto
<1>4. CASE RenamePartial("net")
  BY <1>4 DEF RenamePartial, Wiped, Fails, Stop, Goto
<1>5. CASE AnchorNew("job")
  BY <1>5 DEF AnchorNew, Wiped, Fails, JobFails, Stop, Goto
<1>6. CASE AnchorNew("net")
  BY <1>6 DEF AnchorNew, Wiped, Fails, Stop, Goto
<1>7. ASSUME NEW v \in Vault, NEW o \in {"create", "import"}, SpawnCreate(v, o) PROVE BornInv'
  BY <1>7 DEF SpawnCreate, Spawn, Goto
<1>8. ASSUME NEW v \in Vault, SpawnEdit(v) PROVE BornInv'
  BY <1>8 DEF SpawnEdit, Spawn, Goto
<1>9. ASSUME NEW v \in Vault, SpawnDelete(v) PROVE BornInv'
  BY <1>9 DEF SpawnDelete, Spawn, Goto
<1>10. ASSUME NEW v \in Vault, StartImport(v) PROVE BornInv'
  BY <1>10 DEF StartImport, Goto
<1>11. ASSUME NEW v \in Vault, Received(v) PROVE BornInv'
  BY <1>11 DEF Received, SaveOk, SaveFails
<1>12. ASSUME NEW v \in Vault, CopyBack(v) PROVE BornInv'
  BY <1>12 DEF CopyBack
<1>13. CASE OpenVault
  BY <1>13 DEF OpenVault, OpenOk, OpenRefused, OpenFails, JobFails, Stop, Goto
<1>14. CASE SaveRegistry
  BY <1>14 DEF SaveRegistry, Upserted, SaveOk, SaveFails, JobFails, Stop, Goto
<1>15. CASE Apply
  BY <1>15 DEF Apply, Stop, Goto
<1>16. CASE Tombstone
  BY <1>16 DEF Tombstone, JobFails, Stop, Goto
<1>17. CASE CommitDelete
  BY <1>17 DEF CommitDelete, SaveOk, SaveFails, Goto
<1>18. CASE RestoreTombstone
  BY <1>18 DEF RestoreTombstone, RestoreOk, RestoreFails, JobFails, Stop, Goto
<1>19. CASE Retire
  BY <1>19 DEF Retire, PutDeletedAnchor, JobFails, Stop, Goto
<1>20. CASE WipeTombstone
  BY <1>20 DEF WipeTombstone, Wiped, Goto
<1>21. CASE SpawnUnlock
  BY <1>21 DEF SpawnUnlock, Spawn, Goto
<1>22. CASE LoadRegistry
  BY <1>22 DEF LoadRegistry, Stop, Goto
<1>23. CASE CleanPartialDirs
  BY <1>23 DEF CleanPartialDirs, Listings, Goto
<1>24. CASE ReconcileTombstone
  BY <1>24 DEF ReconcileTombstone, Listings, RestoreOk, RestoreFails, JobFails, Stop,
     Goto
<1>25. CASE ReconcileDir
  BY <1>25 DEF ReconcileDir, OpenOk, OpenRefused, OpenFails, Reregistered, OtherInTxn,
     InTxn, Goto
<1>26. CASE Lock
  BY <1>26 DEF Lock
<1>27. CASE Notify
  BY <1>27 DEF Notify, Stop, Goto
<1>28. CASE Crash
  BY <1>28 DEF Crash
<1>29. CASE UNCHANGED vars
  BY <1>29 DEF vars
<1> QED
  BY <1>1, <1>2, <1>3, <1>4, <1>5, <1>6, <1>7, <1>8, <1>9, <1>10, <1>11, <1>12, <1>13,
     <1>14, <1>15, <1>16, <1>17, <1>18, <1>19, <1>20, <1>21, <1>22, <1>23, <1>24,
     <1>25, <1>26, <1>27, <1>28, <1>29 DEF Next, Step

\* Every step preserves EventInv: locking drops the events, so a session is only told
\* of vaults it does not know.
LEMMA EventStep ==
    ASSUME TypeOK, ControlInv, UsedInv, FreshInv, BornInv, EventInv, JobInv,
       [Next]_vars
    PROVE  EventInv'
<1>0. UNCHANGED faults
  BY DEF Next, vars
<1>a. None \notin Vault
  BY LifecycleAssumption
<1> USE <1>0, <1>a DEF TypeOK, ControlInv, UsedInv, FreshInv, BornInv, EventInv,
   JobInv, Data, Thread, dirVars, jobVars, uiVars, histVars
<1>1. CASE Build("job")
  BY <1>1 DEF Build, Wiped, Fails, JobFails, Stop, Goto
<1>2. CASE Build("net")
  BY <1>2 DEF Build, Wiped, Fails, Stop, Goto
<1>3. CASE RenamePartial("job")
  BY <1>3 DEF RenamePartial, Wiped, Fails, JobFails, Stop, Goto
<1>4. CASE RenamePartial("net")
  BY <1>4 DEF RenamePartial, Wiped, Fails, Stop, Goto
<1>5. CASE AnchorNew("job")
  BY <1>5 DEF AnchorNew, Wiped, Fails, JobFails, Stop, Goto
<1>6. CASE AnchorNew("net")
  BY <1>6 DEF AnchorNew, Wiped, Fails, Stop, Goto
<1>7. ASSUME NEW v \in Vault, NEW o \in {"create", "import"}, SpawnCreate(v, o) PROVE EventInv'
  BY <1>7 DEF SpawnCreate, Spawn, Goto
<1>8. ASSUME NEW v \in Vault, SpawnEdit(v) PROVE EventInv'
  BY <1>8 DEF SpawnEdit, Spawn, Goto
<1>9. ASSUME NEW v \in Vault, SpawnDelete(v) PROVE EventInv'
  BY <1>9 DEF SpawnDelete, Spawn, Goto
<1>10. ASSUME NEW v \in Vault, StartImport(v) PROVE EventInv'
  BY <1>10 DEF StartImport, Goto
<1>11. ASSUME NEW v \in Vault, Received(v) PROVE EventInv'
  BY <1>11 DEF Received, SaveOk, SaveFails
<1>12. ASSUME NEW v \in Vault, CopyBack(v) PROVE EventInv'
  BY <1>12 DEF CopyBack
<1>13. CASE OpenVault
  BY <1>13 DEF OpenVault, OpenOk, OpenRefused, OpenFails, JobFails, Stop, Goto
<1>14. CASE SaveRegistry
  BY <1>14 DEF SaveRegistry, Upserted, SaveOk, SaveFails, JobFails, Stop, Goto
<1>15. CASE Apply
  BY <1>15 DEF Apply, Stop, Goto
<1>16. CASE Tombstone
  BY <1>16 DEF Tombstone, JobFails, Stop, Goto
<1>17. CASE CommitDelete
  BY <1>17 DEF CommitDelete, SaveOk, SaveFails, Goto
<1>18. CASE RestoreTombstone
  BY <1>18 DEF RestoreTombstone, RestoreOk, RestoreFails, JobFails, Stop, Goto
<1>19. CASE Retire
  BY <1>19 DEF Retire, PutDeletedAnchor, JobFails, Stop, Goto
<1>20. CASE WipeTombstone
  BY <1>20 DEF WipeTombstone, Wiped, Goto
<1>21. CASE SpawnUnlock
  BY <1>21 DEF SpawnUnlock, Spawn, Goto
<1>22. CASE LoadRegistry
  BY <1>22 DEF LoadRegistry, Stop, Goto
<1>23. CASE CleanPartialDirs
  BY <1>23 DEF CleanPartialDirs, Listings, Goto
<1>24. CASE ReconcileTombstone
  BY <1>24 DEF ReconcileTombstone, Listings, RestoreOk, RestoreFails, JobFails, Stop,
     Goto
<1>25. CASE ReconcileDir
  BY <1>25 DEF ReconcileDir, OpenOk, OpenRefused, OpenFails, Reregistered, OtherInTxn,
     InTxn, Goto
<1>26. CASE Lock
  BY <1>26 DEF Lock
<1>27. CASE Notify
  BY <1>27 DEF Notify, Stop, Goto
<1>28. CASE Crash
  BY <1>28 DEF Crash
<1>29. CASE UNCHANGED vars
  BY <1>29 DEF vars
<1> QED
  BY <1>1, <1>2, <1>3, <1>4, <1>5, <1>6, <1>7, <1>8, <1>9, <1>10, <1>11, <1>12, <1>13,
     <1>14, <1>15, <1>16, <1>17, <1>18, <1>19, <1>20, <1>21, <1>22, <1>23, <1>24,
     <1>25, <1>26, <1>27, <1>28, <1>29 DEF Next, Step

\* Every step preserves JobInv: while a job runs, the registry it was given stays in
\* the session, which can only grow.
LEMMA JobStep ==
    ASSUME TypeOK, ControlInv, UsedInv, FreshInv, BornInv, JobInv, [Next]_vars
    PROVE  JobInv'
<1>0. UNCHANGED faults
  BY DEF Next, vars
<1>a. None \notin Vault
  BY LifecycleAssumption
<1> USE <1>0, <1>a DEF TypeOK, ControlInv, UsedInv, FreshInv, BornInv, JobInv, Data,
   Thread, dirVars, jobVars, uiVars, histVars
<1>1. CASE Build("job")
  BY <1>1 DEF Build, Wiped, Fails, JobFails, Stop, Goto
<1>2. CASE Build("net")
  BY <1>2 DEF Build, Wiped, Fails, Stop, Goto
<1>3. CASE RenamePartial("job")
  BY <1>3 DEF RenamePartial, Wiped, Fails, JobFails, Stop, Goto
<1>4. CASE RenamePartial("net")
  BY <1>4 DEF RenamePartial, Wiped, Fails, Stop, Goto
<1>5. CASE AnchorNew("job")
  BY <1>5 DEF AnchorNew, Wiped, Fails, JobFails, Stop, Goto
<1>6. CASE AnchorNew("net")
  BY <1>6 DEF AnchorNew, Wiped, Fails, Stop, Goto
<1>7. ASSUME NEW v \in Vault, NEW o \in {"create", "import"}, SpawnCreate(v, o) PROVE JobInv'
  BY <1>7 DEF SpawnCreate, Spawn, Goto
<1>8. ASSUME NEW v \in Vault, SpawnEdit(v) PROVE JobInv'
  BY <1>8 DEF SpawnEdit, Spawn, Goto
<1>9. ASSUME NEW v \in Vault, SpawnDelete(v) PROVE JobInv'
  BY <1>9 DEF SpawnDelete, Spawn, Goto
<1>10. ASSUME NEW v \in Vault, StartImport(v) PROVE JobInv'
  BY <1>10 DEF StartImport, Goto
<1>11. ASSUME NEW v \in Vault, Received(v) PROVE JobInv'
  BY <1>11 DEF Received, SaveOk, SaveFails
<1>12. ASSUME NEW v \in Vault, CopyBack(v) PROVE JobInv'
  BY <1>12 DEF CopyBack
<1>13. CASE OpenVault
  BY <1>13 DEF OpenVault, OpenOk, OpenRefused, OpenFails, JobFails, Stop, Goto
<1>14. CASE SaveRegistry
  BY <1>14 DEF SaveRegistry, Upserted, SaveOk, SaveFails, JobFails, Stop, Goto
<1>15. CASE Apply
  BY <1>15 DEF Apply, Stop, Goto
<1>16. CASE Tombstone
  BY <1>16 DEF Tombstone, JobFails, Stop, Goto
<1>17. CASE CommitDelete
  BY <1>17 DEF CommitDelete, SaveOk, SaveFails, Goto
<1>18. CASE RestoreTombstone
  BY <1>18 DEF RestoreTombstone, RestoreOk, RestoreFails, JobFails, Stop, Goto
<1>19. CASE Retire
  BY <1>19 DEF Retire, PutDeletedAnchor, JobFails, Stop, Goto
<1>20. CASE WipeTombstone
  BY <1>20 DEF WipeTombstone, Wiped, Goto
<1>21. CASE SpawnUnlock
  BY <1>21 DEF SpawnUnlock, Spawn, Goto
<1>22. CASE LoadRegistry
  BY <1>22 DEF LoadRegistry, Stop, Goto
<1>23. CASE CleanPartialDirs
  BY <1>23 DEF CleanPartialDirs, Listings, Goto
<1>24. CASE ReconcileTombstone
  BY <1>24 DEF ReconcileTombstone, Listings, RestoreOk, RestoreFails, JobFails, Stop,
     Goto
<1>25. CASE ReconcileDir
  BY <1>25 DEF ReconcileDir, OpenOk, OpenRefused, OpenFails, Reregistered, OtherInTxn,
     InTxn, Goto
<1>26. CASE Lock
  BY <1>26 DEF Lock
<1>27. CASE Notify
  BY <1>27 DEF Notify, Stop, Goto
<1>28. CASE Crash
  BY <1>28 DEF Crash
<1>29. CASE UNCHANGED vars
  BY <1>29 DEF vars
<1> QED
  BY <1>1, <1>2, <1>3, <1>4, <1>5, <1>6, <1>7, <1>8, <1>9, <1>10, <1>11, <1>12, <1>13,
     <1>14, <1>15, <1>16, <1>17, <1>18, <1>19, <1>20, <1>21, <1>22, <1>23, <1>24,
     <1>25, <1>26, <1>27, <1>28, <1>29 DEF Next, Step

-------------------------------------------------------------------------------
(* What is listed has its data.                                               *)

\* Every step preserves GoneInv: the terminal anchor comes before the wipe and stays.
LEMMA GoneStep ==
    ASSUME TypeOK, ControlInv, UsedInv, FreshInv, BornInv, EventInv, JobInv, GoneInv,
       [Next]_vars
    PROVE  GoneInv'
<1>0. UNCHANGED faults
  BY DEF Next, vars
<1>a. None \notin Vault
  BY LifecycleAssumption
<1> USE <1>0, <1>a DEF TypeOK, ControlInv, UsedInv, FreshInv, BornInv, EventInv,
   JobInv, GoneInv, Data, Thread, dirVars, jobVars, uiVars, histVars
<1>1. CASE Build("job")
  BY <1>1 DEF Build, Wiped, Fails, JobFails, Stop, Goto
<1>2. CASE Build("net")
  BY <1>2 DEF Build, Wiped, Fails, Stop, Goto
<1>3. CASE RenamePartial("job")
  BY <1>3 DEF RenamePartial, Wiped, Fails, JobFails, Stop, Goto
<1>4. CASE RenamePartial("net")
  BY <1>4 DEF RenamePartial, Wiped, Fails, Stop, Goto
<1>5. CASE AnchorNew("job")
  BY <1>5 DEF AnchorNew, Wiped, Fails, JobFails, Stop, Goto
<1>6. CASE AnchorNew("net")
  BY <1>6 DEF AnchorNew, Wiped, Fails, Stop, Goto
<1>7. ASSUME NEW v \in Vault, NEW o \in {"create", "import"}, SpawnCreate(v, o) PROVE GoneInv'
  BY <1>7 DEF SpawnCreate, Spawn, Goto
<1>8. ASSUME NEW v \in Vault, SpawnEdit(v) PROVE GoneInv'
  BY <1>8 DEF SpawnEdit, Spawn, Goto
<1>9. ASSUME NEW v \in Vault, SpawnDelete(v) PROVE GoneInv'
  BY <1>9 DEF SpawnDelete, Spawn, Goto
<1>10. ASSUME NEW v \in Vault, StartImport(v) PROVE GoneInv'
  BY <1>10 DEF StartImport, Goto
<1>11. ASSUME NEW v \in Vault, Received(v) PROVE GoneInv'
  BY <1>11 DEF Received, SaveOk, SaveFails
<1>12. ASSUME NEW v \in Vault, CopyBack(v) PROVE GoneInv'
  BY <1>12 DEF CopyBack
<1>13. CASE OpenVault
  BY <1>13 DEF OpenVault, OpenOk, OpenRefused, OpenFails, JobFails, Stop, Goto
<1>14. CASE SaveRegistry
  BY <1>14 DEF SaveRegistry, Upserted, SaveOk, SaveFails, JobFails, Stop, Goto
<1>15. CASE Apply
  BY <1>15 DEF Apply, Stop, Goto
<1>16. CASE Tombstone
  BY <1>16 DEF Tombstone, JobFails, Stop, Goto
<1>17. CASE CommitDelete
  BY <1>17 DEF CommitDelete, SaveOk, SaveFails, Goto
<1>18. CASE RestoreTombstone
  BY <1>18 DEF RestoreTombstone, RestoreOk, RestoreFails, JobFails, Stop, Goto
<1>19. CASE Retire
  BY <1>19 DEF Retire, PutDeletedAnchor, JobFails, Stop, Goto
<1>20. CASE WipeTombstone
  BY <1>20 DEF WipeTombstone, Wiped, Goto
<1>21. CASE SpawnUnlock
  BY <1>21 DEF SpawnUnlock, Spawn, Goto
<1>22. CASE LoadRegistry
  BY <1>22 DEF LoadRegistry, Stop, Goto
<1>23. CASE CleanPartialDirs
  BY <1>23 DEF CleanPartialDirs, Listings, Goto
<1>24. CASE ReconcileTombstone
  BY <1>24 DEF ReconcileTombstone, Listings, RestoreOk, RestoreFails, JobFails, Stop,
     Goto
<1>25. CASE ReconcileDir
  BY <1>25 DEF ReconcileDir, OpenOk, OpenRefused, OpenFails, Reregistered, OtherInTxn,
     InTxn, Goto
<1>26. CASE Lock
  BY <1>26 DEF Lock
<1>27. CASE Notify
  BY <1>27 DEF Notify, Stop, Goto
<1>28. CASE Crash
  BY <1>28 DEF Crash
<1>29. CASE UNCHANGED vars
  BY <1>29 DEF vars
<1> QED
  BY <1>1, <1>2, <1>3, <1>4, <1>5, <1>6, <1>7, <1>8, <1>9, <1>10, <1>11, <1>12, <1>13,
     <1>14, <1>15, <1>16, <1>17, <1>18, <1>19, <1>20, <1>21, <1>22, <1>23, <1>24,
     <1>25, <1>26, <1>27, <1>28, <1>29 DEF Next, Step

\* Every step preserves ListedInv: a vault leaves the saved registry before its data
\* goes.
LEMMA ListedStep ==
    ASSUME TypeOK, ControlInv, UsedInv, FreshInv, BornInv, JobInv, GoneInv, ListedInv,
       [Next]_vars
    PROVE  ListedInv'
<1>0. UNCHANGED faults
  BY DEF Next, vars
<1>a. None \notin Vault
  BY LifecycleAssumption
<1> USE <1>0, <1>a DEF TypeOK, ControlInv, UsedInv, FreshInv, BornInv, JobInv,
   GoneInv, ListedInv, Data, Good, Thread, dirVars, jobVars, uiVars, histVars
<1>1. CASE Build("job")
  BY <1>1 DEF Build, Wiped, Fails, JobFails, Stop, Goto
<1>2. CASE Build("net")
  BY <1>2 DEF Build, Wiped, Fails, Stop, Goto
<1>3. CASE RenamePartial("job")
  BY <1>3 DEF RenamePartial, Wiped, Fails, JobFails, Stop, Goto
<1>4. CASE RenamePartial("net")
  BY <1>4 DEF RenamePartial, Wiped, Fails, Stop, Goto
<1>5. CASE AnchorNew("job")
  BY <1>5 DEF AnchorNew, Wiped, Fails, JobFails, Stop, Goto
<1>6. CASE AnchorNew("net")
  BY <1>6 DEF AnchorNew, Wiped, Fails, Stop, Goto
<1>7. ASSUME NEW v \in Vault, NEW o \in {"create", "import"}, SpawnCreate(v, o) PROVE ListedInv'
  BY <1>7 DEF SpawnCreate, Spawn, Goto
<1>8. ASSUME NEW v \in Vault, SpawnEdit(v) PROVE ListedInv'
  BY <1>8 DEF SpawnEdit, Spawn, Goto
<1>9. ASSUME NEW v \in Vault, SpawnDelete(v) PROVE ListedInv'
  BY <1>9 DEF SpawnDelete, Spawn, Goto
<1>10. ASSUME NEW v \in Vault, StartImport(v) PROVE ListedInv'
  BY <1>10 DEF StartImport, Goto
<1>11. ASSUME NEW v \in Vault, Received(v) PROVE ListedInv'
  BY <1>11 DEF Received, SaveOk, SaveFails
<1>12. ASSUME NEW v \in Vault, CopyBack(v) PROVE ListedInv'
  BY <1>12 DEF CopyBack
<1>13. CASE OpenVault
  BY <1>13 DEF OpenVault, OpenOk, OpenRefused, OpenFails, JobFails, Stop, Goto
<1>14. CASE SaveRegistry
  BY <1>14 DEF SaveRegistry, Upserted, SaveOk, SaveFails, JobFails, Stop, Goto
<1>15. CASE Apply
  BY <1>15 DEF Apply, Stop, Goto
<1>16. CASE Tombstone
  BY <1>16 DEF Tombstone, JobFails, Stop, Goto
<1>17. CASE CommitDelete
  BY <1>17 DEF CommitDelete, SaveOk, SaveFails, Goto
<1>18. CASE RestoreTombstone
  BY <1>18 DEF RestoreTombstone, RestoreOk, RestoreFails, JobFails, Stop, Goto
<1>19. CASE Retire
  BY <1>19 DEF Retire, PutDeletedAnchor, JobFails, Stop, Goto
<1>20. CASE WipeTombstone
  BY <1>20 DEF WipeTombstone, Wiped, Goto
<1>21. CASE SpawnUnlock
  BY <1>21 DEF SpawnUnlock, Spawn, Goto
<1>22. CASE LoadRegistry
  BY <1>22 DEF LoadRegistry, Stop, Goto
<1>23. CASE CleanPartialDirs
  BY <1>23 DEF CleanPartialDirs, Listings, Goto
<1>24. CASE ReconcileTombstone
  BY <1>24 DEF ReconcileTombstone, Listings, RestoreOk, RestoreFails, JobFails, Stop,
     Goto
<1>25. CASE ReconcileDir
  BY <1>25 DEF ReconcileDir, OpenOk, OpenRefused, OpenFails, Reregistered, OtherInTxn,
     InTxn, Goto
<1>26. CASE Lock
  BY <1>26 DEF Lock
<1>27. CASE Notify
  BY <1>27 DEF Notify, Stop, Goto
<1>28. CASE Crash
  BY <1>28 DEF Crash
<1>29. CASE UNCHANGED vars
  BY <1>29 DEF vars
<1> QED
  BY <1>1, <1>2, <1>3, <1>4, <1>5, <1>6, <1>7, <1>8, <1>9, <1>10, <1>11, <1>12, <1>13,
     <1>14, <1>15, <1>16, <1>17, <1>18, <1>19, <1>20, <1>21, <1>22, <1>23, <1>24,
     <1>25, <1>26, <1>27, <1>28, <1>29 DEF Next, Step

\* Every step preserves ReconciledInv: a directory leaves the listing when it is in
\* the registry, in quarantine, gone or unread.
LEMMA ReconciledStep ==
    ASSUME TypeOK, ControlInv, FreshInv, ReconciledInv, [Next]_vars
    PROVE  ReconciledInv'
<1>0. UNCHANGED faults
  BY DEF Next, vars
<1>a. None \notin Vault
  BY LifecycleAssumption
<1> USE <1>0, <1>a DEF TypeOK, ControlInv, FreshInv, ReconciledInv, Thread, dirVars,
   jobVars, uiVars, histVars
<1>1. CASE Build("job")
  BY <1>1 DEF Build, Wiped, Fails, JobFails, Stop, Goto
<1>2. CASE Build("net")
  BY <1>2 DEF Build, Wiped, Fails, Stop, Goto
<1>3. CASE RenamePartial("job")
  BY <1>3 DEF RenamePartial, Wiped, Fails, JobFails, Stop, Goto
<1>4. CASE RenamePartial("net")
  BY <1>4 DEF RenamePartial, Wiped, Fails, Stop, Goto
<1>5. CASE AnchorNew("job")
  BY <1>5 DEF AnchorNew, Wiped, Fails, JobFails, Stop, Goto
<1>6. CASE AnchorNew("net")
  BY <1>6 DEF AnchorNew, Wiped, Fails, Stop, Goto
<1>7. ASSUME NEW v \in Vault, NEW o \in {"create", "import"}, SpawnCreate(v, o) PROVE ReconciledInv'
  BY <1>7 DEF SpawnCreate, Spawn, Goto
<1>8. ASSUME NEW v \in Vault, SpawnEdit(v) PROVE ReconciledInv'
  BY <1>8 DEF SpawnEdit, Spawn, Goto
<1>9. ASSUME NEW v \in Vault, SpawnDelete(v) PROVE ReconciledInv'
  BY <1>9 DEF SpawnDelete, Spawn, Goto
<1>10. ASSUME NEW v \in Vault, StartImport(v) PROVE ReconciledInv'
  BY <1>10 DEF StartImport, Goto
<1>11. ASSUME NEW v \in Vault, Received(v) PROVE ReconciledInv'
  BY <1>11 DEF Received, SaveOk, SaveFails
<1>12. ASSUME NEW v \in Vault, CopyBack(v) PROVE ReconciledInv'
  BY <1>12 DEF CopyBack
<1>13. CASE OpenVault
  BY <1>13 DEF OpenVault, OpenOk, OpenRefused, OpenFails, JobFails, Stop, Goto
<1>14. CASE SaveRegistry
  BY <1>14 DEF SaveRegistry, Upserted, SaveOk, SaveFails, JobFails, Stop, Goto
<1>15. CASE Apply
  BY <1>15 DEF Apply, Stop, Goto
<1>16. CASE Tombstone
  BY <1>16 DEF Tombstone, JobFails, Stop, Goto
<1>17. CASE CommitDelete
  BY <1>17 DEF CommitDelete, SaveOk, SaveFails, Goto
<1>18. CASE RestoreTombstone
  BY <1>18 DEF RestoreTombstone, RestoreOk, RestoreFails, JobFails, Stop, Goto
<1>19. CASE Retire
  BY <1>19 DEF Retire, PutDeletedAnchor, JobFails, Stop, Goto
<1>20. CASE WipeTombstone
  BY <1>20 DEF WipeTombstone, Wiped, Goto
<1>21. CASE SpawnUnlock
  BY <1>21 DEF SpawnUnlock, Spawn, Goto
<1>22. CASE LoadRegistry
  BY <1>22 DEF LoadRegistry, Stop, Goto
<1>23. CASE CleanPartialDirs
  BY <1>23 DEF CleanPartialDirs, Listings, Goto
<1>24. CASE ReconcileTombstone
  BY <1>24 DEF ReconcileTombstone, Listings, RestoreOk, RestoreFails, JobFails, Stop,
     Goto
<1>25. CASE ReconcileDir
  BY <1>25 DEF ReconcileDir, OpenOk, OpenRefused, OpenFails, Reregistered, OtherInTxn,
     InTxn, Goto
<1>26. CASE Lock
  BY <1>26 DEF Lock
<1>27. CASE Notify
  BY <1>27 DEF Notify, Stop, Goto
<1>28. CASE Crash
  BY <1>28 DEF Crash
<1>29. CASE UNCHANGED vars
  BY <1>29 DEF vars
<1> QED
  BY <1>1, <1>2, <1>3, <1>4, <1>5, <1>6, <1>7, <1>8, <1>9, <1>10, <1>11, <1>12, <1>13,
     <1>14, <1>15, <1>16, <1>17, <1>18, <1>19, <1>20, <1>21, <1>22, <1>23, <1>24,
     <1>25, <1>26, <1>27, <1>28, <1>29 DEF Next, Step

-------------------------------------------------------------------------------
(* What the user counts on is kept.                                           *)

\* Every step preserves KeptInv: a tombstone nobody asked for is listed in every
\* registry that can be saved.
LEMMA KeptStep ==
    ASSUME TypeOK, ControlInv, UsedInv, FreshInv, BornInv, EventInv, JobInv, GoneInv,
       KeptInv, [Next]_vars
    PROVE  KeptInv'
<1>0. UNCHANGED faults
  BY DEF Next, vars
<1>a. None \notin Vault
  BY LifecycleAssumption
<1> USE <1>0, <1>a DEF TypeOK, ControlInv, UsedInv, FreshInv, BornInv, EventInv,
   JobInv, GoneInv, KeptInv, Data, Kept, Dropped, Thread, dirVars, jobVars, uiVars,
   histVars
<1>1. CASE Build("job")
  BY <1>1 DEF Build, Wiped, Fails, JobFails, Stop, Goto
<1>2. CASE Build("net")
  BY <1>2 DEF Build, Wiped, Fails, Stop, Goto
<1>3. CASE RenamePartial("job")
  BY <1>3 DEF RenamePartial, Wiped, Fails, JobFails, Stop, Goto
<1>4. CASE RenamePartial("net")
  BY <1>4 DEF RenamePartial, Wiped, Fails, Stop, Goto
<1>5. CASE AnchorNew("job")
  BY <1>5 DEF AnchorNew, Wiped, Fails, JobFails, Stop, Goto
<1>6. CASE AnchorNew("net")
  BY <1>6 DEF AnchorNew, Wiped, Fails, Stop, Goto
<1>7. ASSUME NEW v \in Vault, NEW o \in {"create", "import"}, SpawnCreate(v, o) PROVE KeptInv'
  BY <1>7 DEF SpawnCreate, Spawn, Goto
<1>8. ASSUME NEW v \in Vault, SpawnEdit(v) PROVE KeptInv'
  BY <1>8 DEF SpawnEdit, Spawn, Goto
<1>9. ASSUME NEW v \in Vault, SpawnDelete(v) PROVE KeptInv'
  BY <1>9 DEF SpawnDelete, Spawn, Goto
<1>10. ASSUME NEW v \in Vault, StartImport(v) PROVE KeptInv'
  BY <1>10 DEF StartImport, Goto
<1>11. ASSUME NEW v \in Vault, Received(v) PROVE KeptInv'
  BY <1>11 DEF Received, SaveOk, SaveFails
<1>12. ASSUME NEW v \in Vault, CopyBack(v) PROVE KeptInv'
  BY <1>12 DEF CopyBack
<1>13. CASE OpenVault
  BY <1>13 DEF OpenVault, OpenOk, OpenRefused, OpenFails, JobFails, Stop, Goto
<1>14. CASE SaveRegistry
  BY <1>14 DEF SaveRegistry, Upserted, SaveOk, SaveFails, JobFails, Stop, Goto
<1>15. CASE Apply
  BY <1>15 DEF Apply, Stop, Goto
<1>16. CASE Tombstone
  BY <1>16 DEF Tombstone, JobFails, Stop, Goto
<1>17. CASE CommitDelete
  BY <1>17 DEF CommitDelete, SaveOk, SaveFails, Goto
<1>18. CASE RestoreTombstone
  BY <1>18 DEF RestoreTombstone, RestoreOk, RestoreFails, JobFails, Stop, Goto
<1>19. CASE Retire
  BY <1>19 DEF Retire, PutDeletedAnchor, JobFails, Stop, Goto
<1>20. CASE WipeTombstone
  BY <1>20 DEF WipeTombstone, Wiped, Goto
<1>21. CASE SpawnUnlock
  BY <1>21 DEF SpawnUnlock, Spawn, Goto
<1>22. CASE LoadRegistry
  BY <1>22 DEF LoadRegistry, Stop, Goto
<1>23. CASE CleanPartialDirs
  BY <1>23 DEF CleanPartialDirs, Listings, Goto
<1>24. CASE ReconcileTombstone
  BY <1>24 DEF ReconcileTombstone, Listings, RestoreOk, RestoreFails, JobFails, Stop,
     Goto
<1>25. CASE ReconcileDir
  BY <1>25 DEF ReconcileDir, OpenOk, OpenRefused, OpenFails, Reregistered, OtherInTxn,
     InTxn, Goto
<1>26. CASE Lock
  BY <1>26 DEF Lock
<1>27. CASE Notify
  BY <1>27 DEF Notify, Stop, Goto
<1>28. CASE Crash
  BY <1>28 DEF Crash
<1>29. CASE UNCHANGED vars
  BY <1>29 DEF vars
<1> QED
  BY <1>1, <1>2, <1>3, <1>4, <1>5, <1>6, <1>7, <1>8, <1>9, <1>10, <1>11, <1>12, <1>13,
     <1>14, <1>15, <1>16, <1>17, <1>18, <1>19, <1>20, <1>21, <1>22, <1>23, <1>24,
     <1>25, <1>26, <1>27, <1>28, <1>29 DEF Next, Step

\* Every step preserves ToldIsKeptUnlessBothFail: only a tombstone that no registry
\* lists is wiped.
LEMMA ToldStep ==
    ASSUME TypeOK, ControlInv, UsedInv, FreshInv, BornInv, EventInv, JobInv, GoneInv,
       KeptInv, ToldIsKeptUnlessBothFail, [Next]_vars
    PROVE  ToldIsKeptUnlessBothFail'
<1>0. UNCHANGED faults
  BY DEF Next, vars
<1>a. None \notin Vault
  BY LifecycleAssumption
<1> USE <1>0, <1>a DEF TypeOK, ControlInv, UsedInv, FreshInv, BornInv, EventInv,
   JobInv, GoneInv, KeptInv, ToldIsKeptUnlessBothFail, Data, Kept, ToldIsKept, Thread,
   dirVars, jobVars, uiVars, histVars
<1>1. CASE Build("job")
  BY <1>1 DEF Build, Wiped, Fails, JobFails, Stop, Goto
<1>2. CASE Build("net")
  BY <1>2 DEF Build, Wiped, Fails, Stop, Goto
<1>3. CASE RenamePartial("job")
  BY <1>3 DEF RenamePartial, Wiped, Fails, JobFails, Stop, Goto
<1>4. CASE RenamePartial("net")
  BY <1>4 DEF RenamePartial, Wiped, Fails, Stop, Goto
<1>5. CASE AnchorNew("job")
  BY <1>5 DEF AnchorNew, Wiped, Fails, JobFails, Stop, Goto
<1>6. CASE AnchorNew("net")
  BY <1>6 DEF AnchorNew, Wiped, Fails, Stop, Goto
<1>7. ASSUME NEW v \in Vault, NEW o \in {"create", "import"}, SpawnCreate(v, o) PROVE ToldIsKeptUnlessBothFail'
  BY <1>7 DEF SpawnCreate, Spawn, Goto
<1>8. ASSUME NEW v \in Vault, SpawnEdit(v) PROVE ToldIsKeptUnlessBothFail'
  BY <1>8 DEF SpawnEdit, Spawn, Goto
<1>9. ASSUME NEW v \in Vault, SpawnDelete(v) PROVE ToldIsKeptUnlessBothFail'
  BY <1>9 DEF SpawnDelete, Spawn, Goto
<1>10. ASSUME NEW v \in Vault, StartImport(v) PROVE ToldIsKeptUnlessBothFail'
  BY <1>10 DEF StartImport, Goto
<1>11. ASSUME NEW v \in Vault, Received(v) PROVE ToldIsKeptUnlessBothFail'
  BY <1>11 DEF Received, SaveOk, SaveFails
<1>12. ASSUME NEW v \in Vault, CopyBack(v) PROVE ToldIsKeptUnlessBothFail'
  BY <1>12 DEF CopyBack
<1>13. CASE OpenVault
  BY <1>13 DEF OpenVault, OpenOk, OpenRefused, OpenFails, JobFails, Stop, Goto
<1>14. CASE SaveRegistry
  BY <1>14 DEF SaveRegistry, Upserted, SaveOk, SaveFails, JobFails, Stop, Goto
<1>15. CASE Apply
  BY <1>15 DEF Apply, Stop, Goto
<1>16. CASE Tombstone
  BY <1>16 DEF Tombstone, JobFails, Stop, Goto
<1>17. CASE CommitDelete
  BY <1>17 DEF CommitDelete, SaveOk, SaveFails, Goto
<1>18. CASE RestoreTombstone
  BY <1>18 DEF RestoreTombstone, RestoreOk, RestoreFails, JobFails, Stop, Goto
<1>19. CASE Retire
  BY <1>19 DEF Retire, PutDeletedAnchor, JobFails, Stop, Goto
<1>20. CASE WipeTombstone
  BY <1>20 DEF WipeTombstone, Wiped, Goto
<1>21. CASE SpawnUnlock
  BY <1>21 DEF SpawnUnlock, Spawn, Goto
<1>22. CASE LoadRegistry
  BY <1>22 DEF LoadRegistry, Stop, Goto
<1>23. CASE CleanPartialDirs
  BY <1>23 DEF CleanPartialDirs, Listings, Goto
<1>24. CASE ReconcileTombstone
  BY <1>24 DEF ReconcileTombstone, Listings, RestoreOk, RestoreFails, JobFails, Stop,
     Goto
<1>25. CASE ReconcileDir
  BY <1>25 DEF ReconcileDir, OpenOk, OpenRefused, OpenFails, Reregistered, OtherInTxn,
     InTxn, Goto
<1>26. CASE Lock
  BY <1>26 DEF Lock
<1>27. CASE Notify
  BY <1>27 DEF Notify, Stop, Goto
<1>28. CASE Crash
  BY <1>28 DEF Crash
<1>29. CASE UNCHANGED vars
  BY <1>29 DEF vars
<1> QED
  BY <1>1, <1>2, <1>3, <1>4, <1>5, <1>6, <1>7, <1>8, <1>9, <1>10, <1>11, <1>12, <1>13,
     <1>14, <1>15, <1>16, <1>17, <1>18, <1>19, <1>20, <1>21, <1>22, <1>23, <1>24,
     <1>25, <1>26, <1>27, <1>28, <1>29 DEF Next, Step

-------------------------------------------------------------------------------
(* Theorems.                                                                  *)

\* IInv is inductive.
LEMMA Inductive == IInv /\ [Next]_vars => IInv'
BY TypeStep, ControlStep, UsedStep, FreshStep, BornStep, EventStep, JobStep, GoneStep,
   ListedStep, ReconciledStep, KeptStep, ToldStep DEF IInv

\* Every behaviour satisfies the inductive invariant.
LEMMA Invariance == Spec => []IInv
BY InitInv, Inductive, PTL DEF Spec

\* Without a listener, the saved registry lists only vaults whose data is there,
\* after every step of create_vault_dir, delete_vault and reconcile_vaults and
\* whatever fails or crashes in them.
THEOREM ListedVaultsHaveData == Spec => []ListedHasData
<1>1. IInv => ListedHasData
  BY DEF IInv, ListedInv, Good, Data, ListedHasData
<1> QED
  BY <1>1, Invariance, PTL

\* Without a listener, a vault that delete_vault or reconcile_vaults has wiped is
\* never listed again, however often a copy of its directory is put back.
THEOREM DeletedStaysDeleted == Spec => []DeletedNeverListed
<1>1. IInv => DeletedNeverListed
  BY DEF IInv, ListedInv, Good, DeletedNeverListed
<1> QED
  BY <1>1, Invariance, PTL

\* A reconcile_vaults that succeeds leaves no vault directory unlisted that it could
\* read, whatever was interrupted before it and whatever a listener does beside it;
\* a directory goes unread only when reading or moving one can fail.
THEOREM UnlockFindsEverything == Spec => []UnlockListsAll
<1>1. IInv => UnlockListsAll
  BY DEF IInv, ReconciledInv, UnlockListsAll
<1> QED
  BY <1>1, Invariance, PTL

\* A vault the user was told exists keeps its data, unwiped, until its deletion is
\* asked for and not refused, unless saves and renames can both fail.
THEOREM ToldVaultsAreKept == Spec => []ToldIsKeptUnlessBothFail
<1>1. IInv => ToldIsKeptUnlessBothFail
  BY DEF IInv
<1> QED
  BY <1>1, Invariance, PTL

=================================================================================
