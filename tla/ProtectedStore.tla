---------------------------- MODULE ProtectedStore ----------------------------
(***************************************************************************)
(* The rollback-protected single-file objects of one opened store          *)
(* (filesec-gui/src/store.rs): the contact book and the vault registry,    *)
(* saved and loaded as protected blobs, and the keystore.  Each object has *)
(* a file, replaced atomically, and a high-water anchor in a separate      *)
(* backend.  A file is represented by its authenticated metadata: the last *)
(* link of its hash is the payload it carries.                             *)
(*                                                                         *)
(* Threads of one process run the operations; the OS lock on the data      *)
(* directory keeps a second process out.  Every operation is one           *)
(* transaction under the object's mutex (in_txn); the backend is read and  *)
(* written under the short `anchors` mutex.  File writes, anchor reads and *)
(* anchor writes can each fail, the process can be killed between any two  *)
(* steps, and somebody can put back an older copy of a file or remove it.  *)
(***************************************************************************)
EXTENDS StateChain

CONSTANTS
    Thread,       \* threads of the process that use the store
    JobThread,    \* the one background-job thread: only jobs touch the keystore
    Self,         \* the identity this store belongs to
    Exposed,      \* objects whose file others can copy, put back or remove
    Keystore,     \* the object that is the keystore; the others are blobs
    Free,         \* nobody holds the mutex
    NoFile        \* no file at the object's path, or no keystore in memory

VARIABLES
    file,         \* object -> the record at its path
    anchors,      \* object -> its anchor in the backend
    backend,      \* "secure": one record per object; "degraded": one file of all
    txn,          \* object -> the thread inside its transaction
    guard,        \* the thread holding lock.anchors
    pc, op, obj,  \* per thread: next step, running operation, its object
    cand,         \* per thread: the state being committed or checked
    seen,         \* per thread: the anchors read under the guard
    memory,       \* per thread: the keystore it has loaded or saved
    out,          \* per thread: the outcome of its last operation
    acked,        \* history: object -> hash of the newest save that returned Ok
    backup,       \* object -> a copy of its file made at some time
    quarantined,  \* objects with something in quarantine/
    tampered      \* history: objects whose file was changed from outside

vars == <<file, anchors, backend, txn, guard, pc, op, obj, cand, seen, memory,
          out, acked, backup, quarantined, tampered>>

Blob == Object \ {Keystore}

\* ChainAssumption, one keystore and one job thread; the sentinels are no values.
ASSUME StoreAssumption ==
    /\ Self \in Identity /\ Keystore \in Object /\ Exposed \subseteq Object /\ JobThread \in Thread
    /\ {0, 1} \subseteq Suite
    /\ Payload # {}
    /\ Free \notin Thread
    /\ NoFile \notin StateMetadata

Op == {"none", "save_blob", "load_blob", "save_keystore", "load_keystore", "confirm"}

\* Operations that hand a path to accept_state or check_loaded_state: what they
\* refuse is quarantined.
LoadOp == {"load_blob", "load_keystore", "confirm"}

Pc == {"idle", "read_anchor", "check", "write", "read_file", "get", "put",
       "quarantine"}

\* What the last operation returned; "none" while one runs and after an error.
Outcome == {"none", "ok", "default"}

\* Keystores are bound to suite 0, blobs to the identity's at-rest suite.
self_suite(o) == IF o = Keystore THEN 0 ELSE 1

\* Type invariant.
TypeOK ==
    /\ file \in [Object -> StateMetadata \cup {NoFile}]
    /\ anchors \in [Object -> StateAnchor \cup {NoAnchor}]
    /\ backend \in {"secure", "degraded"}
    /\ txn \in [Object -> Thread \cup {Free}]
    /\ guard \in Thread \cup {Free}
    /\ pc \in [Thread -> Pc]
    /\ op \in [Thread -> Op]
    /\ obj \in [Thread -> Object]
    /\ cand \in [Thread -> StateMetadata \cup {NoFile}]
    /\ seen \in [Thread -> [Object -> StateAnchor \cup {NoAnchor}]]
    /\ memory \in [Thread -> StateMetadata \cup {NoFile}]
    /\ out \in [Thread -> Outcome]
    /\ acked \in [Object -> Hash]
    /\ backup \in [Object -> StateMetadata \cup {NoFile}]
    /\ quarantined \subseteq Object
    /\ tampered \subseteq Object

Init ==
    /\ file = [o \in Object |-> NoFile]
    /\ anchors = [o \in Object |-> NoAnchor]
    /\ backend \in {"secure", "degraded"}
    /\ txn = [o \in Object |-> Free]
    /\ guard = Free
    /\ pc = [t \in Thread |-> "idle"]
    /\ op = [t \in Thread |-> "none"]
    /\ obj = [t \in Thread |-> Keystore]
    /\ cand = [t \in Thread |-> NoFile]
    /\ seen = [t \in Thread |-> [o \in Object |-> NoAnchor]]
    /\ memory = [t \in Thread |-> NoFile]
    /\ out = [t \in Thread |-> "none"]
    /\ acked = [o \in Object |-> GENESIS_HASH]
    /\ backup = [o \in Object |-> NoFile]
    /\ quarantined = {}
    /\ tampered = {}

-------------------------------------------------------------------------------
(* Entering and leaving a transaction.                                       *)

\* Mutant: the operation does not wait for the object's mutex.
EnterUnlocked(t, o, operation, step) ==
    /\ pc[t] = "idle"
    /\ txn' = [txn EXCEPT ![o] = t]
    /\ op' = [op EXCEPT ![t] = operation]
    /\ obj' = [obj EXCEPT ![t] = o]
    /\ pc' = [pc EXCEPT ![t] = step]
    /\ out' = [out EXCEPT ![t] = "none"]
    /\ UNCHANGED <<file, anchors, backend, guard, seen, memory, acked, backup,
                   quarantined, tampered>>

\* in_txn: take the object's mutex and start at the operation's first step.
Enter(t, o, operation, step) ==
    /\ pc[t] = "idle"
    /\ txn[o] = Free
    /\ txn' = [txn EXCEPT ![o] = t]
    /\ op' = [op EXCEPT ![t] = operation]
    /\ obj' = [obj EXCEPT ![t] = o]
    /\ pc' = [pc EXCEPT ![t] = step]
    /\ out' = [out EXCEPT ![t] = "none"]
    /\ UNCHANGED <<file, anchors, backend, guard, seen, memory, acked, backup,
                   quarantined, tampered>>

\* The operation goes on to its next step.
Goto(t, step) ==
    /\ pc' = [pc EXCEPT ![t] = step]
    /\ UNCHANGED <<txn, backend, op, obj, memory, out, acked, backup, tampered>>

\* The closure given to in_txn returns and the mutex is released.
Leave(t, outcome) ==
    /\ pc' = [pc EXCEPT ![t] = "idle"]
    /\ txn' = [txn EXCEPT ![obj[t]] = Free]
    /\ out' = [out EXCEPT ![t] = outcome]
    /\ cand' = [cand EXCEPT ![t] = NoFile]
    /\ op' = [op EXCEPT ![t] = "none"]
    /\ obj' = [obj EXCEPT ![t] = Keystore]
    /\ UNCHANGED <<backend, backup, tampered>>

\* Ok(None): the caller continues with an empty book or registry.
LeaveDefault(t) == Leave(t, "default") /\ UNCHANGED <<memory, acked>>

\* An operation that returns Err leaves the keystore in memory unusable: every
\* caller drops it with the failed job.
LeaveErr(t) ==
    /\ Leave(t, "none")
    /\ memory' = [memory EXCEPT ![t] = NoFile]
    /\ UNCHANGED acked

\* An operation that returns Ok: a finished save is acknowledged to its caller,
\* a keystore that was loaded, confirmed or saved is the caller's to use.
LeaveOk(t) ==
    /\ Leave(t, "ok")
    /\ acked' = IF op[t] \in {"save_blob", "save_keystore"}
                THEN [acked EXCEPT ![obj[t]] = cand[t].cur]
                ELSE acked
    /\ memory' = IF obj[t] = Keystore
                 THEN [memory EXCEPT ![t] = cand[t]]
                 ELSE memory

\* Mutant: a save ignores that its anchor was not written.
RefuseIgnored(t) ==
    IF op[t] \in LoadOp
    THEN Goto(t, "quarantine") /\ UNCHANGED cand
    ELSE LeaveOk(t)

\* accept_state and check_loaded_state return Err: the suspect path is moved to
\* quarantine first, except on the save path, which passes an empty path.
Refuse(t) ==
    IF op[t] \in LoadOp
    THEN Goto(t, "quarantine") /\ UNCHANGED cand
    ELSE LeaveErr(t)

-------------------------------------------------------------------------------
(* Saving.                                                                   *)

\* save_contacts, save_registry: save_protected_blob enters its transaction.
SaveBlob(t, o) ==
    /\ o \in Blob
    /\ Enter(t, o, "save_blob", "read_anchor")
    /\ cand' = cand

\* KeystoreFile::create on first run, or advance() of the keystore in memory
\* after a change of its slots, then save_keystore enters its transaction.
SaveKeystore(t, p) ==
    LET previous == IF memory[t] = NoFile THEN NoAnchor
                    ELSE FromMetadata(memory[t])
    IN  /\ t = JobThread
        /\ memory[t] = NoFile => file[Keystore] = NoFile
        /\ NextAllowed(Self, Keystore, previous)
        /\ Enter(t, Keystore, "save_keystore", "check")
        /\ cand' = [cand EXCEPT ![t] =
                       NextState(Self, Keystore, self_suite(Keystore), previous, p)]

\* save_protected_blob: current_anchor, then StateMetadata::next over it.
ReadAnchor(t) ==
    LET o == obj[t] IN
    /\ pc[t] = "read_anchor"
    /\ guard = Free
    /\ \/ \E p \in Payload :
            /\ NextAllowed(Self, o, anchors[o])
            /\ cand' = [cand EXCEPT ![t] =
                           NextState(Self, o, self_suite(o), anchors[o], p)]
            /\ Goto(t, "write")
       \/ LeaveErr(t)   \* the backend cannot be read, or the epoch overflows
    /\ UNCHANGED <<file, anchors, guard, seen, quarantined>>

\* Mutant: the keystore is written without checking what it replaces.
CheckTransitionSkipped(t) ==
    /\ pc[t] = "check"
    /\ Goto(t, "write")
    /\ UNCHANGED <<cand, file, anchors, guard, seen, quarantined>>

\* save_keystore: check_state_transition.
CheckTransition(t) ==
    LET a == anchors[obj[t]] IN
    /\ pc[t] = "check"
    /\ guard = Free
    /\ \/ /\ a # NoAnchor => Acceptable(a, cand[t])
          /\ Goto(t, "write")
          /\ UNCHANGED cand
       \/ LeaveErr(t)   \* refused, or the backend cannot be read
    /\ UNCHANGED <<file, anchors, guard, seen, quarantined>>

\* save_blob / write_private_atomic: temp file, fsync, rename.  An error means
\* the rename did not happen.
WriteFile(t) ==
    LET o == obj[t] IN
    /\ pc[t] = "write"
    /\ \/ /\ file' = [file EXCEPT ![o] = cand[t]]
          /\ Goto(t, "get")
          /\ UNCHANGED cand
       \/ LeaveErr(t) /\ UNCHANGED file
    /\ UNCHANGED <<anchors, guard, seen, quarantined>>

-------------------------------------------------------------------------------
(* Loading.                                                                  *)

\* load_contacts, load_registry: load_protected_blob enters its transaction.
LoadBlob(t, o) ==
    /\ o \in Blob
    /\ Enter(t, o, "load_blob", "read_file")
    /\ cand' = cand

LoadKeystore(t) ==
    /\ t = JobThread
    /\ Enter(t, Keystore, "load_keystore", "read_file")
    /\ cand' = cand

\* confirm_unlocked_keystore, after the unlock proved who the keystore is.
ConfirmKeystore(t) ==
    /\ t = JobThread
    /\ memory[t] # NoFile
    /\ Enter(t, Keystore, "confirm", "get")
    /\ cand' = [cand EXCEPT ![t] = memory[t]]

\* read_protected_record / read_bounded_file.  An absent blob is Ok(None), which
\* the callers turn into an empty book or registry; an absent keystore is an
\* error.  A file that cannot be read is an error and stays where it is.
ReadFile(t) ==
    LET o == obj[t] IN
    /\ pc[t] = "read_file"
    /\ \/ /\ file[o] # NoFile
          /\ cand' = [cand EXCEPT ![t] = file[o]]
          /\ Goto(t, "get")
       \/ /\ file[o] = NoFile
          /\ op[t] = "load_blob"
          /\ LeaveDefault(t)
       \/ LeaveErr(t)
    /\ UNCHANGED <<file, anchors, guard, seen, quarantined>>

-------------------------------------------------------------------------------
(* accept_state (saves, load_protected_blob, confirm) and check_loaded_state *)
(* (load_keystore, which never establishes the first anchor).                *)

\* Mutant: the anchors mutex is released between the read and the write.
LockAnchorsBriefly(t) == guard = Free /\ guard' = Free

\* lock.anchors.lock(), held until the anchor is written.
LockAnchors(t) == guard = Free /\ guard' = t

\* get_anchor_locked and the decision, under the anchors mutex.
GetAnchor(t) ==
    LET a == anchors[obj[t]]
        unanchored == a = NoAnchor
        update == \/ unanchored /\ op[t] # "load_keystore"
                  \/ ~unanchored /\ IsSuccessor(a, cand[t])
        settled == \/ unanchored /\ op[t] = "load_keystore"
                   \/ ~unanchored /\ IsCurrent(a, cand[t])
    IN
    /\ pc[t] = "get"
    /\ guard = Free
    /\ \/ /\ update
          /\ LockAnchors(t)
          /\ seen' = [seen EXCEPT ![t] = anchors]
          /\ Goto(t, "put")
          /\ UNCHANGED cand
       \/ settled /\ LeaveOk(t) /\ UNCHANGED <<guard, seen>>
       \/ ~update /\ ~settled /\ Refuse(t) /\ UNCHANGED <<guard, seen>>
       \/ Refuse(t) /\ UNCHANGED <<guard, seen>>      \* the backend cannot be read
    /\ UNCHANGED <<file, anchors, quarantined>>

\* put_anchor_locked: a record of its own in OS secure storage; a rewrite of the
\* whole set in the degraded file.
Put(t) ==
    IF backend = "degraded"
    THEN [seen[t] EXCEPT ![obj[t]] = FromMetadata(cand[t])]
    ELSE [anchors EXCEPT ![obj[t]] = FromMetadata(cand[t])]

\* The anchor is written, or the write fails.  A failed write to OS secure
\* storage may have reached it all the same; a failed file write did not.
PutAnchor(t) ==
    /\ pc[t] = "put"
    /\ guard' = Free
    /\ seen' = [seen EXCEPT ![t] = [o \in Object |-> NoAnchor]]
    /\ \/ anchors' = Put(t) /\ LeaveOk(t)
       \/ /\ anchors' = anchors \/ (backend = "secure" /\ anchors' = Put(t))
          /\ Refuse(t)
    /\ UNCHANGED <<file, quarantined>>

\* quarantine: rename whatever is at the path now; its own failure is ignored.
Quarantine(t) ==
    LET o == obj[t] IN
    /\ pc[t] = "quarantine"
    /\ \/ /\ file[o] # NoFile
          /\ file' = [file EXCEPT ![o] = NoFile]
          /\ quarantined' = quarantined \cup {o}
       \/ UNCHANGED <<file, quarantined>>
    /\ LeaveErr(t)
    /\ UNCHANGED <<anchors, guard, seen>>

-------------------------------------------------------------------------------
(* The process and its surroundings.                                         *)

\* The process is killed: threads, mutexes and memory are gone, the disk and
\* the backend are not.
Crash ==
    /\ pc' = [t \in Thread |-> "idle"]
    /\ txn' = [o \in Object |-> Free]
    /\ op' = [t \in Thread |-> "none"]
    /\ obj' = [t \in Thread |-> Keystore]
    /\ guard' = Free
    /\ memory' = [t \in Thread |-> NoFile]
    /\ cand' = [t \in Thread |-> NoFile]
    /\ seen' = [t \in Thread |-> [o \in Object |-> NoAnchor]]
    /\ out' = [t \in Thread |-> "none"]
    /\ UNCHANGED <<file, anchors, backend, acked, backup, quarantined,
                   tampered>>

\* Somebody copies the object's file (a backup, a file-system snapshot).
CopyFile(o) ==
    /\ file[o] # NoFile
    /\ backup' = [backup EXCEPT ![o] = file[o]]
    /\ UNCHANGED <<file, anchors, backend, txn, guard, pc, op, obj, cand, seen,
                   memory, out, acked, quarantined, tampered>>

\* The copy is put back over the object's file.
RestoreOldFile(o) ==
    /\ backup[o] \notin {NoFile, file[o]}
    /\ file' = [file EXCEPT ![o] = backup[o]]
    /\ tampered' = tampered \cup {o}
    /\ UNCHANGED <<anchors, backend, txn, guard, pc, op, obj, cand, seen, memory,
                   out, acked, backup, quarantined>>

\* The object's file is deleted from outside.
RemoveFile(o) ==
    /\ file[o] # NoFile
    /\ file' = [file EXCEPT ![o] = NoFile]
    /\ tampered' = tampered \cup {o}
    /\ UNCHANGED <<anchors, backend, txn, guard, pc, op, obj, cand, seen, memory,
                   out, acked, backup, quarantined>>

ThreadStep(t) ==
    \/ \E o \in Object : SaveBlob(t, o) \/ LoadBlob(t, o)
    \/ \E p \in Payload : SaveKeystore(t, p)
    \/ LoadKeystore(t) \/ ConfirmKeystore(t)
    \/ ReadAnchor(t) \/ CheckTransition(t) \/ WriteFile(t) \/ ReadFile(t)
    \/ GetAnchor(t) \/ PutAnchor(t) \/ Quarantine(t)

Next ==
    \/ \E t \in Thread : ThreadStep(t)
    \/ Crash
    \/ \E o \in Exposed : CopyFile(o) \/ RestoreOldFile(o) \/ RemoveFile(o)

Spec == Init /\ [][Next]_vars

-------------------------------------------------------------------------------
(* Properties.                                                               *)

\* A step moves an object's anchor only from nothing to something, or from one
\* state to its direct successor, and touches one object's anchor at a time:
\* no interleaving of threads, failed write, crash or restored file turns the
\* high-water mark back, forks it or drops another object's anchor
\* (accept_state, put_anchor_locked).
AnchorOnlyAdvances ==
    [][\A o \in Object :
          \/ anchors'[o] = anchors[o]
          \/ /\ anchors[o] # NoAnchor =>
                   /\ anchors'[o] # NoAnchor
                   /\ anchors'[o].epoch = anchors[o].epoch + 1
                   /\ Continues(anchors'[o].cur, anchors[o].cur)
             /\ \A q \in Object \ {o} : anchors'[q] = anchors[q]]_vars

\* A save that returned Ok is part of the anchored history for ever: the anchor
\* commits to it, so no state without it can be accepted later.
AckedIsAnchored ==
    \A o \in Object :
        acked[o] # GENESIS_HASH =>
            /\ anchors[o] # NoAnchor
            /\ Continues(anchors[o].cur, acked[o])

\* A load that returns Ok with a record returns the anchored state, whatever
\* copy of the file was put back in the meantime: it contains every save
\* acknowledged before (load_protected_blob, load_keystore).
LoadsAreFresh ==
    [][\A t \in Thread :
          (op[t] \in {"load_blob", "load_keystore"} /\ pc[t] # "idle"
             /\ out'[t] = "ok" /\ acked[obj[t]] # GENESIS_HASH) =>
              /\ cand[t].cur = anchors'[obj[t]].cur
              /\ Continues(cand[t].cur, acked[obj[t]])]_vars

\* As long as nobody changes the file from outside, what is on disk is the
\* anchored state or its successor, at every step of every operation and after
\* a crash anywhere: the store never locks its owner out of an object
\* (commit order file first, anchor second; check_candidate).
UntamperedLoadable ==
    \A o \in Object \ tampered :
        (file[o] # NoFile /\ anchors[o] # NoAnchor) => Acceptable(anchors[o], file[o])

\* The record in memory of a keystore operation never overwrites a keystore it
\* does not descend from: a completed keystore write continues every earlier
\* acknowledged one (check_state_transition before the write).
KeystoreWritesContinue ==
    [][\A t \in Thread :
          (op[t] = "save_keystore" /\ pc[t] = "write" /\ pc'[t] = "get"
             /\ acked[Keystore] # GENESIS_HASH) =>
              Continues(file'[Keystore].cur, acked[Keystore])]_vars

-------------------------------------------------------------------------------
(* The inductive invariant behind the properties above.                      *)

\* The operations whose steps each program counter value belongs to.
OpOf ==
    [idle |-> {"none"}, read_anchor |-> {"save_blob"}, check |-> {"save_keystore"},
     write |-> {"save_blob", "save_keystore"},
     read_file |-> {"load_blob", "load_keystore"},
     get |-> Op \ {"none"}, put |-> Op \ {"none"}, quarantine |-> LoadOp]

\* A running operation holds its object's mutex; keystore operations belong to
\* the job thread; a thread about to write an anchor holds the guard.
LockInv ==
    \A t \in Thread :
        /\ op[t] \in OpOf[pc[t]]
        /\ pc[t] # "idle" => txn[obj[t]] = t /\ out[t] = "none"
        /\ op[t] \in {"save_keystore", "load_keystore", "confirm"} =>
               t = JobThread /\ obj[t] = Keystore
        /\ op[t] \in {"save_blob", "load_blob"} => obj[t] # Keystore
        /\ pc[t] = "put" => guard = t

\* A genuine record of object o.
Genuine(s, o) ==
    s # NoFile => WellFormed(s) /\ s.identity = Self /\ s.object = o

\* Records on disk, in copies, in memory and in flight are genuine.
GenuineInv ==
    /\ \A o \in Object : Genuine(file[o], o) /\ Genuine(backup[o], o)
    /\ \A t \in Thread : Genuine(memory[t], Keystore)
    /\ \A t \in Thread :
          pc[t] \in {"check", "write", "get", "put"} =>
              cand[t] # NoFile /\ Genuine(cand[t], obj[t])

\* Anchors belong to the object they are filed under.
AnchorInv ==
    \A o \in Object :
        anchors[o] # NoAnchor => anchors[o].identity = Self /\ anchors[o].object = o

\* What a thread is about to write follows from the anchor as it is now.
FlightInv ==
    \A t \in Thread :
        /\ (pc[t] = "write" /\ anchors[obj[t]] # NoAnchor) =>
               Acceptable(anchors[obj[t]], cand[t])
        /\ pc[t] = "put" =>
               /\ seen[t] = anchors
               /\ anchors[obj[t]] # NoAnchor => IsSuccessor(anchors[obj[t]], cand[t])
        /\ (pc[t] \in {"get", "put"} /\ obj[t] \notin tampered) =>
               file[obj[t]] = cand[t]

\* The keystore in the job's memory is the one on disk, unless a save of its
\* successor is under way or the file was changed from outside.
MemoryInv ==
    /\ \A t \in Thread : memory[t] # NoFile => t = JobThread
    /\ (memory[JobThread] # NoFile /\ Keystore \notin tampered) =>
           \/ file[Keystore] = memory[JobThread]
           \/ op[JobThread] = "save_keystore" /\ pc[JobThread] \in {"get", "put"}
    /\ op[JobThread] = "confirm" /\ pc[JobThread] \in {"get", "put"} =>
           cand[JobThread] = memory[JobThread]

\* The inductive invariant.
IInv ==
    /\ TypeOK
    /\ LockInv
    /\ GenuineInv
    /\ AnchorInv
    /\ FlightInv
    /\ MemoryInv
    /\ AckedIsAnchored
    /\ UntamperedLoadable
===============================================================================
