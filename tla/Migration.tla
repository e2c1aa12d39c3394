------------------------------- MODULE Migration -------------------------------
(***************************************************************************)
(* The upgrade of a store to a post-quantum identity                       *)
(* (filesec-gui/src/store/migration.rs): every protected object is staged  *)
(* for the new identity under migration/, a journal lists the moves, one   *)
(* record in the anchor backend commits to the journal, and the moves and  *)
(* the new anchors are then applied, here or when the store is next opened.*)
(*                                                                         *)
(* An object's file or directory is represented by the identity it is      *)
(* sealed to.  The migration runs alone (Store::exclusively); what other   *)
(* threads of the session were about to do waits for it and then goes on.  *)
(***************************************************************************)
EXTENDS FiniteSets

CONSTANTS
    Vault,     \* vault ids
    Keystore, Contacts, Registry,
    FaultSets  \* the kinds of trouble considered together, as sets of "crash",
               \* "io" (an operation fails), "ambiguous" (a backend write fails
               \* although it landed), "import" (a listener is importing a vault),
               \* "save" (a registry save of the old identity is waiting)

Fixed == {Keystore, Contacts, Registry}
Object == Fixed \cup Vault

ASSUME MigrationAssumption ==
    /\ Keystore # Contacts /\ Keystore # Registry /\ Contacts # Registry
    /\ Vault \cap Fixed = {}
    /\ FaultSets \subseteq SUBSET {"crash", "io", "ambiguous", "import", "save"}

VARIABLES
    live,      \* object -> the identity it is sealed to, or "none"
    anchor,    \* object -> the identity of its anchor, or "none"
    staged,    \* objects with a staged copy for the new identity
    aside,     \* objects whose old copy is in migration/old
    journal,   \* the moves listed in migration/journal; {} if there is no journal
    record,    \* the moves the backend's migration record commits to; {} if none
    process,   \* "closed", "open" or "fatal" (State::Fatal: only quitting is left)
    pc, todo,  \* next step of the migration, and the objects it still concerns
    waiting,   \* what waits for Store::exclusively: a vault import, a save
    calm,      \* from now on nothing fails and nobody interrupts
    faults     \* what may happen in this behaviour

fileVars == <<live, staged, aside, journal>>
vars == <<fileVars, anchor, record, process, pc, todo, waiting, calm, faults>>

Pc == {"idle", "stage", "journal", "commit", "read", "apply", "anchors", "clear",
       "discard"}

\* Type invariant.
TypeOK ==
    /\ live \in [Object -> {"none", "old", "new"}]
    /\ anchor \in [Object -> {"none", "old", "new"}]
    /\ staged \subseteq Object /\ aside \subseteq Object
    /\ journal \subseteq Object /\ record \subseteq Object
    /\ process \in {"closed", "open", "fatal"}
    /\ pc \in Pc
    /\ todo \subseteq Object
    /\ waiting \subseteq Vault \cup {Registry}
    /\ calm \in BOOLEAN
    /\ faults \in FaultSets
    /\ process = "fatal" => pc = "idle"

\* A store of the old identity: a keystore, perhaps contacts and a registry, some
\* vaults, each with its anchor.
Init ==
    /\ live \in [Object -> {"none", "old"}] /\ live[Keystore] = "old"
    /\ anchor = live
    /\ staged = {} /\ aside = {} /\ journal = {} /\ record = {}
    /\ process = "open" /\ pc = "idle" /\ todo = {} /\ waiting = {}
    /\ calm = FALSE /\ faults \in FaultSets

-------------------------------------------------------------------------------
(* Pieces shared by the operations.                                          *)

\* An error before the commit point: abandon_uncommitted, and the old store
\* stays in use.
Abandon == pc' = "discard" /\ todo' = {} /\ UNCHANGED process

\* An error after it: MIGRATION_RESUME_PENDING.  The app shows State::Fatal; a
\* store that was being opened is not opened.
ResumePending ==
    /\ pc' = "idle" /\ todo' = {}
    /\ process' = IF process = "open" THEN "fatal" ELSE "closed"

\* A step may fail with an I/O or backend error.
IoFails == "io" \in faults /\ ~calm

-------------------------------------------------------------------------------
(* migrate_to_hybrid up to the commit point.                                 *)

\* No migration is pending and everything opens as the old identity; leftovers
\* in migration/ are discarded.  What is to be moved: the fixed objects, an
\* absent one as its default, and every vault directory.
Begin ==
    /\ process = "open" /\ pc = "idle"
    /\ record = {}
    /\ live[Keystore] = "old"
    /\ \A o \in Object : live[o] \in {"old", "none"} /\ (live[o] = "old" => anchor[o] = "old")
    /\ staged' = {} /\ aside' = {} /\ journal' = {}
    /\ pc' = "stage"
    /\ todo' = Fixed \cup {v \in Vault : live[v] # "none"}
    /\ UNCHANGED <<live, anchor, record, process, waiting, calm, faults>>

\* stage_migration: one staged and re-opened copy after the other.
Stage ==
    /\ pc = "stage"
    /\ \/ \E o \in todo \ staged :
            /\ staged' = staged \cup {o}
            /\ UNCHANGED <<pc, todo, process>>
       \/ /\ todo \subseteq staged
          /\ pc' = "journal" /\ UNCHANGED <<staged, todo, process>>
       \/ IoFails /\ Abandon /\ UNCHANGED staged
    /\ UNCHANGED <<live, anchor, aside, journal, record, waiting, calm, faults>>

WriteJournal ==
    /\ pc = "journal"
    /\ \/ journal' = todo /\ pc' = "commit" /\ UNCHANGED <<todo, process>>
       \/ IoFails /\ Abandon /\ UNCHANGED journal
    /\ UNCHANGED <<live, anchor, staged, aside, record, waiting, calm, faults>>

\* Mutant: the record is written before the journal is complete.
CommitEarly ==
    /\ pc \in {"stage", "journal", "commit"}
    /\ record' = todo
    /\ pc' = IF pc = "commit" THEN "read" ELSE pc
    /\ UNCHANGED <<todo, process, fileVars, anchor, waiting, calm, faults>>

\* set_migration_record(Some): the commit point.
Commit ==
    /\ pc = "commit"
    /\ \/ record' = journal /\ pc' = "read" /\ UNCHANGED <<todo, process>>
       \/ IoFails /\ Abandon /\ UNCHANGED record
       \/ "ambiguous" \in faults /\ record' = journal /\ Abandon
    /\ UNCHANGED <<fileVars, anchor, waiting, calm, faults>>

-------------------------------------------------------------------------------
(* finish_migration, in the process that committed or in the next one.       *)

\* The journal is read and compared with the record's hash.
ReadJournal ==
    /\ pc = "read"
    /\ \/ journal = record /\ pc' = "apply" /\ todo' = record /\ UNCHANGED process
       \/ (journal # record \/ IoFails) /\ ResumePending
    /\ UNCHANGED <<fileVars, anchor, record, waiting, calm, faults>>

\* The moves are applied one after the other; the model takes them in any order.
\* (staged, live, no old copy): the live object is moved aside first.
MoveAside(o) ==
    /\ pc = "apply" /\ o \in todo
    /\ o \in staged /\ live[o] # "none" /\ o \notin aside
    /\ live' = [live EXCEPT ![o] = "none"]
    /\ aside' = aside \cup {o}
    /\ UNCHANGED <<anchor, staged, journal, record, process, pc, todo, waiting, calm, faults>>

\* (staged, not live): the staged copy becomes the live object.
Place(o) ==
    /\ pc = "apply" /\ o \in todo
    /\ o \in staged /\ live[o] = "none"
    /\ live' = [live EXCEPT ![o] = "new"]
    /\ staged' = staged \ {o}
    /\ todo' = todo \ {o}
    /\ UNCHANGED <<anchor, aside, journal, record, process, pc, waiting, calm, faults>>

\* Mutant: an object that an earlier run has moved is taken for a missing one.
AlreadyMovedRefused(o) ==
    /\ pc = "apply" /\ o \in todo
    /\ o \notin staged /\ live[o] # "none"
    /\ ResumePending
    /\ UNCHANGED <<fileVars, anchor, record, waiting, calm, faults>>

\* (not staged, live): an earlier run has moved it.
AlreadyMoved(o) ==
    /\ pc = "apply" /\ o \in todo
    /\ o \notin staged /\ live[o] # "none"
    /\ todo' = todo \ {o}
    /\ UNCHANGED <<fileVars, anchor, record, process, pc, waiting, calm, faults>>

\* Mutant: a rename that fails is passed over.
ApplyEndsRegardless ==
    /\ pc = "apply"
    /\ todo = {} \/ IoFails
    /\ pc' = "anchors" /\ todo' = record
    /\ UNCHANGED <<fileVars, anchor, record, process, waiting, calm, faults>>

\* Every move is done: on to the anchors.  A rename that fails, or a combination
\* of files no run leaves behind, ends the run with an error.
ApplyEnds ==
    /\ pc = "apply"
    /\ \/ todo = {} /\ pc' = "anchors" /\ todo' = record /\ UNCHANGED process
       \/ /\ \/ IoFails
             \/ \E o \in todo : \/ o \in staged /\ live[o] # "none" /\ o \in aside
                                \/ o \notin staged /\ live[o] = "none"
          /\ ResumePending
    /\ UNCHANGED <<fileVars, anchor, record, waiting, calm, faults>>

\* Mutant: an anchor that cannot be written is passed over.
InstallAnchorIgnored(o) ==
    /\ pc = "anchors" /\ o \in todo
    /\ \/ anchor' = [anchor EXCEPT ![o] = "new"]
       \/ IoFails /\ UNCHANGED anchor
    /\ todo' = todo \ {o}
    /\ UNCHANGED <<fileVars, record, process, pc, waiting, calm, faults>>

\* put_anchor_locked for every staged state.
InstallAnchor(o) ==
    /\ pc = "anchors" /\ o \in todo
    /\ \/ /\ anchor' = [anchor EXCEPT ![o] = "new"]
          /\ todo' = todo \ {o} /\ UNCHANGED <<pc, process>>
       \/ /\ IoFails
          /\ anchor' \in {anchor, [anchor EXCEPT ![o] = "new"]}
          /\ ResumePending
    /\ UNCHANGED <<fileVars, record, waiting, calm, faults>>

\* set_migration_record(None).
ClearRecord ==
    /\ pc = "anchors" /\ todo = {}
    /\ \/ record' = {} /\ pc' = "discard" /\ UNCHANGED <<process, todo>>
       \/ IoFails /\ ResumePending /\ UNCHANGED record
       \/ "ambiguous" \in faults /\ record' = {} /\ ResumePending
    /\ UNCHANGED <<fileVars, anchor, waiting, calm, faults>>

\* discard_migration_dir wipes file after file, in any order, and leaves what it
\* cannot wipe; at the end the store is open.
Discard ==
    /\ pc = "discard"
    /\ \/ \E o \in staged : staged' = staged \ {o} /\ UNCHANGED <<aside, journal, pc, process>>
       \/ \E o \in aside : aside' = aside \ {o} /\ UNCHANGED <<staged, journal, pc, process>>
       \/ journal # {} /\ journal' = {} /\ UNCHANGED <<staged, aside, pc, process>>
       \/ /\ IoFails \/ (staged = {} /\ aside = {} /\ journal = {})
          /\ pc' = "idle" /\ process' = "open"
          /\ UNCHANGED <<staged, aside, journal>>
    /\ UNCHANGED <<live, anchor, record, todo, waiting, calm, faults>>

-------------------------------------------------------------------------------
(* The process.                                                              *)

\* Mutant: the leftovers of a migration are always discarded.
OpenStoreDiscards ==
    /\ process = "closed" /\ pc = "idle"
    /\ pc' = "discard"
    /\ UNCHANGED <<fileVars, anchor, record, process, todo, waiting, calm, faults>>

\* Store::at, resume_identity_migration: finish what is committed, discard what
\* is not.
OpenStore ==
    /\ process = "closed" /\ pc = "idle"
    /\ pc' = IF record # {} THEN "read" ELSE "discard"
    /\ UNCHANGED <<fileVars, anchor, record, process, todo, waiting, calm, faults>>

\* Quitting, or a crash between any two steps.
Crash ==
    /\ process = "fatal" \/ ("crash" \in faults /\ ~calm)
    /\ process' = "closed" /\ pc' = "idle" /\ todo' = {} /\ waiting' = {}
    /\ UNCHANGED <<fileVars, anchor, record, calm, faults>>

\* A listener worker of the old session has a vault to import, or the UI thread
\* a received vault to list; both need a transaction, which the migration holds.
StartWaiting(o) ==
    /\ \/ "import" \in faults /\ o \in Vault /\ live[o] = "none" /\ anchor[o] = "none"
       \/ "save" \in faults /\ o = Registry
    /\ process = "open" /\ live[Keystore] = "old"
    /\ o \notin waiting
    /\ waiting' = waiting \cup {o}
    /\ UNCHANGED <<fileVars, anchor, record, process, pc, todo, calm, faults>>

\* It goes on when the migration has returned, with the identity it was given.
\* current_anchor refuses a save over another identity's anchor.
GoOn(o) ==
    /\ process # "closed" /\ pc = "idle"
    /\ o \in waiting
    /\ waiting' = waiting \ {o}
    /\ IF anchor[o] \in {"none", "old"}
       THEN /\ live' = [live EXCEPT ![o] = "old"]
            /\ anchor' = [anchor EXCEPT ![o] = "old"]
       ELSE UNCHANGED <<live, anchor>>
    /\ UNCHANGED <<staged, aside, journal, record, process, pc, todo, calm, faults>>

\* The failures and interruptions end.
Calm ==
    /\ ~calm /\ calm' = TRUE
    /\ UNCHANGED <<fileVars, anchor, record, process, pc, todo, waiting, faults>>

Next ==
    \/ Begin \/ Stage \/ WriteJournal \/ Commit \/ ReadJournal
    \/ \E o \in Object :
          \/ MoveAside(o) \/ Place(o) \/ AlreadyMoved(o) \/ InstallAnchor(o)
          \/ StartWaiting(o) \/ GoOn(o)
    \/ ApplyEnds \/ ClearRecord \/ Discard \/ OpenStore \/ Crash \/ Calm

Spec == Init /\ [][Next]_vars

\* The code does not stop by itself between two steps, and a user quits an app
\* that shows State::Fatal and starts it again.
Fairness ==
    /\ WF_vars(OpenStore) /\ WF_vars(ReadJournal) /\ WF_vars(ApplyEnds)
    /\ WF_vars(ClearRecord) /\ WF_vars(Discard)
    /\ WF_vars(process = "fatal" /\ Crash)
    /\ \A o \in Object :
          WF_vars(MoveAside(o) \/ Place(o) \/ AlreadyMoved(o) \/ InstallAnchor(o))

FairSpec == Spec /\ Fairness

-------------------------------------------------------------------------------
(* Properties.                                                               *)

\* Everything present is sealed to this identity and anchored for it.
Complete(id) ==
    \A o \in Object : live[o] = "none" \/ (live[o] = id /\ anchor[o] = id)

\* Nothing happens but crashes and steps that fail without effect.
OnlyInterrupted == faults \subseteq {"crash", "io"}

\* "an interruption at any step yields either the complete old store or the
\* complete new one": whenever the store is open for use, whatever failures and
\* crashes came before, no object is sealed to, or anchored for, the other
\* identity.
CompleteStore ==
    (process = "open" /\ pc = "idle") => Complete("old") \/ Complete("new")

\* The same for a session that does nothing else: no listener is importing and
\* no save is waiting while the migration runs.
CompleteIfAlone == OnlyInterrupted => CompleteStore

\* No step destroys the only copy of an object: one that has an anchor is live,
\* or staged, with the record that will move it into place.
NothingLost ==
    \A o \in Object :
        anchor[o] # "none" => live[o] # "none" \/ (record # {} /\ o \in record \cap staged)

\* "After it, the migration always completes": a committed record has its journal
\* and, for every move, the staged copy or the moved object.  (Not so if the
\* backend reports an error for a commit write that it kept: the journal is then
\* wiped, and the store does not open again.)
Resumable ==
    (OnlyInterrupted /\ record # {}) =>
        /\ journal = record
        /\ \A o \in record : o \in staged \/ live[o] = "new"

\* High-water anchors are replaced only once the migration is committed and the
\* object itself is in place: no step leaves an anchor its object cannot meet.
AnchorsFollowMoves ==
    [][\A o \in Object :
          (OnlyInterrupted /\ anchor[o] # anchor'[o] /\ anchor'[o] = "new") => record # {} /\ live[o] = "new"]_vars

\* A committed migration is eventually finished and the store opens with the new
\* identity, wherever and however often it was interrupted, once the
\* interruptions end (resume_identity_migration: no state it stops in is stuck).
EventuallyMigrated ==
    OnlyInterrupted /\ calm /\ record # {} ~> process = "open" /\ record = {} /\ Complete("new")

-------------------------------------------------------------------------------
(* The inductive invariant of the proofs (MigrationProofs).                  *)

\* Whatever fails: where the objects are at each step of the migration.
StepInv ==
    /\ pc \in {"stage", "journal", "commit"} => record = {}
    /\ pc \in {"apply", "anchors"} => todo \subseteq record
    /\ pc = "apply" => \A o \in record \ todo : live[o] # "none"
    /\ pc = "anchors" => \A o \in record : live[o] # "none"
    /\ pc = "discard" => \A o \in Object : anchor[o] # "none" => live[o] # "none"

\* Before the commit point: an old store, and what is staged covers it.
BeforeCommit ==
    pc \in {"stage", "journal", "commit"} =>
        /\ Complete("old")
        /\ \A o \in Object \ todo : live[o] = "none"
        /\ pc # "stage" => todo \subseteq staged
        /\ pc = "commit" => journal = todo

\* From the commit point on: what is moved is new, and nothing else is there.
AfterCommit ==
    record # {} =>
        /\ journal = record
        /\ \A o \in record : o \in staged \/ live[o] = "new"
        /\ \A o \in Object \ record : live[o] = "none"
        /\ pc # "discard"
        /\ process = "open" => pc \in {"read", "apply", "anchors"}
        /\ pc = "apply" => \A o \in record \ todo : live[o] = "new"
        /\ pc = "anchors" => /\ \A o \in record : live[o] = "new"
                             /\ \A o \in record \ todo : anchor[o] = "new"

\* A migration that is only interrupted.
AloneInv ==
    OnlyInterrupted =>
        /\ waiting = {}
        /\ record = {} => Complete("old") \/ Complete("new")
        /\ BeforeCommit /\ AfterCommit

IInv == TypeOK /\ NothingLost /\ StepInv /\ AloneInv
================================================================================
