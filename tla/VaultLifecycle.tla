----------------------------- MODULE VaultLifecycle -----------------------------
(***************************************************************************)
(* How vaults come into being, are listed and disappear: the directories   *)
(* under vaults/, their anchors, the saved vault registry and the session's *)
(* copy of it (filesec-gui/src/store.rs: create_vault_dir, delete_vault,   *)
(* clean_partial_dirs, reconcile_vaults; app.rs: the jobs that call them,  *)
(* finish_unlock, apply, apply_net_event; net/listener.rs: import_received).*)
(*                                                                         *)
(* Two threads work: "job", the single background-job slot of the app, and *)
(* "net", a listener worker that imports a received vault and outlives the *)
(* session that started it.  The UI thread applies their results.  A job   *)
(* works on the copy of the registry it was given when it was spawned.     *)
(* A saved registry is the set of vaults it lists; ProtectedStore is about *)
(* how such a file is saved and loaded.                                    *)
(***************************************************************************)
EXTENDS Naturals, FiniteSets

CONSTANTS
    Vault,     \* vault ids; new_vault_id never returns one twice
    FaultSets, \* the kinds of trouble considered together, as sets of "save",
               \* "anchor", "fs" (failures; "fs" is a directory that cannot be
               \* read, renamed or wiped), "crash", "net" (a listener runs), "copy"
               \* (a deleted directory is put back from a backup)
    None       \* no vault

ASSUME LifecycleAssumption ==
    /\ None \notin Vault
    /\ FaultSets \subseteq SUBSET {"save", "anchor", "fs", "crash", "copy", "net"}

VARIABLES
    live,        \* vaults with a directory <id>.fsv2
    tombs,       \* vaults with a directory <id>.fsv2.deleted
    partial,     \* vaults with a directory <id>.fsv2.partial
    quarantined, \* vaults whose directory was moved to quarantine
    anchor,      \* vault -> "none", "live" or the terminal "deleted"
    saved,       \* the registry on disk
    unlocked,    \* State::Unlocked
    registry,    \* Session::registry
    pc, target,  \* per thread: next step and the vault it works on
    op,          \* what the job does
    base, work,  \* the registry the job was given, and what it has made of it
    todo,        \* directory listing the unlock is working through
    attached,    \* the net thread's session is still the current one
    events,      \* NetEvent::Received not yet polled
    used,        \* history: vault ids handed out
    told,        \* history: vaults the user was told exist
    asked,       \* history: vaults whose deletion was asked for and not refused
    gone,        \* history: vaults wiped by a completed deletion
    late,        \* history: vaults imported while an unlock was running
    unread,      \* history: unlisted directories an unlock could not read
    faults       \* what may happen in this behaviour

dirVars  == <<live, tombs, partial, quarantined, anchor>>
jobVars  == <<op, base, work, todo>>
uiVars   == <<unlocked, registry, attached, events>>
histVars == <<used, told, asked, gone, late, unread>>
vars == <<dirVars, saved, uiVars, pc, target, jobVars, histVars, faults>>

Thread == {"job", "net"}
Pc == {"idle", "build", "rename", "anchor", "open", "save", "apply", "tombstone",
       "commit", "restore", "retire", "wipe", "load", "clean", "tombs", "dirs",
       "notify"}

\* Type invariant.
TypeOK ==
    /\ live \subseteq Vault /\ tombs \subseteq Vault /\ partial \subseteq Vault
    /\ quarantined \subseteq Vault
    /\ anchor \in [Vault -> {"none", "live", "deleted"}]
    /\ saved \subseteq Vault
    /\ unlocked \in BOOLEAN /\ registry \subseteq Vault
    /\ pc \in [Thread -> Pc] /\ target \in [Thread -> Vault \cup {None}]
    /\ op \in {"none", "create", "import", "edit", "delete", "unlock",
              "unlock_err"}
    /\ base \subseteq Vault /\ work \subseteq Vault /\ todo \subseteq Vault
    /\ attached \in BOOLEAN /\ events \subseteq Vault
    /\ used \subseteq Vault /\ told \subseteq Vault /\ asked \subseteq Vault
    /\ gone \subseteq Vault /\ late \subseteq Vault /\ unread \subseteq Vault
    /\ faults \in FaultSets

Init ==
    /\ live = {} /\ tombs = {} /\ partial = {} /\ quarantined = {}
    /\ anchor = [v \in Vault |-> "none"]
    /\ saved = {}
    /\ unlocked = FALSE /\ registry = {} /\ attached = FALSE /\ events = {}
    /\ pc = [t \in Thread |-> "idle"] /\ target = [t \in Thread |-> None]
    /\ op = "none" /\ base = {} /\ work = {} /\ todo = {}
    /\ used = {} /\ told = {} /\ asked = {} /\ gone = {} /\ late = {}
    /\ unread = {}
    /\ faults \in FaultSets

-------------------------------------------------------------------------------
(* Pieces shared by the operations.                                          *)

Goto(t, step) == pc' = [pc EXCEPT ![t] = step]

\* A thread's work ends without anything for the UI to apply.
Stop(t) == Goto(t, "idle") /\ target' = [target EXCEPT ![t] = None]

\* The job ends with an error: JobReport::err; an unlock whose reconciliation
\* fails still opens the session, with the registry as it was loaded.
JobFails ==
    IF op = "unlock"
    THEN /\ Goto("job", "apply") /\ op' = "unlock_err" /\ work' = base
         /\ todo' = {} /\ UNCHANGED <<target, base>>
    ELSE /\ Stop("job")
         /\ op' = "none" /\ base' = {} /\ work' = {} /\ todo' = {}

\* An error of whichever thread runs create_vault_dir or open_vault.
Fails(t) == IF t = "job" THEN JobFails ELSE Stop(t) /\ UNCHANGED jobVars

\* in_txn on a vault: create_vault_dir holds it from its first check to the anchor.
InTxn(t, v) == target[t] = v /\ pc[t] \in {"rename", "anchor"}

OtherInTxn(t, v) == \E u \in Thread \ {t} : InTxn(u, v)

\* save_registry: it returns Ok, fails before the file is replaced, or fails
\* after that because the anchor could not be written.
SaveOk(r) == saved' = r
SaveFails(r) == "save" \in faults /\ saved' \in {saved, r}

\* read_dir and its entries: what cannot be read is passed over.
Listings(dirs) == IF "fs" \in faults THEN SUBSET dirs ELSE {dirs}

\* wipe_vault_dir and remove_dir_all are best effort: the directory may stay.
Wiped(dirs, v) == IF "fs" \in faults THEN {dirs, dirs \ {v}} ELSE {dirs \ {v}}

-------------------------------------------------------------------------------
(* create_vault_dir, by a create or import job or by the listener.           *)

\* build(&partial): a complete vault in <id>.fsv2.partial, or an error.
Build(t) ==
    LET v == target[t] IN
    /\ pc[t] = "build"
    /\ \/ /\ v \notin live \cup tombs
          /\ partial' = partial \cup {v}
          /\ Goto(t, "rename") /\ UNCHANGED <<target, jobVars>>
       \/ /\ v \in live \cup tombs \/ "fs" \in faults
          /\ partial' \in Wiped(partial, v)
          /\ Fails(t)
    /\ UNCHANGED <<live, tombs, quarantined, anchor, saved, uiVars, histVars>>

\* rename(&partial, &dir), the commit point.  It fails if somebody removed the
\* .partial directory meanwhile.
RenamePartial(t) ==
    LET v == target[t] IN
    /\ pc[t] = "rename"
    /\ \/ /\ v \in partial
          /\ live' = live \cup {v} /\ partial' = partial \ {v}
          /\ late' = IF t = "net" /\ op = "unlock" THEN late \cup {v} ELSE late
          /\ Goto(t, "anchor") /\ UNCHANGED <<target, jobVars>>
       \/ /\ v \notin partial \/ "fs" \in faults
          /\ partial' \in Wiped(partial, v)
          /\ Fails(t) /\ UNCHANGED <<live, late>>
    /\ UNCHANGED <<tombs, quarantined, anchor, saved, uiVars, used, told, asked, gone,
                   unread>>

\* commit_state of the new vault.  On failure the directory is wiped again; the
\* failed write may have reached the backend.
AnchorNew(t) ==
    LET v == target[t] IN
    /\ pc[t] = "anchor"
    /\ \/ /\ anchor' = [anchor EXCEPT ![v] = "live"]
          /\ Goto(t, CASE t = "net" -> "notify"
                       [] t = "job" /\ op = "create" -> "open"
                       [] t = "job" /\ op = "import" -> "save")
          /\ UNCHANGED <<live, target, jobVars>>
       \/ /\ "anchor" \in faults
          /\ anchor' \in {anchor, [anchor EXCEPT ![v] = "live"]}
          /\ live' \in Wiped(live, v)
          /\ Fails(t)
    /\ UNCHANGED <<tombs, partial, quarantined, saved, uiVars, histVars>>

-------------------------------------------------------------------------------
(* The jobs of a session.                                                    *)

\* spawn_job: the slot is free and the job gets a copy of the registry.
Spawn(operation, v, step) ==
    /\ pc["job"] = "idle"
    /\ Goto("job", step)
    /\ target' = [target EXCEPT !["job"] = v]
    /\ op' = operation
    /\ base' = registry /\ work' = registry
    /\ UNCHANGED <<dirVars, saved, uiVars, todo, told, gone, late, unread>>

\* spawn_create_vault, spawn_import: a fresh id.
SpawnCreate(v, operation) ==
    /\ unlocked /\ v \notin used
    /\ Spawn(operation, v, "build")
    /\ used' = used \cup {v} /\ UNCHANGED asked

\* Any job that changes the open vault and ends in reopen_after_save.
SpawnEdit(v) ==
    /\ unlocked /\ v \in registry
    /\ Spawn("edit", v, "open")
    /\ UNCHANGED <<used, asked>>

\* spawn_delete_vault.
SpawnDelete(v) ==
    /\ unlocked /\ v \in registry
    /\ Spawn("delete", v, "tombstone")
    /\ asked' = asked \cup {v} /\ UNCHANGED used

\* The outcomes of open_vault: a directory whose vault was deleted is refused
\* and quarantined, and so is any directory when the backend fails; one that
\* cannot be read, or not be moved to quarantine, stays where it is.
OpenOk(v) == v \in live /\ anchor[v] # "deleted"
OpenRefused(v) == v \in live /\ (anchor[v] = "deleted" \/ "anchor" \in faults)
OpenFails(v) == v \in live /\ "fs" \in faults

\* open_vault of the new vault (create) or reopen_after_save (edit).
OpenVault ==
    LET v == target["job"] IN
    /\ pc["job"] = "open"
    /\ ~OtherInTxn("job", v)
    /\ \/ /\ OpenOk(v)
          /\ anchor' = [anchor EXCEPT ![v] = "live"]
          /\ Goto("job", "save")
          /\ UNCHANGED <<live, quarantined, target, jobVars>>
       \/ /\ OpenRefused(v)
          /\ live' = live \ {v} /\ quarantined' = quarantined \cup {v}
          /\ JobFails /\ UNCHANGED anchor
       \/ /\ v \notin live \/ OpenFails(v)
          /\ JobFails /\ UNCHANGED <<live, quarantined, anchor>>
    /\ UNCHANGED <<tombs, partial, saved, uiVars, histVars>>

\* registry.upsert; the unlock has its list ready.
Upserted == IF op = "unlock" THEN work ELSE work \cup {target["job"]}

\* save_registry.
SaveRegistry ==
    LET new == Upserted IN
    /\ pc["job"] = "save"
    /\ \/ /\ SaveOk(new)
          /\ work' = new
          /\ Goto("job", "apply") /\ UNCHANGED <<target, op, base, todo>>
       \/ SaveFails(new) /\ JobFails
    /\ UNCHANGED <<dirVars, uiVars, histVars>>

\* App::apply: the session takes the job's registry over wholesale.
Apply ==
    /\ pc["job"] = "apply"
    /\ unlocked' = TRUE
    /\ registry' = work
    /\ told' = IF op \in {"create", "import"} THEN told \cup {target["job"]} ELSE told
    /\ Stop("job")
    /\ op' = "none" /\ base' = {} /\ work' = {} /\ todo' = {}
    /\ UNCHANGED <<dirVars, saved, attached, events, used, asked, gone, late,
                   unread>>

-------------------------------------------------------------------------------
(* delete_vault.                                                             *)

\* tombstone_vault: nothing to rename where there is no directory.
Tombstone ==
    LET v == target["job"] IN
    /\ pc["job"] = "tombstone"
    /\ \/ /\ live' = live \ {v}
          /\ tombs' = tombs \cup (live \cap {v})
          /\ Goto("job", "commit") /\ UNCHANGED <<target, jobVars, asked>>
       \/ /\ "fs" \in faults
          /\ JobFails /\ asked' = asked \ ({v} \ gone) /\ UNCHANGED <<live, tombs>>
    /\ UNCHANGED <<partial, quarantined, anchor, saved, uiVars, used, told, gone, late,
                   unread>>

\* Mutant: the deletion goes on although the registry was not saved.
CommitDeleteAnyway ==
    LET new == work \ {target["job"]} IN
    /\ pc["job"] = "commit"
    /\ SaveOk(new) \/ SaveFails(new)
    /\ work' = new /\ Goto("job", "retire")
    /\ UNCHANGED <<dirVars, uiVars, target, op, base, todo, histVars>>

\* save_registry without the vault: the commit point.
CommitDelete ==
    LET new == work \ {target["job"]} IN
    /\ pc["job"] = "commit"
    /\ \/ SaveOk(new) /\ work' = new /\ Goto("job", "retire")
       \/ SaveFails(new) /\ UNCHANGED work /\ Goto("job", "restore")
    /\ UNCHANGED <<dirVars, uiVars, target, op, base, todo, histVars>>

\* rename of a tombstone back into place; impossible over an existing directory.
RestoreOk(v) ==
    /\ v \notin live \cap tombs
    /\ live' = live \cup (tombs \cap {v}) /\ tombs' = tombs \ {v}
RestoreFails(v) ==
    /\ v \in tombs /\ (v \in live \/ "fs" \in faults)
    /\ UNCHANGED <<live, tombs>>

\* Mutant: a failed save leaves the tombstone where it is.
RestoreTombstoneSkipped ==
    /\ pc["job"] = "restore"
    /\ asked' = asked \ ({target["job"]} \ gone)
    /\ JobFails
    /\ UNCHANGED <<dirVars, saved, uiVars, used, told, gone, late, unread>>

\* restore_tombstone after a failed save; the deletion is reported as failed.
RestoreTombstone ==
    LET v == target["job"] IN
    /\ pc["job"] = "restore"
    /\ RestoreOk(v) \/ RestoreFails(v)
    /\ asked' = asked \ ({v} \ gone)
    /\ JobFails
    /\ UNCHANGED <<partial, quarantined, anchor, saved, uiVars, used, told, gone, late,
                   unread>>

\* Mutant: a retired vault gets no terminal anchor.
PutDeleted(v) == UNCHANGED anchor

\* deleted_vault_anchor, put_anchor_locked.
PutDeletedAnchor(v) == anchor' = [anchor EXCEPT ![v] = "deleted"]

\* retire_tombstone, first half: the terminal anchor.  A failure ends the
\* deletion well (the next unlock finishes it) and fails a reconciliation.
Retire ==
    LET v == target["job"] IN
    /\ pc["job"] = "retire"
    /\ \/ PutDeletedAnchor(v) /\ Goto("job", "wipe") /\ UNCHANGED <<target, jobVars>>
       \/ /\ "anchor" \in faults
          /\ UNCHANGED anchor \/ PutDeletedAnchor(v)
          /\ IF op = "unlock" THEN JobFails
             ELSE Goto("job", "apply") /\ UNCHANGED <<target, jobVars>>
    /\ UNCHANGED <<live, tombs, partial, quarantined, saved, uiVars, histVars>>

\* retire_tombstone, second half: wipe_vault_dir(tombstone).
WipeTombstone ==
    LET v == target["job"] IN
    /\ pc["job"] = "wipe"
    /\ tombs' \in Wiped(tombs, v)
    /\ gone' = gone \cup {v}
    /\ Goto("job", IF op = "unlock" THEN "tombs" ELSE "apply")
    /\ UNCHANGED <<live, partial, quarantined, anchor, saved, uiVars, target, jobVars,
                   used, told, asked, late, unread>>

-------------------------------------------------------------------------------
(* Unlocking: load_registry, then finish_unlock.                             *)

SpawnUnlock ==
    /\ ~unlocked
    /\ Spawn("unlock", None, "load")
    /\ UNCHANGED <<used, asked>>

LoadRegistry ==
    /\ pc["job"] = "load"
    /\ \/ /\ base' = saved /\ work' = saved
          /\ Goto("job", "clean") /\ UNCHANGED <<target, op, todo>>
       \/ /\ "save" \in faults   \* Outcome::UnlockFailed
          /\ Stop("job") /\ op' = "none" /\ base' = {} /\ work' = {} /\ todo' = {}
    /\ late' = {} /\ unread' = {}
    /\ UNCHANGED <<dirVars, saved, uiVars, used, told, asked, gone>>

\* clean_partial_dirs (under no transaction, and best effort); reconcile_vaults
\* lists tombstones.
CleanPartialDirs ==
    /\ pc["job"] = "clean"
    /\ \E dirs \in Listings(partial) : partial' = partial \ dirs
    /\ todo' \in Listings(tombs)
    /\ Goto("job", "tombs")
    /\ UNCHANGED <<live, tombs, quarantined, anchor, saved, uiVars, target, op, base,
                   work, histVars>>

\* The next tombstone: restored if the registry lists it, else retired; when
\* none is left the directories are listed.
ReconcileTombstone ==
    /\ pc["job"] = "tombs"
    /\ \/ \E v \in todo \cap work :
            /\ \/ RestoreOk(v) /\ todo' = todo \ {v} /\ UNCHANGED <<pc, target, op, base, work>>
               \/ RestoreFails(v) /\ JobFails
            /\ UNCHANGED unread
       \/ \E v \in todo \ work :
            /\ Goto("job", "retire")
            /\ target' = [target EXCEPT !["job"] = v]
            /\ todo' = todo \ {v} /\ UNCHANGED <<live, tombs, op, base, work, unread>>
       \/ /\ todo = {}
          /\ todo' \in Listings(live) /\ unread' = live \ (todo' \cup work)
          /\ Goto("job", "dirs") /\ UNCHANGED <<live, tombs, target, op, base, work>>
    /\ UNCHANGED <<partial, quarantined, anchor, saved, uiVars, used, told, asked,
                   gone, late>>

\* Mutant: an unlisted vault is opened and forgotten.
Unregistered(v) == work

\* registry.upsert of an unlisted vault that opens.
Reregistered(v) == work \cup {v}

\* The next vault directory: listed ones are skipped and unlisted ones opened; one
\* that does not open is passed over.
ReconcileDir ==
    /\ pc["job"] = "dirs"
    /\ \/ \E v \in todo :
            /\ todo' = todo \ {v}
            /\ \/ /\ v \notin work /\ ~OtherInTxn("job", v)
                  /\ OpenOk(v)
                  /\ work' = Reregistered(v)
                  /\ anchor' = [anchor EXCEPT ![v] = "live"]
                  /\ UNCHANGED <<live, quarantined, unread>>
               \/ /\ v \notin work /\ ~OtherInTxn("job", v)
                  /\ OpenRefused(v)
                  /\ live' = live \ {v} /\ quarantined' = quarantined \cup {v}
                  /\ UNCHANGED <<work, anchor, unread>>
               \/ /\ v \notin work /\ ~OtherInTxn("job", v)
                  /\ OpenFails(v)
                  /\ unread' = unread \cup {v}
                  /\ UNCHANGED <<work, live, quarantined, anchor>>
               \/ /\ v \in work \/ v \notin live   \* listed, or gone since the listing
                  /\ UNCHANGED <<work, live, quarantined, anchor, unread>>
            /\ UNCHANGED pc
       \/ /\ todo = {}
          /\ Goto("job", IF work = base THEN "apply" ELSE "save")
          /\ UNCHANGED <<todo, work, live, quarantined, anchor, unread>>
    /\ UNCHANGED <<tombs, partial, saved, uiVars, target, op, base, used, told, asked,
                   gone, late>>

-------------------------------------------------------------------------------
(* The session, the listener and the surroundings.                           *)

\* Action::Lock: refused while a job runs.  The transfer handle is dropped; a
\* running import is not joined and its Received event goes nowhere.
Lock ==
    /\ unlocked /\ pc["job"] = "idle"
    /\ unlocked' = FALSE /\ registry' = {}
    /\ attached' = FALSE /\ events' = {}
    /\ UNCHANGED <<dirVars, saved, pc, target, jobVars, histVars>>

\* import_received: an accepted transfer has arrived; a fresh id.
StartImport(v) ==
    /\ "net" \in faults
    /\ unlocked /\ pc["net"] = "idle" /\ v \notin used
    /\ Goto("net", "build") /\ target' = [target EXCEPT !["net"] = v]
    /\ used' = used \cup {v}
    /\ attached' = TRUE
    /\ UNCHANGED <<dirVars, saved, unlocked, registry, events, jobVars, told, asked,
                   gone, late, unread>>

\* emit(NetEvent::Received): dropped once the session is gone.
Notify ==
    /\ pc["net"] = "notify"
    /\ events' = IF attached THEN events \cup {target["net"]} ELSE events
    /\ Stop("net")
    /\ UNCHANGED <<dirVars, saved, unlocked, registry, attached, jobVars, histVars>>

\* apply_net_event: upsert and save on the UI thread, while a job may be running;
\* the result of the save is ignored.
Received(v) ==
    LET new == registry \cup {v} IN
    /\ unlocked /\ v \in events
    /\ events' = events \ {v}
    /\ registry' = new
    /\ SaveOk(new) \/ SaveFails(new)
    /\ told' = told \cup {v}
    /\ UNCHANGED <<dirVars, unlocked, attached, pc, target, jobVars, used, asked,
                   gone, late, unread>>

\* The process is killed.
Crash ==
    /\ "crash" \in faults
    /\ unlocked' = FALSE /\ registry' = {} /\ attached' = FALSE /\ events' = {}
    /\ pc' = [t \in Thread |-> "idle"] /\ target' = [t \in Thread |-> None]
    /\ op' = "none" /\ base' = {} /\ work' = {} /\ todo' = {}
    /\ UNCHANGED <<dirVars, saved, histVars>>

\* Somebody puts a copy of a deleted vault's directory back.
CopyBack(v) ==
    /\ "copy" \in faults
    /\ v \in gone \ live
    /\ live' = live \cup {v}
    /\ UNCHANGED <<tombs, partial, quarantined, anchor, saved, uiVars, pc, target,
                   jobVars, histVars>>

Step ==
    \/ \E t \in Thread : Build(t) \/ RenamePartial(t) \/ AnchorNew(t)
    \/ \E v \in Vault :
          \/ SpawnCreate(v, "create") \/ SpawnCreate(v, "import")
          \/ SpawnEdit(v) \/ SpawnDelete(v)
          \/ StartImport(v) \/ Received(v) \/ CopyBack(v)
    \/ OpenVault \/ SaveRegistry \/ Apply
    \/ Tombstone \/ CommitDelete \/ RestoreTombstone \/ Retire \/ WipeTombstone
    \/ SpawnUnlock \/ LoadRegistry \/ CleanPartialDirs
    \/ ReconcileTombstone \/ ReconcileDir
    \/ Lock \/ Notify \/ Crash

Next == Step /\ UNCHANGED faults

Spec == Init /\ [][Next]_vars

-------------------------------------------------------------------------------
(* Properties.                                                               *)

\* Every vault the saved registry lists has its data, as a directory or as a
\* tombstone, at every step of a creation, deletion or unlock and after a crash
\* or failed save in any of them.  (For a session without a listener: a vault
\* that was received while a deletion committed is listed from the session's
\* registry, which still holds the deleted one, and nothing removes that again.)
ListedHasData ==
    "net" \notin faults => saved \subseteq live \cup tombs \cup quarantined

\* A deleted vault whose directory is put back is never listed again
\* (retire_tombstone writes the terminal anchor before it wipes).
DeletedNeverListed == "net" \notin faults => gone \cap saved = {}

\* An unlock whose reconciliation succeeds lists every vault directory there is,
\* whatever was interrupted before, except a deleted one that was put back, one a
\* listener of the previous session finished importing while the unlock ran, and
\* one that could not be read: "Anything that does not open is left in place (or
\* quarantined by the anchor check), never deleted" (reconcile_vaults).
UnlockListsAll ==
    (pc["job"] = "apply" /\ op = "unlock") =>
        /\ live \ (gone \cup late \cup unread) \subseteq work
        /\ "fs" \notin faults => unread = {}

\* A vault the user was told exists stays until its deletion is asked for, and a
\* deletion the user was told has failed destroys nothing (no data is wiped, not
\* even in part), whatever crashes, unlocks and races with a listener follow
\* (delete_vault: tombstone, registry, retire, in this order; reconcile_vaults).
ToldIsKept == told \ asked \subseteq (live \cup tombs \cup quarantined) \ gone

\* The same unless a save and the rename of the tombstone fail in one deletion:
\* then "the vault is kept as a tombstone and will be restored on the next
\* unlock" is not what happens if the registry file had already been replaced.
ToldIsKeptUnlessBothFail == ~({"save", "fs"} \subseteq faults) => ToldIsKept

-------------------------------------------------------------------------------
(* The inductive invariant behind these properties.                          *)

Data == live \cup tombs \cup quarantined

\* The steps of each kind of job, and the session it runs in.
ControlInv ==
    /\ op = "none" => pc["job"] = "idle"
    /\ op = "create" => pc["job"] \in {"build", "rename", "anchor", "open", "save", "apply"}
    /\ op = "import" => pc["job"] \in {"build", "rename", "anchor", "save", "apply"}
    /\ op = "edit" => pc["job"] \in {"open", "save", "apply"}
    /\ op = "delete" => pc["job"] \in {"tombstone", "commit", "restore", "retire",
                                       "wipe", "apply"}
    /\ op = "unlock" => pc["job"] \in {"load", "clean", "tombs", "retire", "wipe",
                                       "dirs", "save", "apply"}
    /\ op = "unlock_err" => pc["job"] = "apply"
    /\ op \in {"create", "import", "edit", "delete"} => unlocked /\ target["job"] \in Vault
    /\ op \in {"unlock", "unlock_err"} => ~unlocked
    /\ pc["job"] \in {"retire", "wipe"} => target["job"] \in Vault
    /\ pc["job"] \in {"load", "clean"} => target["job"] = None
    /\ pc["net"] \in {"idle", "build", "rename", "anchor", "notify"}
    /\ pc["net"] # "idle" => target["net"] \in Vault /\ "net" \in faults
    /\ pc["job"] = "restore" => "save" \in faults
    /\ ~unlocked => registry = {} /\ events = {} /\ ~attached
    /\ "net" \notin faults => events = {}

\* Nothing mentions an id that was not handed out.
UsedInv ==
    /\ Data \cup saved \cup registry \cup base \cup work \cup todo \subseteq used
    /\ events \cup told \cup asked \cup gone \subseteq used
    /\ \A t \in Thread : target[t] \in used \cup {None}

\* A vault some thread is creating is known to that thread only, until its
\* anchor is written.
FreshInv ==
    /\ \A t \in Thread : pc[t] \in {"build", "rename", "anchor"} =>
          /\ target[t] \in Vault
          /\ target[t] \notin tombs \cup quarantined \cup saved \cup registry
                              \cup base \cup work
          /\ target[t] \notin events \cup told \cup asked \cup gone
          /\ target[t] \in live <=> pc[t] = "anchor"
          /\ \A u \in Thread \ {t} : target[u] # target[t]

\* What a job creates stays the job's own until it is applied.
BornInv ==
    /\ op \in {"create", "import"} =>
          /\ target["job"] \notin tombs \cup registry \cup base \cup events \cup told
                                  \cup asked \cup gone
          /\ target["job"] # target["net"]
          /\ pc["job"] \in {"open", "save", "apply"} => target["job"] \in live
    /\ op = "edit" /\ pc["job"] = "save" => target["job"] \in live

\* What a listener imports in the current session stays unknown to the rest of it
\* until the session is told.
EventInv ==
    /\ events \subseteq live
    /\ events \cap (tombs \cup quarantined \cup registry \cup base \cup work
                    \cup told \cup asked \cup gone \cup {target["job"], target["net"]}) = {}
    /\ attached /\ pc["net"] # "idle" =>
          target["net"] \notin tombs \cup quarantined \cup registry \cup base \cup work
                               \cup told \cup asked \cup gone \cup {target["job"]}
    /\ attached /\ pc["net"] = "notify" => target["net"] \in live

\* The registry a job was given, what it has made of it, and the session's.
JobInv ==
    /\ op = "none" => base = {} /\ work = {}
    /\ op \in {"edit", "delete"} => target["job"] \in base
    /\ op \in {"create", "import", "edit", "delete"} => base \subseteq registry
    /\ op # "delete" => base \subseteq work
    /\ op = "delete" => base \ {target["job"]} \subseteq work /\ work \subseteq base
    /\ op = "delete" /\ pc["job"] \in {"retire", "wipe", "apply"} =>
          target["job"] \notin work
    /\ op = "unlock" /\ pc["job"] \in {"retire", "wipe"} =>
          target["job"] \in tombs \ work
    /\ op = "unlock" /\ pc["job"] \in {"tombs", "retire", "wipe"} =>
          todo \subseteq tombs \ {target["job"]}
    /\ op \in {"create", "import", "edit"} => work \subseteq base \cup {target["job"]}
    /\ op = "delete" => target["job"] \in asked

\* The terminal anchor outlives everything, no vault loses its data before it has
\* one, and only a copy that was put back is beside another directory of the vault.
GoneInv ==
    /\ told \ gone \subseteq Data
    /\ \A v \in gone : anchor[v] = "deleted"
    /\ pc["job"] = "wipe" => anchor[target["job"]] = "deleted"
    /\ (live \cap tombs) \cup (live \cap quarantined) \cup (tombs \cap quarantined)
          \subseteq gone

\* Without a listener every registry in use lists vaults with data only.
Good(r) == r \subseteq Data /\ r \cap gone = {}
ListedInv ==
    "net" \notin faults =>
        /\ Good(saved) /\ Good(work)
        /\ \/ op = "delete" /\ pc["job"] \in {"retire", "wipe", "apply"}
           \/ Good(registry)
        /\ op = "delete" /\ pc["job"] \in {"retire", "wipe"} => target["job"] \notin saved
        /\ op = "unlock" /\ pc["job"] \notin {"load", "apply"} => saved = base

\* How far the reconciliation has come.
ReconciledInv ==
    op = "unlock" =>
        /\ pc["job"] = "dirs" =>
              live \ (gone \cup late \cup unread) \subseteq work \cup todo
        /\ pc["job"] \in {"save", "apply"} =>
              live \ (gone \cup late \cup unread) \subseteq work
        /\ pc["job"] # "load" /\ "fs" \notin faults => unread = {}

\* The vaults the user still counts on whose only data is a tombstone: there are
\* none unless a rename failed, and then every registry lists them, so that the
\* next unlock restores them.
Kept == ((told \ asked) \cap tombs) \ (live \cup quarantined)

\* The deletion in progress may drop its vault from the registry.
Dropped == IF op = "delete" /\ pc["job"] # "tombstone" THEN {target["job"]} ELSE {}

KeptInv ==
    /\ "fs" \notin faults => Kept = {}
    /\ "save" \notin faults =>
        /\ Kept \subseteq saved
        /\ unlocked => Kept \subseteq registry
        /\ op # "none" /\ pc["job"] # "load" => Kept \subseteq base /\ Kept \subseteq work
        /\ (registry \ Dropped) \cap tombs \subseteq saved
        /\ (base \ Dropped) \cap tombs \subseteq saved
        /\ (work \ Dropped) \cap tombs \subseteq saved
        /\ op \in {"create", "import", "edit", "delete"} => registry \cap tombs \subseteq base

IInv ==
    /\ TypeOK /\ ControlInv /\ UsedInv /\ FreshInv /\ BornInv /\ EventInv /\ JobInv
    /\ GoneInv /\ ListedInv /\ ReconciledInv /\ KeptInv /\ ToldIsKeptUnlessBothFail
=================================================================================
