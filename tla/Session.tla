-------------------------------- MODULE Session --------------------------------
(***************************************************************************)
(* The unlocked session of the app and the plaintext it hands out          *)
(* (filesec-gui/src/app.rs: update, dispatch, apply, spawn_*, wipe_all_*,  *)
(* poll_exit_wipe, on_exit; wipe.rs; store.rs: checkout files,             *)
(* secure_wipe).                                                           *)
(*                                                                         *)
(* The UI thread dispatches an action only while no job runs and no close  *)
(* is held.  The job works on the reader it was given when it was spawned; *)
(* its report is applied in a later frame.  The wiper thread shreds the    *)
(* queued temporary files one after the other.  A read-only view may have  *)
(* a watcher thread that queues the temporary file when the viewing        *)
(* application closes.  The windows for the text editor and the deletion   *)
(* of a vault are modal: while one is up nothing else is dispatched.       *)
(*                                                                         *)
(* A vault is a revision and the contents of its files; VaultCommit is     *)
(* about how a commit reaches the disk, VaultLifecycle about which vaults  *)
(* exist and are listed, VaultTree about what the operations do to a tree. *)
(***************************************************************************)
EXTENDS Naturals, Sequences, SequencesExt, FiniteSets

CONSTANTS
    Vaults,     \* vault ids
    Files,      \* paths of files in a vault
    Texts,      \* plaintexts a file may hold
    Temps,      \* names of temporary files
    MaxRev,     \* bound: revisions of a vault
    FaultSets,  \* the kinds of trouble considered together, as sets of "io",
                \* "save", "wipe" (failures) and "kill"
    None        \* no job, vault, editor...

VARIABLES
    screen,    \* State::Unlock, State::Unlocked, or no process
    exit,      \* App::exit_wipe and what follows it: "open", "held", "closing",
               \* "finishing" (on_exit waits for the wiper)
    job,       \* App::job with what its closure captured
    open,      \* Session::open
    editor,    \* Session::text_editor
    checkout,  \* Session::checkout
    views,     \* Session::views, by temporary file
    watched,   \* temporary files with a watcher thread
    queue,     \* the wiper's queue; its length is Wiper::pending
    temps,     \* the checkout directory
    vault,     \* the vaults on disk
    old,       \* history: files an earlier process left in the checkout directory
    unwiped,   \* history: temporary files a secure_wipe failed on
    ended,     \* history: how the last process ended
    faults     \* what may go wrong in this behaviour

sessionVars == <<open, editor, checkout, views>>
tempVars == <<watched, queue, temps, old, unwiped>>
vars == <<screen, exit, job, sessionVars, tempVars, vault, ended, faults>>

Content == Texts \cup {"absent", "empty", "garbage"}
Reader == [rev : 1 .. MaxRev, files : [Files -> Content]]
Kind == {"unlock", "open", "delete", "new_file", "quick_edit",
         "save_text", "trash", "view", "check_out", "check_in", "discard"}
Job == [kind : Kind,
        pc : {"sweep", "load", "commit", "reopen", "read", "create", "decrypt",
              "launch", "hash", "wipe", "wipe_stored", "ok", "err"},
        id : Vaults \cup {None}, reader : Reader \cup {None},
        path : Files \cup {None}, temp : Temps \cup {None}, text : Content]

OpenVaults == [id : Vaults, reader : Reader]
Edits == [path : Files, text : Content]
Checkouts == [id : Vaults, path : Files, temp : Temps, orig : Content]

\* There is something to edit; what marks a file as missing, empty or shredded is
\* no text, and None is nothing else.
ASSUME SessionAssumption ==
    /\ MaxRev \in Nat \ {0}
    /\ FaultSets \subseteq SUBSET {"io", "save", "wipe", "kill"}
    /\ Files # {} /\ Texts # {}
    /\ Texts \cap {"absent", "empty", "garbage"} = {}
    /\ None \notin Vaults \cup Files \cup Temps
    /\ None \notin Reader /\ None \notin Job
    /\ None \notin OpenVaults /\ None \notin Edits /\ None \notin Checkouts

\* Type invariant.
TypeOK ==
    /\ screen \in {"Unlock", "Unlocked", "Down"}
    /\ exit \in {"open", "held", "closing", "finishing"}
    /\ job \in Job \cup {None}
    /\ open \in OpenVaults \cup {None}
    /\ editor \in Edits \cup {None}
    /\ checkout \in Checkouts \cup {None}
    /\ views \subseteq Temps /\ watched \subseteq Temps
    /\ queue \in Seq(Temps)
    /\ temps \in [Temps -> Content]
    /\ vault \in [Vaults -> Reader \cup {None}]
    /\ old \subseteq Temps /\ unwiped \subseteq Temps
    /\ ended \in {"running", "clean", "job", "late", "killed"}
    /\ faults \in FaultSets

\* Plaintexts are only compared for equality: any one will do to start with.
AText == CHOOSE c \in Texts : TRUE

FirstRevision(f) == [rev |-> 1, files |-> [g \in Files |-> IF g = f THEN AText ELSE "absent"]]

Init ==
    /\ screen = "Unlock" /\ exit = "open" /\ job = None
    /\ open = None /\ editor = None /\ checkout = None /\ views = {}
    /\ watched = {} /\ queue = <<>>
    /\ temps = [t \in Temps |-> "absent"]
    /\ \E f \in Files : vault = [v \in Vaults |-> FirstRevision(f)]
    /\ old = {} /\ unwiped = {} /\ ended = "running"
    /\ faults \in FaultSets

-------------------------------------------------------------------------------
(* The UI thread.                                                            *)

\* busy = FALSE in update: an action is dispatched.
Idle == screen = "Unlocked" /\ job = None /\ exit = "open"

\* A window of the open vault below every modal.
Browsing == Idle /\ open # None /\ editor = None

\* The `idle` of browser_ui: changes are offered only with no file checked out.
Changing == Browsing /\ checkout = None

\* spawn_job, with what open_ctx snapshots.
Spawn(kind, pc, id, reader, path, temp, text) ==
    job' = [kind |-> kind, pc |-> pc, id |-> id, reader |-> reader,
            path |-> path, temp |-> temp, text |-> text]

SpawnOnOpen(kind, pc, path, text) ==
    Spawn(kind, pc, open.id, open.reader, path, None, text)

\* Only the job changes.
OnlyJob == UNCHANGED <<screen, exit, sessionVars, tempVars, vault, ended>>

\* Session::reset_browse, as far as it drops the editor.
ResetBrowse == editor' = None

Unlock ==
    /\ screen = "Unlock" /\ job = None /\ exit = "open"
    /\ Spawn("unlock", "sweep", None, None, None, None, "absent")
    /\ OnlyJob

OpenVault(v) ==
    /\ Idle /\ open = None /\ vault[v] # None
    /\ Spawn("open", "load", v, None, None, None, "absent")
    /\ OnlyJob

\* RequestDeleteVault and ConfirmDeleteVault of the modal dialog.
DeleteVault(v) ==
    /\ Idle /\ open = None /\ checkout = None /\ vault[v] # None
    /\ Spawn("delete", "commit", v, None, None, None, "absent")
    /\ OnlyJob

\* spawn_new_file; a name that exists is refused by the job.
NewFile(f) ==
    /\ Changing /\ open.reader.files[f] = "absent"
    /\ SpawnOnOpen("new_file", "commit", f, "empty")
    /\ OnlyJob

QuickEdit(f) ==
    /\ Changing /\ open.reader.files[f] # "absent"
    /\ SpawnOnOpen("quick_edit", "read", f, "absent")
    /\ OnlyJob

TypeText(c) ==
    /\ Idle /\ editor # None
    /\ editor' = [editor EXCEPT !.text = c]
    /\ UNCHANGED <<screen, exit, job, open, checkout, views, tempVars, vault, ended>>

SaveTextFile ==
    /\ Idle /\ editor # None /\ open # None
    /\ SpawnOnOpen("save_text", "commit", editor.path, editor.text)
    /\ OnlyJob

CloseTextEditor ==
    /\ Idle /\ editor # None
    /\ editor' = None
    /\ UNCHANGED <<screen, exit, job, open, checkout, views, tempVars, vault, ended>>

\* spawn_trash_entry, spawn_trash_selected: the file leaves the live tree.
Trash(f) ==
    /\ Changing /\ open.reader.files[f] # "absent"
    /\ SpawnOnOpen("trash", "commit", f, "absent")
    /\ OnlyJob

\* spawn_view and spawn_check_out both refuse while a file is checked out.
ViewFile(f) ==
    /\ Changing /\ open.reader.files[f] # "absent"
    /\ SpawnOnOpen("view", "create", f, "absent")
    /\ OnlyJob

CheckOut(f) ==
    /\ Changing /\ open.reader.files[f] # "absent"
    /\ SpawnOnOpen("check_out", "create", f, open.reader.files[f])
    /\ OnlyJob

\* spawn_check_in, which also refuses when another vault is open.
CheckIn ==
    /\ Browsing /\ checkout # None /\ open.id = checkout.id
    /\ Spawn("check_in", "hash", open.id, open.reader, checkout.path, checkout.temp,
             checkout.orig)
    /\ OnlyJob

Discard ==
    /\ Browsing /\ checkout # None
    /\ Spawn("discard", "wipe", None, None, None, checkout.temp, "absent")
    /\ OnlyJob

\* Mutant: the list of views is cleared and nothing is queued.
WipeAllViewsForgets ==
    views' = {} /\ UNCHANGED queue

\* wipe_all_views.
WipeAllViews ==
    /\ queue' = queue \o SetToSeq(views)
    /\ views' = {}

\* checkout_active refuses Lock, Nav and CloseVault.
Lock ==
    /\ Idle /\ editor = None /\ checkout = None
    /\ WipeAllViews
    /\ screen' = "Unlock" /\ open' = None
    /\ UNCHANGED <<exit, job, editor, checkout, watched, temps, old, unwiped, vault, ended>>

\* Mutant: checkout_active is not consulted.
NavUnguarded ==
    /\ Idle /\ editor = None
    /\ WipeAllViews
    /\ open' = None
    /\ UNCHANGED <<screen, exit, job, editor, checkout, watched, temps, old, unwiped, vault,
                   ended>>

Nav ==
    /\ Idle /\ editor = None /\ checkout = None
    /\ WipeAllViews
    /\ open' = None
    /\ UNCHANGED <<screen, exit, job, editor, checkout, watched, temps, old, unwiped, vault,
                   ended>>

CloseVault ==
    /\ Browsing /\ checkout = None
    /\ WipeAllViews
    /\ open' = None /\ ResetBrowse
    /\ UNCHANGED <<screen, exit, job, checkout, watched, temps, old, unwiped, vault, ended>>

\* browser_ui drops a view whose temporary file is gone.
DropClosedViews ==
    LET gone == {t \in views : temps[t] = "absent"} IN
    /\ screen = "Unlocked" /\ open # None /\ exit \in {"open", "held"}
    /\ gone # {}
    /\ views' = views \ gone
    /\ UNCHANGED <<screen, exit, job, open, editor, checkout, tempVars, vault, ended>>

-------------------------------------------------------------------------------
(* The job's thread.                                                         *)

At(step) == job # None /\ job.pc = step
Goto(step) == job' = [job EXCEPT !.pc = step]
OnlyVault == UNCHANGED <<screen, exit, sessionVars, tempVars, ended>>
OnlyTemps == UNCHANGED <<screen, exit, sessionVars, watched, queue, vault, ended>>

\* secure_wipe of the files in set: each is gone, or the wipe failed before or
\* after its contents were overwritten.  A file that is absent is left alone.
SecureWipe(set) ==
    \E failed \in SUBSET {t \in set : temps[t] # "absent"} :
        /\ failed # {} => "wipe" \in faults
        /\ \E shredded \in SUBSET failed :
             temps' = [t \in Temps |-> IF t \in shredded THEN "garbage"
                                       ELSE IF t \in set \ failed THEN "absent"
                                       ELSE temps[t]]
        /\ unwiped' = (unwiped \ set) \cup failed

\* finish_unlock: clean_checkout_dir.  A wrong passphrase ends the job first.
Sweep ==
    /\ At("sweep")
    /\ \/ SecureWipe(Temps) /\ old' = {} /\ Goto("ok")
       \/ Goto("err") /\ UNCHANGED <<temps, unwiped, old>>
    /\ OnlyTemps

\* open_vault.
Load ==
    /\ At("load")
    /\ \/ job' = [job EXCEPT !.pc = "ok", !.reader = vault[job.id]]
       \/ "io" \in faults /\ Goto("err")
    /\ UNCHANGED vault /\ OnlyVault

Stale == vault[job.id] # job.reader

\* What put_bytes_in_vault, replace_file_in_vault or rename_in_vault stores.
Stored == IF job.kind = "check_in" THEN temps[job.temp] ELSE job.text

Committed ==
    IF job.kind = "delete"
    THEN [vault EXCEPT ![job.id] = None]
    ELSE [vault EXCEPT ![job.id].rev = @ + 1, ![job.id].files[job.path] = Stored]

AfterCommit == IF job.kind = "delete" THEN "ok"
               ELSE IF job.kind = "check_in" THEN "wipe_stored" ELSE "reopen"

\* mutate_vault refuses a reader that is not the current one.  A commit may fail
\* before or after the new manifest is in place.
Commit ==
    /\ At("commit")
    /\ job.kind = "delete" \/ Stale \/ vault[job.id].rev < MaxRev
    /\ \/ /\ job.kind = "delete" \/ ~Stale
          /\ vault' = Committed /\ Goto(AfterCommit)
       \/ /\ "save" \in faults \/ (job.kind # "delete" /\ Stale)
          /\ vault' \in {vault} \cup
               (IF "save" \in faults /\ job.kind # "delete" /\ ~Stale THEN {Committed} ELSE {})
          /\ Goto("err")
    /\ OnlyVault

\* reopen_after_save: open the new revision and save the registry.
Reopen ==
    /\ At("reopen")
    /\ \/ job' = [job EXCEPT !.pc = "ok", !.reader = vault[job.id]]
       \/ "save" \in faults /\ Goto("err")
    /\ UNCHANGED vault /\ OnlyVault

\* spawn_quick_edit reads the whole entry; the blob of a stale reader may be gone.
ReadEntry ==
    /\ At("read")
    /\ \/ job' = [job EXCEPT !.pc = "ok", !.text = job.reader.files[job.path]]
       \/ ("io" \in faults \/ Stale) /\ Goto("err")
    /\ UNCHANGED vault /\ OnlyVault

\* A random name that no file, list or thread knows.
Fresh(t) ==
    /\ temps[t] = "absent"
    /\ t \notin views \cup watched \cup ToSet(queue)
    /\ ~(checkout # None /\ checkout.temp = t)

\* ensure_free_space, then create_private_checkout_file.
CreateTemp ==
    /\ At("create")
    /\ \/ \E t \in Temps :
            /\ Fresh(t)
            /\ temps' = [temps EXCEPT ![t] = "empty"]
            /\ unwiped' = unwiped \ {t}
            /\ job' = [job EXCEPT !.pc = "decrypt", !.temp = t]
       \/ "io" \in faults /\ Goto("err") /\ UNCHANGED <<temps, unwiped>>
    /\ OnlyTemps /\ UNCHANGED old

\* read_entry_to_writer; whatever was written is wiped again on an error.
Decrypt ==
    /\ At("decrypt")
    /\ \/ /\ temps' = [temps EXCEPT ![job.temp] = job.reader.files[job.path]]
          /\ Goto(IF job.kind = "view" THEN "launch" ELSE "ok") /\ UNCHANGED unwiped
       \/ /\ "io" \in faults \/ Stale
          /\ SecureWipe({job.temp}) /\ Goto("err")
    /\ OnlyTemps /\ UNCHANGED old

\* start_view: with a watcher, or with none (the platform has none, or the
\* application could not be started).
Launch ==
    /\ At("launch")
    /\ watched' \in {watched, watched \cup {job.temp}}
    /\ Goto("ok")
    /\ UNCHANGED <<screen, exit, sessionVars, queue, temps, old, unwiped, vault, ended>>

\* hash_path of the edited file.
HashTemp ==
    /\ At("hash")
    /\ Goto(IF temps[job.temp] = "absent" THEN "err"
            ELSE IF temps[job.temp] = job.text THEN "wipe" ELSE "commit")
    /\ UNCHANGED vault /\ OnlyVault

\* The temporary file is wiped whether or not anything was stored.
WipeTemp ==
    /\ At("wipe") \/ At("wipe_stored")
    /\ SecureWipe({job.temp})
    /\ Goto(IF At("wipe_stored") THEN "reopen" ELSE "ok")
    /\ OnlyTemps /\ UNCHANGED old

-------------------------------------------------------------------------------
(* apply: the report of a finished job, by outcome.                          *)

ShowVault == open' = [id |-> job.id, reader |-> job.reader]

\* Outcome::Unlocked starts a fresh Session.
ApplyUnlocked ==
    /\ job.kind = "unlock"
    /\ screen' = "Unlocked" /\ UNCHANGED sessionVars

\* Outcome::SetOpen; Outcome::Created does the same with the vault it made.
ApplySetOpen ==
    /\ job.kind = "open"
    /\ ShowVault /\ ResetBrowse /\ UNCHANGED <<screen, checkout, views>>

\* Outcome::ReplaceOpen.
ApplyReplaceOpen ==
    /\ job.kind = "trash"
    /\ ShowVault /\ UNCHANGED <<screen, editor, checkout, views>>

ApplyDeleted ==
    /\ job.kind = "delete"
    /\ open' = IF open # None /\ open.id = job.id THEN None ELSE open
    /\ UNCHANGED <<screen, editor, checkout, views>>

\* Outcome::CreatedTextFile, OpenTextEditor and SavedTextFile.
ApplyEditor ==
    /\ job.kind \in {"new_file", "quick_edit", "save_text"}
    /\ IF job.kind = "quick_edit" THEN UNCHANGED open ELSE ShowVault
    /\ editor' = IF job.kind = "save_text" THEN None
                 ELSE [path |-> job.path, text |-> job.text]
    /\ UNCHANGED <<screen, checkout, views>>

ApplyStartView ==
    /\ job.kind = "view"
    /\ views' = views \cup {job.temp}
    /\ UNCHANGED <<screen, open, editor, checkout>>

ApplyStartCheckout ==
    /\ job.kind = "check_out"
    /\ checkout' = [id |-> job.id, path |-> job.path, temp |-> job.temp, orig |-> job.text]
    /\ UNCHANGED <<screen, open, editor, views>>

\* Mutant: the reader from before the check-in stays.
ApplyEndCheckoutKeepsReader ==
    /\ job.kind \in {"check_in", "discard"}
    /\ checkout' = None
    /\ UNCHANGED <<screen, open, editor, views>>

\* Outcome::EndCheckout, with the new reader when something was stored.
ApplyEndCheckout ==
    /\ job.kind \in {"check_in", "discard"}
    /\ checkout' = None
    /\ IF job.kind = "check_in" THEN ShowVault ELSE UNCHANGED open
    /\ UNCHANGED <<screen, editor, views>>

\* A frame takes the report, whether or not a close is being held.
ApplyReport ==
    /\ job # None /\ job.pc \in {"ok", "err"} /\ exit \in {"open", "held"}
    /\ job' = None
    /\ IF job.pc = "err" THEN UNCHANGED <<screen, sessionVars>>
       ELSE \/ ApplyUnlocked \/ ApplySetOpen \/ ApplyReplaceOpen \/ ApplyDeleted
            \/ ApplyEditor \/ ApplyStartView \/ ApplyStartCheckout \/ ApplyEndCheckout
    /\ UNCHANGED <<exit, tempVars, vault, ended>>

-------------------------------------------------------------------------------
(* The wiper, the watchers, the user's editor.                               *)

\* secure_wipe overwrites the file at the head of the queue...
Shred ==
    /\ screen # "Down" /\ queue # <<>> /\ temps[Head(queue)] \notin {"absent", "garbage"}
    /\ temps' = [temps EXCEPT ![Head(queue)] = "garbage"]
    /\ UNCHANGED <<screen, exit, job, sessionVars, watched, queue, old, unwiped, vault, ended>>

\* ... and unlinks it; only then does pending go down.  Its errors are ignored.
Unlink ==
    /\ screen # "Down" /\ queue # <<>>
    /\ \/ temps[Head(queue)] \in {"absent", "garbage"}
       \/ "wipe" \in faults
    /\ \/ /\ temps' = [temps EXCEPT ![Head(queue)] = IF @ = "garbage" THEN "absent" ELSE @]
          /\ unwiped' = IF temps'[Head(queue)] = "absent" THEN unwiped \ {Head(queue)}
                        ELSE unwiped \cup {Head(queue)}
       \/ /\ "wipe" \in faults /\ temps[Head(queue)] = "garbage"
          /\ unwiped' = unwiped \cup {Head(queue)} /\ UNCHANGED temps
    /\ queue' = Tail(queue)
    /\ UNCHANGED <<screen, exit, job, sessionVars, watched, old, vault, ended>>

\* The watcher of start_view: the viewing application was closed.
ViewerCloses(t) ==
    /\ screen # "Down" /\ t \in watched
    /\ watched' = watched \ {t}
    /\ queue' = Append(queue, t)
    /\ UNCHANGED <<screen, exit, job, sessionVars, temps, old, unwiped, vault, ended>>

\* The user's own editor saves the checked-out file.
EditTemp(c) ==
    /\ checkout # None /\ temps[checkout.temp] \in Texts \cup {"empty"}
    /\ temps' = [temps EXCEPT ![checkout.temp] = c]
    /\ UNCHANGED <<screen, exit, job, sessionVars, watched, queue, old, unwiped, vault, ended>>

-------------------------------------------------------------------------------
(* The end of the process.                                                   *)

\* Mutant: the checked-out file is taken from a running job.
WipeAllTempsUnderJob ==
    LET taken == IF checkout # None THEN {checkout.temp} ELSE {}
    IN /\ queue' = queue \o SetToSeq(taken) \o SetToSeq(views)
       /\ views' = {}
       /\ checkout' = None

\* wipe_all_temps: a running job keeps the checked-out file.
WipeAllTemps ==
    LET taken == IF checkout # None /\ job = None THEN {checkout.temp} ELSE {}
    IN /\ queue' = queue \o SetToSeq(taken) \o SetToSeq(views)
       /\ views' = {}
       /\ checkout' = IF taken # {} THEN None ELSE checkout

\* poll_exit_wipe in the frame of the close request.
RequestClose ==
    /\ screen # "Down" /\ exit = "open"
    /\ WipeAllTemps
    /\ exit' = IF queue' = <<>> THEN "closing" ELSE "held"
    /\ UNCHANGED <<screen, job, open, editor, watched, temps, old, unwiped, vault, ended>>

\* Mutant: there is no EXIT_WIPE_GRACE.
ReleaseCloseWhenDrained ==
    /\ exit = "held" /\ queue = <<>>
    /\ exit' = "closing"
    /\ UNCHANGED <<screen, job, sessionVars, tempVars, vault, ended>>

\* poll_exit_wipe in later frames: the queue is empty or EXIT_WIPE_GRACE is over.
ReleaseClose ==
    /\ exit = "held"
    /\ exit' = "closing"
    /\ UNCHANGED <<screen, job, sessionVars, tempVars, vault, ended>>

\* An exit that passes by poll_exit_wipe: a logout of the operating system.
ForcedClose ==
    /\ screen # "Down" /\ exit \in {"open", "held"}
    /\ exit' = "closing"
    /\ UNCHANGED <<screen, job, sessionVars, tempVars, vault, ended>>

\* Mutant: only the close request wipes.
OnExitTrustsPoll ==
    /\ exit = "closing"
    /\ exit' = "finishing"
    /\ UNCHANGED <<screen, job, sessionVars, tempVars, vault, ended>>

\* on_exit: wipe_all_temps once more.
OnExit ==
    /\ exit = "closing"
    /\ WipeAllTemps
    /\ exit' = "finishing"
    /\ UNCHANGED <<screen, job, open, editor, watched, temps, old, unwiped, vault, ended>>

\* What ends with the process.
ProcessGone ==
    /\ screen' = "Down" /\ exit' = "open" /\ job' = None
    /\ open' = None /\ editor' = None /\ checkout' = None /\ views' = {}
    /\ watched' = {} /\ queue' = <<>>

\* Wiper::finish returns: the queue is empty, or its timeout is over.
Finish ==
    /\ exit = "finishing"
    /\ ended' = IF queue # <<>> THEN "late" ELSE IF job # None THEN "job" ELSE "clean"
    /\ ProcessGone
    /\ UNCHANGED <<temps, old, unwiped, vault>>

Kill ==
    /\ screen # "Down" /\ "kill" \in faults
    /\ ended' = "killed"
    /\ ProcessGone
    /\ UNCHANGED <<temps, old, unwiped, vault>>

Start ==
    /\ screen = "Down"
    /\ screen' = "Unlock" /\ ended' = "running"
    /\ old' = {t \in Temps : temps[t] # "absent"}
    /\ UNCHANGED <<exit, job, sessionVars, watched, queue, temps, unwiped, vault>>

-------------------------------------------------------------------------------
UserStep ==
    \/ Unlock \/ Lock \/ Nav \/ CloseVault \/ CheckIn \/ Discard
    \/ SaveTextFile \/ CloseTextEditor
    \/ \E v \in Vaults : OpenVault(v) \/ DeleteVault(v)
    \/ \E f \in Files : NewFile(f) \/ QuickEdit(f) \/ Trash(f) \/ ViewFile(f) \/ CheckOut(f)
    \/ \E c \in Texts : TypeText(c) \/ EditTemp(c)

JobStep ==
    \/ Sweep \/ Load \/ Commit \/ Reopen \/ ReadEntry \/ CreateTemp \/ Decrypt
    \/ Launch \/ HashTemp \/ WipeTemp

FrameStep == ApplyReport \/ DropClosedViews

WiperStep == Shred \/ Unlink \/ \E t \in Temps : ViewerCloses(t)

ExitStep == RequestClose \/ ReleaseClose \/ ForcedClose \/ OnExit \/ Finish

Next ==
    /\ UserStep \/ JobStep \/ FrameStep \/ WiperStep \/ ExitStep \/ Kill \/ Start
    /\ UNCHANGED faults

Spec == Init /\ [][Next]_vars

\* Frames keep coming while a close is held (request_repaint_after) and Finish
\* is a bounded wait.  Nothing is assumed of the wiper: a file may take minutes.
FairSpec ==
    /\ Spec
    /\ WF_vars(ReleaseClose /\ UNCHANGED faults)
    /\ WF_vars(OnExit /\ UNCHANGED faults)
    /\ WF_vars(Finish /\ UNCHANGED faults)

-------------------------------------------------------------------------------
(* Properties.                                                               *)

Held == (IF checkout # None THEN {checkout.temp} ELSE {}) \cup views \cup ToSet(queue)
        \cup (IF job # None THEN {job.temp} ELSE {})

\* Every plaintext file this process wrote to the checkout directory, unless a wipe
\* of it has failed, is known to somebody who will wipe it: the check-out, a view,
\* the wiper's queue or the running job; and once the session is unlocked nothing
\* of an earlier process is left (spawn_view, spawn_check_out, spawn_check_in,
\* wipe_all_views, finish_unlock).
PlaintextOwned ==
    \A t \in Temps :
        /\ screen # "Down" /\ temps[t] # "absent" /\ t \notin unwiped
        => t \in Held \/ (screen = "Unlock" /\ t \in old)

\* A process that ends with no job running and the wiper's queue empty leaves none of
\* its plaintext behind, however the close was asked for (poll_exit_wipe, on_exit).
CleanExit ==
    ended = "clean" => \A t \in Temps \ old : temps[t] = "absent" \/ t \in unwiped

\* The shredder never runs under a job: no vault, editor buffer or check-in holds
\* bytes of a half-wiped file (wipe_all_temps, spawn_check_in).
NeverStoresShredded ==
    /\ \A v \in Vaults : vault[v] # None => \A f \in Files : vault[v].files[f] # "garbage"
    /\ checkout # None => temps[checkout.temp] # "garbage" \/ checkout.temp \in unwiped

\* While a file is checked out its vault stays open, and an editor always has the
\* vault it edits open below it: Lock, Nav, CloseVault and the deletion of a vault
\* cannot orphan an edit (checkout_active), and no report replaces the vault.
EditsStayHome ==
    screen = "Unlocked" =>
        /\ checkout # None => open # None /\ open.id = checkout.id
        /\ editor # None => open # None
        /\ open # None => vault[open.id] # None

\* When no save fails, the browser of an idle session shows the vault as it is on
\* disk: every job that commits hands its new reader back (reopen_after_save,
\* apply), so the next change is not refused as stale.
BrowserCurrent ==
    Idle /\ open # None /\ "save" \notin faults => open.reader = vault[open.id]

\* A close that was asked for ends the process, even if the wiper never finishes
\* and even if a job is running (EXIT_WIPE_GRACE, Wiper::finish).
CloseCompletes == exit # "open" ~> screen = "Down"

-------------------------------------------------------------------------------
(* The inductive invariant behind the properties above, in named parts.       *)

\* What each screen and each stage of the exit leaves behind.
ControlInv ==
    /\ screen = "Down" <=> ended # "running"
    /\ screen = "Down" => exit = "open" /\ job = None /\ queue = <<>> /\ watched = {}
    /\ screen # "Unlocked" => open = None /\ editor = None /\ checkout = None /\ views = {}
    /\ job # None => (job.kind = "unlock" <=> screen = "Unlock")
    /\ exit = "finishing" => views = {} /\ (job = None => checkout = None)
    /\ (screen = "Unlocked" \/ (At("ok") /\ job.kind = "unlock")) => old = {}
    /\ IsFiniteSet(views)

\* The kinds of job that work on the open vault, and those among them that commit.
OnOpen == {"new_file", "quick_edit", "save_text", "trash", "view", "check_out", "check_in"}
Commits == {"new_file", "save_text", "trash", "check_in"}

\* The steps each kind of job passes through.
CourseInv ==
    job # None =>
        /\ job.kind = "unlock" => job.pc \in {"sweep", "ok", "err"}
        /\ job.kind = "open" => job.pc \in {"load", "ok", "err"}
        /\ job.kind = "delete" => job.pc \in {"commit", "ok", "err"}
        /\ job.kind = "quick_edit" => job.pc \in {"read", "ok", "err"}
        /\ job.kind \in {"new_file", "save_text", "trash"} =>
              job.pc \in {"commit", "reopen", "ok", "err"}
        /\ job.kind = "view" => job.pc \in {"create", "decrypt", "launch", "ok", "err"}
        /\ job.kind = "check_out" => job.pc \in {"create", "decrypt", "ok", "err"}
        /\ job.kind = "check_in" =>
              job.pc \in {"hash", "commit", "wipe", "wipe_stored", "reopen", "ok", "err"}
        /\ job.kind = "discard" => job.pc \in {"wipe", "ok"}

\* What a job was given still holds while it runs: the session does not change
\* under it.
JobInv ==
    job # None =>
        /\ job.kind \in OnOpen =>
              /\ open # None /\ open.id = job.id /\ job.path \in Files /\ job.reader # None
              /\ job.pc # "ok" => job.reader = open.reader
        /\ job.kind \in {"unlock", "open", "delete"} => open = None
        /\ job.kind # "save_text" => editor = None
        /\ job.kind \in {"open", "delete"} => job.id \in Vaults
        /\ job.kind = "open" /\ job.pc = "ok" => job.reader # None
        /\ job.kind \notin {"unlock", "discard", "delete"} => vault[job.id] # None
        /\ IF job.kind \in {"check_in", "discard"}
           THEN checkout # None /\ checkout.temp = job.temp
           ELSE checkout = None
        /\ IF job.kind \in {"view", "check_out"}
           THEN /\ job.pc = "create" => job.temp = None
                /\ job.pc \in {"decrypt", "launch", "ok"} => job.temp # None
           ELSE job.kind \notin {"check_in", "discard"} => job.temp = None

\* An edit has its vault open below it, and there is one edit at a time.
HomeInv ==
    /\ checkout # None => open # None /\ open.id = checkout.id
    /\ editor # None => open # None /\ checkout = None
    /\ open # None => vault[open.id] # None

\* A job that has committed carries the only current reader.
CurrentInv ==
    "save" \notin faults =>
        /\ (open # None /\ ~(job # None /\ job.kind \in Commits
                             /\ job.pc \in {"wipe_stored", "reopen", "ok"})) =>
              open.reader = vault[open.id]
        /\ (At("ok") /\ job.kind \in Commits \cup {"open"}) => job.reader = vault[job.id]

Clean(reader) == \A f \in Files : reader.files[f] # "garbage"

\* No bytes of a half-wiped file are in a vault or on their way into one.
CleanInv ==
    /\ \A v \in Vaults : vault[v] # None => Clean(vault[v])
    /\ open # None => Clean(open.reader)
    /\ editor # None => editor.text # "garbage"
    /\ checkout # None => checkout.orig # "garbage"
    /\ job # None => /\ job.reader # None => Clean(job.reader)
                     /\ job.text # "garbage"

\* The wiper is never given the file of a check-out.
ApartInv ==
    /\ checkout # None => checkout.temp \notin ToSet(queue) \cup watched \cup views
    /\ (job # None /\ job.kind = "check_out" /\ job.temp # None) =>
          /\ job.temp \notin ToSet(queue) \cup watched \cup views
          /\ job.pc = "ok" => temps[job.temp] # "garbage"

\* A check-out whose file a failed wipe has shredded cannot be stored any more.
ShreddedInv ==
    /\ (checkout # None /\ temps[checkout.temp] = "garbage") =>
          /\ checkout.temp \in unwiped
          /\ \/ vault[checkout.id] # open.reader
             \/ At("ok") /\ job.kind \in {"check_in", "discard"}
    /\ (job # None /\ job.kind = "check_in" /\ job.pc \in {"wipe_stored", "reopen"}) =>
          vault[job.id] # open.reader

Wiped(t) == temps[t] = "absent" \/ t \in unwiped

\* A job lets go of a temporary file only when it is wiped.
OwnedInv ==
    /\ PlaintextOwned
    /\ job # None =>
          /\ (job.kind \in {"view", "check_out"} /\ job.pc = "err" /\ job.temp # None) =>
                Wiped(job.temp)
          /\ (job.kind \in {"check_in", "discard"} /\ job.pc \in {"reopen", "ok"}) =>
                Wiped(job.temp)

IInv ==
    /\ TypeOK /\ ControlInv /\ CourseInv /\ JobInv /\ HomeInv
    /\ CurrentInv /\ CleanInv /\ ApartInv /\ ShreddedInv /\ OwnedInv /\ CleanExit
=================================================================================
