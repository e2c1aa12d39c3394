------------------------------- MODULE Keystore -------------------------------
(***************************************************************************)
(* How the owner gets into the store: the keystore file with its unlock    *)
(* slots (filesec-core/src/keystore.rs), the choice of the anchor backend  *)
(* at start-up and its explicit recovery (store.rs), the device token in   *)
(* the OS keychain (autounlock.rs), security keys (passkey.rs) and the     *)
(* jobs of the application that create, open and change the keystore.      *)
(*                                                                         *)
(* One process at a time opens the data directory (acquire_store_lock) and *)
(* runs one job at a time.  A job is the sequence of steps between which   *)
(* the process can be killed.  Every call of the keychain may fail.        *)
(* Between jobs the data directory may be replaced by an older copy of     *)
(* itself, its unauthenticated backend marker damaged, or the keychain     *)
(* emptied.                                                                *)
(*                                                                         *)
(* Cryptography is modelled by what it distinguishes: an identity, a data  *)
(* key, a credential and a device token are fresh numbers, and a slot      *)
(* opens the keystore for the secret it was made with.  The state hash is  *)
(* the chain of StateChain.                                                *)
(***************************************************************************)
EXTENDS Naturals, Sequences, FiniteSets, SequencesExt

CONSTANTS
    NoKeystore,     \* no keystore file
    NoAnchor,       \* no anchor record for the keystore
    NoSecret,       \* an empty device slot, no token
    NoJob,
    MaxEpoch,       \* u64::MAX
    MaxFresh,       \* bound: identities, data keys, credentials and tokens made
    MaxKeys,        \* bound: enrolled security keys
    MaxFaults,      \* bound: keychain calls that fail
    Damages,        \* what happens to the directory and keychain: a set of names
    MaxDamage,      \* bound: how often
    MaxMoves        \* bound: recoveries that fall back to file anchors

VARIABLES
    dir,        \* the data directory
    keychain,   \* this store's entries in the OS keychain
    copy,       \* a copy of the data directory, or none
    app,        \* the application's screen and session
    job,        \* the running job
    fresh,      \* the next unused secret
    faults, damage, moves,
    \* History: what the user was told and what happened to the store.
    enrolled,   \* what the user was told opens the store, and did not take back
    revoked,    \* security keys and tokens a completed removal took out
    trusted,    \* the anchors in the keychain have always been this store's
    intact      \* nothing but crashes and failed writes happened to the store

vars == <<dir, keychain, copy, app, job, fresh, faults, damage,
          moves, enrolled, revoked, trusted, intact>>

\* What a keystore seals: the identity, the data key and the slots that wrap it.
Bodies == [owner : Nat, dek : Nat, keys : Seq(Nat), device : Nat \cup {NoSecret}]

Chain == INSTANCE StateChain
            WITH Identity <- Nat, Object <- {"keystore"}, Suite <- {"suite"},
                 Payload <- Bodies

States == [identity : Nat, object : {"keystore"}, suite : {"suite"}, epoch : Nat,
           prev : Chain!Hash, cur : Chain!Hash]

Anchors == [identity : Nat, object : {"keystore"}, suite : {"suite"}, epoch : Nat,
            cur : Chain!Hash]

Keystores == [version : {1, 2}, body : Bodies]
             \cup [version : {3}, body : Bodies, state : States]

Kinds == {"create", "unlock", "passkey", "keyring", "add", "remove", "enable", "disable",
          "undo", "recover"}

RunningJobs ==
    [kind : Kinds,
     pc : {"load", "save", "anchor", "token", "clear", "confirm", "reanchor", "root", "marker"},
     ks : Keystores \cup {NoKeystore}, secret : Nat \cup {NoSecret}, right : BOOLEAN]

\* The marks for something missing are none of the things that may be missing.
ASSUME KeystoreAssumption ==
    /\ NoSecret \notin Nat /\ NoKeystore \notin Keystores
    /\ NoAnchor \notin Anchors /\ NoJob \notin RunningJobs
-------------------------------------------------------------------------------
\* The sealed part of a keystore: the identity under a data key that one
\* passphrase slot, the passkey slots and at most one device slot wrap.
Body(owner, dek, keys, device) ==
    [owner |-> owner, dek |-> dek, keys |-> keys, device |-> device]

\* KeystoreV3::build and advance: the body signed as the next state.
Sealed(body, previous) ==
    [version |-> 3, body |-> body,
     state |-> Chain!NextState(body.owner, "keystore", "suite", previous, body)]

Advanced(ks, body) == Sealed(body, Chain!FromMetadata(ks.state))

Legacy(version, keys) == [version |-> version, body |-> Body(1, 1, keys, NoSecret)]

\* KeystoreFile::recover_legacy: version 1 gets a new data key, version 2 keeps
\* its body with its passkeys; both start a chain.
RecoverLegacy(ks) ==
    Sealed(IF ks.version = 1 THEN [ks.body EXCEPT !.dek = fresh] ELSE ks.body, NoAnchor)

\* unwrap_dek and decrypt_bundle: a slot yields the data key, and with it the
\* identity, for the secret it was wrapped under and in its own role only.
Unwraps(slot, secret) == slot # NoSecret /\ slot = secret

\* KeystoreFile::add_passkey, remove_passkey, set_device_token and
\* remove_device_token.
AddPasskey(ks, credential) ==
    Advanced(ks, [ks.body EXCEPT !.keys = Append(@, credential)])

RemovePasskey(ks, index) == Advanced(ks, [ks.body EXCEPT !.keys = RemoveAt(@, index)])

SetDeviceToken(ks, token) == Advanced(ks, [ks.body EXCEPT !.device = token])

RemoveDeviceToken(ks) == Advanced(ks, [ks.body EXCEPT !.device = NoSecret])
-------------------------------------------------------------------------------
Screens == {"down", "probed", "marked", "loading", "first", "unlock", "recover",
            "fatal", "session"}

Down == [screen |-> "down", backend |-> "file", launch |-> FALSE, legacy |-> FALSE,
         offer |-> {}, owner |-> 0, keys |-> << >>, auto |-> FALSE]

NewDir == [ks |-> NoKeystore, marker |-> "none", file |-> NoAnchor, pending |-> FALSE]

NewKeychain == [root |-> "none", legacy |-> NoAnchor, anchor |-> NoAnchor, token |-> NoSecret]

\* The history's name for the passphrase; every other secret is a number from 1.
Passphrase == 0

\* A new installation, one of an older version of the program (with an
\* unsigned keystore), and one whose keychain has the single-record layout.
Init ==
    /\ \/ dir = NewDir /\ keychain = NewKeychain /\ fresh = 1 /\ enrolled = {}
       \/ /\ dir = [NewDir EXCEPT !.ks = Legacy(1, << >>)]
          /\ keychain = NewKeychain /\ fresh = 3 /\ enrolled = {Passphrase}
       \/ /\ dir = [NewDir EXCEPT !.ks = Legacy(2, <<2>>)]
          /\ keychain = NewKeychain /\ fresh = 3 /\ enrolled = {Passphrase, 2}
       \/ LET ks == Sealed(Body(1, 1, <<2>>, NoSecret), NoAnchor)
          IN  /\ dir = [NewDir EXCEPT !.ks = ks, !.marker = "secure"]
              /\ keychain = [NewKeychain EXCEPT !.root = "legacy",
                                                !.legacy = Chain!FromMetadata(ks.state)]
              /\ fresh = 3 /\ enrolled = {Passphrase, 2}
    /\ copy = NewDir
    /\ app = Down /\ job = NoJob
    /\ faults = 0 /\ damage = 0 /\ moves = 0
    /\ revoked = {} /\ trusted = FALSE /\ intact = TRUE

\* Whether a keychain call answers: it may fail while the bound allows it.
Answers == IF faults < MaxFaults THEN BOOLEAN ELSE {TRUE}

\* The same for an anchor call, which in the degraded backend is a local file.
AnchorAnswers == IF app.backend = "secure" THEN Answers ELSE {TRUE}

Count(ok) == faults' = IF ok THEN faults ELSE faults + 1

\* keystore_is_v3.
Protected == dir.ks # NoKeystore /\ dir.ks.version = 3

\* Store::get_anchor_locked for the keystore.
Anchor == IF app.backend = "secure" THEN keychain.anchor ELSE dir.file

\* Store::put_anchor_locked; d is the directory the step leaves otherwise.
PutAnchor(state, d) ==
    LET anchor == Chain!FromMetadata(state)
    IN  IF app.backend = "secure"
        THEN dir' = d /\ keychain' = [keychain EXCEPT !.anchor = anchor]
        ELSE dir' = [d EXCEPT !.file = anchor] /\ UNCHANGED keychain

\* Store::quarantine: the keystore file is moved away.
Quarantine == dir' = [dir EXCEPT !.ks = NoKeystore] /\ UNCHANGED keychain
-------------------------------------------------------------------------------
(* Start-up: Store::at_with_secure_storage and App::new. *)

Probe(answered) ==
    IF ~answered THEN "unreachable" ELSE IF keychain.root = "none" THEN "empty" ELSE "established"

\* Mutant: the marker is honoured before the keychain's own record.
MarkerFirst(probe) ==
    IF dir.marker = "degraded" THEN "file"
    ELSE IF probe = "established" THEN "secure" ELSE "recover"

\* select_anchor_backend: a record in the keychain decides; otherwise the
\* marker is a hint, and an ambiguity with protected state is not resolved.
SelectBackend(probe) ==
    CASE probe = "established"                      -> "secure"
      [] probe # "established" /\ dir.marker = "malformed" -> "recover"
      [] probe = "empty" /\ dir.marker = "secure"   -> IF Protected THEN "recover" ELSE "secure"
      [] probe = "unreachable" /\ dir.marker = "secure" -> "recover"
      [] probe # "established" /\ dir.marker = "degraded" -> "file"
      [] probe # "established" /\ dir.marker = "none" ->
            IF dir.file # NoAnchor THEN "file"
            ELSE IF probe = "empty" THEN "secure"
            ELSE IF Protected THEN "recover" ELSE "file"

\* establish_secure_anchor_record: what becomes of the choice when the root
\* record of a store that selects the keychain is written, or not.
Established(choice, probe, saved) ==
    IF choice # "secure" \/ probe # "empty" \/ saved THEN choice
    ELSE IF Protected THEN "recover" ELSE "file"

\* The choice when the probe answered, or not, and the root record was saved, or not.
Chosen(answered, saved) ==
    LET probe   == Probe(answered)
        choice  == SelectBackend(probe)
        backend == Established(choice, probe, saved)
    IN  /\ keychain' = IF choice = "secure" /\ probe = "empty" /\ saved
                       THEN [keychain EXCEPT !.root = "current"] ELSE keychain
        /\ app' = IF backend = "recover" THEN [app EXCEPT !.screen = "recover"]
                  ELSE [app EXCEPT !.screen = "probed", !.backend = backend, !.launch = TRUE]
        /\ trusted' = (trusted /\ backend # "file")
        /\ Count(answered /\ saved)

Start ==
    /\ app.screen = "down"
    /\ \E answered \in Answers :
         \E saved \in IF Probe(answered) = "empty" THEN Answers ELSE {TRUE} :
            Chosen(answered, saved)
    /\ UNCHANGED <<dir, copy, job, fresh, damage, moves, enrolled,
                   revoked, intact>>

\* The end of select_anchor_backend: the marker is repaired.
Marker(backend) == IF backend = "secure" THEN "secure" ELSE "degraded"

RepairMarker ==
    /\ app.screen = "probed"
    /\ dir' = [dir EXCEPT !.marker = Marker(app.backend)]
    /\ app' = [app EXCEPT !.screen = "marked"]
    /\ UNCHANGED <<keychain, copy, job, fresh, faults, damage, moves,
                   enrolled, revoked, trusted, intact>>

\* Store::upgrade_secure_anchor_layout: a record per object, then the root.
UpgradeLayout ==
    /\ app.screen = "marked"
    /\ \E put \in AnchorAnswers, root \in AnchorAnswers :
         LET legacy == app.backend = "secure" /\ keychain.root = "legacy"
         IN  /\ keychain' = IF ~legacy \/ ~put THEN keychain
                            ELSE IF root
                            THEN [keychain EXCEPT !.anchor = keychain.legacy, !.root = "current",
                                                  !.legacy = NoAnchor]
                            ELSE [keychain EXCEPT !.anchor = keychain.legacy]
             /\ app' = [app EXCEPT !.screen = IF put /\ root THEN "loading" ELSE "fatal"]
             /\ trusted' = (trusted \/ (legacy /\ put /\ root /\ intact))
             /\ Count(put /\ root)
    /\ UNCHANGED <<dir, copy, job, fresh, damage, moves, enrolled,
                   revoked, intact>>
-------------------------------------------------------------------------------
(* Store::load_keystore, used by the unlock screen and by most jobs. *)

\* StateAnchor::check_candidate against the anchor, if there is one.
Accepts(state) == IF Anchor = NoAnchor THEN TRUE ELSE Chain!Acceptable(Anchor, state)

\* Mutant: the keystore file is trusted as it is found.
VerdictUnchecked(answered) ==
    IF dir.ks = NoKeystore THEN "missing"
    ELSE IF dir.ks.version # 3 THEN "legacy"
    ELSE IF answered THEN "loaded" ELSE "refused"

\* Mutant: only the very state the anchor names is accepted.
VerdictCurrentOnly(answered) ==
    IF dir.ks = NoKeystore THEN "missing"
    ELSE IF dir.ks.version # 3 THEN "legacy"
    ELSE IF answered /\ (Anchor = NoAnchor \/ Chain!IsCurrent(Anchor, dir.ks.state))
    THEN "loaded" ELSE "refused"

Verdict(answered) ==
    IF dir.ks = NoKeystore THEN "missing"
    ELSE IF dir.ks.version # 3 THEN "legacy"
    ELSE IF answered /\ Accepts(dir.ks.state) THEN "loaded" ELSE "refused"

\* check_loaded_state: an existing anchor follows a successor, a first anchor
\* is not established, and whatever fails sends the file to quarantine.
LoadKeystore(answered) ==
    LET verdict == Verdict(answered)
    IN  /\ \/ verdict = "refused" /\ Quarantine
           \/ verdict = "loaded" /\ Anchor # NoAnchor /\ PutAnchor(dir.ks.state, dir)
           \/ verdict \in {"missing", "legacy"} /\ UNCHANGED <<dir, keychain>>
           \/ verdict = "loaded" /\ Anchor = NoAnchor /\ UNCHANGED <<dir, keychain>>
        /\ Count(answered)
        /\ intact' = (intact /\ answered)

\* Unlock::for_store: what the unlock screen offers.  Auto-unlock is armed by
\* the launch only.
Offered(answered, listed) ==
    LET verdict == Verdict(answered)
        saved   == listed /\ keychain.token # NoSecret
    IN  [app EXCEPT
            !.screen = "unlock", !.launch = app.launch /\ saved,
            !.legacy = verdict = "legacy" \/ (verdict = "loaded" /\ dir.pending),
            !.offer  = (IF verdict = "loaded" /\ dir.ks.body.keys # << >>
                        THEN {"passkey"} ELSE {})
                       \cup (IF saved THEN {"device"} ELSE {})]

ShowUnlock ==
    /\ app.screen = "loading"
    /\ \/ /\ dir.ks = NoKeystore /\ app.launch
          /\ app' = [app EXCEPT !.screen = "first"]
          /\ UNCHANGED <<dir, keychain, faults, intact>>
       \/ /\ dir.ks # NoKeystore \/ ~app.launch
          /\ \E answered \in AnchorAnswers, listed \in BOOLEAN :
                LoadKeystore(answered) /\ app' = Offered(answered, listed)
    /\ UNCHANGED <<copy, job, fresh, damage, moves, enrolled,
                   revoked, trusted>>
-------------------------------------------------------------------------------
(* Jobs.  Each spawn_* function of app.rs is a kind of job; the steps they *)
(* share (load, save, anchor, confirm) are the functions of the store they *)
(* all call.                                                               *)

Idle == job = NoJob

NewJob(kind, pc, secret, right) ==
    [kind |-> kind, pc |-> pc, ks |-> NoKeystore, secret |-> secret, right |-> right]

At(pc) == ~Idle /\ job.pc = pc

Goto(pc, ks) == job' = [job EXCEPT !.pc = pc, !.ks = ks]

\* The job ends and reports what is in app'.
Finish == job' = NoJob

Spawned ==
    UNCHANGED <<keychain, copy, faults, damage, moves,
                revoked, trusted, intact>>

\* export_identity_armored, import_identity_armored: the identity in a backup
\* file, here the first one.
Exported == 1

\* spawn_create_identity and spawn_restore_identity: a keystore for a new
\* identity, or for one that spawn_export_identity wrote to a file (it changes
\* nothing in the store, so any earlier moment will do), under a new passphrase
\* and with none of the other unlock methods.
NewKeystore(owner) ==
    job' = [NewJob("create", "save", owner, TRUE)
                EXCEPT !.ks = Sealed(Body(owner, fresh, << >>, NoSecret), NoAnchor)]

CreateIdentity ==
    /\ app.screen = "first" /\ Idle /\ fresh < MaxFresh
    /\ NewKeystore(fresh)
    /\ fresh' = fresh + 1
    /\ Spawned /\ UNCHANGED <<dir, app, enrolled>>

RestoreIdentity ==
    /\ app.screen = "first" /\ Idle /\ fresh \in 2..MaxFresh - 1
    /\ NewKeystore(Exported)
    /\ fresh' = fresh + 1
    /\ Spawned /\ UNCHANGED <<dir, app, enrolled>>

\* spawn_unlock: with the passphrase; a recovery of legacy state leaves a note
\* first, so that an interrupted one is continued.
UnlockPassphrase ==
    /\ app.screen = "unlock" /\ Idle /\ (app.legacy => fresh < MaxFresh)
    /\ \E right \in BOOLEAN : job' = NewJob("unlock", "load", NoSecret, right)
    /\ dir' = IF app.legacy THEN [dir EXCEPT !.pending = TRUE] ELSE dir
    /\ app' = [app EXCEPT !.launch = FALSE]
    /\ Spawned /\ UNCHANGED <<fresh, enrolled>>

\* passkey::assert: a connected key answers for the credentials it holds,
\* whether or not they are still enrolled.
Held == (enrolled \cup revoked) \ {Passphrase}

\* spawn_unlock_passkey: every slot is tried on the key that is connected.
UnlockPasskey ==
    /\ app.screen = "unlock" /\ Idle /\ "passkey" \in app.offer
    /\ \E credential \in Held :
          job' = NewJob("passkey", "load", credential, TRUE)
    /\ app' = [app EXCEPT !.launch = FALSE]
    /\ Spawned /\ UNCHANGED <<dir, fresh, enrolled>>

\* spawn_unlock_keyring: by itself after the launch, or on request.
UnlockKeyring ==
    /\ app.screen = "unlock" /\ Idle /\ "device" \in app.offer
    /\ \/ /\ keychain.token # NoSecret
          /\ job' = NewJob("keyring", "load", keychain.token, TRUE)
       \/ job' = NoJob
    /\ app' = [app EXCEPT !.launch = FALSE]
    /\ Spawned /\ UNCHANGED <<dir, fresh, enrolled>>

\* passkey::enroll: the hardware makes a new credential.
NewCredential == fresh

\* spawn_add_passkey: the hardware comes first, then the keystore.
EnrollPasskey ==
    /\ app.screen = "session" /\ Idle /\ fresh < MaxFresh /\ Len(app.keys) < MaxKeys
    /\ \E right \in BOOLEAN : job' = NewJob("add", "load", NewCredential, right)
    /\ fresh' = fresh + 1
    /\ Spawned /\ UNCHANGED <<dir, app, enrolled>>

\* spawn_remove_passkey: the index is that of the list on the screen.
DropPasskey ==
    /\ app.screen = "session" /\ Idle
    /\ \E index \in DOMAIN app.keys : job' = NewJob("remove", "load", index, TRUE)
    /\ Spawned /\ UNCHANGED <<dir, app, fresh, enrolled>>

\* spawn_enable_auto_unlock and spawn_disable_auto_unlock.
EnableAutoUnlock ==
    /\ app.screen = "session" /\ Idle /\ ~app.auto /\ fresh < MaxFresh
    /\ \E right \in BOOLEAN : job' = NewJob("enable", "load", fresh, right)
    /\ fresh' = fresh + 1
    /\ enrolled' = enrolled \ {keychain.token}
    /\ Spawned /\ UNCHANGED <<dir, app>>

DisableAutoUnlock ==
    /\ app.screen = "session" /\ Idle /\ app.auto
    /\ job' = NewJob("disable", "load", keychain.token, TRUE)
    /\ enrolled' = enrolled \ {keychain.token}
    /\ Spawned /\ UNCHANGED <<dir, app, fresh>>

\* What the job makes of the keystore it loaded, if it does not give up.
Candidate(ks) ==
    CASE job.kind = "add"     -> IF job.right THEN AddPasskey(ks, job.secret) ELSE NoKeystore
      [] job.kind = "remove"  -> IF job.secret <= Len(ks.body.keys) /\ ks.body.owner = app.owner
                                 THEN RemovePasskey(ks, job.secret) ELSE NoKeystore
      [] job.kind = "enable"  -> IF job.right THEN SetDeviceToken(ks, job.secret) ELSE NoKeystore
      [] job.kind = "disable" -> IF ks.body.owner = app.owner
                                 THEN RemoveDeviceToken(ks) ELSE NoKeystore

\* The secret the job enrols or takes out; a removal's index is now a key.
Changed(ks) ==
    IF job.kind = "remove" /\ job.secret \in DOMAIN ks.body.keys
    THEN ks.body.keys[job.secret] ELSE job.secret

\* KeystoreFile::unlock, unlock_with_passkey and unlock_with_device_token.
Opens(ks) ==
    CASE job.kind = "unlock"  -> job.right
      [] job.kind = "passkey" -> \E slot \in ToSet(ks.body.keys) : Unwraps(slot, job.secret)
      [] job.kind = "keyring" -> Unwraps(ks.body.device, job.secret)

Load ==
    /\ At("load")
    /\ \E answered \in AnchorAnswers :
         LET ks == dir.ks
             verdict == Verdict(answered)
         IN  /\ LoadKeystore(answered)
             /\ enrolled' = IF verdict = "loaded" /\ job.kind = "remove"
                            THEN enrolled \ {Changed(ks)} ELSE enrolled
             /\ \/ verdict = "loaded" /\ job.kind \in {"unlock", "passkey", "keyring"}
                   /\ \/ Opens(ks) /\ Goto("confirm", ks)
                      \/ ~Opens(ks) /\ job.kind = "keyring" /\ Goto("clear", NoKeystore)
                      \/ ~Opens(ks) /\ job.kind # "keyring" /\ Finish
                \/ verdict = "loaded" /\ job.kind = "disable" /\ ks.body.device = NoSecret
                   /\ Goto("clear", NoKeystore)
                \/ /\ verdict = "loaded" /\ job.kind \in {"add", "remove", "enable", "disable"}
                   /\ job.kind = "disable" => ks.body.device # NoSecret
                   /\ \/ Candidate(ks) = NoKeystore /\ Finish
                      \/ /\ Candidate(ks) # NoKeystore
                         /\ job' = [job EXCEPT !.pc = "save", !.ks = Candidate(ks),
                                               !.secret = Changed(ks)]
                \/ verdict = "legacy" /\ job.kind = "unlock" /\ app.legacy /\ job.right
                   /\ Goto("save", RecoverLegacy(ks))
                \/ verdict # "loaded"
                   /\ ~(verdict = "legacy" /\ job.kind = "unlock" /\ app.legacy /\ job.right)
                   /\ Finish
    /\ fresh' = IF ~Idle' /\ job'.pc = "save" /\ job.kind = "unlock" THEN fresh + 1 ELSE fresh
    /\ UNCHANGED <<copy, app, damage, moves, revoked, trusted>>

\* Store::save_keystore: the transition is checked, the file replaced
\* atomically, and then the anchor written (commit_state).
Save ==
    /\ At("save")
    /\ \E answered \in AnchorAnswers :
         /\ Count(answered)
         /\ IF answered /\ Accepts(job.ks.state)
            THEN Goto("anchor", job.ks) /\ dir' = [dir EXCEPT !.ks = job.ks]
            ELSE Finish /\ UNCHANGED dir
    /\ UNCHANGED <<keychain, copy, app, fresh, damage, moves, enrolled,
                   revoked, trusted, intact>>

\* The keys of a session that was just opened with ks.
SessionOf(ks, auto) ==
    [app EXCEPT !.screen = "session", !.launch = FALSE, !.legacy = FALSE, !.offer = {},
                !.owner = ks.body.owner, !.keys = ks.body.keys, !.auto = auto]

\* What follows a keystore that was saved: the rest of the job and its report.
Saved ==
    LET ks == job.ks
    IN  \/ /\ job.kind = "create" /\ Finish
           /\ app' = SessionOf(ks, FALSE) /\ enrolled' = {Passphrase} /\ UNCHANGED revoked
        \/ /\ job.kind = "unlock" /\ Goto("confirm", ks)
           /\ UNCHANGED <<app, enrolled, revoked>>
        \/ /\ job.kind = "add" /\ Finish
           /\ app' = [app EXCEPT !.keys = ks.body.keys]
           /\ enrolled' = enrolled \cup {job.secret} /\ UNCHANGED revoked
        \/ /\ job.kind = "remove" /\ Finish
           /\ app' = [app EXCEPT !.keys = ks.body.keys]
           /\ revoked' = revoked \cup {job.secret} /\ UNCHANGED enrolled
        \/ /\ job.kind = "enable" /\ Goto("token", ks)
           /\ UNCHANGED <<app, enrolled, revoked>>
        \/ /\ job.kind = "disable" /\ Goto("clear", ks)
           /\ UNCHANGED <<app, enrolled, revoked>>
        \/ job.kind = "undo" /\ Finish /\ UNCHANGED <<app, enrolled, revoked>>

\* commit_state: without quarantine, since the path given is empty.
CommitAnchor ==
    /\ At("anchor")
    /\ \E answered \in AnchorAnswers :
         /\ Count(answered)
         /\ IF answered /\ Accepts(job.ks.state)
            THEN /\ PutAnchor(job.ks.state, dir)
                 /\ trusted' = (trusted \/ (app.backend = "secure" /\ intact))
                 /\ Saved
            ELSE Finish /\ UNCHANGED <<dir, keychain, app, enrolled, revoked, trusted>>
    /\ UNCHANGED <<copy, fresh, damage, moves, intact>>

\* save_device_token: when the keychain refuses, the slot is taken out again.
SaveToken ==
    /\ At("token")
    /\ \E answered \in Answers :
         /\ Count(answered)
         /\ \/ /\ answered /\ Finish
               /\ keychain' = [keychain EXCEPT !.token = job.secret]
               /\ app' = [app EXCEPT !.auto = TRUE]
               /\ enrolled' = enrolled \cup {job.secret}
            \/ /\ ~answered
               /\ job' = [job EXCEPT !.kind = "undo", !.pc = "save",
                                     !.ks = RemoveDeviceToken(job.ks)]
               /\ UNCHANGED <<keychain, app, enrolled>>
    /\ UNCHANGED <<dir, copy, fresh, damage, moves, revoked,
                   trusted, intact>>

\* clear_device_token: the last step of forgetting the device, and what is
\* tried when the token did not open the keystore.
ClearToken ==
    /\ At("clear") /\ Finish
    /\ \E answered \in Answers :
         /\ Count(answered)
         /\ keychain' = IF answered THEN [keychain EXCEPT !.token = NoSecret] ELSE keychain
         /\ app' = IF answered /\ job.kind = "disable" THEN [app EXCEPT !.auto = FALSE] ELSE app
         /\ revoked' = IF answered /\ job.kind = "disable"
                       THEN revoked \cup ({job.secret} \ {NoSecret}) ELSE revoked
    /\ UNCHANGED <<dir, copy, fresh, damage, moves, enrolled,
                   trusted, intact>>

\* confirm_unlocked_keystore establishes the first anchor; then the contact
\* book, the registry and, in a recovery, the vaults are read, which may fail.
Confirm ==
    /\ At("confirm") /\ Finish
    /\ \E answered \in AnchorAnswers, rest, listed \in BOOLEAN :
         LET ok == answered /\ Accepts(job.ks.state)
         IN  /\ Count(answered)
             /\ intact' = (intact /\ answered)
             /\ \/ /\ ~ok /\ Quarantine /\ UNCHANGED <<app, trusted>>
                \/ /\ ok
                   /\ PutAnchor(job.ks.state,
                         IF rest /\ app.legacy THEN [dir EXCEPT !.pending = FALSE] ELSE dir)
                   /\ trusted' = (trusted \/ (app.backend = "secure" /\ intact))
                   /\ app' = IF rest
                             THEN SessionOf(job.ks, job.kind = "keyring" \/
                                        (listed /\ keychain.token # NoSecret))
                             ELSE app
    /\ UNCHANGED <<copy, fresh, damage, moves, enrolled, revoked>>
-------------------------------------------------------------------------------
(* Locking, and the recovery of the anchors. *)

\* Action::Lock: the unlock screen of the open store, auto-unlock not armed.
Lock ==
    /\ app.screen = "session" /\ Idle
    /\ app' = [Down EXCEPT !.screen = "loading", !.backend = app.backend]
    /\ UNCHANGED <<dir, keychain, copy, job, fresh, faults, damage, moves,
                   enrolled, revoked, trusted, intact>>

\* spawn_recover_anchors, after the user confirmed the directory and typed the
\* passphrase: Store::recover_rollback_anchors authenticates everything in the
\* directory and makes its states the anchors, in the keychain if it answers.
RecoverAnchors ==
    /\ app.screen = "recover" /\ Idle /\ Protected
    /\ \E answered \in Answers :
         /\ answered \/ moves < MaxMoves
         /\ moves' = IF answered THEN moves ELSE moves + 1
         /\ Count(answered)
         /\ app' = [app EXCEPT !.backend = IF answered THEN "secure" ELSE "file"]
         /\ intact' = (intact /\ answered)
    /\ job' = [NewJob("recover", "reanchor", NoSecret, TRUE) EXCEPT !.ks = dir.ks]
    /\ trusted' = FALSE
    /\ UNCHANGED <<dir, keychain, copy, fresh, damage, enrolled, revoked>>

Reanchor ==
    /\ At("reanchor")
    /\ \E answered \in AnchorAnswers :
         /\ Count(answered)
         /\ IF answered THEN PutAnchor(job.ks.state, dir) /\ Goto("root", job.ks)
            ELSE Finish /\ UNCHANGED <<dir, keychain>>
    /\ UNCHANGED <<copy, app, fresh, damage, moves, enrolled, revoked, trusted, intact>>

RewriteRoot ==
    /\ At("root")
    /\ \E answered \in AnchorAnswers :
         /\ Count(answered)
         /\ IF answered THEN Goto("marker", job.ks) ELSE Finish
         /\ keychain' = IF answered /\ app.backend = "secure"
                        THEN [keychain EXCEPT !.root = "current", !.legacy = NoAnchor]
                        ELSE keychain
    /\ UNCHANGED <<dir, copy, app, fresh, damage, moves, enrolled, revoked, trusted, intact>>

RewriteMarker ==
    /\ At("marker") /\ Finish
    /\ dir' = [dir EXCEPT !.marker = Marker(app.backend)]
    /\ app' = [app EXCEPT !.screen = "loading", !.launch = FALSE]
    /\ UNCHANGED <<keychain, copy, fresh, faults, damage, moves, enrolled,
                   revoked, trusted, intact>>
-------------------------------------------------------------------------------
(* The environment. *)

\* The process is closed or killed, whatever it is doing.
Stop ==
    /\ app.screen # "down"
    /\ app' = Down /\ job' = NoJob
    /\ UNCHANGED <<dir, keychain, copy, fresh, faults, damage, moves, enrolled,
                   revoked, trusted, intact>>

CopyDirectory ==
    /\ "restore" \in Damages /\ app.screen = "session" /\ Idle
    /\ Protected /\ copy = NewDir /\ damage < MaxDamage
    /\ copy' = dir
    /\ UNCHANGED <<dir, keychain, app, job, fresh, faults, damage, moves,
                   enrolled, revoked, trusted, intact>>

\* An older copy of the directory is put back, its marker is damaged, or the
\* keychain is emptied.  A copy is kept for one such event.
Damage ==
    /\ Idle /\ damage < MaxDamage /\ app.screen \in {"down", "unlock", "session"}
    /\ damage' = damage + 1
    /\ intact' = FALSE
    /\ copy' = NewDir
    /\ \/ /\ "restore" \in Damages /\ copy # NewDir /\ dir # copy
          /\ dir' = copy /\ UNCHANGED <<keychain, trusted>>
       \/ /\ "marker" \in Damages
          /\ \E marker \in {"none", "degraded", "malformed"} \ {dir.marker} :
                dir' = [dir EXCEPT !.marker = marker]
          /\ UNCHANGED <<keychain, trusted>>
       \/ /\ "keychain" \in Damages /\ keychain # NewKeychain
          /\ keychain' = NewKeychain /\ trusted' = FALSE /\ UNCHANGED dir
    /\ UNCHANGED <<app, job, fresh, faults, moves, enrolled, revoked>>

Jobs ==
    \/ CreateIdentity \/ RestoreIdentity \/ UnlockPassphrase \/ UnlockPasskey \/ UnlockKeyring
    \/ EnrollPasskey \/ DropPasskey \/ EnableAutoUnlock \/ DisableAutoUnlock
    \/ RecoverAnchors \/ Lock

Steps ==
    \/ Start \/ RepairMarker \/ UpgradeLayout \/ ShowUnlock
    \/ Load \/ Save \/ CommitAnchor \/ SaveToken \/ ClearToken \/ Confirm
    \/ Reanchor \/ RewriteRoot \/ RewriteMarker

Next == Jobs \/ Steps \/ Stop \/ CopyDirectory \/ Damage

Spec == Init /\ [][Next]_vars
-------------------------------------------------------------------------------
(* Properties. *)

Directories ==
    [ks : Keystores \cup {NoKeystore}, marker : {"none", "secure", "degraded", "malformed"},
     file : Anchors \cup {NoAnchor}, pending : BOOLEAN]

Keychains ==
    [root : {"none", "legacy", "current"}, legacy : Anchors \cup {NoAnchor},
     anchor : Anchors \cup {NoAnchor}, token : Nat \cup {NoSecret}]

Apps ==
    [screen : Screens, backend : {"secure", "file"}, launch : BOOLEAN, legacy : BOOLEAN,
     offer : SUBSET {"passkey", "device"}, owner : Nat, keys : Seq(Nat), auto : BOOLEAN]

\* Type invariant.
TypeOK ==
    /\ dir \in Directories /\ copy \in Directories
    /\ keychain \in Keychains /\ app \in Apps
    /\ job \in RunningJobs \cup {NoJob}
    /\ fresh \in Nat /\ faults \in Nat /\ damage \in Nat /\ moves \in Nat
    /\ enrolled \subseteq Nat /\ revoked \subseteq Nat
    /\ trusted \in BOOLEAN /\ intact \in BOOLEAN

\* A security key that was removed or a device that was forgotten never opens
\* the store again, not even with an older copy of the data directory put
\* back, as long as the anchors in the keychain are this store's own: the
\* promise of remove_device_token ("a restored older keystore cannot silently
\* reinstate a forgotten device").
RevokedStaysRevoked ==
    [][trusted /\ At("confirm") /\ app'.screen = "session" => job.secret \notin revoked]_vars

\* The anchor the next start would compare the keystore with.
NextAnchor ==
    IF SelectBackend(Probe(TRUE)) = "file" THEN dir.file
    ELSE IF keychain.root = "legacy" THEN keychain.legacy ELSE keychain.anchor

\* Kills, failed writes, enrolments and removals never cost the owner a way
\* in: at every moment the keystore on disk is one that the next start with a
\* working keychain loads without a recovery, and everything the user was told
\* opens the store (and did not take back) has its slot in it, the device
\* token its other half in the keychain.  Not promised after an older
\* directory, an emptied keychain, a keychain call that fails during a load
\* (the file is then quarantined), or a recovery onto file anchors.
StillGetsIn ==
    intact /\ Passphrase \in enrolled =>
        /\ dir.ks # NoKeystore
        /\ dir.ks.version = 3 =>
              /\ SelectBackend(Probe(TRUE)) # "recover"
              /\ NextAnchor = NoAnchor \/ Chain!Acceptable(NextAnchor, dir.ks.state)
        /\ enrolled \ {Passphrase}
              \subseteq ToSet(dir.ks.body.keys) \cup ({dir.ks.body.device} \cap {keychain.token})

\* A store whose keystore is anchored in the keychain is opened with file
\* anchors only when the keychain does not answer and, besides, the marker was
\* damaged or an explicit recovery moved the store: a probe that fails once, a
\* crash during start-up or a marker alone never downgrades it.
NeverDowngraded ==
    [][/\ app.screen = "down" /\ app'.screen = "probed" /\ app'.backend = "file"
       /\ keychain.root # "none" /\ keychain.anchor # NoAnchor
       => faults' # faults /\ (damage > 0 \/ moves > 0)]_vars

\* An explicit recovery trusts the state on disk as the newest ("Their current
\* states then become the new high-water anchors, in OS secure storage when it
\* is reachable and in the degraded file otherwise"): the keystore that is
\* saved after it keeps loading.
RecoveredStaysOpen ==
    moves > 0 /\ damage = 0 /\ Idle /\ app.screen = "down" /\ Protected =>
        NextAnchor = NoAnchor \/ Chain!Acceptable(NextAnchor, dir.ks.state)

-------------------------------------------------------------------------------
(* The inductive invariant behind StillGetsIn and NeverDowngraded.            *)

\* The steps of each kind of job and the screen below it.
CourseInv ==
    /\ fresh # 0
    /\ ~Idle =>
        /\ job.kind = "create" => app.screen = "first" /\ job.pc \in {"save", "anchor"}
        /\ job.kind = "unlock" =>
              app.screen = "unlock" /\ job.pc \in {"load", "save", "anchor", "confirm"}
        /\ job.kind = "passkey" => app.screen = "unlock" /\ job.pc \in {"load", "confirm"}
        /\ job.kind = "keyring" =>
              app.screen = "unlock" /\ job.pc \in {"load", "clear", "confirm"}
        /\ job.kind \in {"add", "remove"} =>
              app.screen = "session" /\ job.pc \in {"load", "save", "anchor"}
        /\ job.kind = "enable" =>
              app.screen = "session" /\ job.pc \in {"load", "save", "anchor", "token"}
        /\ job.kind = "disable" =>
              app.screen = "session" /\ job.pc \in {"load", "save", "anchor", "clear"}
        /\ job.kind = "undo" => app.screen = "session" /\ job.pc \in {"save", "anchor"}
        /\ job.kind = "recover" =>
              app.screen = "recover" /\ job.pc \in {"reanchor", "root", "marker"}
        /\ job.pc \in {"save", "anchor", "token", "confirm", "reanchor"} =>
              job.ks \in Keystores /\ job.ks.version = 3
        /\ job.kind \in {"add", "remove", "enable"} => job.secret \in Nat
        /\ job.kind \in {"add", "enable"} \/ (job.kind = "remove" /\ job.pc = "load") =>
              job.secret # 0

\* Neither damage from outside nor a recovery onto file anchors has happened.
Calm == damage = 0 /\ moves = 0

\* The screens behind which the backend is chosen and its marker written.
Behind == {"loading", "first", "unlock", "session"}

\* Until then the marker, the root record and the anchors agree about the backend.
BackendInv ==
    /\ intact => Calm
    /\ Calm =>
        /\ dir.marker # "malformed"
        /\ dir.marker = "secure" => keychain.root # "none"
        /\ keychain.root = "legacy" \/ keychain.anchor # NoAnchor => dir.marker = "secure"
        /\ Protected \/ dir.file # NoAnchor => dir.marker # "none"
        /\ app.screen = "recover" => dir.marker = "secure"
        /\ app.screen = "probed" =>
              IF app.backend = "secure" THEN keychain.root # "none" ELSE dir.marker # "secure"
        /\ app.screen \in Behind \cup {"marked"} => dir.marker = Marker(app.backend)
        /\ app.screen \in Behind /\ app.backend = "secure" => keychain.root = "current"
        /\ ~Idle /\ job.kind = "recover" => app.backend = "secure"
        /\ At("marker") => keychain.root = "current"

Fits(anchor, state) == anchor = NoAnchor \/ Chain!Acceptable(anchor, state)

\* Whatever will be compared with the keystore on disk accepts it, and a running job
\* works on that keystore.
AnchorInv ==
    intact =>
        /\ Protected =>
              /\ keychain.root = "legacy" => Fits(keychain.legacy, dir.ks.state)
              /\ keychain.root # "legacy" \/ At("root") => Fits(keychain.anchor, dir.ks.state)
              /\ dir.marker = "degraded" => Fits(dir.file, dir.ks.state)
        /\ ~Idle /\ job.pc \notin {"load", "save", "clear"} => job.ks = dir.ks

Told == enrolled \ {Passphrase}

\* The slots of a keystore that the user's means open.
Slots(ks) == ToSet(ks.body.keys) \cup ({ks.body.device} \cap {keychain.token})

\* What the user was told opens the store has its slot in the keystore on disk, and in
\* the one a job is about to put there; while the device token changes, it is not
\* among the promises.
SlotsInv ==
    /\ ~Idle /\ job.kind = "keyring" => job.secret = keychain.token /\ job.secret # NoSecret
    /\ ~Idle /\ job.kind = "enable" /\ job.pc # "load" => job.ks.body.device = job.secret
    /\ ~Idle /\ job.kind = "add" /\ job.pc # "load" => job.secret \in ToSet(job.ks.body.keys)
    /\ intact /\ Passphrase \in enrolled =>
        /\ app.screen # "first" /\ dir.ks # NoKeystore
        /\ Told \subseteq Slots(dir.ks)
        /\ ~Idle =>
            /\ job.pc = "save" => Told \subseteq Slots(job.ks)
            /\ job.kind \in {"enable", "disable", "undo"} \/ job.pc = "clear" =>
                  /\ Told \subseteq ToSet(dir.ks.body.keys)
                  /\ job.pc = "save" => Told \subseteq ToSet(job.ks.body.keys)

IInv == TypeOK /\ CourseInv /\ BackendInv /\ AnchorInv /\ SlotsInv
-------------------------------------------------------------------------------
(* The inductive invariant behind RevokedStaysRevoked, together with IInv.    *)

\* The keystores there are: on disk, in the copy and in the running job.
Existing == ({dir.ks, copy.ks} \cup (IF Idle THEN {} ELSE {job.ks})) \ {NoKeystore}

Credentials(ks) == ToSet(ks.body.keys)

\* A keystore is the one its state commits to, and its credentials were made once each,
\* as credentials and not as this device token.
Sound(ks, limit, token) ==
    /\ ks.version = 3 => Chain!VerifyPayload(ks.state, ks.body)
    /\ IsInjective(ks.body.keys)
    /\ \A c \in Credentials(ks) : c < limit /\ c # token

SoundInv ==
    /\ \A ks \in Existing : Sound(ks, fresh, keychain.token)
    /\ \A secret \in revoked : secret < fresh
    /\ keychain.token \notin revoked
    /\ keychain.token # NoSecret => keychain.token < fresh

\* What the secret of a running job is.
SecretsInv ==
    ~Idle =>
        /\ job.kind \in {"add", "enable"} => job.secret < fresh /\ job.secret \notin revoked
        /\ job.kind = "add" => job.secret # keychain.token
        /\ job.kind = "enable" \/ (job.kind = "add" /\ job.pc = "load") =>
              \A ks \in Existing : job.secret \notin Credentials(ks)
        /\ job.kind = "disable" => job.secret = keychain.token
        /\ job.kind = "remove" /\ job.pc # "load" =>
              /\ job.secret < fresh /\ job.secret # keychain.token
              /\ job.secret \notin Credentials(job.ks)
        /\ job.kind = "passkey" /\ job.pc = "confirm" => job.secret \in Credentials(job.ks)
        /\ job.kind = "unlock" => job.secret = NoSecret

\* A keystore is at most one update ahead of the anchor, and one that the anchor accepts
\* has none of these secrets.
Barred(ks, anchor, secrets) ==
    /\ ks.state.epoch <= anchor.epoch + 1
    /\ Chain!Acceptable(anchor, ks.state) => Credentials(ks) \cap secrets = {}

\* The keychain's own anchors keep out every keystore in which something revoked is left.
BarredInv ==
    trusted =>
        /\ keychain.anchor # NoAnchor
        /\ \A ks \in Existing : ks.version = 3 => Barred(ks, keychain.anchor, revoked)

\* They are in force, and a removal is the next update of the keystore they accept.
TrustedInv ==
    trusted =>
        /\ keychain.root = "current"
        /\ app.screen \notin {"down", "recover", "fatal"} => app.backend = "secure"
        /\ dir.ks # NoKeystore => Protected
        /\ ~Idle =>
            /\ job.kind # "recover"
            /\ job.pc = "token" => keychain.anchor = Chain!FromMetadata(job.ks.state)
            /\ job.kind = "remove" /\ job.pc \in {"save", "anchor"} =>
                  job.ks.state.epoch = keychain.anchor.epoch + 1

\* Until something happens to the store, the keystore on disk is the newest there is.
NewestInv ==
    /\ keychain.root = "legacy" =>
          keychain.legacy # NoAnchor /\ (dir.ks # NoKeystore => Protected)
    /\ copy.ks # NoKeystore => copy.ks.version = 3
    /\ intact =>
        /\ dir.ks # NoKeystore => Credentials(dir.ks) \cap revoked = {}
        /\ ~Idle /\ job.ks # NoKeystore => Credentials(job.ks) \cap revoked = {}
        /\ copy.ks # NoKeystore =>
              /\ keychain.root # "legacy" /\ app.screen # "first" /\ Protected
              /\ copy.ks = dir.ks \/ copy.ks.state.epoch < dir.ks.state.epoch
              /\ At("save") => job.ks.state.epoch > dir.ks.state.epoch

RevocationInv == IInv /\ SoundInv /\ SecretsInv /\ BarredInv /\ TrustedInv /\ NewestInv
===============================================================================
