------------------------------ MODULE KeystoreProofs ------------------------------
(* Machine-checked proofs that crashes, failed keychain calls, enrolments and      *)
(* removals never cost the owner a way in and never downgrade the anchors, and     *)
(* that what was revoked opens nothing again, for any number of secrets, security  *)
(* keys, failures and recoveries.                                                  *)
EXTENDS Keystore, SequenceTheorems, TLAPS

-----------------------------------------------------------------------------------
(* Keystores and anchors.                                                          *)

\* Building the next state of a keystore.
LEMMA SealedType ==
    ASSUME NEW body \in Bodies, NEW previous \in Anchors \cup {NoAnchor}
    PROVE  /\ Sealed(body, previous) \in Keystores
           /\ Sealed(body, previous).version = 3 /\ Sealed(body, previous).body = body
<1> DEFINE link == [identity |-> body.owner, object |-> "keystore", suite |-> "suite",
                    payload |-> body]
           st == Chain!NextState(body.owner, "keystore", "suite", previous, body)
<1>1. body.owner \in Nat
  BY DEF Bodies
<1>2. link \in Chain!Link
  BY <1>1 DEF Chain!Link
<1>3. CASE previous = NoAnchor
  <2>1. st = [identity |-> body.owner, object |-> "keystore", suite |-> "suite",
              epoch |-> 1, prev |-> <<>>, cur |-> Append(<<>>, link)]
    BY <1>3 DEF Chain!NextState, Chain!ExpectedHash, Chain!GENESIS_HASH
  <2>2. <<>> \in Chain!Hash /\ Append(<<>>, link) \in Chain!Hash
    BY <1>2 DEF Chain!Hash
  <2> QED
    BY <1>1, <2>1, <2>2 DEF Sealed, Keystores, States
<1>4. CASE previous # NoAnchor
  <2>1. previous.epoch \in Nat /\ previous.cur \in Chain!Hash
    BY <1>4 DEF Anchors
  <2>2. st = [identity |-> body.owner, object |-> "keystore", suite |-> "suite",
              epoch |-> previous.epoch + 1, prev |-> previous.cur,
              cur |-> Append(previous.cur, link)]
    BY <1>4 DEF Chain!NextState, Chain!ExpectedHash
  <2>3. Append(previous.cur, link) \in Chain!Hash
    BY <1>2, <2>1 DEF Chain!Hash
  <2> HIDE DEF link, st
  <2>4. previous.epoch + 1 \in Nat
    BY <2>1
  <2>5. st \in States
    BY <1>1, <2>1, <2>2, <2>3, <2>4 DEF States
  <2> QED
    BY <2>5 DEF Sealed, Keystores, st
<1> QED
  BY <1>3, <1>4

\* The parts of a keystore that has a state.
LEMMA KeystoreFields ==
    ASSUME NEW ks \in Keystores
    PROVE  /\ ks.body \in Bodies /\ ks # NoKeystore /\ ks.version \in {1, 2, 3}
           /\ ks.body.keys \in Seq(Nat) /\ ks.body.device \in Nat \cup {NoSecret}
           /\ ks.body.owner \in Nat
           /\ ks.version = 3 => ks.state \in States
  BY KeystoreAssumption DEF Keystores, Bodies

\* An anchor made from a state has its type and accepts that state.
LEMMA CurrentFits ==
    ASSUME NEW s \in States
    PROVE  Chain!FromMetadata(s) \in Anchors /\ Fits(Chain!FromMetadata(s), s)
<1>1. Chain!FromMetadata(s) = [identity |-> s.identity, object |-> s.object, suite |-> s.suite,
                               epoch |-> s.epoch, cur |-> s.cur]
  BY DEF Chain!FromMetadata
<1>2. Chain!FromMetadata(s) \in Anchors
  BY <1>1 DEF States, Anchors
<1>3. Chain!IsCurrent(Chain!FromMetadata(s), s)
  BY <1>1 DEF Chain!IsCurrent, Chain!SameObject
<1> QED
  BY <1>2, <1>3 DEF Fits, Chain!Acceptable

\* What the operations on slots do to them.
LEMMA AdvancedFields ==
    ASSUME NEW ks \in Keystores, ks.version = 3, NEW body \in Bodies
    PROVE  /\ Advanced(ks, body) \in Keystores
           /\ Advanced(ks, body).version = 3 /\ Advanced(ks, body).body = body
<1>1. Chain!FromMetadata(ks.state) \in Anchors
  BY KeystoreFields, CurrentFits
<1> QED
  BY <1>1, SealedType DEF Advanced

\* Enrolling a security key keeps every slot and adds one.
LEMMA AddPasskeyFields ==
    ASSUME NEW ks \in Keystores, ks.version = 3, NEW c \in Nat
    PROVE  /\ AddPasskey(ks, c) \in Keystores /\ AddPasskey(ks, c).version = 3
           /\ AddPasskey(ks, c).body.device = ks.body.device
           /\ ToSet(ks.body.keys) \cup {c} \subseteq ToSet(AddPasskey(ks, c).body.keys)
<1> DEFINE keys == ks.body.keys
           body == [ks.body EXCEPT !.keys = Append(@, c)]
<1>1. keys \in Seq(Nat) /\ ks.body \in Bodies
  BY KeystoreFields
<1>2. body \in Bodies /\ body.keys = Append(keys, c) /\ body.device = ks.body.device
  <2>1. Append(keys, c) \in Seq(Nat)
    BY <1>1
  <2> QED
    BY <1>1, <2>1 DEF Bodies
<1>3. /\ DOMAIN keys = 1..Len(keys) /\ DOMAIN Append(keys, c) = 1..(Len(keys) + 1)
      /\ Len(keys) \in Nat /\ Append(keys, c)[Len(keys) + 1] = c
      /\ \A i \in 1..Len(keys) : Append(keys, c)[i] = keys[i]
  BY <1>1
<1>4. ASSUME NEW x \in ToSet(keys) PROVE x \in ToSet(Append(keys, c))
  <2>1. PICK i \in 1..Len(keys) : x = keys[i]
    BY <1>3, <1>4 DEF ToSet
  <2>2. i \in 1..(Len(keys) + 1) /\ Append(keys, c)[i] = x
    BY <1>3, <2>1
  <2> QED
    BY <1>3, <2>2 DEF ToSet
<1>5. c \in ToSet(Append(keys, c))
  <2>1. Len(keys) + 1 \in 1..(Len(keys) + 1)
    BY <1>3
  <2> QED
    BY <1>3, <2>1 DEF ToSet
<1> HIDE DEF body
<1>6. Advanced(ks, body) \in Keystores /\ Advanced(ks, body).version = 3
      /\ Advanced(ks, body).body = body
  BY <1>2, AdvancedFields
<1>7. AddPasskey(ks, c) = Advanced(ks, body)
  BY DEF AddPasskey, body
<1> QED
  BY <1>2, <1>4, <1>5, <1>6, <1>7

\* RemoveAt closes the gap: what comes before the index stays, the rest moves down by one.
LEMMA RemoveAtFields ==
    ASSUME NEW q \in Seq(Nat), NEW i \in 1..Len(q)
    PROVE  /\ RemoveAt(q, i) \in Seq(Nat) /\ Len(RemoveAt(q, i)) = Len(q) - 1
           /\ \A j \in 1..(Len(q) - 1) : RemoveAt(q, i)[j] = IF j < i THEN q[j] ELSE q[j + 1]
<1> DEFINE left == SubSeq(q, 1, i - 1)
           right == SubSeq(q, i + 1, Len(q))
<1>1. Len(q) \in Nat /\ i \in Int /\ 1 <= i /\ i <= Len(q)
  OBVIOUS
<1>2. \A j \in 1..Len(q) : q[j] \in Nat
  OBVIOUS
<1>3. left \in Seq(Nat) /\ Len(left) = i - 1 /\ \A j \in 1..(i - 1) : left[j] = q[j]
  <2>1. i - 1 \in Int /\ \A j \in 1..(i - 1) : j \in 1..Len(q) /\ 1 + j - 1 = j
    BY <1>1
  <2>2. \A j \in 1..(i - 1) : q[j] \in Nat
    BY <1>2, <2>1
  <2>3. /\ left \in Seq(Nat) /\ Len(left) = IF 1 <= i - 1 THEN (i - 1) - 1 + 1 ELSE 0
        /\ \A j \in 1..((i - 1) - 1 + 1) : left[j] = q[1 + j - 1]
    BY <2>1, <2>2, SubSeqProperties
  <2>4. Len(left) = i - 1 /\ (i - 1) - 1 + 1 = i - 1
    BY <1>1, <2>3
  <2> QED
    BY <2>1, <2>3, <2>4
<1>4. right \in Seq(Nat) /\ Len(right) = Len(q) - i
      /\ \A j \in 1..(Len(q) - i) : right[j] = q[i + j]
  <2>1. i + 1 \in Int /\ Len(q) \in Int /\ (\A j \in (i + 1)..Len(q) : j \in 1..Len(q))
        /\ \A j \in 1..(Len(q) - i) : i + 1 + j - 1 = i + j
    BY <1>1
  <2>2. \A j \in (i + 1)..Len(q) : q[j] \in Nat
    BY <1>2, <2>1
  <2>3. /\ right \in Seq(Nat) /\ Len(right) = IF i + 1 <= Len(q) THEN Len(q) - (i + 1) + 1 ELSE 0
        /\ \A j \in 1..(Len(q) - (i + 1) + 1) : right[j] = q[i + 1 + j - 1]
    BY <2>1, <2>2, SubSeqProperties
  <2>4. Len(right) = Len(q) - i /\ Len(q) - (i + 1) + 1 = Len(q) - i
    BY <1>1, <2>3
  <2> QED
    BY <2>1, <2>3, <2>4
<1>5. RemoveAt(q, i) = left \o right
  BY DEF RemoveAt
<1> HIDE DEF left, right
<1>6. /\ left \o right \in Seq(Nat) /\ Len(left \o right) = Len(left) + Len(right)
      /\ \A j \in 1..(Len(left) + Len(right)) :
            (left \o right)[j] = IF j <= Len(left) THEN left[j] ELSE right[j - Len(left)]
  BY <1>3, <1>4, ConcatProperties
<1>7. Len(left) + Len(right) = Len(q) - 1
  BY <1>1, <1>3, <1>4
<1>8. ASSUME NEW j \in 1..(Len(q) - 1)
      PROVE  (left \o right)[j] = IF j < i THEN q[j] ELSE q[j + 1]
  <2>1. (left \o right)[j] = IF j <= Len(left) THEN left[j] ELSE right[j - Len(left)]
    BY <1>6, <1>7
  <2>2. CASE j < i
    <3>1. j \in 1..(i - 1) /\ j <= Len(left)
      BY <1>1, <1>3, <2>2
    <3> QED
      BY <1>3, <2>1, <2>2, <3>1
  <2>3. CASE ~(j < i)
    <3> DEFINE d == j - Len(left)
    <3>0. Len(left) = i - 1 /\ j \in Int /\ i <= j /\ j <= Len(q) - 1
      BY <1>1, <1>3, <2>3
    <3>1. d \in 1..(Len(q) - i) /\ i + d = j + 1 /\ ~(j <= Len(left))
      BY <1>1, <3>0
    <3>2. (left \o right)[j] = right[d]
      BY <2>1, <3>1
    <3> HIDE DEF d
    <3> QED
      BY <1>4, <2>3, <3>1, <3>2
  <2> QED
    BY <2>2, <2>3
<1> QED
  BY <1>5, <1>6, <1>7, <1>8

\* The elements of a list of secrets.
LEMMA SeqFields ==
    ASSUME NEW q \in Seq(Nat)
    PROVE  /\ DOMAIN q = 1..Len(q) /\ Len(q) \in Nat /\ \A i \in 1..Len(q) : q[i] \in Nat
           /\ ToSet(q) = {q[i] : i \in 1..Len(q)}
<1>1. DOMAIN q = 1..Len(q) /\ Len(q) \in Nat /\ \A i \in 1..Len(q) : q[i] \in Nat
  OBVIOUS
<1> QED
  BY <1>1 DEF ToSet

\* RemoveAt loses at most the element at the index.
LEMMA RemoveAtKeeps ==
    ASSUME NEW q \in Seq(Nat), NEW i \in 1..Len(q)
    PROVE  ToSet(q) \ {q[i]} \subseteq ToSet(RemoveAt(q, i))
<1> DEFINE r == RemoveAt(q, i)
<1>1. r \in Seq(Nat) /\ Len(r) = Len(q) - 1 /\ Len(q) \in Nat
      /\ \A j \in 1..(Len(q) - 1) : r[j] = IF j < i THEN q[j] ELSE q[j + 1]
  BY RemoveAtFields
<1> HIDE DEF r
<1>2. ToSet(q) = {q[j] : j \in 1..Len(q)} /\ ToSet(r) = {r[j] : j \in 1..(Len(q) - 1)}
  BY <1>1, SeqFields
<1>3. ASSUME NEW x \in ToSet(q), x # q[i] PROVE x \in ToSet(r)
  <2>1. PICK j \in 1..Len(q) : x = q[j]
    BY <1>2
  <2>2. j # i
    BY <1>3, <2>1
  <2>3. CASE j < i
    <3>1. j \in 1..(Len(q) - 1)
      BY <1>1, <2>3
    <3> QED
      BY <1>1, <1>2, <2>1, <2>3, <3>1
  <2>4. CASE j > i
    <3> DEFINE d == j - 1
    <3>1. d \in 1..(Len(q) - 1) /\ ~(d < i) /\ d + 1 = j
      BY <1>1, <2>4
    <3> HIDE DEF d
    <3> QED
      BY <1>1, <1>2, <2>1, <3>1
  <2> QED
    BY <1>1, <2>2, <2>3, <2>4
<1> QED
  BY <1>3 DEF r

\* Removing a security key keeps every slot but that one's.
LEMMA RemovePasskeyFields ==
    ASSUME NEW ks \in Keystores, ks.version = 3, NEW i \in 1..Len(ks.body.keys)
    PROVE  /\ RemovePasskey(ks, i) \in Keystores /\ RemovePasskey(ks, i).version = 3
           /\ RemovePasskey(ks, i).body = [ks.body EXCEPT !.keys = RemoveAt(@, i)]
           /\ RemovePasskey(ks, i).body.device = ks.body.device
           /\ RemovePasskey(ks, i).body.keys = RemoveAt(ks.body.keys, i)
           /\ ToSet(ks.body.keys) \ {ks.body.keys[i]}
                 \subseteq ToSet(RemovePasskey(ks, i).body.keys)
<1> DEFINE body == [ks.body EXCEPT !.keys = RemoveAt(@, i)]
<1>1. ks.body.keys \in Seq(Nat) /\ ks.body \in Bodies
  BY KeystoreFields
<1>2. RemoveAt(ks.body.keys, i) \in Seq(Nat)
      /\ ToSet(ks.body.keys) \ {ks.body.keys[i]} \subseteq ToSet(RemoveAt(ks.body.keys, i))
  BY <1>1, RemoveAtFields, RemoveAtKeeps
<1>3. body \in Bodies /\ body.keys = RemoveAt(ks.body.keys, i) /\ body.device = ks.body.device
  BY <1>1, <1>2 DEF Bodies
<1> HIDE DEF body
<1>4. Advanced(ks, body) \in Keystores /\ Advanced(ks, body).version = 3
      /\ Advanced(ks, body).body = body
  BY <1>3, AdvancedFields
<1>5. RemovePasskey(ks, i) = Advanced(ks, body)
  BY DEF RemovePasskey, body
<1> QED
  BY <1>2, <1>3, <1>4, <1>5 DEF body

\* The device slot is set or emptied and the security keys stay.
LEMMA DeviceFields ==
    ASSUME NEW ks \in Keystores, ks.version = 3
    PROVE  /\ RemoveDeviceToken(ks) \in Keystores /\ RemoveDeviceToken(ks).version = 3
           /\ RemoveDeviceToken(ks).body.keys = ks.body.keys
           /\ \A t \in Nat : /\ SetDeviceToken(ks, t) \in Keystores
                             /\ SetDeviceToken(ks, t).version = 3
                             /\ SetDeviceToken(ks, t).body.keys = ks.body.keys
                             /\ SetDeviceToken(ks, t).body.device = t
<1>1. ks.body \in Bodies
  BY KeystoreFields
<1>2. ASSUME NEW t \in Nat \cup {NoSecret}
      PROVE  LET body == [ks.body EXCEPT !.device = t] IN
             /\ Advanced(ks, body) \in Keystores /\ Advanced(ks, body).version = 3
             /\ Advanced(ks, body).body.keys = ks.body.keys
             /\ Advanced(ks, body).body.device = t
  <2> DEFINE body == [ks.body EXCEPT !.device = t]
  <2>1. body \in Bodies /\ body.keys = ks.body.keys /\ body.device = t
    BY <1>1 DEF Bodies
  <2> HIDE DEF body
  <2>2. Advanced(ks, body) \in Keystores /\ Advanced(ks, body).version = 3
        /\ Advanced(ks, body).body = body
    BY <2>1, AdvancedFields
  <2> QED
    BY <2>1, <2>2 DEF body
<1> QED
  BY <1>2 DEF RemoveDeviceToken, SetDeviceToken

\* An older keystore gets a state and keeps its slots.
LEMMA RecoverLegacyFields ==
    ASSUME NEW ks \in Keystores, fresh \in Nat
    PROVE  /\ RecoverLegacy(ks) \in Keystores /\ RecoverLegacy(ks).version = 3
           /\ RecoverLegacy(ks).body.keys = ks.body.keys
           /\ RecoverLegacy(ks).body.device = ks.body.device
<1> DEFINE body == IF ks.version = 1 THEN [ks.body EXCEPT !.dek = fresh] ELSE ks.body
<1>1. ks.body \in Bodies
  BY KeystoreFields
<1>2. body \in Bodies /\ body.keys = ks.body.keys /\ body.device = ks.body.device
  BY <1>1 DEF Bodies
<1>3. RecoverLegacy(ks) = Sealed(body, NoAnchor)
  BY DEF RecoverLegacy
<1> HIDE DEF body
<1> QED
  BY <1>2, <1>3, SealedType

-----------------------------------------------------------------------------------
(* What the steps that several actions share do to the directory, the keychain and   *)
(* the job.                                                                          *)

\* The fields of what the type invariant speaks of.
LEMMA Fields ==
    ASSUME TypeOK
    PROVE  /\ dir.ks \in Keystores \cup {NoKeystore} /\ dir.pending \in BOOLEAN
           /\ dir.marker \in {"none", "secure", "degraded", "malformed"}
           /\ dir.file \in Anchors \cup {NoAnchor}
           /\ keychain.root \in {"none", "legacy", "current"}
           /\ keychain.legacy \in Anchors \cup {NoAnchor}
           /\ keychain.anchor \in Anchors \cup {NoAnchor}
           /\ keychain.token \in Nat \cup {NoSecret}
           /\ app.screen \in Screens /\ app.backend \in {"secure", "file"}
           /\ app.launch \in BOOLEAN /\ app.legacy \in BOOLEAN
           /\ app.keys \in Seq(Nat) /\ app.owner \in Nat /\ app.auto \in BOOLEAN
  BY DEF TypeOK, Directories, Keychains, Apps

\* The fields of a running job.
LEMMA JobFields ==
    ASSUME TypeOK, ~Idle
    PROVE  /\ job \in RunningJobs /\ job.kind \in Kinds
           /\ job.ks \in Keystores \cup {NoKeystore}
           /\ job.secret \in Nat \cup {NoSecret} /\ job.right \in BOOLEAN
  BY DEF TypeOK, Idle, RunningJobs

\* A job is started.
LEMMA NewJobFields ==
    ASSUME NEW kind \in Kinds, NEW secret, secret \in Nat \/ secret = NoSecret,
           NEW right \in BOOLEAN, NEW started, started = NewJob(kind, "load", secret, right)
    PROVE  /\ started \in RunningJobs /\ started # NoJob /\ started.kind = kind
           /\ started.pc = "load" /\ started.secret = secret
<1>1. started \in RunningJobs
  BY DEF NewJob, RunningJobs
<1> QED
  BY <1>1, KeystoreAssumption DEF NewJob

\* A job goes on to another step.
LEMMA GotoFields ==
    ASSUME TypeOK, ~Idle, NEW pc \in {"save", "anchor", "token", "clear", "confirm", "root", "marker"},
           NEW ks \in Keystores \cup {NoKeystore}, Goto(pc, ks)
    PROVE  /\ job' \in RunningJobs /\ job' # NoJob /\ job'.kind = job.kind /\ job'.pc = pc
           /\ job'.ks = ks /\ job'.secret = job.secret
<1>1. job \in RunningJobs
  BY JobFields
<1>2. job' \in RunningJobs
  BY <1>1 DEF Goto, RunningJobs
<1> QED
  BY <1>1, <1>2, KeystoreAssumption DEF Goto, RunningJobs

\* Store::put_anchor_locked writes the record of the backend in use and nothing else.
LEMMA PutAnchorEffect ==
    ASSUME TypeOK, NEW s \in States, NEW d \in Directories, PutAnchor(s, d)
    PROVE  /\ dir' \in Directories /\ keychain' \in Keychains
           /\ dir'.ks = d.ks /\ dir'.marker = d.marker
           /\ keychain'.root = keychain.root /\ keychain'.legacy = keychain.legacy
           /\ keychain'.token = keychain.token
           /\ Chain!FromMetadata(s) \in Anchors /\ Chain!FromMetadata(s) # NoAnchor
           /\ app.backend = "secure" => keychain'.anchor = Chain!FromMetadata(s) /\ dir' = d
           /\ app.backend = "file" => dir'.file = Chain!FromMetadata(s) /\ keychain' = keychain
<1>1. Chain!FromMetadata(s) \in Anchors /\ Chain!FromMetadata(s) # NoAnchor
  BY CurrentFits, KeystoreAssumption
<1>2. keychain \in Keychains /\ app.backend \in {"secure", "file"}
  BY Fields DEF TypeOK
<1>3. CASE app.backend = "secure"
  BY <1>1, <1>2, <1>3 DEF PutAnchor, Keychains
<1>4. CASE app.backend = "file"
  BY <1>1, <1>2, <1>4 DEF PutAnchor, Directories
<1> QED
  BY <1>2, <1>3, <1>4

\* Store::load_keystore: the file is kept and the anchor follows it, or the file goes to
\* quarantine.
LEMMA LoadEffect ==
    ASSUME TypeOK, NEW answered \in BOOLEAN, LoadKeystore(answered)
    PROVE  /\ dir' \in Directories /\ keychain' \in Keychains
           /\ dir'.marker = dir.marker
           /\ keychain'.root = keychain.root /\ keychain'.legacy = keychain.legacy
           /\ keychain'.token = keychain.token
           /\ Verdict(answered) # "refused" => dir'.ks = dir.ks
           /\ Verdict(answered) = "refused" =>
                 /\ dir'.ks = NoKeystore /\ Protected
                 /\ ~answered \/ ~Accepts(dir.ks.state)
           /\ Verdict(answered) = "loaded" => Protected /\ Accepts(dir.ks.state)
           /\ Verdict(answered) \in {"missing", "legacy", "loaded", "refused"}
           /\ Verdict(answered) = "legacy" => dir.ks \in Keystores /\ dir.ks.version # 3
           /\ \/ keychain' = keychain /\ dir'.file = dir.file
              \/ /\ app.backend = "secure" /\ Protected /\ dir'.file = dir.file
                 /\ keychain.anchor # NoAnchor
                 /\ keychain'.anchor = Chain!FromMetadata(dir.ks.state)
                 /\ Chain!FromMetadata(dir.ks.state) \in Anchors
              \/ /\ app.backend = "file" /\ Protected /\ keychain' = keychain
                 /\ dir.file # NoAnchor
                 /\ dir'.file = Chain!FromMetadata(dir.ks.state)
                 /\ Chain!FromMetadata(dir.ks.state) \in Anchors
           /\ intact' = (intact /\ answered) /\ faults' \in Nat
<1>0. /\ dir \in Directories /\ keychain \in Keychains
      /\ dir.ks \in Keystores \cup {NoKeystore} /\ app.backend \in {"secure", "file"}
  BY Fields DEF TypeOK
<1>1. intact' = (intact /\ answered) /\ faults' \in Nat
  BY DEF LoadKeystore, Count, TypeOK
<1>2. /\ Verdict(answered) \in {"missing", "legacy", "loaded", "refused"}
      /\ Verdict(answered) = "refused" => Protected /\ (~answered \/ ~Accepts(dir.ks.state))
      /\ Verdict(answered) = "loaded" => Protected /\ Accepts(dir.ks.state)
      /\ Verdict(answered) = "legacy" => dir.ks \in Keystores /\ dir.ks.version # 3
  BY <1>0 DEF Verdict, Protected
<1>3. CASE Verdict(answered) = "refused" /\ Quarantine
  <2>1. dir' \in Directories /\ dir'.ks = NoKeystore /\ dir'.marker = dir.marker
        /\ dir'.file = dir.file /\ keychain' = keychain
    BY <1>0, <1>3 DEF Quarantine, Directories
  <2> QED
    BY <1>0, <1>1, <1>2, <1>3, <2>1
<1>4. CASE /\ Verdict(answered) = "loaded" /\ Anchor # NoAnchor
           /\ PutAnchor(dir.ks.state, dir)
  <2>1. dir.ks.state \in States
    BY <1>0, <1>2, <1>4, KeystoreFields DEF Protected
  <2> QED
    BY <1>0, <1>1, <1>2, <1>4, <2>1, PutAnchorEffect DEF Anchor
<1>5. CASE /\ Verdict(answered) \in {"missing", "legacy", "loaded"}
           /\ UNCHANGED <<dir, keychain>>
  BY <1>0, <1>1, <1>2, <1>5
<1> QED
  BY <1>3, <1>4, <1>5 DEF LoadKeystore

-----------------------------------------------------------------------------------
(* What each action that starts a job does.                                          *)

\* A keystore for an identity with nothing but its passphrase slot.
LEMMA NewKeystoreEffect ==
    ASSUME NEW owner \in Nat, fresh \in Nat, NewKeystore(owner)
    PROVE  /\ job' \in RunningJobs /\ job' # NoJob /\ job'.kind = "create" /\ job'.pc = "save"
           /\ job'.ks \in Keystores /\ job'.ks.version = 3
<1> DEFINE body == Body(owner, fresh, << >>, NoSecret)
<1>1. body \in Bodies
  BY DEF Body, Bodies
<1> HIDE DEF body
<1>2. Sealed(body, NoAnchor) \in Keystores /\ Sealed(body, NoAnchor).version = 3
  BY <1>1, SealedType
<1>3. PICK right \in BOOLEAN :
        job' = [NewJob("create", "save", owner, right) EXCEPT !.ks = Sealed(body, NoAnchor)]
  BY DEF NewKeystore, body
<1> DEFINE ks == Sealed(body, NoAnchor)
<1> HIDE DEF ks
<1>4. job' = [kind |-> "create", pc |-> "save", ks |-> ks, secret |-> owner, right |-> right]
  BY <1>3 DEF NewJob, ks
<1>5. job' \in RunningJobs
  BY <1>2, <1>4 DEF RunningJobs, Kinds, ks
<1>6. job' # NoJob
  BY <1>5, KeystoreAssumption
<1> QED
  BY <1>2, <1>4, <1>5, <1>6 DEF ks

\* App::spawn_create_identity.
LEMMA CreateIdentityEffect ==
    ASSUME TypeOK, CreateIdentity
    PROVE  /\ app.screen = "first" /\ Idle
           /\ job' \in RunningJobs /\ job' # NoJob /\ job'.kind = "create" /\ job'.pc = "save"
           /\ job'.ks \in Keystores /\ job'.ks.version = 3 /\ fresh' \in Nat /\ fresh' # 0
           /\ UNCHANGED <<dir, app, enrolled, keychain, copy, faults, damage, moves, revoked, trusted, intact>>
<1>1. NewKeystore(fresh) /\ fresh \in Nat /\ fresh \in Nat
  BY DEF CreateIdentity, TypeOK
<1>2. app.screen = "first" /\ Idle /\ UNCHANGED <<dir, app, enrolled>> /\ Spawned
      /\ fresh' \in Nat /\ fresh' # 0
  BY DEF CreateIdentity, TypeOK
<1> QED
  BY <1>1, <1>2, NewKeystoreEffect DEF Spawned

\* App::spawn_restore_identity.
LEMMA RestoreIdentityEffect ==
    ASSUME TypeOK, RestoreIdentity
    PROVE  /\ app.screen = "first" /\ Idle
           /\ job' \in RunningJobs /\ job' # NoJob /\ job'.kind = "create" /\ job'.pc = "save"
           /\ job'.ks \in Keystores /\ job'.ks.version = 3 /\ fresh' \in Nat /\ fresh' # 0
           /\ UNCHANGED <<dir, app, enrolled, keychain, copy, faults, damage, moves, revoked, trusted, intact>>
<1>1. NewKeystore(Exported) /\ Exported \in Nat /\ fresh \in Nat
  BY DEF RestoreIdentity, TypeOK, Exported
<1>2. app.screen = "first" /\ Idle /\ UNCHANGED <<dir, app, enrolled>> /\ Spawned
      /\ fresh' \in Nat /\ fresh' # 0
  BY DEF RestoreIdentity, TypeOK
<1> QED
  BY <1>1, <1>2, NewKeystoreEffect DEF Spawned

\* App::spawn_unlock.
LEMMA UnlockPassphraseEffect ==
    ASSUME TypeOK, UnlockPassphrase
    PROVE  /\ app.screen = "unlock" /\ Idle
           /\ job' \in RunningJobs /\ job' # NoJob /\ job'.kind = "unlock" /\ job'.pc = "load"
           /\ dir' \in Directories /\ dir'.ks = dir.ks /\ dir'.marker = dir.marker /\ dir'.file = dir.file
           /\ app' \in Apps /\ app'.screen = app.screen /\ app'.backend = app.backend
           /\ UNCHANGED <<fresh, enrolled, keychain, copy, faults, damage, moves, revoked, trusted, intact>>
<1>1. PICK right \in BOOLEAN : job' = NewJob("unlock", "load", NoSecret, right)
  BY DEF UnlockPassphrase
<1>3. app.screen = "unlock" /\ Idle
  BY DEF UnlockPassphrase
<1>4. job' \in RunningJobs /\ job' # NoJob /\ job'.kind = "unlock" /\ job'.pc = "load"
      /\ job'.secret = NoSecret /\ NoSecret \in Nat \cup {NoSecret}
  <2>1. NoSecret \in Nat \/ NoSecret = NoSecret
    BY Fields, <1>1
  <2> QED
    BY <1>1, <2>1, NewJobFields DEF Kinds
<1> QED
  BY <1>1, <1>3, <1>4, Fields DEF UnlockPassphrase, TypeOK, Directories, Apps, Spawned

\* App::spawn_unlock_passkey.
LEMMA UnlockPasskeyEffect ==
    ASSUME TypeOK, UnlockPasskey
    PROVE  /\ app.screen = "unlock" /\ Idle
           /\ job' \in RunningJobs /\ job' # NoJob /\ job'.kind = "passkey" /\ job'.pc = "load"
           /\ app' \in Apps /\ app'.screen = app.screen /\ app'.backend = app.backend
           /\ UNCHANGED <<dir, fresh, enrolled, keychain, copy, faults, damage, moves, revoked, trusted, intact>>
<1>0. PICK credential \in Nat : \E right \in BOOLEAN : job' = NewJob("passkey", "load", credential, right)
  BY DEF UnlockPasskey, TypeOK, Held
<1>1. PICK right \in BOOLEAN : job' = NewJob("passkey", "load", credential, right)
  BY <1>0 DEF UnlockPasskey
<1>3. app.screen = "unlock" /\ Idle
  BY DEF UnlockPasskey
<1>4. job' \in RunningJobs /\ job' # NoJob /\ job'.kind = "passkey" /\ job'.pc = "load"
      /\ job'.secret = credential /\ credential \in Nat \cup {NoSecret}
  <2>1. credential \in Nat \/ credential = NoSecret
    BY Fields, <1>1
  <2> QED
    BY <1>1, <2>1, NewJobFields DEF Kinds
<1> QED
  BY <1>1, <1>3, <1>4, Fields DEF UnlockPasskey, TypeOK, Apps, Spawned

\* App::spawn_unlock_keyring.
LEMMA UnlockKeyringEffect ==
    ASSUME TypeOK, UnlockKeyring
    PROVE  /\ app.screen = "unlock" /\ Idle
           /\ \/ job' = NoJob
              \/ /\ job' \in RunningJobs /\ job' # NoJob /\ job'.kind = "keyring" /\ job'.pc = "load"
                 /\ job'.secret = keychain.token /\ keychain.token # NoSecret
           /\ app' \in Apps /\ app'.screen = app.screen /\ app'.backend = app.backend
           /\ UNCHANGED <<dir, fresh, enrolled, keychain, copy, faults, damage, moves, revoked, trusted, intact>>
<1>1. CASE job' = NoJob
  BY <1>1, Fields DEF UnlockKeyring, TypeOK, Apps, Spawned
<1>2. CASE keychain.token # NoSecret /\ job' = NewJob("keyring", "load", keychain.token, TRUE)
  <2>0. PICK right \in BOOLEAN : job' = NewJob("keyring", "load", keychain.token, right)
    BY <1>2
  <2>2. keychain.token \in Nat \/ keychain.token = NoSecret
    BY Fields
  <2>3. job' \in RunningJobs /\ job' # NoJob /\ job'.kind = "keyring" /\ job'.pc = "load"
        /\ job'.secret = keychain.token
    <3> HIDE DEF NewJob
    <3> QED
      BY <2>0, <2>2, NewJobFields DEF Kinds
  <2> QED
    BY <1>2, <2>3, Fields DEF UnlockKeyring, TypeOK, Apps, Spawned
<1> QED
  BY <1>1, <1>2 DEF UnlockKeyring

\* App::spawn_add_passkey.
LEMMA EnrollPasskeyEffect ==
    ASSUME TypeOK, EnrollPasskey
    PROVE  /\ app.screen = "session" /\ Idle
           /\ job' \in RunningJobs /\ job' # NoJob /\ job'.kind = "add" /\ job'.pc = "load"
           /\ job'.secret = fresh /\ fresh' \in Nat /\ fresh' # 0
           /\ UNCHANGED <<dir, app, enrolled, keychain, copy, faults, damage, moves, revoked, trusted, intact>>
<1>1. PICK right \in BOOLEAN : job' = NewJob("add", "load", fresh, right) /\ fresh \in Nat
  BY DEF EnrollPasskey, NewCredential, TypeOK
<1>3. app.screen = "session" /\ Idle
  BY DEF EnrollPasskey
<1>4. job' \in RunningJobs /\ job' # NoJob /\ job'.kind = "add" /\ job'.pc = "load"
      /\ job'.secret = fresh /\ fresh \in Nat \cup {NoSecret}
  <2>1. fresh \in Nat \/ fresh = NoSecret
    BY Fields, <1>1
  <2> QED
    BY <1>1, <2>1, NewJobFields DEF Kinds
<1> QED
  BY <1>1, <1>3, <1>4, Fields DEF EnrollPasskey, TypeOK, Spawned

\* App::spawn_remove_passkey.
LEMMA DropPasskeyEffect ==
    ASSUME TypeOK, DropPasskey
    PROVE  /\ app.screen = "session" /\ Idle
           /\ job' \in RunningJobs /\ job' # NoJob /\ job'.kind = "remove" /\ job'.pc = "load"
           /\ job'.secret \in Nat /\ job'.secret # 0
           /\ UNCHANGED <<dir, app, fresh, enrolled, keychain, copy, faults, damage, moves, revoked, trusted, intact>>
<1>0. DOMAIN app.keys \subseteq Nat \ {0}
  <2>1. app.keys \in Seq(Nat)
    BY Fields
  <2>2. DOMAIN app.keys = 1..Len(app.keys) /\ Len(app.keys) \in Nat
    BY <2>1
  <2> QED
    BY <2>2
<1>2. PICK index \in Nat : index # 0 /\ \E right \in BOOLEAN : job' = NewJob("remove", "load", index, right)
  BY <1>0 DEF DropPasskey
<1>1. PICK right \in BOOLEAN : job' = NewJob("remove", "load", index, right)
  BY <1>2 
<1>3. app.screen = "session" /\ Idle
  BY DEF DropPasskey
<1>4. job' \in RunningJobs /\ job' # NoJob /\ job'.kind = "remove" /\ job'.pc = "load"
      /\ job'.secret = index /\ index \in Nat \cup {NoSecret}
  <2>1. index \in Nat \/ index = NoSecret
    BY Fields, <1>1
  <2> QED
    BY <1>1, <2>1, NewJobFields DEF Kinds
<1> QED
  BY <1>1, <1>2, <1>3, <1>4, Fields DEF DropPasskey, TypeOK, Spawned

\* App::spawn_enable_auto_unlock.
LEMMA EnableAutoUnlockEffect ==
    ASSUME TypeOK, EnableAutoUnlock
    PROVE  /\ app.screen = "session" /\ Idle
           /\ job' \in RunningJobs /\ job' # NoJob /\ job'.kind = "enable" /\ job'.pc = "load"
           /\ job'.secret = fresh /\ fresh' \in Nat /\ fresh' # 0
           /\ enrolled' = enrolled \ {keychain.token}
           /\ UNCHANGED <<dir, app, keychain, copy, faults, damage, moves, revoked, trusted, intact>>
<1>1. PICK right \in BOOLEAN : job' = NewJob("enable", "load", fresh, right) /\ fresh \in Nat
  BY DEF EnableAutoUnlock, TypeOK
<1>3. app.screen = "session" /\ Idle
  BY DEF EnableAutoUnlock
<1>4. job' \in RunningJobs /\ job' # NoJob /\ job'.kind = "enable" /\ job'.pc = "load"
      /\ job'.secret = fresh /\ fresh \in Nat \cup {NoSecret}
  <2>1. fresh \in Nat \/ fresh = NoSecret
    BY Fields, <1>1
  <2> QED
    BY <1>1, <2>1, NewJobFields DEF Kinds
<1> QED
  BY <1>1, <1>3, <1>4, Fields DEF EnableAutoUnlock, TypeOK, Spawned

\* App::spawn_disable_auto_unlock.
LEMMA DisableAutoUnlockEffect ==
    ASSUME TypeOK, DisableAutoUnlock
    PROVE  /\ app.screen = "session" /\ Idle
           /\ job' \in RunningJobs /\ job' # NoJob /\ job'.kind = "disable" /\ job'.pc = "load"
           /\ enrolled' = enrolled \ {keychain.token}
           /\ UNCHANGED <<dir, app, fresh, keychain, copy, faults, damage, moves, revoked, trusted, intact>>
<1>1. PICK right \in BOOLEAN : job' = NewJob("disable", "load", keychain.token, right)
  BY DEF DisableAutoUnlock
<1>2. keychain.token \in Nat \cup {NoSecret}
  BY Fields
<1>3. app.screen = "session" /\ Idle
  BY DEF DisableAutoUnlock
<1>4. job' \in RunningJobs /\ job' # NoJob /\ job'.kind = "disable" /\ job'.pc = "load"
      /\ job'.secret = keychain.token /\ keychain.token \in Nat \cup {NoSecret}
  <2>1. keychain.token \in Nat \/ keychain.token = NoSecret
    BY Fields, <1>1
  <2> QED
    BY <1>1, <2>1, NewJobFields DEF Kinds
<1> QED
  BY <1>1, <1>3, <1>4, Fields DEF DisableAutoUnlock, TypeOK, Spawned

\* App::spawn_recover_anchors.
LEMMA RecoverAnchorsEffect ==
    ASSUME TypeOK, RecoverAnchors
    PROVE  /\ app.screen = "recover" /\ Idle /\ Protected
           /\ job' \in RunningJobs /\ job' # NoJob /\ job'.kind = "recover" /\ job'.pc = "reanchor"
           /\ job'.ks = dir.ks /\ dir.ks \in Keystores /\ dir.ks.version = 3
           /\ app' \in Apps /\ app'.screen = app.screen
           /\ \/ app'.backend = "secure" /\ intact' = intact /\ moves' = moves /\ faults' = faults
              \/ app'.backend = "file" /\ ~intact' /\ moves' = moves + 1 /\ faults' = faults + 1
           /\ ~trusted' /\ trusted' \in BOOLEAN /\ intact' \in BOOLEAN
           /\ UNCHANGED <<dir, keychain, copy, fresh, damage, enrolled, revoked>>
<1>1. app.screen = "recover" /\ Idle /\ Protected /\ dir.ks \in Keystores /\ dir.ks.version = 3
  BY Fields DEF RecoverAnchors, Protected
<1>2. PICK right \in BOOLEAN :
        job' = [NewJob("recover", "reanchor", NoSecret, right) EXCEPT !.ks = dir.ks]
  BY DEF RecoverAnchors
<1>3. job' \in RunningJobs /\ job' # NoJob /\ job'.kind = "recover" /\ job'.pc = "reanchor"
      /\ job'.ks = dir.ks
  <2>1. job' = [kind |-> "recover", pc |-> "reanchor", ks |-> dir.ks, secret |-> NoSecret,
                right |-> right]
    BY <1>2 DEF NewJob
  <2>2. job' \in RunningJobs
    BY <1>1, <2>1 DEF RunningJobs, Kinds
  <2>3. job' # NoJob
    BY <2>2, KeystoreAssumption
  <2> QED
    BY <2>1, <2>2, <2>3
<1>4. PICK answered \in BOOLEAN :
        /\ moves' = IF answered THEN moves ELSE moves + 1
        /\ faults' = IF answered THEN faults ELSE faults + 1
        /\ app' = [app EXCEPT !.backend = IF answered THEN "secure" ELSE "file"]
        /\ intact' = (intact /\ answered)
  BY DEF RecoverAnchors, Answers, Count
<1>5. intact \in BOOLEAN /\ app \in Apps
  BY DEF TypeOK
<1>6. trusted' = FALSE /\ UNCHANGED <<dir, keychain, copy, fresh, damage, enrolled, revoked>>
  BY DEF RecoverAnchors
<1>8. ~trusted' /\ trusted' \in BOOLEAN
  BY <1>6
<1>9. intact' \in BOOLEAN
  BY <1>4, <1>5
<1>7. app' \in Apps /\ app'.screen = app.screen
      /\ app'.backend = IF answered THEN "secure" ELSE "file"
  BY <1>4, <1>5 DEF Apps
<1> QED
  BY <1>1, <1>3, <1>4, <1>5, <1>6, <1>7, <1>8, <1>9

-----------------------------------------------------------------------------------
(* What each step of the start-up and of a job does.                                 *)

\* Whether a call answers is a Boolean, and failures are counted.
LEMMA AnswersBoolean ==
    /\ Answers \subseteq BOOLEAN /\ AnchorAnswers \subseteq BOOLEAN
  BY DEF Answers, AnchorAnswers

\* A failure is counted, a call that answers is not.
LEMMA CountNat ==
    ASSUME TypeOK, NEW ok, Count(ok)
    PROVE  faults' \in Nat /\ (~ok => faults' # faults) /\ (ok => faults' = faults)
<1>1. faults \in Nat
  BY DEF TypeOK
<1> QED
  BY <1>1 DEF Count

\* Store::at_with_secure_storage: the probe, the choice of the backend and its root record.
LEMMA StartEffect ==
    ASSUME TypeOK, Start
    PROVE  /\ app.screen = "down"
           /\ keychain' \in Keychains /\ keychain'.legacy = keychain.legacy
           /\ keychain'.anchor = keychain.anchor /\ keychain'.token = keychain.token
           /\ \/ keychain'.root = keychain.root
              \/ keychain.root = "none" /\ keychain'.root = "current"
           /\ app' \in Apps /\ app'.screen \in {"recover", "probed"}
           /\ app'.screen = "probed" =>
                 \/ app'.backend = "secure" /\ keychain'.root # "none"
                 \/ /\ app'.backend = "file"
                    /\ keychain.root = "none" \/ faults' # faults
                    /\ \/ dir.marker = "degraded"
                       \/ dir.marker = "none" /\ (dir.file # NoAnchor \/ ~Protected)
                       \/ dir.marker = "secure" /\ keychain.root = "none" /\ ~Protected
           /\ app'.screen = "recover" =>
                 \/ dir.marker \in {"secure", "malformed"}
                 \/ dir.marker = "none" /\ Protected
           /\ trusted' \in BOOLEAN /\ faults' \in Nat
           /\ UNCHANGED <<dir, copy, job, fresh, damage, moves, enrolled, revoked, intact>>
<1>1. PICK answered \in BOOLEAN, saved \in BOOLEAN : Chosen(answered, saved)
  BY AnswersBoolean DEF Start
<1> DEFINE probe == Probe(answered)
           choice == SelectBackend(probe)
           backend == Established(choice, probe, saved)
<1>2. /\ app.screen = "down"
      /\ UNCHANGED <<dir, copy, job, fresh, damage, moves, enrolled, revoked, intact>>
  BY DEF Start
<1>3. /\ dir.marker \in {"none", "secure", "degraded", "malformed"}
      /\ keychain.root \in {"none", "legacy", "current"} /\ app \in Apps /\ keychain \in Keychains
      /\ trusted \in BOOLEAN /\ Protected \in BOOLEAN
  BY Fields DEF TypeOK, Protected
<1>4. /\ probe \in {"established", "unreachable", "empty"}
      /\ probe = "established" => answered /\ keychain.root # "none"
      /\ probe = "empty" => answered /\ keychain.root = "none"
      /\ probe = "unreachable" => ~answered
  BY <1>3 DEF Probe
<1> HIDE DEF probe
<1>5. /\ choice \in {"secure", "recover", "file"}
      /\ choice = "secure" => probe \in {"established", "empty"}
      /\ probe = "established" => choice = "secure"
      /\ choice = "recover" => \/ dir.marker \in {"secure", "malformed"}
                               \/ dir.marker = "none" /\ Protected
      /\ choice = "file" => \/ dir.marker = "degraded"
                            \/ dir.marker = "none" /\ (dir.file # NoAnchor \/ ~Protected)
      /\ choice = "secure" /\ probe = "empty" =>
            \/ dir.marker = "secure" /\ ~Protected
            \/ dir.marker = "none" /\ dir.file = NoAnchor
  <2>1. CASE dir.marker = "none"
    BY <1>3, <1>4, <2>1 DEF SelectBackend
  <2>2. CASE dir.marker = "secure"
    BY <1>3, <1>4, <2>2 DEF SelectBackend
  <2>3. CASE dir.marker = "degraded"
    BY <1>3, <1>4, <2>3 DEF SelectBackend
  <2>4. CASE dir.marker = "malformed"
    BY <1>3, <1>4, <2>4 DEF SelectBackend
  <2> QED
    BY <1>3, <2>1, <2>2, <2>3, <2>4
<1> HIDE DEF choice
<1>6. /\ backend \in {"secure", "recover", "file"}
      /\ backend = "secure" => choice = "secure" /\ (probe = "empty" => saved)
      /\ backend # choice => choice = "secure" /\ probe = "empty" /\ ~saved
      /\ backend # choice /\ backend = "recover" => Protected
      /\ backend # choice /\ backend = "file" => ~Protected
  BY <1>4, <1>5 DEF Established
<1>7. /\ keychain' = IF choice = "secure" /\ probe = "empty" /\ saved
                     THEN [keychain EXCEPT !.root = "current"] ELSE keychain
      /\ app' = IF backend = "recover" THEN [app EXCEPT !.screen = "recover"]
                ELSE [app EXCEPT !.screen = "probed", !.backend = backend, !.launch = TRUE]
      /\ trusted' = (trusted /\ backend # "file")
      /\ Count(answered /\ saved)
  BY <1>1 DEF Chosen, probe, choice, backend
<1> HIDE DEF backend
<1>8. /\ keychain' \in Keychains /\ keychain'.legacy = keychain.legacy
      /\ keychain'.anchor = keychain.anchor /\ keychain'.token = keychain.token
      /\ keychain'.root = IF choice = "secure" /\ probe = "empty" /\ saved
                          THEN "current" ELSE keychain.root
  BY <1>3, <1>7 DEF Keychains
<1>9. /\ app' \in Apps
      /\ app'.screen = IF backend = "recover" THEN "recover" ELSE "probed"
      /\ backend # "recover" => app'.backend = backend
  BY <1>3, <1>6, <1>7 DEF Apps, Screens
<1>10. faults' \in Nat /\ (~(answered /\ saved) => faults' # faults)
  BY <1>7, CountNat
<1>11. trusted' \in BOOLEAN
  BY <1>3, <1>7
<1> QED
  BY <1>2, <1>3, <1>4, <1>5, <1>6, <1>8, <1>9, <1>10, <1>11

\* Store::upgrade_secure_anchor_layout.
LEMMA UpgradeLayoutEffect ==
    ASSUME TypeOK, UpgradeLayout
    PROVE  /\ app.screen = "marked"
           /\ keychain' \in Keychains /\ keychain'.token = keychain.token
           /\ app' \in Apps /\ app'.backend = app.backend /\ app'.screen \in {"loading", "fatal"}
           /\ \/ keychain' = keychain /\ (app'.screen = "loading" =>
                                            app.backend # "secure" \/ keychain.root # "legacy")
              \/ /\ app.backend = "secure" /\ keychain.root = "legacy"
                 /\ keychain'.anchor = keychain.legacy /\ keychain'.root = "current"
              \/ /\ app.backend = "secure" /\ keychain.root = "legacy" /\ app'.screen = "fatal"
                 /\ keychain'.anchor = keychain.legacy /\ keychain'.root = "legacy"
                 /\ keychain'.legacy = keychain.legacy
           /\ trusted' \in BOOLEAN /\ faults' \in Nat
           /\ UNCHANGED <<dir, copy, job, fresh, damage, moves, enrolled, revoked, intact>>
<1>1. PICK put \in BOOLEAN, root \in BOOLEAN :
        LET legacy == app.backend = "secure" /\ keychain.root = "legacy"
        IN  /\ keychain' = IF ~legacy \/ ~put THEN keychain
                           ELSE IF root
                           THEN [keychain EXCEPT !.anchor = keychain.legacy, !.root = "current",
                                                 !.legacy = NoAnchor]
                           ELSE [keychain EXCEPT !.anchor = keychain.legacy]
            /\ app' = [app EXCEPT !.screen = IF put /\ root THEN "loading" ELSE "fatal"]
            /\ trusted' = (trusted \/ (legacy /\ put /\ root /\ intact))
            /\ Count(put /\ root)
  BY AnswersBoolean DEF UpgradeLayout
<1> DEFINE legacy == app.backend = "secure" /\ keychain.root = "legacy"
<1>2. /\ keychain' = IF ~legacy \/ ~put THEN keychain
                     ELSE IF root
                     THEN [keychain EXCEPT !.anchor = keychain.legacy, !.root = "current",
                                           !.legacy = NoAnchor]
                     ELSE [keychain EXCEPT !.anchor = keychain.legacy]
      /\ app' = [app EXCEPT !.screen = IF put /\ root THEN "loading" ELSE "fatal"]
      /\ trusted' = (trusted \/ (legacy /\ put /\ root /\ intact))
      /\ Count(put /\ root)
  BY <1>1
<1>3. /\ keychain \in Keychains /\ app \in Apps /\ trusted \in BOOLEAN
      /\ keychain.legacy \in Anchors \cup {NoAnchor}
  BY Fields DEF TypeOK
<1>4. /\ app.screen = "marked"
      /\ UNCHANGED <<dir, copy, job, fresh, damage, moves, enrolled, revoked, intact>>
  BY DEF UpgradeLayout
<1>5. faults' \in Nat /\ trusted' \in BOOLEAN
  BY <1>2, <1>3, CountNat
<1>6. app' \in Apps /\ app'.backend = app.backend
      /\ app'.screen = IF put /\ root THEN "loading" ELSE "fatal"
  BY <1>2, <1>3 DEF Apps, Screens
<1>7. CASE ~legacy \/ ~put
  BY <1>2, <1>3, <1>4, <1>5, <1>6, <1>7
<1>8. CASE legacy /\ put /\ root
  <2>1. /\ keychain' \in Keychains /\ keychain'.token = keychain.token
        /\ keychain'.anchor = keychain.legacy /\ keychain'.root = "current"
    BY <1>2, <1>3, <1>8 DEF Keychains
  <2> QED
    BY <1>4, <1>5, <1>6, <1>8, <2>1
<1>9. CASE legacy /\ put /\ ~root
  <2>1. /\ keychain' \in Keychains /\ keychain'.token = keychain.token
        /\ keychain'.anchor = keychain.legacy /\ keychain'.root = keychain.root
        /\ keychain'.legacy = keychain.legacy
    BY <1>2, <1>3, <1>9 DEF Keychains
  <2> QED
    BY <1>4, <1>5, <1>6, <1>9, <2>1
<1> QED
  BY <1>7, <1>8, <1>9

\* Unlock::for_store: nothing to open, or the keystore is loaded.
LEMMA ShowUnlockEffect ==
    ASSUME TypeOK, ShowUnlock
    PROVE  /\ app.screen = "loading" /\ app' \in Apps /\ app'.backend = app.backend
           /\ \/ /\ dir.ks = NoKeystore /\ app'.screen = "first"
                 /\ UNCHANGED <<dir, keychain, faults, intact>>
              \/ /\ app'.screen = "unlock"
                 /\ \E answered \in BOOLEAN : LoadKeystore(answered)
           /\ UNCHANGED <<copy, job, fresh, damage, moves, enrolled, revoked, trusted>>
<1>1. app \in Apps /\ app.launch \in BOOLEAN /\ dir.pending \in BOOLEAN
  BY Fields DEF TypeOK
<1>2. /\ app.screen = "loading"
      /\ UNCHANGED <<copy, job, fresh, damage, moves, enrolled, revoked, trusted>>
  BY DEF ShowUnlock
<1>3. CASE /\ dir.ks = NoKeystore /\ app' = [app EXCEPT !.screen = "first"]
           /\ UNCHANGED <<dir, keychain, faults, intact>>
  BY <1>1, <1>2, <1>3 DEF Apps, Screens
<1>4. ASSUME NEW answered \in BOOLEAN, NEW listed \in BOOLEAN, app' = Offered(answered, listed)
      PROVE  app' \in Apps /\ app'.backend = app.backend /\ app'.screen = "unlock"
  <2> DEFINE launch == app.launch /\ listed /\ keychain.token # NoSecret
             legacy == Verdict(answered) = "legacy" \/ (Verdict(answered) = "loaded" /\ dir.pending)
             offer  == (IF Verdict(answered) = "loaded" /\ dir.ks.body.keys # << >>
                        THEN {"passkey"} ELSE {})
                       \cup (IF listed /\ keychain.token # NoSecret THEN {"device"} ELSE {})
  <2>1. app' = [app EXCEPT !.screen = "unlock", !.launch = launch, !.legacy = legacy,
                           !.offer = offer]
    BY <1>4 DEF Offered
  <2>2. launch \in BOOLEAN
    BY <1>1
  <2>3. legacy \in BOOLEAN
    BY <1>1
  <2>4. offer \in SUBSET {"passkey", "device"}
    BY <1>1
  <2> HIDE DEF launch, legacy, offer
  <2> QED
    BY <1>1, <2>1, <2>2, <2>3, <2>4 DEF Apps, Screens
<1>5. CASE \E answered \in AnchorAnswers, listed \in BOOLEAN :
             LoadKeystore(answered) /\ app' = Offered(answered, listed)
  BY <1>2, <1>4, <1>5, AnswersBoolean
<1> QED
  BY <1>3, <1>5 DEF ShowUnlock

\* The keystore that a job is about to save keeps the slots it should keep.
LEMMA CandidateFields ==
    ASSUME TypeOK, CourseInv, At("load"), Protected,
           job.kind \in {"add", "remove", "enable", "disable"}, Candidate(dir.ks) # NoKeystore
    PROVE  LET ks == Candidate(dir.ks) IN
           /\ ks \in Keystores /\ ks.version = 3 /\ Changed(dir.ks) \in Nat \cup {NoSecret}
           /\ job.kind # "disable" => Changed(dir.ks) \in Nat
           /\ job.kind # "remove" => Changed(dir.ks) = job.secret
           /\ job.kind = "add" => /\ ks.body.device = dir.ks.body.device
                                  /\ ToSet(dir.ks.body.keys) \cup {job.secret}
                                        \subseteq ToSet(ks.body.keys)
           /\ job.kind = "remove" =>
                 /\ ks.body.device = dir.ks.body.device
                 /\ ToSet(dir.ks.body.keys) \ {Changed(dir.ks)} \subseteq ToSet(ks.body.keys)
           /\ job.kind = "enable" => ks.body.keys = dir.ks.body.keys /\ ks.body.device = job.secret
           /\ job.kind = "disable" => ks.body.keys = dir.ks.body.keys
<1>1. dir.ks \in Keystores /\ dir.ks.version = 3 /\ dir.ks.body.keys \in Seq(Nat)
      /\ job.secret \in Nat \cup {NoSecret}
  BY Fields, JobFields, KeystoreFields DEF Protected, At
<1>2. job.kind \in {"add", "remove", "enable"} => job.secret \in Nat
  BY DEF CourseInv, At
<1>3. CASE job.kind = "add"
  <2>1. Candidate(dir.ks) = AddPasskey(dir.ks, job.secret) /\ Changed(dir.ks) = job.secret
    BY <1>3 DEF Candidate, Changed
  <2>2. /\ AddPasskey(dir.ks, job.secret) \in Keystores
        /\ AddPasskey(dir.ks, job.secret).version = 3
        /\ AddPasskey(dir.ks, job.secret).body.device = dir.ks.body.device
        /\ ToSet(dir.ks.body.keys) \cup {job.secret}
              \subseteq ToSet(AddPasskey(dir.ks, job.secret).body.keys)
    BY <1>1, <1>2, <1>3, AddPasskeyFields
  <2> QED
    BY <1>2, <1>3, <2>1, <2>2
<1>4. CASE job.kind = "remove"
  <2>1. /\ Candidate(dir.ks) = RemovePasskey(dir.ks, job.secret)
        /\ job.secret <= Len(dir.ks.body.keys)
    BY <1>4 DEF Candidate
  <2>2. job.secret \in Nat /\ job.secret # 0
    BY <1>2, <1>4 DEF CourseInv, At
  <2>3. /\ job.secret \in DOMAIN dir.ks.body.keys /\ dir.ks.body.keys[job.secret] \in Nat
        /\ job.secret \in 1..Len(dir.ks.body.keys)
    <3>1. /\ DOMAIN dir.ks.body.keys = 1..Len(dir.ks.body.keys) /\ Len(dir.ks.body.keys) \in Nat
          /\ \A i \in 1..Len(dir.ks.body.keys) : dir.ks.body.keys[i] \in Nat
      BY <1>1, SeqFields
    <3>2. job.secret \in 1..Len(dir.ks.body.keys)
      BY <2>1, <2>2, <3>1
    <3> QED
      BY <3>1, <3>2
  <2>4. Changed(dir.ks) = dir.ks.body.keys[job.secret]
    BY <1>4, <2>3 DEF Changed
  <2>5. /\ RemovePasskey(dir.ks, job.secret) \in Keystores
        /\ RemovePasskey(dir.ks, job.secret).version = 3
        /\ RemovePasskey(dir.ks, job.secret).body.device = dir.ks.body.device
        /\ ToSet(dir.ks.body.keys) \ {dir.ks.body.keys[job.secret]}
              \subseteq ToSet(RemovePasskey(dir.ks, job.secret).body.keys)
    BY <1>1, <2>3, RemovePasskeyFields
  <2> QED
    BY <1>4, <2>1, <2>3, <2>4, <2>5
<1>5. CASE job.kind = "enable"
  <2>1. Candidate(dir.ks) = SetDeviceToken(dir.ks, job.secret) /\ Changed(dir.ks) = job.secret
    BY <1>5 DEF Candidate, Changed
  <2>2. /\ SetDeviceToken(dir.ks, job.secret) \in Keystores
        /\ SetDeviceToken(dir.ks, job.secret).version = 3
        /\ SetDeviceToken(dir.ks, job.secret).body.keys = dir.ks.body.keys
        /\ SetDeviceToken(dir.ks, job.secret).body.device = job.secret
    BY <1>1, <1>2, <1>5, DeviceFields
  <2> QED
    BY <1>2, <1>5, <2>1, <2>2
<1>6. CASE job.kind = "disable"
  <2>1. Candidate(dir.ks) = RemoveDeviceToken(dir.ks) /\ Changed(dir.ks) = job.secret
    BY <1>6 DEF Candidate, Changed
  <2> QED
    BY <1>1, <1>6, <2>1, DeviceFields
<1> QED
  BY <1>3, <1>4, <1>5, <1>6

\* The first step of a job: the keystore is loaded and the job gives up or goes on.
LEMMA LoadStepEffect ==
    ASSUME TypeOK, CourseInv, SlotsInv, Load
    PROVE  /\ At("load") /\ fresh' \in Nat /\ fresh' # 0
           /\ \E answered \in BOOLEAN :
                /\ LoadKeystore(answered)
                /\ enrolled' = IF Verdict(answered) = "loaded" /\ job.kind = "remove"
                               THEN enrolled \ {Changed(dir.ks)} ELSE enrolled
                /\ \/ job' = NoJob
                   \/ /\ job' \in RunningJobs /\ job' # NoJob /\ job'.kind = job.kind
                      /\ \/ /\ Verdict(answered) = "loaded" /\ job'.pc = "confirm"
                            /\ job.kind \in {"unlock", "passkey", "keyring"}
                            /\ job'.ks = dir.ks /\ job'.secret = job.secret
                         \/ /\ Verdict(answered) = "loaded" /\ job'.pc = "clear"
                            /\ \/ job.kind = "keyring" /\ dir.ks.body.device # job.secret
                               \/ job.kind = "disable"
                            /\ job'.secret = job.secret
                         \/ /\ Verdict(answered) = "loaded" /\ job'.pc = "save"
                            /\ job.kind \in {"add", "remove", "enable", "disable"}
                            /\ job'.ks = Candidate(dir.ks) /\ Candidate(dir.ks) # NoKeystore
                            /\ job'.secret = Changed(dir.ks)
                         \/ /\ Verdict(answered) = "legacy" /\ job'.pc = "save"
                            /\ job.kind = "unlock" /\ job'.ks = RecoverLegacy(dir.ks)
                            /\ job'.secret = job.secret
           /\ UNCHANGED <<copy, app, damage, moves, revoked, trusted>>
<1>0. fresh \in Nat /\ fresh # 0 /\ fresh' \in {fresh, fresh + 1}
  BY DEF Load, TypeOK, CourseInv
<1>1. /\ At("load") /\ ~Idle /\ fresh' \in Nat /\ fresh' # 0
      /\ UNCHANGED <<copy, app, damage, moves, revoked, trusted>>
  BY <1>0 DEF Load, At
<1>2. /\ job \in RunningJobs /\ job.kind \in Kinds /\ dir.ks \in Keystores \cup {NoKeystore}
      /\ fresh \in Nat /\ job.secret \in Nat \cup {NoSecret}
  BY <1>1, Fields, JobFields DEF TypeOK
<1> DEFINE Job1 == Opens(dir.ks) /\ Goto("confirm", dir.ks)
                   /\ job.kind \in {"unlock", "passkey", "keyring"}
           Job2 == ~Opens(dir.ks) /\ job.kind = "keyring" /\ Goto("clear", NoKeystore)
           Job3 == job.kind = "disable" /\ Goto("clear", NoKeystore)
           Job4 == /\ job.kind \in {"add", "remove", "enable", "disable"}
                   /\ Candidate(dir.ks) # NoKeystore
                   /\ job' = [job EXCEPT !.pc = "save", !.ks = Candidate(dir.ks),
                                         !.secret = Changed(dir.ks)]
           Job5 == job.kind = "unlock" /\ Goto("save", RecoverLegacy(dir.ks))
<1>3. PICK answered \in BOOLEAN :
        /\ LoadKeystore(answered)
        /\ enrolled' = IF Verdict(answered) = "loaded" /\ job.kind = "remove"
                       THEN enrolled \ {Changed(dir.ks)} ELSE enrolled
        /\ \/ job' = NoJob
           \/ Verdict(answered) = "loaded" /\ (Job1 \/ Job2 \/ Job3 \/ Job4)
           \/ Verdict(answered) = "legacy" /\ Job5
  BY AnswersBoolean DEF Load, Finish
<1> HIDE DEF Job1, Job2, Job3, Job4, Job5
<1>4. /\ Verdict(answered) = "loaded" => Protected
      /\ Verdict(answered) = "legacy" => dir.ks \in Keystores
  BY <1>3, LoadEffect
<1>5. CASE job' = NoJob
  BY <1>1, <1>3, <1>5
<1>6. CASE Verdict(answered) = "loaded" /\ Job1
  BY <1>1, <1>2, <1>3, <1>6, GotoFields DEF Job1
<1>7. CASE Verdict(answered) = "loaded" /\ Job2
  <2>1. dir.ks.body.device # job.secret
    BY <1>1, <1>7 DEF Job2, Opens, Unwraps, SlotsInv
  <2> QED
    BY <1>1, <1>2, <1>3, <1>7, <2>1, GotoFields DEF Job2
<1>8. CASE Verdict(answered) = "loaded" /\ Job3
  BY <1>1, <1>2, <1>3, <1>8, GotoFields DEF Job3
<1>9. CASE Verdict(answered) = "loaded" /\ Job4
  <2>1. Candidate(dir.ks) \in Keystores /\ Changed(dir.ks) \in Nat \cup {NoSecret}
    BY <1>1, <1>4, <1>9, CandidateFields DEF Job4
  <2>2. job' = [job EXCEPT !.pc = "save", !.ks = Candidate(dir.ks), !.secret = Changed(dir.ks)]
    BY <1>9 DEF Job4
  <2>3. job' \in RunningJobs /\ job'.kind = job.kind /\ job'.pc = "save"
        /\ job'.ks = Candidate(dir.ks) /\ job'.secret = Changed(dir.ks)
    BY <1>2, <2>1, <2>2 DEF RunningJobs
  <2>4. job' # NoJob
    BY <2>3, KeystoreAssumption
  <2> QED
    BY <1>1, <1>3, <1>9, <2>3, <2>4 DEF Job4
<1>10. CASE Verdict(answered) = "legacy" /\ Job5
  <2>1. RecoverLegacy(dir.ks) \in Keystores
    BY <1>2, <1>4, <1>10, RecoverLegacyFields
  <2>2. ~Idle /\ Goto("save", RecoverLegacy(dir.ks)) /\ job.kind = "unlock"
    BY <1>1, <1>10 DEF Job5
  <2> QED
    BY <1>1, <1>3, <1>10, <2>1, <2>2, GotoFields
<1> QED
  BY <1>3, <1>5, <1>6, <1>7, <1>8, <1>9, <1>10

\* Store::save_keystore up to the anchor.
LEMMA SaveEffect ==
    ASSUME TypeOK, CourseInv, Save
    PROVE  /\ At("save") /\ faults' \in Nat
           /\ \/ job' = NoJob /\ dir' = dir
              \/ /\ job' \in RunningJobs /\ job' # NoJob /\ job'.kind = job.kind
                 /\ job'.pc = "anchor" /\ job'.ks = job.ks /\ job'.secret = job.secret
                 /\ dir' \in Directories /\ dir'.ks = job.ks /\ dir'.marker = dir.marker
                 /\ dir'.file = dir.file /\ Accepts(job.ks.state)
           /\ UNCHANGED <<keychain, copy, app, fresh, damage, moves, enrolled, revoked, trusted,
                          intact>>
<1>1. At("save") /\ ~Idle /\ dir \in Directories /\ job.ks \in Keystores
      /\ UNCHANGED <<keychain, copy, app, fresh, damage, moves, enrolled, revoked, trusted, intact>>
  BY DEF Save, At, TypeOK, CourseInv
<1>2. PICK answered \in BOOLEAN :
        /\ Count(answered)
        /\ IF answered /\ Accepts(job.ks.state)
           THEN Goto("anchor", job.ks) /\ dir' = [dir EXCEPT !.ks = job.ks]
           ELSE Finish /\ UNCHANGED dir
  BY AnswersBoolean DEF Save
<1>3. faults' \in Nat
  BY <1>2, CountNat
<1>4. CASE answered /\ Accepts(job.ks.state)
  <2>1. dir' \in Directories /\ dir'.ks = job.ks /\ dir'.marker = dir.marker /\ dir'.file = dir.file
    BY <1>1, <1>2, <1>4 DEF Directories
  <2>2. Goto("anchor", job.ks)
    BY <1>2, <1>4
  <2> QED
    BY <1>1, <1>3, <1>4, <2>1, <2>2, GotoFields
<1>5. CASE ~(answered /\ Accepts(job.ks.state))
  BY <1>1, <1>2, <1>3, <1>5 DEF Finish
<1> QED
  BY <1>4, <1>5

\* A session shows the keys of the keystore it was opened with.
LEMMA SessionOfFields ==
    ASSUME TypeOK, NEW ks \in Keystores, NEW auto \in BOOLEAN
    PROVE  /\ SessionOf(ks, auto) \in Apps /\ SessionOf(ks, auto).screen = "session"
           /\ SessionOf(ks, auto).backend = app.backend
<1>1. ks.body.owner \in Nat /\ ks.body.keys \in Seq(Nat) /\ app \in Apps
  BY KeystoreFields DEF TypeOK
<1> QED
  BY <1>1 DEF SessionOf, Apps, Screens

\* commit_state and what a job reports when its keystore is saved.
LEMMA CommitAnchorEffect ==
    ASSUME TypeOK, CourseInv, CommitAnchor
    PROVE  /\ At("anchor") /\ faults' \in Nat /\ trusted' \in BOOLEAN
           /\ \/ job' = NoJob /\ UNCHANGED <<dir, keychain, app, enrolled, revoked>>
              \/ /\ PutAnchor(job.ks.state, dir) /\ Accepts(job.ks.state)
                 /\ app' \in Apps /\ app'.backend = app.backend
                 /\ \/ /\ job.kind = "create" /\ job' = NoJob /\ app'.screen = "session"
                       /\ enrolled' = {Passphrase} /\ revoked' = revoked
                    \/ /\ app'.screen = app.screen
                       /\ \/ /\ job.kind = "add" /\ job' = NoJob
                             /\ enrolled' = enrolled \cup {job.secret} /\ revoked' = revoked
                          \/ /\ job.kind = "remove" /\ job' = NoJob /\ enrolled' = enrolled
                             /\ revoked' = revoked \cup {job.secret}
                          \/ /\ job.kind = "undo" /\ job' = NoJob
                             /\ UNCHANGED <<enrolled, revoked>>
                          \/ /\ job' \in RunningJobs /\ job' # NoJob /\ job'.kind = job.kind
                             /\ job'.ks = job.ks /\ job'.secret = job.secret
                             /\ \/ job.kind = "unlock" /\ job'.pc = "confirm"
                                \/ job.kind = "enable" /\ job'.pc = "token"
                                \/ job.kind = "disable" /\ job'.pc = "clear"
                             /\ UNCHANGED <<enrolled, revoked>>
           /\ UNCHANGED <<copy, fresh, damage, moves, intact>>
<1>1. /\ At("anchor") /\ ~Idle /\ job.ks \in Keystores /\ trusted \in BOOLEAN
      /\ app \in Apps /\ job.ks.body.keys \in Seq(Nat)
      /\ UNCHANGED <<copy, fresh, damage, moves, intact>>
  BY KeystoreFields DEF CommitAnchor, At, TypeOK, CourseInv
<1>2. PICK answered \in BOOLEAN :
        /\ Count(answered)
        /\ IF answered /\ Accepts(job.ks.state)
           THEN /\ PutAnchor(job.ks.state, dir)
                /\ trusted' = (trusted \/ (app.backend = "secure" /\ intact))
                /\ Saved
           ELSE Finish /\ UNCHANGED <<dir, keychain, app, enrolled, revoked, trusted>>
  BY AnswersBoolean DEF CommitAnchor
<1>3. faults' \in Nat
  BY <1>2, CountNat
<1>4. CASE ~(answered /\ Accepts(job.ks.state))
  BY <1>1, <1>2, <1>3, <1>4 DEF Finish
<1>5. CASE answered /\ Accepts(job.ks.state)
  <2>1. PutAnchor(job.ks.state, dir) /\ Saved
    BY <1>2, <1>5
  <2>2. trusted' = (trusted \/ (app.backend = "secure" /\ intact))
    BY <1>2, <1>5
  <2>3. trusted' \in BOOLEAN
    BY <1>1, <2>2
  <2>4. ASSUME app' = [app EXCEPT !.keys = job.ks.body.keys]
        PROVE  app' \in Apps /\ app'.backend = app.backend /\ app'.screen = app.screen
    BY <1>1, <2>4 DEF Apps
  <2>5. SessionOf(job.ks, FALSE) \in Apps /\ SessionOf(job.ks, FALSE).screen = "session"
        /\ SessionOf(job.ks, FALSE).backend = app.backend
    BY <1>1, SessionOfFields
  <2>6. CASE job.kind \in {"create", "add", "remove", "undo"}
    BY <1>1, <1>3, <1>5, <2>1, <2>3, <2>4, <2>5, <2>6 DEF Saved, Finish
  <2>7. CASE job.kind \in {"unlock", "enable", "disable"}
    <3>1. /\ UNCHANGED <<app, enrolled, revoked>>
          /\ \/ job.kind = "unlock" /\ Goto("confirm", job.ks)
             \/ job.kind = "enable" /\ Goto("token", job.ks)
             \/ job.kind = "disable" /\ Goto("clear", job.ks)
      BY <2>1, <2>7 DEF Saved
    <3> QED
      BY <1>1, <1>3, <1>5, <2>1, <2>3, <3>1, GotoFields
  <2> QED
    BY <2>1, <2>6, <2>7 DEF Saved
<1> QED
  BY <1>4, <1>5

\* save_device_token, or the way back when the keychain refuses it.
LEMMA SaveTokenEffect ==
    ASSUME TypeOK, CourseInv, SaveToken
    PROVE  /\ At("token") /\ faults' \in Nat /\ keychain' \in Keychains
           /\ keychain'.root = keychain.root /\ keychain'.legacy = keychain.legacy
           /\ keychain'.anchor = keychain.anchor
           /\ app' \in Apps /\ app'.screen = app.screen /\ app'.backend = app.backend
           /\ \/ /\ job' = NoJob /\ keychain'.token = job.secret
                 /\ enrolled' = enrolled \cup {job.secret}
              \/ /\ job' \in RunningJobs /\ job' # NoJob /\ job'.kind = "undo"
                 /\ job'.pc = "save" /\ job'.ks = RemoveDeviceToken(job.ks)
                 /\ UNCHANGED <<keychain, enrolled>>
           /\ UNCHANGED <<dir, copy, fresh, damage, moves, revoked, trusted, intact>>
<1>1. /\ At("token") /\ ~Idle /\ job.ks \in Keystores /\ job.ks.version = 3 /\ app \in Apps
      /\ keychain \in Keychains
      /\ UNCHANGED <<dir, copy, fresh, damage, moves, revoked, trusted, intact>>
  BY DEF SaveToken, At, TypeOK, CourseInv
<1>2. job \in RunningJobs /\ job.secret \in Nat \cup {NoSecret}
  BY <1>1, JobFields
<1>3. PICK answered \in BOOLEAN :
        /\ Count(answered)
        /\ \/ /\ answered /\ job' = NoJob
              /\ keychain' = [keychain EXCEPT !.token = job.secret]
              /\ app' = [app EXCEPT !.auto = TRUE]
              /\ enrolled' = enrolled \cup {job.secret}
           \/ /\ ~answered
              /\ job' = [job EXCEPT !.kind = "undo", !.pc = "save",
                                    !.ks = RemoveDeviceToken(job.ks)]
              /\ UNCHANGED <<keychain, app, enrolled>>
  BY AnswersBoolean DEF SaveToken, Finish
<1>4. faults' \in Nat
  BY <1>3, CountNat
<1>5. CASE answered
  <2>1. keychain' \in Keychains /\ keychain'.token = job.secret
        /\ keychain'.root = keychain.root /\ keychain'.legacy = keychain.legacy
        /\ keychain'.anchor = keychain.anchor
    BY <1>1, <1>2, <1>3, <1>5 DEF Keychains
  <2>2. app' \in Apps /\ app'.screen = app.screen /\ app'.backend = app.backend
    BY <1>1, <1>3, <1>5 DEF Apps
  <2> QED
    BY <1>1, <1>3, <1>4, <1>5, <2>1, <2>2
<1>6. CASE ~answered
  <2>1. RemoveDeviceToken(job.ks) \in Keystores
    BY <1>1, DeviceFields
  <2>2. job' = [job EXCEPT !.kind = "undo", !.pc = "save", !.ks = RemoveDeviceToken(job.ks)]
    BY <1>3, <1>6
  <2>3. job' \in RunningJobs /\ job'.kind = "undo" /\ job'.pc = "save"
        /\ job'.ks = RemoveDeviceToken(job.ks)
    BY <1>2, <2>1, <2>2 DEF RunningJobs, Kinds
  <2>4. job' # NoJob
    BY <2>3, KeystoreAssumption
  <2> QED
    BY <1>1, <1>3, <1>4, <1>6, <2>3, <2>4
<1> QED
  BY <1>5, <1>6

\* clear_device_token.
LEMMA ClearTokenEffect ==
    ASSUME TypeOK, ClearToken
    PROVE  /\ At("clear") /\ job' = NoJob /\ faults' \in Nat /\ keychain' \in Keychains
           /\ keychain'.root = keychain.root /\ keychain'.legacy = keychain.legacy
           /\ keychain'.anchor = keychain.anchor
           /\ app' \in Apps /\ app'.screen = app.screen /\ app'.backend = app.backend
           /\ revoked' \subseteq Nat
           /\ UNCHANGED <<dir, copy, fresh, damage, moves, enrolled, trusted, intact>>
<1>1. /\ At("clear") /\ ~Idle /\ app \in Apps /\ keychain \in Keychains /\ job' = NoJob
      /\ revoked \subseteq Nat
      /\ UNCHANGED <<dir, copy, fresh, damage, moves, enrolled, trusted, intact>>
  BY DEF ClearToken, At, TypeOK, Finish
<1>2. job.secret \in Nat \cup {NoSecret}
  BY <1>1, JobFields
<1>3. PICK answered \in BOOLEAN :
        /\ Count(answered)
        /\ keychain' = IF answered THEN [keychain EXCEPT !.token = NoSecret] ELSE keychain
        /\ app' = IF answered /\ job.kind = "disable" THEN [app EXCEPT !.auto = FALSE] ELSE app
        /\ revoked' = IF answered /\ job.kind = "disable"
                      THEN revoked \cup ({job.secret} \ {NoSecret}) ELSE revoked
  BY AnswersBoolean DEF ClearToken
<1>4. faults' \in Nat
  BY <1>3, CountNat
<1>5. keychain' \in Keychains /\ keychain'.root = keychain.root
      /\ keychain'.legacy = keychain.legacy /\ keychain'.anchor = keychain.anchor
  BY <1>1, <1>3 DEF Keychains
<1>6. app' \in Apps /\ app'.screen = app.screen /\ app'.backend = app.backend
  BY <1>1, <1>3 DEF Apps
<1>7. revoked' \subseteq Nat
  BY <1>1, <1>2, <1>3
<1> QED
  BY <1>1, <1>4, <1>5, <1>6, <1>7

\* confirm_unlocked_keystore and the rest of an unlock.
LEMMA ConfirmEffect ==
    ASSUME TypeOK, CourseInv, Confirm
    PROVE  /\ At("confirm") /\ job' = NoJob /\ faults' \in Nat /\ trusted' \in BOOLEAN
           /\ \/ /\ intact' => ~Accepts(job.ks.state)
                 /\ dir' \in Directories /\ dir'.ks = NoKeystore
                 /\ dir'.marker = dir.marker /\ dir'.file = dir.file
                 /\ keychain' = keychain /\ app' = app
              \/ /\ \E d \in Directories :
                       /\ d.ks = dir.ks /\ d.marker = dir.marker /\ d.file = dir.file
                       /\ PutAnchor(job.ks.state, d)
                 /\ Accepts(job.ks.state)
                 /\ app' \in Apps /\ app'.backend = app.backend
                 /\ app'.screen \in {app.screen, "session"}
           /\ (intact' => intact) /\ intact' \in BOOLEAN
           /\ UNCHANGED <<copy, fresh, damage, moves, enrolled, revoked>>
<1>1. /\ At("confirm") /\ ~Idle /\ job.ks \in Keystores /\ job' = NoJob /\ app \in Apps
      /\ dir \in Directories /\ trusted \in BOOLEAN /\ intact \in BOOLEAN
      /\ UNCHANGED <<copy, fresh, damage, moves, enrolled, revoked>>
  BY DEF Confirm, At, TypeOK, CourseInv, Finish
<1>2. PICK answered \in BOOLEAN, rest \in BOOLEAN, listed \in BOOLEAN :
        /\ Count(answered)
        /\ intact' = (intact /\ answered)
        /\ \/ /\ ~(answered /\ Accepts(job.ks.state)) /\ Quarantine /\ UNCHANGED <<app, trusted>>
           \/ /\ answered /\ Accepts(job.ks.state)
              /\ PutAnchor(job.ks.state,
                    IF rest /\ app.legacy THEN [dir EXCEPT !.pending = FALSE] ELSE dir)
              /\ trusted' = (trusted \/ (app.backend = "secure" /\ intact))
              /\ app' = IF rest
                        THEN SessionOf(job.ks, job.kind = "keyring" \/
                                   (listed /\ keychain.token # NoSecret))
                        ELSE app
  BY AnswersBoolean DEF Confirm
<1>3. faults' \in Nat
  BY <1>2, CountNat
<1>4. intact' = (intact /\ answered)
  BY <1>2
<1>5. (intact' => intact /\ answered) /\ intact' \in BOOLEAN
  BY <1>1, <1>4
<1>6. CASE /\ ~(answered /\ Accepts(job.ks.state)) /\ Quarantine /\ UNCHANGED <<app, trusted>>
  <2>1. dir' \in Directories /\ dir'.ks = NoKeystore /\ dir'.marker = dir.marker
        /\ dir'.file = dir.file /\ keychain' = keychain
    BY <1>1, <1>6 DEF Quarantine, Directories
  <2> QED
    BY <1>1, <1>3, <1>5, <1>6, <2>1
<1>7. CASE ~(~(answered /\ Accepts(job.ks.state)) /\ Quarantine /\ UNCHANGED <<app, trusted>>)
  <2> DEFINE d == IF rest /\ app.legacy THEN [dir EXCEPT !.pending = FALSE] ELSE dir
             auto == job.kind = "keyring" \/ (listed /\ keychain.token # NoSecret)
  <2>1. /\ answered /\ Accepts(job.ks.state) /\ PutAnchor(job.ks.state, d)
        /\ app' = IF rest THEN SessionOf(job.ks, auto) ELSE app
    BY <1>2, <1>7
  <2>2. trusted' = (trusted \/ (app.backend = "secure" /\ intact))
    BY <1>2, <1>7
  <2>3. trusted' \in BOOLEAN
    BY <1>1, <2>2
  <2>4. d \in Directories /\ d.ks = dir.ks /\ d.marker = dir.marker /\ d.file = dir.file
    BY <1>1 DEF Directories
  <2>5. auto \in BOOLEAN
    OBVIOUS
  <2> HIDE DEF d, auto
  <2>6. app' \in Apps /\ app'.backend = app.backend /\ app'.screen \in {app.screen, "session"}
    BY <1>1, <2>1, <2>5, SessionOfFields
  <2> QED
    BY <1>1, <1>3, <1>5, <2>1, <2>3, <2>4, <2>6
<1> QED
  BY <1>6, <1>7

\* Store::recover_rollback_anchors: the anchors, the root record and the marker.
LEMMA ReanchorEffect ==
    ASSUME TypeOK, CourseInv, Reanchor
    PROVE  /\ At("reanchor") /\ faults' \in Nat
           /\ \/ job' = NoJob /\ UNCHANGED <<dir, keychain>>
              \/ /\ PutAnchor(job.ks.state, dir)
                 /\ job' \in RunningJobs /\ job' # NoJob /\ job'.kind = job.kind
                 /\ job'.pc = "root" /\ job'.ks = job.ks /\ job'.secret = job.secret
           /\ UNCHANGED <<copy, app, fresh, damage, moves, enrolled, revoked, trusted, intact>>
<1>1. /\ At("reanchor") /\ ~Idle /\ job.ks \in Keystores
      /\ UNCHANGED <<copy, app, fresh, damage, moves, enrolled, revoked, trusted, intact>>
  BY DEF Reanchor, At, CourseInv
<1>2. PICK answered \in BOOLEAN :
        /\ Count(answered)
        /\ IF answered THEN PutAnchor(job.ks.state, dir) /\ Goto("root", job.ks)
           ELSE Finish /\ UNCHANGED <<dir, keychain>>
  BY AnswersBoolean DEF Reanchor
<1>3. faults' \in Nat
  BY <1>2, CountNat
<1> QED
  BY <1>1, <1>2, <1>3, GotoFields DEF Finish

\* The root record of the keychain is written.
LEMMA RewriteRootEffect ==
    ASSUME TypeOK, RewriteRoot
    PROVE  /\ At("root") /\ faults' \in Nat /\ keychain' \in Keychains
           /\ keychain'.anchor = keychain.anchor /\ keychain'.token = keychain.token
           /\ \/ job' = NoJob /\ keychain' = keychain
              \/ /\ job' \in RunningJobs /\ job' # NoJob /\ job'.kind = job.kind
                 /\ job'.pc = "marker" /\ job'.ks = job.ks /\ job'.secret = job.secret
                 /\ app.backend = "secure" => keychain'.root = "current"
                 /\ app.backend # "secure" => keychain' = keychain
           /\ UNCHANGED <<dir, copy, app, fresh, damage, moves, enrolled, revoked, trusted, intact>>
<1>1. /\ At("root") /\ ~Idle /\ keychain \in Keychains
      /\ UNCHANGED <<dir, copy, app, fresh, damage, moves, enrolled, revoked, trusted, intact>>
  BY DEF RewriteRoot, At, TypeOK
<1>2. job.ks \in Keystores \cup {NoKeystore}
  BY <1>1, JobFields
<1>3. PICK answered \in BOOLEAN :
        /\ Count(answered)
        /\ IF answered THEN Goto("marker", job.ks) ELSE Finish
        /\ keychain' = IF answered /\ app.backend = "secure"
                       THEN [keychain EXCEPT !.root = "current", !.legacy = NoAnchor]
                       ELSE keychain
  BY AnswersBoolean DEF RewriteRoot
<1>4. faults' \in Nat
  BY <1>3, CountNat
<1>5. /\ keychain' \in Keychains /\ keychain'.anchor = keychain.anchor
      /\ keychain'.token = keychain.token
      /\ answered /\ app.backend = "secure" => keychain'.root = "current"
  BY <1>1, <1>3 DEF Keychains
<1>6. CASE answered
  <2>1. Goto("marker", job.ks) /\ (app.backend # "secure" => keychain' = keychain)
    BY <1>3, <1>6
  <2>2. /\ job' \in RunningJobs /\ job' # NoJob /\ job'.kind = job.kind /\ job'.pc = "marker"
        /\ job'.ks = job.ks /\ job'.secret = job.secret
    BY <1>1, <1>2, <2>1, GotoFields
  <2>3. app.backend = "secure" => keychain'.root = "current"
    BY <1>5, <1>6
  <2> QED
    BY <1>1, <1>4, <1>5, <2>1, <2>2, <2>3
<1>7. CASE ~answered
  BY <1>1, <1>3, <1>4, <1>5, <1>7 DEF Finish
<1> QED
  BY <1>6, <1>7

\* The marker is written at the end of a recovery.
LEMMA RewriteMarkerEffect ==
    ASSUME TypeOK, RewriteMarker
    PROVE  /\ At("marker") /\ job' = NoJob
           /\ dir' \in Directories /\ dir'.ks = dir.ks /\ dir'.file = dir.file
           /\ dir'.marker = Marker(app.backend)
           /\ app' \in Apps /\ app'.screen = "loading" /\ app'.backend = app.backend
           /\ UNCHANGED <<keychain, copy, fresh, faults, damage, moves, enrolled, revoked, trusted,
                          intact>>
  BY Fields DEF RewriteMarker, Finish, TypeOK, Directories, Apps, Screens, Marker

\* The marker is repaired at the end of a start.
LEMMA RepairMarkerEffect ==
    ASSUME TypeOK, RepairMarker
    PROVE  /\ app.screen = "probed"
           /\ dir' \in Directories /\ dir'.ks = dir.ks /\ dir'.file = dir.file
           /\ dir'.marker = Marker(app.backend)
           /\ app' \in Apps /\ app'.screen = "marked" /\ app'.backend = app.backend
           /\ UNCHANGED <<keychain, copy, job, fresh, faults, damage, moves, enrolled, revoked,
                          trusted, intact>>
  BY Fields DEF RepairMarker, TypeOK, Directories, Apps, Screens, Marker

\* The application is locked, closed or killed.
LEMMA LockEffect ==
    ASSUME TypeOK, Lock
    PROVE  /\ app.screen = "session" /\ Idle
           /\ app' \in Apps /\ app'.screen = "loading" /\ app'.backend = app.backend
           /\ UNCHANGED <<dir, keychain, copy, job, fresh, faults, damage, moves, enrolled, revoked,
                          trusted, intact>>
<1>1. /\ app.screen = "session" /\ Idle /\ app.backend \in {"secure", "file"}
      /\ UNCHANGED <<dir, keychain, copy, job, fresh, faults, damage, moves, enrolled, revoked,
                     trusted, intact>>
  BY Fields DEF Lock
<1>2. Down \in Apps
  BY DEF Down, Apps, Screens
<1>3. app' = [Down EXCEPT !.screen = "loading", !.backend = app.backend]
  BY DEF Lock
<1>4. app' \in Apps /\ app'.screen = "loading" /\ app'.backend = app.backend
  BY <1>1, <1>2, <1>3 DEF Apps, Screens
<1> QED
  BY <1>1, <1>4

\* Nothing of the running process is left.
LEMMA StopEffect ==
    ASSUME Stop
    PROVE  /\ job' = NoJob /\ app' \in Apps /\ app'.screen = "down"
           /\ UNCHANGED <<dir, keychain, copy, fresh, faults, damage, moves, enrolled, revoked,
                          trusted, intact>>
  BY DEF Stop, Apps, Screens, Down

\* What happens to the store from outside is counted.
LEMMA DamageEffect ==
    ASSUME TypeOK, Damage
    PROVE  /\ Idle /\ damage' \in Nat /\ damage' # 0 /\ ~intact' /\ intact' \in BOOLEAN
           /\ copy' \in Directories /\ dir' \in Directories /\ keychain' \in Keychains
           /\ trusted' \in BOOLEAN
           /\ app.screen \in {"down", "unlock", "session"}
           /\ UNCHANGED <<app, job, fresh, faults, moves, enrolled, revoked>>
<1>1. dir \in Directories /\ copy \in Directories /\ keychain \in Keychains /\ damage \in Nat
      /\ trusted \in BOOLEAN
  BY DEF TypeOK
<1>2. NewDir \in Directories /\ NewKeychain \in Keychains
  BY DEF NewDir, NewKeychain, Directories, Keychains
<1>3. /\ Idle /\ damage' = damage + 1 /\ intact' = FALSE /\ copy' = NewDir
      /\ app.screen \in {"down", "unlock", "session"}
      /\ UNCHANGED <<app, job, fresh, faults, moves, enrolled, revoked>>
  BY DEF Damage
<1>0. damage' \in Nat /\ damage' # 0 /\ ~intact' /\ intact' \in BOOLEAN
  <2>1. damage' = damage + 1
    BY <1>3
  <2>2. damage' \in Nat /\ damage' # 0
    BY <1>1, <2>1
  <2>3. intact' = FALSE
    BY <1>3
  <2> QED
    BY <2>2, <2>3
<1>4. CASE dir' = copy /\ UNCHANGED <<keychain, trusted>>
  BY <1>0, <1>1, <1>2, <1>3, <1>4
<1>5. CASE /\ \E marker \in {"none", "degraded", "malformed"} : dir' = [dir EXCEPT !.marker = marker]
           /\ UNCHANGED <<keychain, trusted>>
  <2>1. dir' \in Directories
    BY <1>1, <1>5 DEF Directories
  <2> QED
    BY <1>0, <1>1, <1>2, <1>3, <1>5, <2>1
<1>6. CASE keychain' = NewKeychain /\ trusted' = FALSE /\ UNCHANGED dir
  BY <1>0, <1>1, <1>2, <1>3, <1>6
<1> QED
  BY <1>4, <1>5, <1>6 DEF Damage

-----------------------------------------------------------------------------------
(* The parts of the inductive invariant, one step lemma for each.                    *)

\* Every step keeps the type invariant.
LEMMA TypeStep ==
    ASSUME TypeOK, CourseInv, SlotsInv, [Next]_vars
    PROVE  TypeOK'
<1> USE DEF TypeOK
<1>1. CASE CreateIdentity
  BY <1>1, CreateIdentityEffect
<1>2. CASE RestoreIdentity
  BY <1>2, RestoreIdentityEffect
<1>3. CASE UnlockPassphrase
  BY <1>3, UnlockPassphraseEffect
<1>4. CASE UnlockPasskey
  BY <1>4, UnlockPasskeyEffect
<1>5. CASE UnlockKeyring
  BY <1>5, UnlockKeyringEffect
<1>6. CASE EnrollPasskey
  BY <1>6, EnrollPasskeyEffect
<1>7. CASE DropPasskey
  BY <1>7, DropPasskeyEffect
<1>8. CASE EnableAutoUnlock
  BY <1>8, EnableAutoUnlockEffect
<1>9. CASE DisableAutoUnlock
  BY <1>9, DisableAutoUnlockEffect
<1>10. CASE RecoverAnchors
  <2>1. moves' \in Nat /\ faults' \in Nat
    BY <1>10, RecoverAnchorsEffect
  <2>2. intact' \in BOOLEAN /\ trusted' \in BOOLEAN
    BY <1>10, RecoverAnchorsEffect
  <2> QED
    BY <1>10, <2>1, <2>2, RecoverAnchorsEffect
<1>11. CASE Lock
  BY <1>11, LockEffect
<1>12. CASE Start
  BY <1>12, StartEffect
<1>13. CASE RepairMarker
  BY <1>13, RepairMarkerEffect
<1>14. CASE UpgradeLayout
  BY <1>14, UpgradeLayoutEffect
<1>15. CASE ShowUnlock
  <2>0. /\ app.screen = "loading" /\ app' \in Apps /\ app'.backend = app.backend
        /\ UNCHANGED <<copy, job, fresh, damage, moves, enrolled, revoked, trusted>>
    BY <1>15, ShowUnlockEffect
  <2>1. CASE /\ dir.ks = NoKeystore /\ app'.screen = "first"
             /\ UNCHANGED <<dir, keychain, faults, intact>>
    BY <2>0, <2>1
  <2>2. ASSUME NEW answered \in BOOLEAN, LoadKeystore(answered), app'.screen = "unlock"
        PROVE  TypeOK'
    BY <2>0, <2>2, LoadEffect
  <2> QED
    BY <1>15, <2>1, <2>2, ShowUnlockEffect
<1>16. CASE Load
  <2>1. PICK answered \in BOOLEAN : LoadKeystore(answered)
    BY <1>16, LoadStepEffect
  <2>2. dir' \in Directories /\ keychain' \in Keychains /\ faults' \in Nat
        /\ intact' = (intact /\ answered)
    BY <2>1, LoadEffect
  <2>3. intact' \in BOOLEAN
    BY <2>2
  <2>4. enrolled' \subseteq Nat /\ job' \in RunningJobs \cup {NoJob}
    BY <1>16, LoadStepEffect
  <2> QED
    BY <1>16, <2>2, <2>3, <2>4, LoadStepEffect
<1>17. CASE Save
  BY <1>17, SaveEffect
<1>18. CASE CommitAnchor
  <2>1. job.ks.state \in States /\ dir \in Directories
    BY <1>18, CommitAnchorEffect, KeystoreFields DEF CourseInv, At
  <2>2. dir' \in Directories /\ keychain' \in Keychains
    BY <1>18, <2>1, CommitAnchorEffect, PutAnchorEffect
  <2>3. job' \in RunningJobs \cup {NoJob} /\ app' \in Apps
    BY <1>18, CommitAnchorEffect
  <2>4. job.kind \in {"add", "remove"} => job.secret \in Nat
    BY <1>18, CommitAnchorEffect DEF CourseInv, At
  <2>5. enrolled' \subseteq Nat
    <3>1. Passphrase \in Nat /\ enrolled \subseteq Nat
      BY DEF Passphrase
    <3> QED
      BY <1>18, <2>4, <3>1, CommitAnchorEffect
  <2>6. revoked' \subseteq Nat
    BY <1>18, <2>4, CommitAnchorEffect
  <2> QED
    BY <1>18, <2>2, <2>3, <2>5, <2>6, CommitAnchorEffect
<1>19. CASE SaveToken
  <2>1. job.secret \in Nat
    BY <1>19, SaveTokenEffect DEF CourseInv, At, Kinds, RunningJobs, Idle
  <2> QED
    BY <1>19, <2>1, SaveTokenEffect
<1>20. CASE ClearToken
  BY <1>20, ClearTokenEffect
<1>21. CASE Confirm
  <2>1. job.ks.state \in States /\ dir \in Directories
    BY <1>21, ConfirmEffect, KeystoreFields DEF CourseInv, At
  <2>2. dir' \in Directories /\ keychain' \in Keychains /\ app' \in Apps
    BY <1>21, <2>1, ConfirmEffect, PutAnchorEffect
  <2> QED
    BY <1>21, <2>2, ConfirmEffect
<1>22. CASE Reanchor
  <2>1. job.ks.state \in States /\ dir \in Directories
    BY <1>22, ReanchorEffect, KeystoreFields DEF CourseInv, At
  <2>2. dir' \in Directories /\ keychain' \in Keychains
    BY <1>22, <2>1, ReanchorEffect, PutAnchorEffect
  <2> QED
    BY <1>22, <2>2, ReanchorEffect
<1>23. CASE RewriteRoot
  BY <1>23, RewriteRootEffect
<1>24. CASE RewriteMarker
  BY <1>24, RewriteMarkerEffect
<1>25. CASE Stop
  BY <1>25, StopEffect
<1>26. CASE CopyDirectory
  BY <1>26 DEF CopyDirectory
<1>27. CASE Damage
  BY <1>27, DamageEffect
<1>28. CASE UNCHANGED vars
  BY <1>28 DEF vars
<1> QED
  BY <1>1, <1>2, <1>3, <1>4, <1>5, <1>6, <1>7, <1>8, <1>9, <1>10, <1>11, <1>12, <1>13,
     <1>14, <1>15, <1>16, <1>17, <1>18, <1>19, <1>20, <1>21, <1>22, <1>23, <1>24,
     <1>25, <1>26, <1>27, <1>28 DEF Next, Jobs, Steps

\* Every job goes through its own steps on its own screen.
LEMMA CourseStep ==
    ASSUME TypeOK, CourseInv, SlotsInv, [Next]_vars
    PROVE  CourseInv'
<1>0. fresh \in Nat
  BY DEF TypeOK
<1> USE <1>0 DEF CourseInv, Idle, At
<1>1. CASE CreateIdentity
  BY <1>1, CreateIdentityEffect
<1>2. CASE RestoreIdentity
  BY <1>2, RestoreIdentityEffect
<1>3. CASE UnlockPassphrase
  BY <1>3, UnlockPassphraseEffect
<1>4. CASE UnlockPasskey
  BY <1>4, UnlockPasskeyEffect
<1>5. CASE UnlockKeyring
  BY <1>5, UnlockKeyringEffect
<1>6. CASE EnrollPasskey
  BY <1>6, EnrollPasskeyEffect
<1>7. CASE DropPasskey
  BY <1>7, DropPasskeyEffect
<1>8. CASE EnableAutoUnlock
  BY <1>8, EnableAutoUnlockEffect
<1>9. CASE DisableAutoUnlock
  BY <1>9, DisableAutoUnlockEffect
<1>10. CASE RecoverAnchors
  BY <1>10, RecoverAnchorsEffect
<1>11. CASE Lock
  BY <1>11, LockEffect
<1>12. CASE Start
  BY <1>12, StartEffect
<1>13. CASE RepairMarker
  BY <1>13, RepairMarkerEffect
<1>14. CASE UpgradeLayout
  BY <1>14, UpgradeLayoutEffect
<1>15. CASE ShowUnlock
  BY <1>15, ShowUnlockEffect
<1>16. CASE Load
  <2>0. At("load") /\ fresh' # 0 /\ UNCHANGED <<copy, app, damage, moves, revoked, trusted>>
    BY <1>16, LoadStepEffect
  <2>1. PICK answered \in BOOLEAN :
          /\ LoadKeystore(answered)
          /\ enrolled' = IF Verdict(answered) = "loaded" /\ job.kind = "remove"
                         THEN enrolled \ {Changed(dir.ks)} ELSE enrolled
          /\ \/ job' = NoJob
             \/ /\ job' \in RunningJobs /\ job' # NoJob /\ job'.kind = job.kind
                /\ \/ /\ Verdict(answered) = "loaded" /\ job'.pc = "confirm"
                      /\ job.kind \in {"unlock", "passkey", "keyring"}
                      /\ job'.ks = dir.ks /\ job'.secret = job.secret
                   \/ /\ Verdict(answered) = "loaded" /\ job'.pc = "clear"
                      /\ \/ job.kind = "keyring" /\ dir.ks.body.device # job.secret
                         \/ job.kind = "disable"
                      /\ job'.secret = job.secret
                   \/ /\ Verdict(answered) = "loaded" /\ job'.pc = "save"
                      /\ job.kind \in {"add", "remove", "enable", "disable"}
                      /\ job'.ks = Candidate(dir.ks) /\ Candidate(dir.ks) # NoKeystore
                      /\ job'.secret = Changed(dir.ks)
                   \/ /\ Verdict(answered) = "legacy" /\ job'.pc = "save"
                      /\ job.kind = "unlock" /\ job'.ks = RecoverLegacy(dir.ks)
                      /\ job'.secret = job.secret
    BY <1>16, LoadStepEffect
  <2>3. /\ Verdict(answered) = "loaded" => Protected
        /\ Verdict(answered) = "legacy" => dir.ks \in Keystores
    BY <2>1, LoadEffect
  <2>4. fresh \in Nat
    BY DEF TypeOK
  <2>5. CASE job' = NoJob
    BY <2>0, <2>5
  <2>6. CASE job' # NoJob /\ job'.pc = "confirm"
    BY <2>0, <2>1, <2>3, <2>6, Fields DEF Protected
  <2>7. CASE job' # NoJob /\ job'.pc = "clear"
    BY <2>0, <2>1, <2>7
  <2>8. CASE job' # NoJob /\ job'.pc = "save" /\ Verdict(answered) = "loaded"
    <3>1. /\ job'.ks \in Keystores /\ job'.ks.version = 3
          /\ job'.kind # "disable" => job'.secret \in Nat
          /\ job'.kind # "remove" => job'.secret = job.secret
      BY <2>0, <2>1, <2>3, <2>8, CandidateFields
    <3> QED
      BY <2>0, <2>1, <2>8, <3>1
  <2>9. CASE job' # NoJob /\ job'.pc = "save" /\ Verdict(answered) # "loaded"
    BY <2>0, <2>1, <2>3, <2>4, <2>9, RecoverLegacyFields
  <2> QED
    BY <2>1, <2>5, <2>6, <2>7, <2>8, <2>9
<1>17. CASE Save
  BY <1>17, SaveEffect
<1>18. CASE CommitAnchor
  BY <1>18, CommitAnchorEffect
<1>19. CASE SaveToken
  <2>1. At("token") /\ job.kind = "enable"
    BY <1>19, SaveTokenEffect, JobFields DEF Kinds
  <2>2. /\ job.ks \in Keystores /\ job.ks.version = 3 /\ app.screen = "session"
    BY <2>1
  <2> QED
    BY <1>19, <2>1, <2>2, SaveTokenEffect, DeviceFields
<1>20. CASE ClearToken
  BY <1>20, ClearTokenEffect
<1>21. CASE Confirm
  BY <1>21, ConfirmEffect
<1>22. CASE Reanchor
  BY <1>22, ReanchorEffect
<1>23. CASE RewriteRoot
  BY <1>23, RewriteRootEffect
<1>24. CASE RewriteMarker
  BY <1>24, RewriteMarkerEffect
<1>25. CASE Stop
  BY <1>25, StopEffect
<1>26. CASE CopyDirectory
  BY <1>26 DEF CopyDirectory
<1>27. CASE Damage
  BY <1>27, DamageEffect
<1>28. CASE UNCHANGED vars
  BY <1>28 DEF vars
<1> QED
  BY <1>1, <1>2, <1>3, <1>4, <1>5, <1>6, <1>7, <1>8, <1>9, <1>10, <1>11, <1>12, <1>13,
     <1>14, <1>15, <1>16, <1>17, <1>18, <1>19, <1>20, <1>21, <1>22, <1>23, <1>24,
     <1>25, <1>26, <1>27, <1>28 DEF Next, Jobs, Steps


\* Where a job's steps happen.
LEMMA CourseFacts ==
    ASSUME TypeOK, CourseInv, ~Idle
    PROVE  /\ job.pc \notin {"reanchor", "root", "marker"} => app.screen \in {"first", "unlock", "session"}
           /\ job.pc \in {"reanchor", "root", "marker"} => app.screen = "recover" /\ job.kind = "recover"
           /\ job.kind = "recover" => job.pc \in {"reanchor", "root", "marker"}
           /\ job.pc \in {"load", "confirm"} => app.screen \in {"unlock", "session"}
           /\ job.kind \in {"add", "enable"} => job.secret # Passphrase
           /\ job.pc = "token" => job.kind = "enable"
           /\ job.pc \in {"save", "anchor", "token", "confirm", "reanchor"} =>
                 /\ job.ks \in Keystores /\ job.ks.version = 3 /\ job.ks.state \in States
<1>1. job.kind \in Kinds
  BY JobFields
<1> QED
  BY <1>1, KeystoreFields DEF CourseInv, Kinds, Passphrase


\* Until damage from outside or a recovery onto file anchors, the marker, the root
\* record and the anchors agree about the backend.
LEMMA BackendStep ==
    ASSUME TypeOK, CourseInv, SlotsInv, BackendInv, [Next]_vars
    PROVE  BackendInv'
<1>0. moves \in Nat /\ damage \in Nat /\ intact \in BOOLEAN
  BY DEF TypeOK
<1> USE <1>0, Fields DEF BackendInv, Calm, Idle, At, Behind, Marker, Protected
<1>1. CASE CreateIdentity
  BY <1>1, CreateIdentityEffect, CourseFacts
<1>2. CASE RestoreIdentity
  BY <1>2, RestoreIdentityEffect, CourseFacts
<1>3. CASE UnlockPassphrase
  BY <1>3, UnlockPassphraseEffect, CourseFacts
<1>4. CASE UnlockPasskey
  BY <1>4, UnlockPasskeyEffect, CourseFacts
<1>5. CASE UnlockKeyring
  BY <1>5, UnlockKeyringEffect, CourseFacts
<1>6. CASE EnrollPasskey
  BY <1>6, EnrollPasskeyEffect, CourseFacts
<1>7. CASE DropPasskey
  BY <1>7, DropPasskeyEffect, CourseFacts
<1>8. CASE EnableAutoUnlock
  BY <1>8, EnableAutoUnlockEffect, CourseFacts
<1>9. CASE DisableAutoUnlock
  BY <1>9, DisableAutoUnlockEffect, CourseFacts
<1>10. CASE RecoverAnchors
  BY <1>10, RecoverAnchorsEffect, CourseFacts
<1>11. CASE Lock
  BY <1>11, LockEffect, CourseFacts
<1>12. CASE Start
  BY <1>12, StartEffect, CourseFacts
<1>13. CASE RepairMarker
  BY <1>13, RepairMarkerEffect, CourseFacts
<1>14. CASE UpgradeLayout
  BY <1>14, UpgradeLayoutEffect, CourseFacts
<1>15. CASE ShowUnlock
  <2>0. /\ app.screen = "loading" /\ app' \in Apps /\ app'.backend = app.backend
        /\ UNCHANGED <<copy, job, fresh, damage, moves, enrolled, revoked, trusted>>
    BY <1>15, ShowUnlockEffect
  <2>1. CASE /\ dir.ks = NoKeystore /\ app'.screen = "first"
             /\ UNCHANGED <<dir, keychain, faults, intact>>
    BY <2>0, <2>1
  <2>2. ASSUME NEW answered \in BOOLEAN, LoadKeystore(answered), app'.screen = "unlock"
        PROVE  BackendInv'
    BY <2>0, <2>2, LoadEffect
  <2> QED
    BY <1>15, <2>1, <2>2, ShowUnlockEffect
<1>16. CASE Load
  <2>1. PICK answered \in BOOLEAN : LoadKeystore(answered)
    BY <1>16, LoadStepEffect
  <2> QED
    BY <1>16, <2>1, LoadStepEffect, LoadEffect, CourseFacts
<1>17. CASE Save
  BY <1>17, SaveEffect, CourseFacts
<1>18. CASE CommitAnchor
  <2>1. job.ks.state \in States /\ dir \in Directories
    BY <1>18, CommitAnchorEffect, KeystoreFields DEF CourseInv, At, TypeOK
  <2> QED
    BY <1>18, <2>1, CommitAnchorEffect, PutAnchorEffect, CourseFacts
<1>19. CASE SaveToken
  BY <1>19, SaveTokenEffect, CourseFacts
<1>20. CASE ClearToken
  BY <1>20, ClearTokenEffect, CourseFacts
<1>21. CASE Confirm
  <2>1. job.ks.state \in States /\ dir \in Directories
    BY <1>21, ConfirmEffect, KeystoreFields DEF CourseInv, At, TypeOK
  <2> QED
    BY <1>21, <2>1, ConfirmEffect, PutAnchorEffect, CourseFacts
<1>22. CASE Reanchor
  <2>1. job.ks.state \in States /\ dir \in Directories
    BY <1>22, ReanchorEffect, KeystoreFields DEF CourseInv, At, TypeOK
  <2> QED
    BY <1>22, <2>1, ReanchorEffect, PutAnchorEffect, CourseFacts
<1>23. CASE RewriteRoot
  BY <1>23, RewriteRootEffect, CourseFacts
<1>24. CASE RewriteMarker
  BY <1>24, RewriteMarkerEffect, CourseFacts
<1>25. CASE Stop
  BY <1>25, StopEffect, CourseFacts
<1>26. CASE CopyDirectory
  BY <1>26, CourseFacts DEF CopyDirectory
<1>27. CASE Damage
  BY <1>27, DamageEffect, CourseFacts
<1>28. CASE UNCHANGED vars
  BY <1>28, CourseFacts DEF vars
<1> QED
  BY <1>1, <1>2, <1>3, <1>4, <1>5, <1>6, <1>7, <1>8, <1>9, <1>10, <1>11, <1>12, <1>13,
     <1>14, <1>15, <1>16, <1>17, <1>18, <1>19, <1>20, <1>21, <1>22, <1>23, <1>24,
     <1>25, <1>26, <1>27, <1>28 DEF Next, Jobs, Steps


\* check_candidate with no anchor or with one that fits.
LEMMA AcceptsFits ==
    ASSUME NEW s
    PROVE  Accepts(s) <=> Fits(Anchor, s)
  BY DEF Accepts, Fits

\* While nothing happened to the store from outside, the keystore on disk is accepted.
LEMMA IntactAccepts ==
    ASSUME TypeOK, BackendInv, AnchorInv, intact, Protected, app.screen \in Behind
    PROVE  Accepts(dir.ks.state)
  BY AcceptsFits, Fields DEF BackendInv, AnchorInv, Anchor, Marker

\* A keystore that the backend in use accepts fits every anchor that will be compared with it.
LEMMA AcceptedFits ==
    ASSUME TypeOK, BackendInv, intact, app.screen \in Behind, NEW s, Accepts(s)
    PROVE  /\ keychain.root # "legacy" /\ Fits(keychain.anchor, s)
           /\ dir.marker = "degraded" => Fits(dir.file, s)
<1>1. CASE app.backend = "secure"
  BY <1>1, AcceptsFits DEF BackendInv, Anchor, Marker, Behind
<1>2. CASE app.backend = "file"
  <2>1. dir.marker = "degraded"
    BY <1>2 DEF BackendInv, Marker
  <2>2. keychain.root # "legacy" /\ keychain.anchor = NoAnchor
    BY <2>1 DEF BackendInv
  <2> QED
    BY <1>2, <2>1, <2>2, AcceptsFits DEF Anchor, Fits
<1> QED
  BY <1>1, <1>2, Fields

\* Whatever will be compared with the keystore on disk accepts it.
LEMMA AnchorStep ==
    ASSUME TypeOK, CourseInv, SlotsInv, BackendInv, AnchorInv, [Next]_vars
    PROVE  AnchorInv'
<1>0. intact \in BOOLEAN /\ dir \in Directories
  BY DEF TypeOK
<1>a. Protected => dir.ks.state \in States
  BY Fields, KeystoreFields DEF Protected
<1> USE <1>0, <1>a, Fields DEF AnchorInv, Idle, At, Protected
<1>1. CASE CreateIdentity
  BY <1>1, CreateIdentityEffect, CourseFacts
<1>2. CASE RestoreIdentity
  BY <1>2, RestoreIdentityEffect, CourseFacts
<1>3. CASE UnlockPassphrase
  BY <1>3, UnlockPassphraseEffect, CourseFacts
<1>4. CASE UnlockPasskey
  BY <1>4, UnlockPasskeyEffect, CourseFacts
<1>5. CASE UnlockKeyring
  BY <1>5, UnlockKeyringEffect, CourseFacts
<1>6. CASE EnrollPasskey
  BY <1>6, EnrollPasskeyEffect, CourseFacts
<1>7. CASE DropPasskey
  BY <1>7, DropPasskeyEffect, CourseFacts
<1>8. CASE EnableAutoUnlock
  BY <1>8, EnableAutoUnlockEffect, CourseFacts
<1>9. CASE DisableAutoUnlock
  BY <1>9, DisableAutoUnlockEffect, CourseFacts
<1>10. CASE RecoverAnchors
  BY <1>10, RecoverAnchorsEffect, CourseFacts
<1>11. CASE Lock
  BY <1>11, LockEffect, CourseFacts
<1>12. CASE Start
  BY <1>12, StartEffect, CourseFacts
<1>13. CASE RepairMarker
  BY <1>13, RepairMarkerEffect, CourseFacts DEF BackendInv, Marker
<1>14. CASE UpgradeLayout
  BY <1>14, UpgradeLayoutEffect, CourseFacts
<1>15. CASE ShowUnlock
  <2>0. /\ app.screen = "loading" /\ app' \in Apps /\ app'.backend = app.backend
        /\ UNCHANGED <<copy, job, fresh, damage, moves, enrolled, revoked, trusted>>
    BY <1>15, ShowUnlockEffect
  <2>1. CASE /\ dir.ks = NoKeystore /\ app'.screen = "first"
             /\ UNCHANGED <<dir, keychain, faults, intact>>
    BY <2>0, <2>1, CurrentFits, CourseFacts
  <2>2. ASSUME NEW answered \in BOOLEAN, LoadKeystore(answered), app'.screen = "unlock"
        PROVE  AnchorInv'
    BY <2>0, <2>2, LoadEffect, CurrentFits, CourseFacts
  <2> QED
    BY <1>15, <2>1, <2>2, ShowUnlockEffect
<1>16. CASE Load
  <2>1. PICK answered \in BOOLEAN :
          /\ LoadKeystore(answered)
          /\ job' = NoJob \/ job'.pc \in {"clear", "save"}
             \/ (job'.ks = dir.ks /\ Verdict(answered) = "loaded")
    BY <1>16, LoadStepEffect
  <2>2. CASE keychain' = keychain /\ dir'.file = dir.file
    BY <1>16, <2>1, <2>2, LoadStepEffect, LoadEffect, CourseFacts
  <2>3. CASE keychain' # keychain \/ dir'.file # dir.file
    <3>1. Protected => Fits(Chain!FromMetadata(dir.ks.state), dir.ks.state)
      BY CurrentFits
    <3> QED
      BY <1>16, <2>1, <2>3, <3>1, LoadStepEffect, LoadEffect, CourseFacts
  <2> QED
    BY <2>2, <2>3
<1>17. CASE Save
  BY <1>17, SaveEffect, CourseFacts, AcceptedFits DEF Behind
<1>18. CASE CommitAnchor
  <2>1. job.ks.state \in States /\ dir \in Directories
    BY <1>18, CommitAnchorEffect, KeystoreFields DEF CourseInv, At, TypeOK
  <2> QED
    BY <1>18, <2>1, CommitAnchorEffect, PutAnchorEffect, CourseFacts, CurrentFits
<1>19. CASE SaveToken
  BY <1>19, SaveTokenEffect, CourseFacts
<1>20. CASE ClearToken
  BY <1>20, ClearTokenEffect, CourseFacts
<1>21. CASE Confirm
  <2>1. job.ks.state \in States /\ dir \in Directories
    BY <1>21, ConfirmEffect, KeystoreFields DEF CourseInv, At, TypeOK
  <2> QED
    BY <1>21, <2>1, ConfirmEffect, PutAnchorEffect, CourseFacts, CurrentFits
<1>22. CASE Reanchor
  <2>1. job.ks.state \in States /\ dir \in Directories
    BY <1>22, ReanchorEffect, KeystoreFields DEF CourseInv, At, TypeOK
  <2> QED
    BY <1>22, <2>1, ReanchorEffect, PutAnchorEffect, CourseFacts, CurrentFits DEF BackendInv
<1>23. CASE RewriteRoot
  BY <1>23, RewriteRootEffect, CourseFacts DEF BackendInv
<1>24. CASE RewriteMarker
  BY <1>24, RewriteMarkerEffect, CourseFacts DEF BackendInv, Marker
<1>25. CASE Stop
  BY <1>25, StopEffect, CourseFacts
<1>26. CASE CopyDirectory
  BY <1>26, CourseFacts DEF CopyDirectory
<1>27. CASE Damage
  BY <1>27, DamageEffect, CourseFacts
<1>28. CASE UNCHANGED vars
  BY <1>28, CourseFacts DEF vars
<1> QED
  BY <1>1, <1>2, <1>3, <1>4, <1>5, <1>6, <1>7, <1>8, <1>9, <1>10, <1>11, <1>12, <1>13,
     <1>14, <1>15, <1>16, <1>17, <1>18, <1>19, <1>20, <1>21, <1>22, <1>23, <1>24,
     <1>25, <1>26, <1>27, <1>28 DEF Next, Jobs, Steps


\* What the user was told opens the store keeps its slot.
LEMMA SlotsStep ==
    ASSUME TypeOK, CourseInv, BackendInv, AnchorInv, SlotsInv, [Next]_vars
    PROVE  SlotsInv'
<1>0. intact \in BOOLEAN /\ dir \in Directories
  BY DEF TypeOK
<1> USE <1>0, Fields DEF SlotsInv, Told, Slots, Idle, At
<1>1. CASE CreateIdentity
  BY <1>1, CreateIdentityEffect, CourseFacts
<1>2. CASE RestoreIdentity
  BY <1>2, RestoreIdentityEffect, CourseFacts
<1>3. CASE UnlockPassphrase
  BY <1>3, UnlockPassphraseEffect, CourseFacts
<1>4. CASE UnlockPasskey
  BY <1>4, UnlockPasskeyEffect, CourseFacts
<1>5. CASE UnlockKeyring
  BY <1>5, UnlockKeyringEffect, CourseFacts
<1>6. CASE EnrollPasskey
  BY <1>6, EnrollPasskeyEffect, CourseFacts
<1>7. CASE DropPasskey
  BY <1>7, DropPasskeyEffect, CourseFacts
<1>8. CASE EnableAutoUnlock
  BY <1>8, EnableAutoUnlockEffect, CourseFacts
<1>9. CASE DisableAutoUnlock
  BY <1>9, DisableAutoUnlockEffect, CourseFacts
<1>10. CASE RecoverAnchors
  BY <1>10, RecoverAnchorsEffect, CourseFacts
<1>11. CASE Lock
  BY <1>11, LockEffect, CourseFacts
<1>12. CASE Start
  BY <1>12, StartEffect, CourseFacts
<1>13. CASE RepairMarker
  BY <1>13, RepairMarkerEffect, CourseFacts
<1>14. CASE UpgradeLayout
  BY <1>14, UpgradeLayoutEffect, CourseFacts
<1>15. CASE ShowUnlock
  <2>1. CASE ~(intact /\ Passphrase \in enrolled)
    <3>1. intact' => intact
      BY <1>15, ShowUnlockEffect, LoadEffect
    <3> QED
      BY <1>15, <2>1, <3>1, ShowUnlockEffect, LoadEffect, CourseFacts
  <2>2. CASE intact /\ Passphrase \in enrolled
    <3>1. Protected => Accepts(dir.ks.state)
      BY <1>15, <2>2, IntactAccepts, ShowUnlockEffect DEF Behind
    <3> QED
      BY <1>15, <2>2, <3>1, ShowUnlockEffect, LoadEffect, CourseFacts
  <2> QED
    BY <2>1, <2>2
<1>16. CASE Load
  <2>0. At("load") /\ fresh' # 0 /\ UNCHANGED <<copy, app, damage, moves, revoked, trusted>>
    BY <1>16, LoadStepEffect
  <2>1. PICK answered \in BOOLEAN :
          /\ LoadKeystore(answered)
          /\ enrolled' = IF Verdict(answered) = "loaded" /\ job.kind = "remove"
                         THEN enrolled \ {Changed(dir.ks)} ELSE enrolled
          /\ \/ job' = NoJob
             \/ /\ job' \in RunningJobs /\ job' # NoJob /\ job'.kind = job.kind
                /\ \/ /\ Verdict(answered) = "loaded" /\ job'.pc = "confirm"
                      /\ job.kind \in {"unlock", "passkey", "keyring"}
                      /\ job'.ks = dir.ks /\ job'.secret = job.secret
                   \/ /\ Verdict(answered) = "loaded" /\ job'.pc = "clear"
                      /\ \/ job.kind = "keyring" /\ dir.ks.body.device # job.secret
                         \/ job.kind = "disable"
                      /\ job'.secret = job.secret
                   \/ /\ Verdict(answered) = "loaded" /\ job'.pc = "save"
                      /\ job.kind \in {"add", "remove", "enable", "disable"}
                      /\ job'.ks = Candidate(dir.ks) /\ Candidate(dir.ks) # NoKeystore
                      /\ job'.secret = Changed(dir.ks)
                   \/ /\ Verdict(answered) = "legacy" /\ job'.pc = "save"
                      /\ job.kind = "unlock" /\ job'.ks = RecoverLegacy(dir.ks)
                      /\ job'.secret = job.secret
    BY <1>16, LoadStepEffect
  <2>2. /\ Verdict(answered) = "loaded" => Protected
        /\ Verdict(answered) = "legacy" => dir.ks \in Keystores
        /\ keychain'.token = keychain.token /\ intact' = (intact /\ answered)
    BY <2>1, LoadEffect
  <2>3. intact' => dir'.ks = dir.ks /\ intact
    <3>1. intact' => intact /\ answered
      BY <2>2
    <3>2. intact /\ Protected => Accepts(dir.ks.state)
      BY <2>0, IntactAccepts, CourseFacts DEF Behind
    <3> QED
      BY <2>1, <3>1, <3>2, LoadEffect
  <2>4. fresh \in Nat
    BY DEF TypeOK
  <2>5. CASE job' = NoJob
    BY <2>0, <2>1, <2>2, <2>3, <2>5
  <2>6. CASE job' # NoJob /\ job'.pc = "confirm"
    BY <2>0, <2>1, <2>2, <2>3, <2>6
  <2>7. CASE job' # NoJob /\ job'.pc = "clear"
    BY <2>0, <2>1, <2>2, <2>3, <2>7
  <2>8. CASE job' # NoJob /\ job'.pc = "save" /\ Verdict(answered) = "loaded"
    <3> DEFINE ks == Candidate(dir.ks)
    <3>1. /\ job.kind # "remove" => Changed(dir.ks) = job.secret
          /\ job.kind = "add" => /\ ks.body.device = dir.ks.body.device
                                 /\ ToSet(dir.ks.body.keys) \cup {job.secret}
                                       \subseteq ToSet(ks.body.keys)
          /\ job.kind = "remove" =>
                /\ ks.body.device = dir.ks.body.device
                /\ ToSet(dir.ks.body.keys) \ {Changed(dir.ks)} \subseteq ToSet(ks.body.keys)
          /\ job.kind = "enable" => ks.body.keys = dir.ks.body.keys /\ ks.body.device = job.secret
          /\ job.kind = "disable" => ks.body.keys = dir.ks.body.keys
      BY <2>0, <2>1, <2>2, <2>8, CandidateFields
    <3>2. /\ job'.ks = ks /\ job'.kind = job.kind /\ job'.secret = Changed(dir.ks)
          /\ job.kind \in {"add", "remove", "enable", "disable"}
      BY <2>1, <2>8
    <3> HIDE DEF ks
    <3>3. CASE job.kind = "add"
      BY <2>0, <2>1, <2>2, <2>3, <2>8, <3>1, <3>2, <3>3
    <3>4. CASE job.kind = "remove"
      BY <2>0, <2>1, <2>2, <2>3, <2>8, <3>1, <3>2, <3>4
    <3>5. CASE job.kind \in {"enable", "disable"}
      BY <2>0, <2>1, <2>2, <2>3, <2>8, <3>1, <3>2, <3>5
    <3> QED
      BY <3>2, <3>3, <3>4, <3>5
  <2>9. CASE job' # NoJob /\ job'.pc = "save" /\ Verdict(answered) # "loaded"
    BY <2>0, <2>1, <2>2, <2>3, <2>4, <2>9, RecoverLegacyFields
  <2> QED
    BY <2>1, <2>5, <2>6, <2>7, <2>8, <2>9
<1>17. CASE Save
  BY <1>17, SaveEffect, CourseFacts, KeystoreAssumption
<1>18. CASE CommitAnchor
  <2>1. At("anchor") /\ job.ks \in Keystores /\ job.ks.state \in States
    BY <1>18, CommitAnchorEffect, CourseFacts
  <2>2. dir'.ks = dir.ks /\ keychain'.token = keychain.token /\ intact' = intact
    BY <1>18, <2>1, CommitAnchorEffect, PutAnchorEffect
  <2>3. intact => job.ks = dir.ks /\ dir.ks # NoKeystore
    BY <2>1, KeystoreFields DEF AnchorInv
  <2>4. CASE job' = NoJob /\ app'.screen = app.screen /\ enrolled' = enrolled
    BY <2>2, <2>4
  <2>5. CASE job.kind = "create" /\ job' = NoJob /\ app'.screen = "session"
             /\ enrolled' = {Passphrase}
    BY <2>2, <2>3, <2>5
  <2>6. CASE job.kind = "add" /\ job' = NoJob /\ app'.screen = app.screen
             /\ enrolled' = enrolled \cup {job.secret}
    BY <2>1, <2>2, <2>3, <2>6, CourseFacts
  <2>7. CASE /\ job' # NoJob /\ job'.kind = job.kind /\ job'.ks = job.ks /\ job'.secret = job.secret
             /\ \/ job.kind = "unlock" /\ job'.pc = "confirm"
                \/ job.kind = "enable" /\ job'.pc = "token"
                \/ job.kind = "disable" /\ job'.pc = "clear"
             /\ app'.screen = app.screen /\ enrolled' = enrolled
    BY <2>1, <2>2, <2>7
  <2> QED
    BY <1>18, <2>4, <2>5, <2>6, <2>7, CommitAnchorEffect
<1>19. CASE SaveToken
  <2>1. At("token") /\ job.kind = "enable" /\ job.ks \in Keystores /\ job.ks.version = 3
        /\ job.ks.body.device = job.secret
    BY <1>19, SaveTokenEffect, CourseFacts
  <2>2. intact => job.ks = dir.ks
    BY <2>1 DEF AnchorInv
  <2>3. /\ RemoveDeviceToken(job.ks).body.keys = job.ks.body.keys
    BY <2>1, DeviceFields
  <2>4. CASE job' = NoJob /\ keychain'.token = job.secret /\ enrolled' = enrolled \cup {job.secret}
    <3>1. dir' = dir /\ intact' = intact /\ app'.screen = app.screen /\ job.secret # Passphrase
      BY <1>19, <2>1, SaveTokenEffect, CourseFacts
    <3>2. ASSUME intact, Passphrase \in enrolled
          PROVE  /\ app.screen # "first" /\ dir.ks # NoKeystore
                 /\ Told \subseteq ToSet(dir.ks.body.keys)
                 /\ dir.ks.body.device = job.secret
      BY <2>1, <2>2, <3>2
    <3> QED
      BY <2>4, <3>1, <3>2
  <2>5. CASE /\ job' # NoJob /\ job'.kind = "undo" /\ job'.pc = "save"
             /\ job'.ks = RemoveDeviceToken(job.ks) /\ UNCHANGED <<keychain, enrolled>>
    BY <1>19, <2>1, <2>2, <2>3, <2>5, SaveTokenEffect
  <2> QED
    BY <1>19, <2>4, <2>5, SaveTokenEffect
<1>20. CASE ClearToken
  BY <1>20, ClearTokenEffect, CourseFacts
<1>21. CASE Confirm
  <2>1. At("confirm") /\ job.ks \in Keystores /\ job.ks.version = 3 /\ job.ks.state \in States
        /\ app.screen \in {"unlock", "session"}
    BY <1>21, ConfirmEffect, CourseFacts
  <2>2. keychain'.token = keychain.token /\ job' = NoJob /\ (intact' => intact)
        /\ enrolled' = enrolled /\ (dir'.ks = NoKeystore /\ intact' => ~Accepts(job.ks.state)
                                    \/ dir.ks = NoKeystore)
        /\ (dir'.ks = dir.ks \/ dir'.ks = NoKeystore) /\ app'.screen \in {app.screen, "session"}
    BY <1>21, <2>1, ConfirmEffect, PutAnchorEffect
  <2>3. intact => job.ks = dir.ks /\ Protected /\ Accepts(dir.ks.state)
    BY <2>1, IntactAccepts, KeystoreFields DEF AnchorInv, Protected, Behind
  <2> QED
    BY <2>1, <2>2, <2>3
<1>22. CASE Reanchor
  <2>1. job.ks.state \in States /\ dir \in Directories
    BY <1>22, ReanchorEffect, KeystoreFields DEF CourseInv, At, TypeOK
  <2> QED
    BY <1>22, <2>1, ReanchorEffect, PutAnchorEffect, CourseFacts
<1>23. CASE RewriteRoot
  BY <1>23, RewriteRootEffect, CourseFacts
<1>24. CASE RewriteMarker
  BY <1>24, RewriteMarkerEffect, CourseFacts
<1>25. CASE Stop
  BY <1>25, StopEffect, CourseFacts
<1>26. CASE CopyDirectory
  BY <1>26, CourseFacts DEF CopyDirectory
<1>27. CASE Damage
  BY <1>27, DamageEffect, CourseFacts
<1>28. CASE UNCHANGED vars
  BY <1>28, CourseFacts DEF vars
<1> QED
  BY <1>1, <1>2, <1>3, <1>4, <1>5, <1>6, <1>7, <1>8, <1>9, <1>10, <1>11, <1>12, <1>13,
     <1>14, <1>15, <1>16, <1>17, <1>18, <1>19, <1>20, <1>21, <1>22, <1>23, <1>24,
     <1>25, <1>26, <1>27, <1>28 DEF Next, Jobs, Steps

-----------------------------------------------------------------------------------
(* The theorems.                                                                     *)

\* The four installations a program of this version can find.
LEMMA InitInv ==
    ASSUME Init
    PROVE  IInv
<1> DEFINE one == <<2>>
<1> DEFINE first == Sealed(Body(1, 1, <<2>>, NoSecret), NoAnchor)
<1>1. /\ Body(1, 1, <<2>>, NoSecret) \in Bodies /\ Body(1, 1, << >>, NoSecret) \in Bodies
      /\ Body(1, 1, <<2>>, NoSecret).keys = <<2>>
  BY DEF Body, Bodies
<1>2. first \in Keystores /\ first.version = 3 /\ first.body = Body(1, 1, <<2>>, NoSecret)
  BY <1>1, SealedType
<1>3. Legacy(1, << >>) \in Keystores /\ Legacy(2, <<2>>) \in Keystores
      /\ Legacy(1, << >>).version = 1 /\ Legacy(2, <<2>>).version = 2
      /\ Legacy(2, <<2>>).body = Body(1, 1, <<2>>, NoSecret)
  BY <1>1 DEF Legacy, Keystores
<1>4. 2 \in ToSet(<<2>>)
  BY DEF ToSet
<1>5. /\ NewDir \in Directories /\ NewDir.ks = NoKeystore /\ NewDir.marker = "none"
      /\ NewDir.file = NoAnchor
  BY DEF NewDir, Directories
<1>6. /\ NewKeychain \in Keychains /\ NewKeychain.root = "none" /\ NewKeychain.anchor = NoAnchor
      /\ NewKeychain.legacy = NoAnchor
  BY DEF NewKeychain, Keychains
<1>7. Down \in Apps /\ Down.screen = "down"
  BY DEF Down, Apps, Screens
<1>8. first.state \in States /\ Chain!FromMetadata(first.state) \in Anchors
      /\ Fits(Chain!FromMetadata(first.state), first.state)
  BY <1>2, KeystoreFields, CurrentFits
<1> HIDE DEF first
<1>9. /\ copy = NewDir /\ app = Down /\ job = NoJob /\ faults = 0 /\ damage = 0 /\ moves = 0
      /\ revoked = {} /\ trusted = FALSE /\ intact = TRUE
  BY DEF Init
<1>a. trusted \in BOOLEAN /\ intact \in BOOLEAN /\ faults \in Nat /\ damage \in Nat
      /\ moves \in Nat /\ revoked \subseteq Nat
  BY <1>9
<1>b. fresh \in Nat /\ enrolled \subseteq Nat
  BY DEF Init, Passphrase
<1>10. CourseInv
  BY <1>9 DEF Init, CourseInv, Idle
<1>11. CASE dir = NewDir /\ keychain = NewKeychain /\ fresh = 1 /\ enrolled = {}
  <2>1. TypeOK
    BY <1>5, <1>6, <1>7, <1>9, <1>11 DEF TypeOK
  <2> QED
    BY <1>5, <1>6, <1>7, <1>9, <1>10, <1>11, <2>1 DEF IInv, BackendInv, AnchorInv, SlotsInv, Calm,
       Protected, Idle, At, Behind
<1>12. ASSUME NEW v \in {1, 2}, NEW keys \in {<< >>, one}, v = 2 <=> keys = one,
              dir = [NewDir EXCEPT !.ks = Legacy(v, keys)], keychain = NewKeychain, fresh = 3,
              enrolled = IF v = 2 THEN {Passphrase, 2} ELSE {Passphrase}
       PROVE  IInv
  <2>1. Legacy(v, keys) \in Keystores /\ Legacy(v, keys).version # 3
        /\ (v = 2 => Legacy(v, keys).body.keys = <<2>>)
    BY <1>1, <1>3, <1>12
  <2>2. /\ dir \in Directories /\ dir.ks = Legacy(v, keys) /\ dir.marker = "none"
        /\ dir.file = NoAnchor /\ dir.ks # NoKeystore
    BY <1>5, <1>12, <2>1, KeystoreAssumption DEF Directories
  <2>3. TypeOK
    BY <1>5, <1>6, <1>7, <1>9, <1>a, <1>b, <1>12, <2>2 DEF TypeOK
  <2>4. BackendInv /\ AnchorInv
    BY <1>6, <1>7, <1>9, <1>12, <2>1, <2>2 DEF BackendInv, AnchorInv, Calm, Protected, Idle, At, Behind
  <2>5. Told \subseteq Slots(dir.ks)
    BY <1>4, <1>12, <2>1, <2>2 DEF Told, Slots
  <2> QED
    BY <1>7, <1>9, <1>10, <2>2, <2>3, <2>4, <2>5 DEF IInv, SlotsInv, Idle
<1>13. CASE /\ dir = [NewDir EXCEPT !.ks = first, !.marker = "secure"]
            /\ keychain = [NewKeychain EXCEPT !.root = "legacy",
                                              !.legacy = Chain!FromMetadata(first.state)]
            /\ fresh = 3 /\ enrolled = {Passphrase, 2}
  <2>1. /\ dir \in Directories /\ dir.ks = first /\ dir.marker = "secure"
        /\ dir.file = NoAnchor /\ dir.ks # NoKeystore
    BY <1>2, <1>5, <1>13, KeystoreAssumption DEF Directories
  <2>2. /\ keychain \in Keychains /\ keychain.root = "legacy" /\ keychain.anchor = NoAnchor
        /\ keychain.legacy = Chain!FromMetadata(first.state)
    BY <1>6, <1>8, <1>13 DEF Keychains
  <2>3. TypeOK
    BY <1>5, <1>7, <1>9, <1>a, <1>b, <2>1, <2>2 DEF TypeOK
  <2>4. BackendInv /\ AnchorInv
    BY <1>2, <1>7, <1>8, <1>9, <2>1, <2>2 DEF BackendInv, AnchorInv, Calm, Protected, Idle, At, Behind
  <2>5. Told \subseteq Slots(dir.ks)
    BY <1>1, <1>2, <1>4, <1>13, <2>1 DEF Told, Slots
  <2> QED
    BY <1>7, <1>9, <1>10, <2>1, <2>3, <2>4, <2>5 DEF IInv, SlotsInv, Idle
<1> QED
  <2>1. CASE dir = [NewDir EXCEPT !.ks = Legacy(1, << >>)] /\ keychain = NewKeychain /\ fresh = 3
             /\ enrolled = {Passphrase}
    <3>1. << >> # <<2>>
      OBVIOUS
    <3> QED
      BY <1>12, <2>1, <3>1
  <2>2. CASE dir = [NewDir EXCEPT !.ks = Legacy(2, <<2>>)] /\ keychain = NewKeychain /\ fresh = 3
             /\ enrolled = {Passphrase, 2}
    BY <1>12, <2>2
  <2> QED
    BY <1>11, <1>13, <2>1, <2>2 DEF Init, first

\* The invariant holds in every reachable state.
THEOREM Invariance == Spec => []IInv
<1>1. Init => IInv
  BY InitInv
<1>2. IInv /\ [Next]_vars => IInv'
  BY TypeStep, CourseStep, BackendStep, AnchorStep, SlotsStep DEF IInv
<1> QED
  BY <1>1, <1>2, PTL DEF Spec

\* Kills at any step, keychain calls that fail outside a load, enrolments, removals and
\* re-anchorings in the keychain never cost the owner a way in: the next start with a
\* working keychain loads the keystore on disk without a recovery, and every means the
\* user was told of has its slot in it (Store::select_anchor_backend,
\* Store::load_keystore, Store::save_keystore).
THEOREM OwnerStillGetsIn == Spec => []StillGetsIn
<1>1. IInv => StillGetsIn
  <2> SUFFICES ASSUME IInv, intact, Passphrase \in enrolled
               PROVE  /\ dir.ks # NoKeystore
                      /\ dir.ks.version = 3 =>
                            /\ SelectBackend(Probe(TRUE)) # "recover"
                            /\ Fits(NextAnchor, dir.ks.state)
                      /\ Told \subseteq Slots(dir.ks)
    BY DEF StillGetsIn, Fits, Told, Slots
  <2> USE DEF IInv
  <2>1. dir.ks # NoKeystore /\ Told \subseteq Slots(dir.ks)
    BY DEF SlotsInv
  <2>2. ASSUME dir.ks.version = 3
        PROVE  SelectBackend(Probe(TRUE)) # "recover" /\ Fits(NextAnchor, dir.ks.state)
    <3>1. Protected
      BY <2>1, <2>2 DEF Protected
    <3>2. /\ dir.marker \in {"secure", "degraded"}
          /\ dir.marker = "secure" => keychain.root # "none"
          /\ keychain.root = "legacy" => dir.marker = "secure"
      BY <3>1, Fields DEF BackendInv
    <3>3. CASE keychain.root # "none"
      <4>1. Probe(TRUE) = "established" /\ SelectBackend("established") = "secure"
        BY <3>3 DEF Probe, SelectBackend
      <4> QED
        BY <3>1, <3>3, <4>1 DEF NextAnchor, AnchorInv
    <3>4. CASE keychain.root = "none"
      <4>1. dir.marker = "degraded" /\ Probe(TRUE) = "empty"
        BY <3>2, <3>4 DEF Probe
      <4>2. SelectBackend("empty") = "file"
        BY <4>1 DEF SelectBackend
      <4> QED
        BY <3>1, <4>1, <4>2 DEF NextAnchor, AnchorInv
    <3> QED
      BY <3>3, <3>4
  <2> QED
    BY <2>1, <2>2
<1> QED
  BY <1>1, Invariance, PTL

\* A store anchored in the keychain is opened with file anchors only when the keychain
\* does not answer and its marker was damaged or an explicit recovery moved it: a failed
\* probe, a crash or a marker alone never downgrades it (Store::select_anchor_backend).
THEOREM AnchorsAreNeverDowngraded == Spec => NeverDowngraded
<1>1. IInv /\ [Next]_vars =>
        [/\ app.screen = "down" /\ app'.screen = "probed" /\ app'.backend = "file"
         /\ keychain.root # "none" /\ keychain.anchor # NoAnchor
         => faults' # faults /\ (damage > 0 \/ moves > 0)]_vars
  <2> SUFFICES ASSUME IInv, Next, app.screen = "down", app'.screen = "probed",
                      app'.backend = "file", keychain.root # "none", keychain.anchor # NoAnchor
               PROVE  faults' # faults /\ (damage > 0 \/ moves > 0)
    BY DEF vars
  <2> USE DEF IInv
  <2>1. CASE Start
    <3>1. faults' # faults /\ dir.marker # "secure"
      BY <2>1, StartEffect
    <3>2. ~Calm
      BY <3>1 DEF BackendInv
    <3>3. damage \in Nat /\ moves \in Nat
      BY DEF TypeOK
    <3> QED
      BY <3>1, <3>2, <3>3 DEF Calm
  <2>2. Idle
    BY CourseFacts
  <2>3. Start
    BY <2>2, LockEffect, RepairMarkerEffect, UpgradeLayoutEffect, ShowUnlockEffect, StopEffect
       DEF Next, Jobs, Steps, CreateIdentity, RestoreIdentity, UnlockPassphrase, UnlockPasskey,
       UnlockKeyring, EnrollPasskey, DropPasskey, EnableAutoUnlock, DisableAutoUnlock, RecoverAnchors,
       Load, Save, CommitAnchor, SaveToken, ClearToken, Confirm, Reanchor, RewriteRoot, RewriteMarker,
       At, CopyDirectory, Damage
  <2> QED
    BY <2>1, <2>3
<1> QED
  BY <1>1, Invariance, PTL DEF Spec, NeverDowngraded

-----------------------------------------------------------------------------------
(* What is revoked stays out.  Keystores and the anchors that keep them out.     *)

\* The body of a keystore is the last thing its state hash commits to.
LEMMA CommittedBody ==
    ASSUME NEW ks \in Keystores, ks.version = 3, Chain!VerifyPayload(ks.state, ks.body)
    PROVE  ks.body = ks.state.cur[Len(ks.state.cur)].payload
<1> DEFINE link == [identity |-> ks.state.identity, object |-> ks.state.object,
                    suite |-> ks.state.suite, payload |-> ks.body]
<1>1. ks.state \in States /\ ks.body \in Bodies
  BY KeystoreFields
<1>2. ks.state.prev \in Seq(Chain!Link) /\ link \in Chain!Link
  BY <1>1 DEF States, Chain!Hash, Chain!Link
<1>3. ks.state.cur = Append(ks.state.prev, link)
  BY DEF Chain!VerifyPayload, Chain!ExpectedHash
<1>4. link.payload = ks.body
  OBVIOUS
<1> HIDE DEF link
<1>5. Len(ks.state.cur) = Len(ks.state.prev) + 1 /\ ks.state.cur[Len(ks.state.prev) + 1] = link
  BY <1>2, <1>3
<1> QED
  BY <1>4, <1>5

\* The state of a keystore that is built or advanced commits to its body.
LEMMA SealedState ==
    ASSUME NEW body \in Bodies, NEW previous \in Anchors \cup {NoAnchor}
    PROVE  /\ Chain!VerifyPayload(Sealed(body, previous).state, body)
           /\ Sealed(body, previous).state.epoch =
                 IF previous = NoAnchor THEN 1 ELSE previous.epoch + 1
<1>1. previous # NoAnchor => previous.epoch \in Nat
  BY DEF Anchors
<1> QED
  BY <1>1 DEF Sealed, Chain!NextState, Chain!VerifyPayload

\* An update is one epoch on.
LEMMA AdvancedState ==
    ASSUME NEW ks \in Keystores, ks.version = 3, NEW body \in Bodies
    PROVE  /\ Chain!VerifyPayload(Advanced(ks, body).state, body)
           /\ Advanced(ks, body).state.epoch = ks.state.epoch + 1
<1> DEFINE anchor == Chain!FromMetadata(ks.state)
<1>1. anchor \in Anchors /\ anchor # NoAnchor
  BY KeystoreFields, CurrentFits, KeystoreAssumption
<1>2. anchor.epoch = ks.state.epoch
  BY DEF Chain!FromMetadata
<1> HIDE DEF anchor
<1>3. Advanced(ks, body) = Sealed(body, anchor)
  BY DEF Advanced, anchor
<1> QED
  BY <1>1, <1>2, <1>3, SealedState

\* An anchor moved to a keystore it accepts keeps out what it kept out.
LEMMA FollowBarred ==
    ASSUME NEW ks \in Keystores, ks.version = 3, Chain!VerifyPayload(ks.state, ks.body),
           NEW other \in Keystores, other.version = 3, Chain!VerifyPayload(other.state, other.body),
           NEW anchor \in Anchors, Chain!Acceptable(anchor, ks.state),
           NEW secrets, Barred(ks, anchor, secrets), Barred(other, anchor, secrets),
           NEW more, more = {} \/ (ks.state.epoch = anchor.epoch + 1 /\ Credentials(ks) \cap more = {})
    PROVE  Barred(other, Chain!FromMetadata(ks.state), secrets \cup more)
<1> DEFINE moved == Chain!FromMetadata(ks.state)
<1>1. /\ ks.state \in States /\ other.state \in States
      /\ ks.state.epoch \in Nat /\ other.state.epoch \in Nat /\ anchor.epoch \in Nat
  BY KeystoreFields DEF States, Anchors
<1>2. moved = [identity |-> ks.state.identity, object |-> ks.state.object,
               suite |-> ks.state.suite, epoch |-> ks.state.epoch, cur |-> ks.state.cur]
  BY DEF Chain!FromMetadata
<1>3. moved.epoch = ks.state.epoch /\ moved.cur = ks.state.cur
  BY <1>2
<1>4. \/ ks.state.epoch = anchor.epoch /\ moved = anchor
      \/ ks.state.epoch = anchor.epoch + 1
  <2>1. CASE Chain!IsCurrent(anchor, ks.state)
    BY <1>1, <1>2, <2>1 DEF Chain!IsCurrent, Chain!SameObject, Anchors
  <2>2. CASE Chain!IsSuccessor(anchor, ks.state)
    BY <1>1, <2>2 DEF Chain!IsSuccessor, Chain!SaturatingSucc
  <2> QED
    BY <2>1, <2>2 DEF Chain!Acceptable
<1> HIDE DEF moved
<1>5. other.state.epoch <= moved.epoch + 1
  BY <1>1, <1>3, <1>4 DEF Barred
<1>6. Credentials(ks) \cap secrets = {}
  BY DEF Barred
<1>7. ASSUME Chain!Acceptable(moved, other.state)
      PROVE  Credentials(other) \cap (secrets \cup more) = {}
  <2>1. CASE Chain!IsCurrent(moved, other.state)
    <3>1. other.state.cur = ks.state.cur
      BY <1>3, <2>1 DEF Chain!IsCurrent
    <3>2. other.body = ks.body
      BY <3>1, CommittedBody
    <3>3. Credentials(other) = Credentials(ks)
      BY <3>2 DEF Credentials
    <3> QED
      BY <1>6, <3>3
  <2>2. CASE Chain!IsSuccessor(moved, other.state)
    <3>1. other.state.epoch = ks.state.epoch + 1
      BY <1>1, <1>3, <2>2 DEF Chain!IsSuccessor, Chain!SaturatingSucc
    <3>2. other.state.epoch <= anchor.epoch + 1
      BY DEF Barred
    <3>3. ks.state.epoch = anchor.epoch /\ moved = anchor
      BY <1>1, <1>4, <3>1, <3>2
    <3>4. more = {}
      BY <1>1, <3>3
    <3> QED
      BY <1>7, <3>3, <3>4 DEF Barred
  <2> QED
    BY <1>7, <2>1, <2>2 DEF Chain!Acceptable
<1> QED
  BY <1>5, <1>7 DEF Barred, moved

\* So does an anchor at the newest keystore there is.
LEMMA NewestBarred ==
    ASSUME NEW ks \in Keystores, ks.version = 3, NEW other \in Keystores, other.version = 3,
           other = ks \/ other.state.epoch < ks.state.epoch,
           NEW secrets, Credentials(ks) \cap secrets = {}
    PROVE  Barred(other, Chain!FromMetadata(ks.state), secrets)
<1>1. ks.state.epoch \in Nat /\ other.state.epoch \in Nat
  BY KeystoreFields DEF States
<1>2. Chain!FromMetadata(ks.state).epoch = ks.state.epoch
  BY DEF Chain!FromMetadata
<1>3. CASE other = ks
  BY <1>1, <1>2, <1>3 DEF Barred
<1>4. CASE other.state.epoch < ks.state.epoch
  BY <1>1, <1>2, <1>4 DEF Barred, Chain!Acceptable, Chain!IsCurrent, Chain!IsSuccessor
<1> QED
  BY <1>3, <1>4

\* A new credential is appended, and occurs once if it is new.
LEMMA AppendDistinct ==
    ASSUME NEW q \in Seq(Nat), IsInjective(q), NEW c \in Nat, c \notin ToSet(q),
           NEW r, r = Append(q, c)
    PROVE  IsInjective(r) /\ ToSet(r) \subseteq ToSet(q) \cup {c}
<1>0. q \in Seq(Nat) /\ c \in Nat
  OBVIOUS
<1>1. /\ DOMAIN q = 1..Len(q) /\ DOMAIN Append(q, c) = 1..(Len(q) + 1)
      /\ Len(q) \in Nat /\ Append(q, c)[Len(q) + 1] = c
      /\ \A i \in 1..Len(q) : Append(q, c)[i] = q[i]
  BY <1>0
<1>2. /\ DOMAIN r = 1..(Len(q) + 1) /\ r[Len(q) + 1] = c
      /\ \A i \in 1..Len(q) : r[i] = q[i] /\ q[i] \in ToSet(q)
      /\ \A i, j \in 1..Len(q) : q[i] = q[j] => i = j
  BY <1>1 DEF ToSet, IsInjective
<1>3. \A i \in 1..(Len(q) + 1) : i \in 1..Len(q) \/ i = Len(q) + 1
  BY <1>1
<1>4. \A i, j \in 1..(Len(q) + 1) : r[i] = r[j] => i = j
  BY <1>2, <1>3
<1>5. \A i \in 1..(Len(q) + 1) : r[i] \in ToSet(q) \cup {c}
  BY <1>2, <1>3
<1>6. IsInjective(r)
  BY <1>2, <1>4 DEF IsInjective
<1>7. ToSet(r) \subseteq ToSet(q) \cup {c}
  <2>1. ToSet(r) = {r[i] : i \in 1..(Len(q) + 1)}
    BY <1>2 DEF ToSet
  <2> QED
    BY <1>5, <2>1
<1> QED
  BY <1>6, <1>7

\* What is removed from a sequence without duplicates is no longer in it.
LEMMA RemoveDistinct ==
    ASSUME NEW q \in Seq(Nat), IsInjective(q), NEW i \in 1..Len(q)
    PROVE  /\ IsInjective(RemoveAt(q, i))
           /\ ToSet(RemoveAt(q, i)) \subseteq ToSet(q) \ {q[i]}
<1> DEFINE r == RemoveAt(q, i)
           old(j) == IF j < i THEN j ELSE j + 1
<1>1. /\ r \in Seq(Nat) /\ Len(r) = Len(q) - 1
      /\ \A j \in 1..(Len(q) - 1) : r[j] = IF j < i THEN q[j] ELSE q[j + 1]
  BY RemoveAtFields
<1> HIDE DEF r
<1>2. Len(q) \in Nat /\ DOMAIN q = 1..Len(q) /\ DOMAIN r = 1..(Len(q) - 1)
  BY <1>1
<1>3. ASSUME NEW j \in 1..(Len(q) - 1)
      PROVE  r[j] = q[old(j)] /\ old(j) \in 1..Len(q) /\ old(j) # i
  <2>1. old(j) \in 1..Len(q) /\ old(j) # i
    BY <1>2
  <2>2. r[j] = q[old(j)]
    BY <1>1
  <2> QED
    BY <2>1, <2>2
<1>4. \A j, k \in 1..(Len(q) - 1) : old(j) = old(k) => j = k
  BY <1>2
<1> HIDE DEF old
<1>5. \A j, k \in 1..Len(q) : q[j] = q[k] => j = k
  BY <1>2 DEF IsInjective
<1>6. \A j, k \in 1..(Len(q) - 1) : r[j] = r[k] => j = k
  BY <1>3, <1>4, <1>5
<1>7. \A j \in 1..(Len(q) - 1) : r[j] \in ToSet(q) \ {q[i]}
  BY <1>2, <1>3, <1>5 DEF ToSet
<1>8. IsInjective(r)
  BY <1>2, <1>6 DEF IsInjective
<1>9. ToSet(r) \subseteq ToSet(q) \ {q[i]}
  <2>1. ToSet(r) = {r[j] : j \in 1..(Len(q) - 1)}
    BY <1>2 DEF ToSet
  <2> QED
    BY <1>7, <2>1
<1> QED
  BY <1>8, <1>9 DEF r

\* A new keystore has no credentials and starts a chain.
LEMMA NewKeystoreState ==
    ASSUME NEW owner \in Nat, fresh \in Nat, NewKeystore(owner)
    PROVE  /\ Chain!VerifyPayload(job'.ks.state, job'.ks.body) /\ job'.ks.state.epoch = 1
           /\ job'.ks.body.keys = << >>
<1> DEFINE body == Body(owner, fresh, << >>, NoSecret)
<1>1. body \in Bodies /\ body.keys = << >>
  BY DEF Body, Bodies
<1> HIDE DEF body
<1>2. job'.ks = Sealed(body, NoAnchor)
  BY DEF NewKeystore, NewJob, body
<1>3. job'.ks.body = body
  BY <1>1, <1>2, SealedType
<1> QED
  BY <1>1, <1>2, <1>3, SealedState

\* So does the recovery of a keystore of an older version, which keeps the credentials.
LEMMA RecoverLegacyState ==
    ASSUME NEW ks \in Keystores, ks.version # 3, fresh \in Nat
    PROVE  LET new == RecoverLegacy(ks) IN
           /\ Chain!VerifyPayload(new.state, new.body) /\ new.state.epoch = 1
           /\ new.body.keys = ks.body.keys
<1> DEFINE body == IF ks.version = 1 THEN [ks.body EXCEPT !.dek = fresh] ELSE ks.body
<1>1. body \in Bodies /\ body.keys = ks.body.keys
  BY KeystoreFields DEF Bodies
<1>2. RecoverLegacy(ks) = Sealed(body, NoAnchor)
  BY DEF RecoverLegacy
<1> HIDE DEF body
<1>3. RecoverLegacy(ks).body = body
  BY <1>1, <1>2, SealedType
<1> QED
  BY <1>1, <1>2, <1>3, SealedState

\* Taking out the device slot is an update that leaves the credentials alone.
LEMMA DeviceState ==
    ASSUME NEW ks \in Keystores, ks.version = 3
    PROVE  LET new == RemoveDeviceToken(ks) IN
           /\ Chain!VerifyPayload(new.state, new.body) /\ new.state.epoch = ks.state.epoch + 1
           /\ new.body.keys = ks.body.keys
<1> DEFINE body == [ks.body EXCEPT !.device = NoSecret]
<1>1. body \in Bodies /\ body.keys = ks.body.keys
  BY KeystoreFields DEF Bodies
<1>2. RemoveDeviceToken(ks) = Advanced(ks, body)
  BY DEF RemoveDeviceToken
<1> HIDE DEF body
<1> QED
  BY <1>1, <1>2, AdvancedFields, AdvancedState

\* What a job makes of the keystore on disk is its next update; only an enrolment adds a
\* credential, and what a removal removes is gone.
LEMMA CandidateState ==
    ASSUME TypeOK, CourseInv, At("load"), Protected, IsInjective(dir.ks.body.keys),
           job.kind \in {"add", "remove", "enable", "disable"}, Candidate(dir.ks) # NoKeystore,
           job.kind = "add" => job.secret \notin Credentials(dir.ks)
    PROVE  LET new == Candidate(dir.ks) IN
           /\ Chain!VerifyPayload(new.state, new.body)
           /\ new.state.epoch = dir.ks.state.epoch + 1
           /\ IsInjective(new.body.keys)
           /\ job.kind = "add" => Credentials(new) \subseteq Credentials(dir.ks) \cup {job.secret}
           /\ job.kind # "add" => Credentials(new) \subseteq Credentials(dir.ks)
           /\ job.kind = "remove" => /\ Changed(dir.ks) \in Credentials(dir.ks)
                                     /\ Changed(dir.ks) \notin Credentials(new)
           /\ job.kind # "remove" => Changed(dir.ks) = job.secret
<1> DEFINE ks == dir.ks
           q == dir.ks.body.keys
<1>1. ks \in Keystores /\ ks.version = 3 /\ q \in Seq(Nat) /\ ks.body \in Bodies
      /\ job.secret \in Nat \cup {NoSecret}
  BY Fields, JobFields, KeystoreFields DEF Protected, At
<1>2. job.kind \in {"add", "remove", "enable"} => job.secret \in Nat
  BY DEF CourseInv, At
<1>3. ASSUME NEW body \in Bodies, Candidate(dir.ks) = Advanced(dir.ks, body)
      PROVE  LET new == Candidate(dir.ks) IN
             /\ Chain!VerifyPayload(new.state, new.body)
             /\ new.state.epoch = dir.ks.state.epoch + 1 /\ new.body = body
  BY <1>1, <1>3, AdvancedFields, AdvancedState
<1>4. job.kind # "remove" => Changed(dir.ks) = job.secret
  BY DEF Changed
<1>5. CASE job.kind = "add"
  <2> DEFINE body == [ks.body EXCEPT !.keys = Append(@, job.secret)]
  <2>1. body.keys = Append(q, job.secret) /\ body \in Bodies
    <3>1. Append(q, job.secret) \in Seq(Nat)
      BY <1>1, <1>2, <1>5
    <3> QED
      BY <1>1, <3>1 DEF Bodies
  <2>2. Candidate(dir.ks) = Advanced(dir.ks, body)
    BY <1>5 DEF Candidate, AddPasskey
  <2> HIDE DEF body
  <2>3. job.secret \in Nat /\ job.secret \notin ToSet(q) /\ IsInjective(q)
    BY <1>2, <1>5 DEF Credentials
  <2>4. IsInjective(body.keys) /\ ToSet(body.keys) \subseteq ToSet(q) \cup {job.secret}
    BY <1>1, <2>1, <2>3, AppendDistinct
  <2> QED
    BY <1>3, <1>4, <1>5, <2>1, <2>2, <2>4 DEF Credentials
<1>6. CASE job.kind = "remove"
  <2>1. job.secret \in 1..Len(q) /\ DOMAIN q = 1..Len(q)
    <3>1. job.secret \in Nat /\ job.secret # 0 /\ job.secret <= Len(q) /\ Len(q) \in Nat
      BY <1>1, <1>2, <1>6 DEF CourseInv, At, Candidate
    <3> QED
      BY <1>1, <3>1
  <2> DEFINE body == [ks.body EXCEPT !.keys = RemoveAt(@, job.secret)]
  <2>2. body.keys = RemoveAt(q, job.secret) /\ body \in Bodies
    <3>1. RemoveAt(q, job.secret) \in Seq(Nat)
      BY <1>1, <2>1, RemoveAtFields
    <3> QED
      BY <1>1, <3>1 DEF Bodies
  <2>3. Candidate(dir.ks) = Advanced(dir.ks, body)
    BY <1>6 DEF Candidate, RemovePasskey
  <2> HIDE DEF body
  <2>4. IsInjective(body.keys) /\ ToSet(body.keys) \subseteq ToSet(q) \ {q[job.secret]}
    BY <1>1, <2>1, <2>2, RemoveDistinct
  <2>5. Changed(dir.ks) = q[job.secret] /\ q[job.secret] \in ToSet(q)
    BY <1>6, <2>1 DEF Changed, ToSet
  <2> QED
    BY <1>3, <1>6, <2>2, <2>3, <2>4, <2>5 DEF Credentials
<1>7. CASE job.kind = "enable"
  <2> DEFINE body == [ks.body EXCEPT !.device = job.secret]
  <2>1. body.keys = q /\ body \in Bodies
    BY <1>1, <1>2, <1>7 DEF Bodies
  <2>2. Candidate(dir.ks) = Advanced(dir.ks, body)
    BY <1>7 DEF Candidate, SetDeviceToken
  <2> HIDE DEF body
  <2> QED
    BY <1>3, <1>4, <1>7, <2>1, <2>2 DEF Credentials
<1>8. CASE job.kind = "disable"
  <2> DEFINE body == [ks.body EXCEPT !.device = NoSecret]
  <2>1. body.keys = q /\ body \in Bodies
    BY <1>1 DEF Bodies
  <2>2. Candidate(dir.ks) = Advanced(dir.ks, body)
    BY <1>8 DEF Candidate, RemoveDeviceToken
  <2> HIDE DEF body
  <2> QED
    BY <1>3, <1>4, <1>8, <2>1, <2>2 DEF Credentials
<1> QED
  BY <1>5, <1>6, <1>7, <1>8

-----------------------------------------------------------------------------------
(* The keystores there are, and the steps that make none.                        *)

\* The keystores there are and what they hold.
LEMMA ExistingType ==
    ASSUME TypeOK
    PROVE  /\ Existing \subseteq Keystores
           /\ dir.ks # NoKeystore => dir.ks \in Existing
           /\ copy.ks # NoKeystore => copy.ks \in Existing
           /\ ~Idle /\ job.ks # NoKeystore => job.ks \in Existing
<1>1. dir.ks \in Keystores \cup {NoKeystore} /\ copy.ks \in Keystores \cup {NoKeystore}
  BY DEF TypeOK, Directories
<1>2. ~Idle => job.ks \in Keystores \cup {NoKeystore}
  BY JobFields
<1> QED
  BY <1>1, <1>2 DEF Existing

\* Credentials are numbers.
LEMMA CredentialsType ==
    ASSUME NEW ks \in Keystores
    PROVE  Credentials(ks) \subseteq Nat
<1>1. ks.body.keys \in Seq(Nat)
  BY KeystoreFields
<1>2. /\ DOMAIN ks.body.keys = 1..Len(ks.body.keys)
      /\ \A i \in 1..Len(ks.body.keys) : ks.body.keys[i] \in Nat
  BY <1>1, SeqFields
<1> QED
  BY <1>2 DEF Credentials, ToSet

\* Secrets made later change nothing about a keystore, nor does another token.
LEMMA SoundMoves ==
    ASSUME NEW ks \in Keystores, NEW limit \in Nat, NEW token, Sound(ks, limit, token),
           NEW later \in Nat, later >= limit, NEW other,
           other = token \/ other \notin Credentials(ks)
    PROVE  Sound(ks, later, other)
<1>1. \A c \in Credentials(ks) : c \in Nat /\ c < limit /\ c # token
  BY CredentialsType DEF Sound
<1>2. \A c \in Credentials(ks) : c < later
  BY <1>1
<1>3. \A c \in Credentials(ks) : c # other
  BY <1>1
<1> QED
  BY <1>2, <1>3 DEF Sound

\* A job that starts loading the keystore.
Spawn ==
    \/ UnlockPassphrase \/ UnlockPasskey \/ UnlockKeyring
    \/ EnrollPasskey \/ DropPasskey \/ EnableAutoUnlock \/ DisableAutoUnlock

\* What the actions that start such a job have in common.
LEMMA SpawnEffect ==
    ASSUME TypeOK, Spawn
    PROVE  /\ Idle /\ app.screen \in {"unlock", "session"}
           /\ dir'.ks = dir.ks /\ app'.screen = app.screen /\ app'.backend = app.backend
           /\ fresh' \in Nat /\ fresh' >= fresh
           /\ \/ job' = NoJob
              \/ /\ job' # NoJob /\ job'.ks = NoKeystore /\ job'.pc = "load"
                 /\ job'.kind \in {"unlock", "passkey", "keyring", "add", "remove", "enable", "disable"}
                 /\ job'.kind \in {"add", "enable"} => job'.secret = fresh /\ fresh' = fresh + 1
                 /\ job'.kind = "disable" => job'.secret = keychain.token
                 /\ job'.kind = "unlock" => job'.secret = NoSecret
           /\ UNCHANGED <<keychain, copy, revoked, trusted, intact>>
<1>1. fresh \in Nat
  BY DEF TypeOK
<1>2. ASSUME NEW kind, NEW secret, NEW right, job' = NewJob(kind, "load", secret, right)
      PROVE  job'.ks = NoKeystore /\ job'.secret = secret
  BY <1>2 DEF NewJob
<1>3. job' = NoJob \/ job'.ks = NoKeystore
  BY <1>2 DEF Spawn, UnlockPassphrase, UnlockPasskey, UnlockKeyring, EnrollPasskey, DropPasskey,
              EnableAutoUnlock, DisableAutoUnlock
<1>4. CASE UnlockPassphrase
  <2>1. job'.secret = NoSecret
    BY <1>2, <1>4 DEF UnlockPassphrase
  <2> QED
    BY <1>1, <1>3, <1>4, <2>1, UnlockPassphraseEffect
<1>5. CASE UnlockPasskey
  BY <1>1, <1>3, <1>5, UnlockPasskeyEffect
<1>6. CASE UnlockKeyring
  BY <1>1, <1>3, <1>6, UnlockKeyringEffect
<1>7. CASE EnrollPasskey
  <2>1. fresh' = fresh + 1
    BY <1>7 DEF EnrollPasskey
  <2> QED
    BY <1>1, <1>3, <1>7, <2>1, EnrollPasskeyEffect
<1>8. CASE DropPasskey
  BY <1>1, <1>3, <1>8, DropPasskeyEffect
<1>9. CASE EnableAutoUnlock
  <2>1. fresh' = fresh + 1
    BY <1>9 DEF EnableAutoUnlock
  <2> QED
    BY <1>1, <1>3, <1>9, <2>1, EnableAutoUnlockEffect
<1>10. CASE DisableAutoUnlock
  <2>1. job'.secret = keychain.token
    BY <1>2, <1>10 DEF DisableAutoUnlock
  <2> QED
    BY <1>1, <1>3, <1>10, <2>1, DisableAutoUnlockEffect
<1> QED
  BY <1>4, <1>5, <1>6, <1>7, <1>8, <1>9, <1>10 DEF Spawn

\* The trust in the anchors begins only where one of this store is put into the keychain.
LEMMA StartTrust ==
    ASSUME TypeOK, Start
    PROVE  trusted' => trusted /\ (app'.screen = "probed" => app'.backend = "secure")
<1>1. PICK answered \in BOOLEAN, saved \in BOOLEAN : Chosen(answered, saved)
  BY AnswersBoolean DEF Start
<1> DEFINE backend == Established(SelectBackend(Probe(answered)), Probe(answered), saved)
<1>2. /\ app' = IF backend = "recover" THEN [app EXCEPT !.screen = "recover"]
                ELSE [app EXCEPT !.screen = "probed", !.backend = backend, !.launch = TRUE]
      /\ trusted' = (trusted /\ backend # "file")
  BY <1>1 DEF Chosen
<1> HIDE DEF backend
<1>3. app \in Apps /\ app'.backend \in {"secure", "file"}
  BY StartEffect DEF TypeOK, Apps
<1>4. CASE backend = "recover"
  <2>1. app'.screen = "recover"
    BY <1>2, <1>3, <1>4 DEF Apps
  <2> QED
    BY <1>2, <2>1 DEF TypeOK
<1>5. CASE backend # "recover"
  <2>1. app'.backend = backend
    BY <1>2, <1>3, <1>5 DEF Apps
  <2> QED
    BY <1>2, <1>3, <2>1 DEF TypeOK
<1> QED
  BY <1>4, <1>5

\* No keystore, secret or anchor is made, and nothing is revoked.
Quiet ==
    /\ Existing' \subseteq Existing
    /\ fresh' \in Nat /\ fresh' >= fresh
    /\ keychain'.token \in {keychain.token, NoSecret}
    /\ revoked' = revoked
    /\ trusted' => trusted /\ keychain'.anchor = keychain.anchor

\* The steps that are quiet.
LEMMA QuietSteps ==
    ASSUME TypeOK, CourseInv, TrustedInv,
           \/ Spawn \/ RecoverAnchors \/ Lock \/ Start \/ RepairMarker \/ Save \/ Reanchor
           \/ RewriteRoot \/ RewriteMarker \/ Stop \/ CopyDirectory \/ Damage \/ UNCHANGED vars
    PROVE  Quiet
<1>0. fresh \in Nat /\ keychain \in Keychains /\ dir \in Directories
  BY DEF TypeOK
<1> USE <1>0 DEF Quiet, Existing, Idle
<1>1. CASE Spawn
  BY <1>1, SpawnEffect
<1>2. CASE RecoverAnchors
  BY <1>2, RecoverAnchorsEffect
<1>3. CASE Lock
  BY <1>3, LockEffect
<1>4. CASE Start
  BY <1>4, StartEffect, StartTrust
<1>5. CASE RepairMarker
  BY <1>5, RepairMarkerEffect
<1>6. CASE Save
  BY <1>6, SaveEffect DEF At
<1>7. CASE Reanchor
  <2>1. ~Idle /\ job.kind = "recover" /\ job.ks.state \in States
    BY <1>7, ReanchorEffect, CourseFacts, KeystoreFields DEF At, CourseInv
  <2>2. ~trusted
    BY <2>1 DEF TrustedInv
  <2>3. dir'.ks = dir.ks /\ keychain'.token = keychain.token
    BY <1>7, <2>1, ReanchorEffect, PutAnchorEffect
  <2> QED
    BY <1>7, <2>1, <2>2, <2>3, ReanchorEffect DEF At
<1>8. CASE RewriteRoot
  BY <1>8, RewriteRootEffect DEF At
<1>9. CASE RewriteMarker
  BY <1>9, RewriteMarkerEffect
<1>10. CASE Stop
  BY <1>10, StopEffect
<1>11. CASE CopyDirectory
  BY <1>11 DEF CopyDirectory
<1>12. CASE Damage
  <2>1. Idle /\ UNCHANGED <<job, fresh, revoked>> /\ copy' = NewDir
    BY <1>12, DamageEffect DEF Damage
  <2>2. copy'.ks = NoKeystore
    BY <2>1 DEF NewDir
  <2>3. /\ dir'.ks \in {dir.ks, copy.ks}
        /\ \/ UNCHANGED <<keychain, trusted>>
           \/ keychain' = NewKeychain /\ ~trusted'
    BY <1>12 DEF Damage, Directories
  <2>4. NewKeychain.token = NoSecret
    BY DEF NewKeychain
  <2> QED
    BY <2>1, <2>2, <2>3, <2>4
<1>13. CASE UNCHANGED vars
  BY <1>13 DEF vars
<1> QED
  BY <1>1, <1>2, <1>3, <1>4, <1>5, <1>6, <1>7, <1>8, <1>9, <1>10, <1>11, <1>12, <1>13

\* Loading, anchoring and confirming a keystore moves the keystores there are and nothing
\* else that concerns the slots.
LEMMA LoadKeeps ==
    ASSUME TypeOK, NEW answered \in BOOLEAN, LoadKeystore(answered)
    PROVE  dir'.ks \in {dir.ks, NoKeystore} /\ keychain'.token = keychain.token
  BY LoadEffect

\* Writing the anchor keeps the keystores and the token.
LEMMA CommitKeeps ==
    ASSUME TypeOK, CourseInv, CommitAnchor
    PROVE  /\ ~Idle /\ job.ks \in Keystores /\ job.ks.version = 3
           /\ dir'.ks = dir.ks /\ keychain'.token = keychain.token
           /\ Existing' \subseteq Existing /\ fresh' = fresh /\ copy' = copy
           /\ ~Idle' => job'.ks = job.ks
<1>1. ~Idle /\ job.ks \in Keystores /\ job.ks.version = 3 /\ job.ks.state \in States
  BY CommitAnchorEffect, KeystoreFields DEF At, CourseInv
<1>2. dir \in Directories
  BY DEF TypeOK
<1>3. dir'.ks = dir.ks /\ keychain'.token = keychain.token
  BY <1>1, <1>2, CommitAnchorEffect, PutAnchorEffect
<1>4. copy' = copy /\ fresh' = fresh /\ (~Idle' => job'.ks = job.ks)
  BY CommitAnchorEffect DEF Idle
<1> QED
  BY <1>1, <1>3, <1>4 DEF Existing

\* Confirming an unlock keeps them too, or sends the keystore to quarantine.
LEMMA ConfirmKeeps ==
    ASSUME TypeOK, CourseInv, Confirm
    PROVE  /\ ~Idle /\ job.ks \in Keystores /\ job.ks.version = 3
           /\ dir'.ks \in {dir.ks, NoKeystore} /\ keychain'.token = keychain.token
           /\ Existing' \subseteq Existing
<1>1. ~Idle /\ job.ks \in Keystores /\ job.ks.version = 3 /\ job.ks.state \in States
  BY ConfirmEffect, KeystoreFields DEF At, CourseInv
<1>2. dir'.ks \in {dir.ks, NoKeystore} /\ keychain'.token = keychain.token
  BY <1>1, ConfirmEffect, PutAnchorEffect
<1>3. copy' = copy /\ job' = NoJob
  BY ConfirmEffect
<1> QED
  BY <1>1, <1>2, <1>3 DEF Existing, Idle

\* Forgetting the device revokes its token as it leaves the keychain.
LEMMA ClearTokenRevokes ==
    ASSUME ClearToken, TypeOK
    PROVE  \/ keychain'.token = keychain.token /\ revoked' = revoked
           \/ /\ keychain'.token = NoSecret
              /\ \/ revoked' = revoked
                 \/ job.kind = "disable" /\ revoked' = revoked \cup ({job.secret} \ {NoSecret})
<1>1. keychain \in Keychains
  BY DEF TypeOK
<1> QED
  BY <1>1 DEF ClearToken, Keychains

\* A job that only clears the token goes on without a keystore.
LEMMA ClearedJob ==
    ASSUME TypeOK, Load, job' # NoJob, job'.pc = "clear"
    PROVE  job'.ks = NoKeystore
<1>1. job \in RunningJobs
  BY JobFields DEF Load, At
<1>2. \/ job' = NoJob
      \/ \E ks \in {NoKeystore} : job' = [job EXCEPT !.pc = "clear", !.ks = ks]
      \/ \E ks : job' = [job EXCEPT !.pc = "confirm", !.ks = ks]
      \/ \E ks, secret : job' = [job EXCEPT !.pc = "save", !.ks = ks, !.secret = secret]
      \/ \E ks : job' = [job EXCEPT !.pc = "save", !.ks = ks]
  BY DEF Load, Finish, Goto
<1> QED
  BY <1>1, <1>2 DEF RunningJobs

\* A security key opens the keystore that an unlock with it goes on with.
LEMMA ConfirmedKey ==
    ASSUME TypeOK, Load, job.kind = "passkey", ~Idle', job'.pc = "confirm"
    PROVE  job.secret \in Credentials(dir.ks)
<1>1. ~Idle /\ dir.ks \in Keystores \cup {NoKeystore} /\ fresh \in Nat
  BY Fields DEF Load, At, TypeOK
<1>2. Opens(dir.ks)
  BY <1>1, GotoFields DEF Load, Finish, Idle
<1>3. \E slot \in ToSet(dir.ks.body.keys) : Unwraps(slot, job.secret)
  BY <1>2 DEF Opens
<1> QED
  BY <1>3 DEF Unwraps, Credentials

\* What is sound stays so, whatever the step is.
LEMMA SoundFrom ==
    ASSUME TypeOK, SoundInv, fresh' \in Nat, fresh' >= fresh,
           \A ks \in Existing' : ks \in Existing \/ Sound(ks, fresh', keychain'.token),
           \A ks \in Existing :
              keychain'.token = keychain.token \/ keychain'.token \notin Credentials(ks),
           \A secret \in revoked' : secret < fresh',
           keychain'.token \notin revoked',
           keychain'.token # NoSecret => keychain'.token < fresh'
    PROVE  SoundInv'
<1>1. fresh \in Nat
  BY DEF TypeOK
<1>2. ASSUME NEW ks \in Existing' PROVE Sound(ks, fresh', keychain'.token)
  <2>1. CASE ks \in Existing
    <3>1. ks \in Keystores /\ Sound(ks, fresh, keychain.token)
      BY <2>1, ExistingType DEF SoundInv
    <3> QED
      BY <1>1, <2>1, <3>1, SoundMoves
  <2> QED
    BY <1>2, <2>1
<1> QED
  BY <1>2 DEF SoundInv

-----------------------------------------------------------------------------------
(* The secrets of keystores and jobs.                                            *)

\* Every keystore there is stays one with its own state and unique credentials, and a
\* token or credential is not made twice.
LEMMA SoundStep ==
    ASSUME TypeOK, CourseInv, SlotsInv, TrustedInv, SoundInv, SecretsInv, [Next]_vars
    PROVE  SoundInv'
<1>0. /\ fresh \in Nat /\ revoked \subseteq Nat /\ NoSecret \notin Nat
      /\ keychain.token \in Nat \cup {NoSecret}
      /\ \A ks \in Existing : Credentials(ks) \subseteq Nat
      /\ \A secret \in revoked : secret < fresh
      /\ keychain.token \notin revoked
      /\ keychain.token # NoSecret => keychain.token < fresh
  BY Fields, ExistingType, CredentialsType, KeystoreAssumption DEF TypeOK, SoundInv
<1>a. ASSUME fresh' \in Nat, fresh' >= fresh, keychain'.token \in {keychain.token, NoSecret},
             revoked' = revoked,
             \A ks \in Existing' : ks \in Existing \/ Sound(ks, fresh', keychain'.token)
      PROVE  SoundInv'
  <2>1. \A secret \in revoked' : secret < fresh'
    BY <1>0, <1>a
  <2>2. keychain'.token \notin revoked'
    BY <1>0, <1>a
  <2>3. keychain'.token # NoSecret => keychain'.token < fresh'
    BY <1>0, <1>a
  <2>4. \A ks \in Existing :
           keychain'.token = keychain.token \/ keychain'.token \notin Credentials(ks)
    BY <1>0, <1>a
  <2> QED
    BY <1>a, <2>1, <2>2, <2>3, <2>4, SoundFrom
<1>1. CASE Quiet
  BY <1>1, <1>a DEF Quiet
<1>2. CASE CreateIdentity \/ RestoreIdentity
  <2>1. PICK owner \in Nat : NewKeystore(owner)
    BY <1>0, <1>2 DEF CreateIdentity, RestoreIdentity, Exported
  <2>2. /\ job' # NoJob /\ Idle /\ UNCHANGED <<dir, keychain, copy, revoked>>
        /\ fresh' = fresh + 1 /\ job'.ks \in Keystores
    BY <1>2, CreateIdentityEffect, RestoreIdentityEffect DEF CreateIdentity, RestoreIdentity
  <2>3. /\ Chain!VerifyPayload(job'.ks.state, job'.ks.body) /\ job'.ks.body.keys = << >>
    BY <1>0, <2>1, NewKeystoreState
  <2>4. IsInjective(job'.ks.body.keys) /\ Credentials(job'.ks) = {}
    BY <2>3 DEF IsInjective, Credentials, ToSet
  <2>5. Sound(job'.ks, fresh', keychain'.token)
    BY <2>3, <2>4 DEF Sound
  <2>6. \A ks \in Existing' : ks \in Existing \/ ks = job'.ks
    BY <2>2 DEF Existing, Idle
  <2> QED
    BY <1>0, <1>a, <2>2, <2>5, <2>6
<1>3. CASE UpgradeLayout
  BY <1>0, <1>3, <1>a, UpgradeLayoutEffect DEF Existing, Idle
<1>4. CASE ShowUnlock
  <2>1. dir'.ks \in {dir.ks, NoKeystore} /\ keychain'.token = keychain.token
    BY <1>4, ShowUnlockEffect, LoadKeeps
  <2>2. UNCHANGED <<copy, job, fresh, revoked>>
    BY <1>4, ShowUnlockEffect
  <2>3. Existing' \subseteq Existing
    BY <2>1, <2>2 DEF Existing, Idle
  <2> QED
    BY <1>0, <1>a, <2>1, <2>2, <2>3
<1>5. CASE Load
  <2>1. PICK answered \in BOOLEAN :
          /\ LoadKeystore(answered)
          /\ \/ job' = NoJob
             \/ /\ job' # NoJob /\ job'.pc = "confirm" /\ job'.ks = dir.ks
             \/ /\ job' # NoJob /\ job'.pc = "clear"
             \/ /\ job' # NoJob /\ job'.pc = "save" /\ Verdict(answered) = "loaded"
                /\ job.kind \in {"add", "remove", "enable", "disable"}
                /\ job'.ks = Candidate(dir.ks) /\ Candidate(dir.ks) # NoKeystore
             \/ /\ job' # NoJob /\ job'.pc = "save" /\ Verdict(answered) = "legacy"
                /\ job'.ks = RecoverLegacy(dir.ks)
    BY <1>5, LoadStepEffect
  <2>2. At("load") /\ ~Idle /\ fresh' \in {fresh, fresh + 1} /\ UNCHANGED <<copy, revoked>>
    BY <1>5 DEF Load, At
  <2>3. fresh' \in Nat /\ fresh' >= fresh
    BY <1>0, <2>2
  <2>4. dir'.ks \in {dir.ks, NoKeystore} /\ keychain'.token = keychain.token
    BY <2>1, LoadKeeps
  <2>5. \A ks \in Existing' : ks \in Existing \/ (job' # NoJob /\ ks = job'.ks)
    BY <2>2, <2>4 DEF Existing, Idle
  <2>6. CASE job' = NoJob \/ job'.ks = NoKeystore \/ job'.ks = dir.ks
    <3>1. \A ks \in Existing' : ks \in Existing
      BY <2>2, <2>5, <2>6 DEF Existing, Idle
    <3> QED
      BY <1>a, <2>2, <2>3, <2>4, <3>1
  <2>7. ASSUME job' # NoJob, job'.ks # NoKeystore, job'.ks # dir.ks,
               Sound(job'.ks, fresh', keychain'.token)
        PROVE  SoundInv'
    BY <1>a, <2>2, <2>3, <2>4, <2>5, <2>7
  <2>8. CASE /\ job' # NoJob /\ job'.pc = "save" /\ Verdict(answered) = "loaded"
             /\ job.kind \in {"add", "remove", "enable", "disable"}
             /\ job'.ks = Candidate(dir.ks) /\ Candidate(dir.ks) # NoKeystore
    <3>1. Protected /\ dir.ks \in Keystores /\ dir.ks \in Existing
      BY <2>1, <2>8, LoadEffect, ExistingType, Fields DEF Protected
    <3>2. Sound(dir.ks, fresh, keychain.token)
      BY <3>1 DEF SoundInv
    <3>3. IsInjective(dir.ks.body.keys)
          /\ (job.kind = "add" => job.secret \notin Credentials(dir.ks))
      BY <2>2, <3>1, <3>2 DEF Sound, SecretsInv, At
    <3>4. /\ Chain!VerifyPayload(job'.ks.state, job'.ks.body) /\ IsInjective(job'.ks.body.keys)
          /\ Credentials(job'.ks) \subseteq
                Credentials(dir.ks) \cup (IF job.kind = "add" THEN {job.secret} ELSE {})
      BY <2>2, <2>8, <3>1, <3>3, CandidateState
    <3>5. job.kind = "add" => job.secret < fresh /\ job.secret # keychain.token
                              /\ job.secret \in Nat
      BY <2>2 DEF SecretsInv, CourseInv, At
    <3>6. \A c \in Credentials(dir.ks) : c \in Nat /\ c < fresh /\ c # keychain.token
      BY <3>1, <3>2, CredentialsType DEF Sound
    <3>7. \A c \in Credentials(job'.ks) : c < fresh' /\ c # keychain'.token
      BY <1>0, <2>3, <2>4, <3>4, <3>5, <3>6
    <3>8. Sound(job'.ks, fresh', keychain'.token)
      BY <3>4, <3>7 DEF Sound
    <3> QED
      BY <2>6, <2>7, <2>8, <3>8
  <2>9. CASE /\ job' # NoJob /\ job'.pc = "save" /\ Verdict(answered) = "legacy"
             /\ job'.ks = RecoverLegacy(dir.ks)
    <3>1. dir.ks \in Keystores /\ dir.ks.version # 3 /\ dir.ks \in Existing
      BY <2>1, <2>9, LoadEffect, ExistingType, KeystoreAssumption
    <3>2. Sound(dir.ks, fresh, keychain.token)
      BY <3>1 DEF SoundInv
    <3>3. /\ Chain!VerifyPayload(job'.ks.state, job'.ks.body)
          /\ job'.ks.body.keys = dir.ks.body.keys
      BY <1>0, <2>9, <3>1, RecoverLegacyState
    <3>4. \A c \in Credentials(dir.ks) : c \in Nat /\ c < fresh /\ c # keychain.token
      BY <3>1, <3>2, CredentialsType DEF Sound
    <3>5. Credentials(job'.ks) = Credentials(dir.ks) /\ IsInjective(job'.ks.body.keys)
      BY <3>2, <3>3 DEF Credentials, Sound
    <3>6. \A c \in Credentials(job'.ks) : c < fresh' /\ c # keychain'.token
      BY <1>0, <2>3, <2>4, <3>4, <3>5
    <3>7. Sound(job'.ks, fresh', keychain'.token)
      BY <3>3, <3>5, <3>6 DEF Sound
    <3> QED
      BY <2>6, <2>7, <2>9, <3>7
  <2>10. job' # NoJob /\ job'.pc = "clear" => job'.ks \in {NoKeystore, dir.ks}
    BY <1>5, ClearedJob
  <2> QED
    BY <2>1, <2>6, <2>8, <2>9, <2>10
<1>6. CASE CommitAnchor
  <2>1. /\ ~Idle /\ Existing' \subseteq Existing /\ fresh' = fresh
        /\ keychain'.token = keychain.token
    BY <1>6, CommitKeeps
  <2>2. \/ revoked' = revoked
        \/ /\ revoked' = revoked \cup {job.secret} /\ job.secret < fresh
           /\ job.secret # keychain.token
    BY <1>6, <2>1, CommitAnchorEffect DEF SecretsInv, At
  <2>3. \A secret \in revoked' : secret < fresh'
    BY <1>0, <2>1, <2>2
  <2>4. keychain'.token \notin revoked'
    BY <1>0, <2>1, <2>2
  <2> QED
    BY <1>0, <2>1, <2>3, <2>4, SoundFrom
<1>7. CASE SaveToken
  <2>1. /\ At("token") /\ ~Idle /\ job.kind = "enable" /\ job.ks \in Keystores
        /\ job.ks.version = 3 /\ UNCHANGED <<dir, copy, fresh, revoked>> /\ job.ks \in Existing
    BY <1>7, SaveTokenEffect, CourseFacts, ExistingType, KeystoreAssumption DEF At
  <2>2. /\ job.secret < fresh /\ job.secret \notin revoked
        /\ \A ks \in Existing : job.secret \notin Credentials(ks)
    BY <2>1 DEF SecretsInv
  <2>3. CASE job' = NoJob /\ keychain'.token = job.secret
    <3>1. Existing' \subseteq Existing
      BY <2>1, <2>3 DEF Existing, Idle
    <3> QED
      BY <1>0, <2>1, <2>2, <2>3, <3>1, SoundFrom
  <2>4. CASE job' # NoJob /\ job'.ks = RemoveDeviceToken(job.ks) /\ keychain' = keychain
    <3>1. /\ Chain!VerifyPayload(job'.ks.state, job'.ks.body)
          /\ job'.ks.body.keys = job.ks.body.keys /\ job'.ks \in Keystores
      BY <2>1, <2>4, DeviceState, DeviceFields
    <3>2. Sound(job.ks, fresh, keychain.token)
      BY <2>1 DEF SoundInv
    <3>3. Sound(job'.ks, fresh', keychain'.token)
      BY <2>1, <2>4, <3>1, <3>2 DEF Sound, Credentials
    <3>4. \A ks \in Existing' : ks \in Existing \/ ks = job'.ks
      BY <2>1, <2>4 DEF Existing, Idle
    <3> QED
      BY <1>0, <1>a, <2>1, <2>4, <3>3, <3>4
  <2> QED
    BY <1>7, <2>3, <2>4, SaveTokenEffect
<1>8. CASE ClearToken
  <2>1. At("clear") /\ ~Idle /\ job' = NoJob /\ UNCHANGED <<dir, copy, fresh>>
    BY <1>8, ClearTokenEffect DEF At
  <2>2. Existing' \subseteq Existing
    BY <2>1 DEF Existing, Idle
  <2>3. CASE revoked' = revoked
    BY <1>0, <1>8, <1>a, <2>1, <2>2, <2>3, ClearTokenRevokes
  <2>4. CASE /\ keychain'.token = NoSecret /\ job.kind = "disable"
             /\ revoked' = revoked \cup ({job.secret} \ {NoSecret})
    <3>1. job.secret = keychain.token
      BY <2>1, <2>4 DEF SecretsInv
    <3>2. \A secret \in revoked' : secret < fresh'
      BY <1>0, <2>1, <2>4, <3>1
    <3>3. keychain'.token \notin revoked'
      BY <1>0, <2>4, <3>1
    <3>4. \A ks \in Existing : keychain'.token \notin Credentials(ks)
      BY <1>0, <2>4
    <3> QED
      BY <1>0, <2>1, <2>2, <2>4, <3>2, <3>3, <3>4, SoundFrom
  <2> QED
    BY <1>8, <2>3, <2>4, ClearTokenRevokes
<1>9. CASE Confirm
  <2>1. Existing' \subseteq Existing /\ keychain'.token = keychain.token
    BY <1>9, ConfirmKeeps
  <2>2. UNCHANGED <<fresh, revoked>>
    BY <1>9, ConfirmEffect
  <2> QED
    BY <1>0, <1>a, <2>1, <2>2
<1> QED
  BY <1>1, <1>2, <1>3, <1>4, <1>5, <1>6, <1>7, <1>8, <1>9, QuietSteps
     DEF Next, Jobs, Steps, Spawn

\* The secret of a job stays what the job took it to be.
LEMMA SecretsStep ==
    ASSUME TypeOK, CourseInv, SlotsInv, TrustedInv, SoundInv, SecretsInv, [Next]_vars
    PROVE  SecretsInv'
<1>0. /\ fresh \in Nat /\ revoked \subseteq Nat /\ NoSecret \notin Nat
      /\ \A secret \in revoked : secret < fresh
      /\ keychain.token # NoSecret => keychain.token < fresh
      /\ keychain.token \in Nat \cup {NoSecret}
  BY Fields, KeystoreAssumption DEF TypeOK, SoundInv
<1>a. ASSUME ~Idle, ~Idle', job'.kind = job.kind, job'.secret = job.secret, job'.ks = job.ks,
             job'.pc = "load" <=> job.pc = "load",
             job.kind = "passkey" /\ job'.pc = "confirm" => job.pc = "confirm",
             UNCHANGED <<fresh, revoked>>, keychain'.token = keychain.token,
             Existing' \subseteq Existing
      PROVE  SecretsInv'
  BY <1>a DEF SecretsInv
<1>b. ASSUME Idle' PROVE SecretsInv'
  BY <1>b DEF SecretsInv
<1>c. ASSUME job' # NoJob, job'.kind \in {"create", "recover", "undo"} PROVE SecretsInv'
  BY <1>c DEF SecretsInv
<1>d. ASSUME UNCHANGED <<job, fresh, revoked>>, keychain'.token = keychain.token,
             Existing' \subseteq Existing
      PROVE  SecretsInv'
  BY <1>a, <1>b, <1>d DEF Idle
<1>1. CASE Spawn
  <2>1. CASE job' = NoJob
    BY <1>b, <2>1 DEF Idle
  <2>2. CASE /\ job' # NoJob /\ job'.ks = NoKeystore /\ job'.pc = "load"
             /\ job'.kind \in {"unlock", "passkey", "keyring", "add", "remove", "enable", "disable"}
             /\ job'.kind \in {"add", "enable"} => job'.secret = fresh /\ fresh' = fresh + 1
             /\ job'.kind = "disable" => job'.secret = keychain.token
             /\ job'.kind = "unlock" => job'.secret = NoSecret
    <3>1. UNCHANGED <<keychain, copy, revoked>> /\ dir'.ks = dir.ks /\ Idle
      BY <1>1, SpawnEffect
    <3>2. Existing' \subseteq Existing
      BY <2>2, <3>1 DEF Existing, Idle
    <3>3. \A ks \in Existing : fresh \notin Credentials(ks)
      BY <1>0 DEF SoundInv, Sound
    <3>4. fresh \notin revoked /\ fresh # keychain.token
      BY <1>0
    <3>5. \A ks \in Existing' : fresh \notin Credentials(ks)
      BY <3>2, <3>3
    <3>6. job'.kind \in {"add", "enable"} => job'.secret < fresh' /\ job'.secret \notin revoked'
      BY <1>0, <2>2, <3>1, <3>4
    <3> QED
      BY <2>2, <3>1, <3>4, <3>5, <3>6 DEF SecretsInv
  <2> QED
    BY <1>1, <2>1, <2>2, SpawnEffect
<1>2. CASE CreateIdentity \/ RestoreIdentity
  BY <1>2, <1>c, CreateIdentityEffect, RestoreIdentityEffect
<1>3. CASE RecoverAnchors
  BY <1>3, <1>c, RecoverAnchorsEffect
<1>4. CASE Lock \/ CopyDirectory \/ Damage \/ Stop \/ RewriteMarker
  BY <1>4, <1>b DEF Lock, CopyDirectory, Damage, Stop, RewriteMarker, Finish, Idle
<1>5. CASE Start
  BY <1>5, <1>d, StartEffect DEF Existing, Idle
<1>6. CASE RepairMarker
  BY <1>6, <1>d, RepairMarkerEffect DEF Existing, Idle
<1>7. CASE UpgradeLayout
  BY <1>7, <1>d, UpgradeLayoutEffect DEF Existing, Idle
<1>8. CASE ShowUnlock
  <2>1. dir'.ks \in {dir.ks, NoKeystore} /\ keychain'.token = keychain.token
    BY <1>8, ShowUnlockEffect, LoadKeeps
  <2>2. UNCHANGED <<copy, job, fresh, revoked>>
    BY <1>8, ShowUnlockEffect
  <2> QED
    BY <1>d, <2>1, <2>2 DEF Existing, Idle
<1>9. CASE Load
  <2>0. At("load") /\ ~Idle /\ fresh' \in {fresh, fresh + 1} /\ UNCHANGED <<copy, revoked>>
    BY <1>9 DEF Load, At
  <2>1. PICK answered \in BOOLEAN :
          /\ LoadKeystore(answered)
          /\ \/ job' = NoJob
             \/ /\ job' # NoJob /\ job'.kind = job.kind /\ job'.pc = "confirm"
                /\ Verdict(answered) = "loaded"
                /\ job.kind \in {"unlock", "passkey", "keyring"}
                /\ job'.ks = dir.ks /\ job'.secret = job.secret
             \/ /\ job' # NoJob /\ job'.kind = job.kind /\ job'.pc = "clear"
                /\ job.kind \in {"keyring", "disable"} /\ job'.secret = job.secret
             \/ /\ job' # NoJob /\ job'.kind = job.kind /\ job'.pc = "save"
                /\ Verdict(answered) = "loaded"
                /\ job.kind \in {"add", "remove", "enable", "disable"}
                /\ job'.ks = Candidate(dir.ks) /\ Candidate(dir.ks) # NoKeystore
                /\ job'.secret = Changed(dir.ks)
             \/ /\ job' # NoJob /\ job'.kind = job.kind /\ job'.pc = "save"
                /\ job.kind = "unlock" /\ job'.secret = job.secret
    BY <1>9, LoadStepEffect
  <2>2. dir'.ks \in {dir.ks, NoKeystore} /\ keychain'.token = keychain.token
    BY <2>1, LoadKeeps
  <2>3. CASE job' = NoJob
    BY <1>b, <2>3 DEF Idle
  <2>4. CASE /\ job' # NoJob /\ job'.kind = job.kind /\ job'.pc = "confirm"
             /\ job.kind \in {"unlock", "passkey", "keyring"}
             /\ job'.ks = dir.ks /\ job'.secret = job.secret
    <3>1. job.kind = "passkey" => job.secret \in Credentials(dir.ks)
      BY <1>9, <2>4, ConfirmedKey DEF Idle
    <3>2. job.kind = "unlock" => job.secret = NoSecret
      BY <2>0 DEF SecretsInv
    <3> QED
      BY <2>4, <3>1, <3>2 DEF SecretsInv
  <2>5. CASE /\ job' # NoJob /\ job'.kind = job.kind /\ job'.pc = "clear"
             /\ job.kind \in {"keyring", "disable"} /\ job'.secret = job.secret
    BY <2>0, <2>2, <2>5 DEF SecretsInv
  <2>6. CASE /\ job' # NoJob /\ job'.kind = job.kind /\ job'.pc = "save"
             /\ Verdict(answered) = "loaded"
             /\ job.kind \in {"add", "remove", "enable", "disable"}
             /\ job'.ks = Candidate(dir.ks) /\ Candidate(dir.ks) # NoKeystore
             /\ job'.secret = Changed(dir.ks)
    <3>1. Protected /\ dir.ks \in Keystores /\ dir.ks \in Existing
      BY <2>1, <2>6, LoadEffect, ExistingType, Fields DEF Protected
    <3>2. Sound(dir.ks, fresh, keychain.token)
      BY <3>1 DEF SoundInv
    <3>3. IsInjective(dir.ks.body.keys)
          /\ (job.kind = "add" => job.secret \notin Credentials(dir.ks))
      BY <2>0, <3>1, <3>2 DEF Sound, SecretsInv, At
    <3>4. /\ job.kind # "add" => Credentials(job'.ks) \subseteq Credentials(dir.ks)
          /\ job.kind = "remove" => /\ job'.secret \in Credentials(dir.ks)
                                    /\ job'.secret \notin Credentials(job'.ks)
          /\ job.kind # "remove" => job'.secret = job.secret
      BY <2>0, <2>6, <3>1, <3>3, CandidateState
    <3>5. \A c \in Credentials(dir.ks) : c \in Nat /\ c < fresh /\ c # keychain.token
      BY <3>1, <3>2, CredentialsType DEF Sound
    <3>6. CASE job.kind = "remove"
      <4>1. job'.secret < fresh' /\ job'.secret # keychain'.token
        BY <1>0, <2>0, <2>2, <3>4, <3>5, <3>6
      <4> QED
        BY <2>6, <3>4, <3>6, <4>1 DEF SecretsInv
    <3>7. CASE job.kind = "disable"
      BY <2>0, <2>2, <2>6, <3>4, <3>7 DEF SecretsInv
    <3>8. CASE job.kind \in {"add", "enable"}
      <4>1. /\ job.secret \in Nat /\ job.secret < fresh /\ job.secret \notin revoked
            /\ job.kind = "add" => job.secret # keychain.token
            /\ job.kind = "enable" => \A ks \in Existing : job.secret \notin Credentials(ks)
        BY <2>0, <3>8 DEF SecretsInv, CourseInv
      <4>2. job'.secret = job.secret /\ job'.secret < fresh'
        BY <1>0, <2>0, <3>4, <3>8, <4>1
      <4>3. \A ks \in Existing' : ks \in Existing \/ ks = job'.ks
        BY <2>0, <2>2 DEF Existing, Idle
      <4>4. job.kind = "enable" => \A ks \in Existing' : job.secret \notin Credentials(ks)
        BY <3>1, <3>4, <4>1, <4>3
      <4> QED
        BY <2>0, <2>2, <2>6, <3>8, <4>1, <4>2, <4>4 DEF SecretsInv
    <3> QED
      BY <2>6, <3>6, <3>7, <3>8
  <2>7. CASE /\ job' # NoJob /\ job'.kind = job.kind /\ job'.pc = "save"
             /\ job.kind = "unlock" /\ job'.secret = job.secret
    BY <2>0, <2>7 DEF SecretsInv
  <2> QED
    BY <2>1, <2>3, <2>4, <2>5, <2>6, <2>7
<1>10. CASE Save
  <2>1. CASE job' = NoJob
    BY <1>b, <2>1 DEF Idle
  <2>2. CASE job' # NoJob
    <3>1. /\ At("save") /\ ~Idle /\ job'.kind = job.kind /\ job'.pc = "anchor"
          /\ job'.ks = job.ks /\ job'.secret = job.secret /\ dir'.ks = job.ks
          /\ UNCHANGED <<keychain, copy, fresh, revoked>>
      BY <1>10, <2>2, SaveEffect DEF At
    <3>2. Existing' \subseteq Existing
      BY <2>2, <3>1 DEF Existing, Idle
    <3> QED
      BY <1>a, <2>2, <3>1, <3>2 DEF At, Idle
  <2> QED
    BY <2>1, <2>2
<1>11. CASE CommitAnchor
  <2>1. CASE job' = NoJob
    BY <1>b, <2>1 DEF Idle
  <2>2. CASE job' # NoJob
    <3>1. /\ At("anchor") /\ job'.kind = job.kind /\ job'.ks = job.ks /\ job'.secret = job.secret
          /\ job'.pc # "load" /\ (job'.pc = "confirm" => job.kind = "unlock")
          /\ UNCHANGED <<fresh, revoked>>
      BY <1>11, <2>2, CommitAnchorEffect
    <3>2. ~Idle /\ Existing' \subseteq Existing /\ keychain'.token = keychain.token
      BY <1>11, CommitKeeps
    <3> QED
      BY <1>a, <2>2, <3>1, <3>2 DEF At, Idle
  <2> QED
    BY <2>1, <2>2
<1>12. CASE SaveToken
  BY <1>12, <1>b, <1>c, SaveTokenEffect DEF Idle
<1>13. CASE ClearToken
  BY <1>13, <1>b, ClearTokenEffect DEF Idle
<1>14. CASE Confirm
  BY <1>14, <1>b, ConfirmEffect DEF Idle
<1>15. CASE Reanchor
  BY <1>15, <1>b, <1>c, ReanchorEffect, CourseFacts DEF Idle, At, CourseInv
<1>16. CASE RewriteRoot
  BY <1>16, <1>b, <1>c, RewriteRootEffect, CourseFacts DEF Idle, At, CourseInv
<1>17. CASE UNCHANGED vars
  BY <1>17, <1>d DEF vars, Existing, Idle
<1> QED
  BY <1>1, <1>2, <1>3, <1>4, <1>5, <1>6, <1>7, <1>8, <1>9, <1>10, <1>11, <1>12, <1>13, <1>14,
     <1>15, <1>16, <1>17 DEF Next, Jobs, Steps, Spawn

-----------------------------------------------------------------------------------
(* Where anchors begin to be trusted, and that they stay in force.               *)

\* An anchor that is in the keychain follows the keystore that is loaded.
LEMMA LoadFollows ==
    ASSUME TypeOK, NEW answered \in BOOLEAN, LoadKeystore(answered), Verdict(answered) = "loaded",
           app.backend = "secure", keychain.anchor # NoAnchor
    PROVE  /\ keychain'.anchor = Chain!FromMetadata(dir.ks.state)
           /\ Chain!Acceptable(keychain.anchor, dir.ks.state)
<1>1. Anchor = keychain.anchor
  BY DEF Anchor
<1>2. Protected /\ Accepts(dir.ks.state)
  BY LoadEffect
<1>3. dir.ks.state \in States /\ dir \in Directories
  BY <1>2, Fields, KeystoreFields DEF Protected, TypeOK
<1>4. PutAnchor(dir.ks.state, dir)
  BY <1>1 DEF LoadKeystore
<1>5. keychain'.anchor = Chain!FromMetadata(dir.ks.state)
  BY <1>3, <1>4, PutAnchorEffect
<1> QED
  BY <1>1, <1>2, <1>5 DEF Accepts

\* The upgrade of an older keychain may be where the trust in its anchors begins.
LEMMA UpgradeTrust ==
    ASSUME TypeOK, UpgradeLayout, trusted'
    PROVE  \/ trusted
           \/ /\ intact /\ app.backend = "secure" /\ keychain.root = "legacy"
              /\ keychain'.root = "current" /\ keychain'.anchor = keychain.legacy
<1>1. keychain \in Keychains /\ trusted \in BOOLEAN
  BY DEF TypeOK
<1>2. PICK put \in BOOLEAN, root \in BOOLEAN :
        LET legacy == app.backend = "secure" /\ keychain.root = "legacy"
        IN  /\ keychain' = IF ~legacy \/ ~put THEN keychain
                           ELSE IF root
                           THEN [keychain EXCEPT !.anchor = keychain.legacy, !.root = "current",
                                                 !.legacy = NoAnchor]
                           ELSE [keychain EXCEPT !.anchor = keychain.legacy]
            /\ trusted' = (trusted \/ (legacy /\ put /\ root /\ intact))
  BY AnswersBoolean DEF UpgradeLayout
<1>3. CASE app.backend = "secure" /\ keychain.root = "legacy" /\ put /\ root /\ intact
  BY <1>1, <1>2, <1>3 DEF Keychains
<1>4. CASE ~(app.backend = "secure" /\ keychain.root = "legacy" /\ put /\ root /\ intact)
  BY <1>2, <1>4
<1> QED
  BY <1>3, <1>4

\* So may the first anchor that is written there, and every trusted anchor that is written
\* is that of the job's keystore, accepted by the one before.
LEMMA CommitTrust ==
    ASSUME TypeOK, CourseInv, TrustedInv, CommitAnchor, trusted'
    PROVE  \/ trusted /\ job' = NoJob /\ UNCHANGED <<dir, keychain, app, revoked>>
           \/ /\ trusted \/ intact
              /\ app.backend = "secure" /\ app'.backend = app.backend
              /\ Accepts(job.ks.state) /\ dir' = dir
              /\ keychain'.anchor = Chain!FromMetadata(job.ks.state)
              /\ keychain'.root = keychain.root
<1>1. At("anchor") /\ job.ks.state \in States /\ dir \in Directories /\ ~Idle
  BY KeystoreFields DEF CommitAnchor, At, CourseInv, TypeOK
<1>2. app.screen \in {"first", "unlock", "session"} /\ app.screen \notin {"down", "recover", "fatal"}
  BY <1>1, CourseFacts DEF At
<1>3. trusted => app.backend = "secure"
  BY <1>2 DEF TrustedInv
<1>4. PICK answered \in BOOLEAN :
        IF answered /\ Accepts(job.ks.state)
        THEN /\ PutAnchor(job.ks.state, dir)
             /\ trusted' = (trusted \/ (app.backend = "secure" /\ intact))
             /\ Saved
        ELSE Finish /\ UNCHANGED <<dir, keychain, app, enrolled, revoked, trusted>>
  BY AnswersBoolean DEF CommitAnchor
<1>5. CASE ~(answered /\ Accepts(job.ks.state))
  BY <1>4, <1>5 DEF Finish
<1>6. CASE answered /\ Accepts(job.ks.state)
  <2>1. /\ PutAnchor(job.ks.state, dir) /\ Saved
        /\ trusted' = (trusted \/ (app.backend = "secure" /\ intact))
    BY <1>4, <1>6
  <2>2. app.backend = "secure" /\ (trusted \/ intact)
    BY <1>3, <2>1
  <2>3. /\ dir' = dir /\ keychain'.anchor = Chain!FromMetadata(job.ks.state)
        /\ keychain'.root = keychain.root
    BY <1>1, <2>1, <2>2, PutAnchorEffect
  <2>4. app'.backend = app.backend
    <3>1. app \in Apps
      BY DEF TypeOK
    <3> QED
      BY <2>1, <3>1 DEF Saved, SessionOf, Apps
  <2> QED
    BY <1>6, <2>2, <2>3, <2>4
<1> QED
  BY <1>5, <1>6

\* The same for the anchor that a confirmed unlock writes.
LEMMA ConfirmTrust ==
    ASSUME TypeOK, CourseInv, TrustedInv, Confirm, trusted'
    PROVE  \/ trusted /\ dir'.ks = NoKeystore /\ UNCHANGED <<keychain, app>>
           \/ /\ trusted \/ intact
              /\ app.backend = "secure" /\ app'.backend = app.backend
              /\ Accepts(job.ks.state) /\ dir'.ks = dir.ks
              /\ keychain'.anchor = Chain!FromMetadata(job.ks.state)
              /\ keychain'.root = keychain.root
<1>1. At("confirm") /\ job.ks \in Keystores /\ job.ks.state \in States /\ dir \in Directories /\ ~Idle
  BY KeystoreFields DEF Confirm, At, CourseInv, TypeOK
<1>2. app.screen \in {"unlock", "session"} /\ app.screen \notin {"down", "recover", "fatal"}
  BY <1>1, CourseFacts DEF At
<1>3. trusted => app.backend = "secure"
  BY <1>2 DEF TrustedInv
<1>4. PICK answered \in BOOLEAN, rest \in BOOLEAN, listed \in BOOLEAN :
        \/ ~(answered /\ Accepts(job.ks.state)) /\ Quarantine /\ UNCHANGED <<app, trusted>>
        \/ /\ answered /\ Accepts(job.ks.state)
           /\ PutAnchor(job.ks.state,
                 IF rest /\ app.legacy THEN [dir EXCEPT !.pending = FALSE] ELSE dir)
           /\ trusted' = (trusted \/ (app.backend = "secure" /\ intact))
           /\ app' = IF rest
                     THEN SessionOf(job.ks, job.kind = "keyring" \/
                                (listed /\ keychain.token # NoSecret))
                     ELSE app
  BY AnswersBoolean DEF Confirm
<1>5. CASE Quarantine /\ UNCHANGED <<app, trusted>>
  BY <1>1, <1>5 DEF Quarantine, Directories
<1>6. CASE ~(Quarantine /\ UNCHANGED <<app, trusted>>)
  <2> DEFINE d == IF rest /\ app.legacy THEN [dir EXCEPT !.pending = FALSE] ELSE dir
             auto == job.kind = "keyring" \/ (listed /\ keychain.token # NoSecret)
  <2>1. /\ Accepts(job.ks.state) /\ PutAnchor(job.ks.state, d)
        /\ app' = IF rest THEN SessionOf(job.ks, auto) ELSE app
        /\ trusted' = (trusted \/ (app.backend = "secure" /\ intact))
    BY <1>4, <1>6
  <2>2. d \in Directories /\ d.ks = dir.ks
    BY <1>1 DEF Directories
  <2>3. auto \in BOOLEAN
    OBVIOUS
  <2> HIDE DEF d, auto
  <2>4. app.backend = "secure" /\ (trusted \/ intact)
    BY <1>3, <2>1
  <2>5. /\ dir'.ks = dir.ks /\ keychain'.anchor = Chain!FromMetadata(job.ks.state)
        /\ keychain'.root = keychain.root
    BY <1>1, <2>1, <2>2, <2>4, PutAnchorEffect
  <2>6. app'.backend = app.backend
    BY <1>1, <2>1, <2>3, SessionOfFields
  <2> QED
    BY <2>1, <2>4, <2>5, <2>6
<1> QED
  BY <1>5, <1>6

\* Trusted anchors are in force, and a removal is the next update of what they accept.
LEMMA TrustedStep ==
    ASSUME TypeOK, CourseInv, SlotsInv, BackendInv, AnchorInv, SoundInv, SecretsInv, BarredInv,
           TrustedInv, NewestInv, [Next]_vars
    PROVE  TrustedInv'
<1> SUFFICES ASSUME trusted'
             PROVE  TrustedInv'
  BY DEF TrustedInv
<1>0. /\ dir.ks \in Keystores \cup {NoKeystore} /\ dir \in Directories
      /\ keychain \in Keychains /\ trusted \in BOOLEAN
  BY Fields DEF TypeOK
<1>a. ASSUME trusted, keychain'.root = keychain.root,
             app'.screen \in {"down", "recover", "fatal"}
                \/ (app'.backend = app.backend /\ app.screen \notin {"down", "recover", "fatal"}),
             dir'.ks \in {dir.ks, NoKeystore},
             \/ job' = NoJob
             \/ job' = job /\ (Idle \/ keychain'.anchor = keychain.anchor)
             \/ /\ job'.kind # "recover" /\ job'.pc # "token"
                /\ ~(job'.kind = "remove" /\ job'.pc \in {"save", "anchor"})
      PROVE  TrustedInv'
  <2>1. dir'.ks # NoKeystore => Protected'
    BY <1>a DEF TrustedInv, Protected
  <2>2. keychain'.root = "current"
    BY <1>a DEF TrustedInv
  <2>3. app'.screen \notin {"down", "recover", "fatal"} => app'.backend = "secure"
    BY <1>a DEF TrustedInv
  <2>4. ~Idle' =>
            /\ job'.kind # "recover"
            /\ job'.pc = "token" => keychain'.anchor = Chain!FromMetadata(job'.ks.state)
            /\ job'.kind = "remove" /\ job'.pc \in {"save", "anchor"} =>
                  job'.ks.state.epoch = keychain'.anchor.epoch + 1
    BY <1>a DEF TrustedInv, Idle
  <2> QED
    BY <2>1, <2>2, <2>3, <2>4 DEF TrustedInv
<1>1. CASE Spawn
  <2>1. /\ app.screen \in {"unlock", "session"} /\ app'.screen = app.screen
        /\ app'.backend = app.backend /\ dir'.ks = dir.ks /\ UNCHANGED <<keychain, trusted>>
        /\ \/ job' = NoJob
           \/ /\ job'.pc = "load"
              /\ job'.kind \in {"unlock", "passkey", "keyring", "add", "remove", "enable", "disable"}
    BY <1>1, SpawnEffect
  <2> QED
    BY <1>a, <2>1
<1>2. CASE CreateIdentity \/ RestoreIdentity
  <2>1. /\ app.screen = "first" /\ job'.kind = "create" /\ job'.pc = "save"
        /\ UNCHANGED <<dir, keychain, app, trusted>>
    BY <1>2, CreateIdentityEffect, RestoreIdentityEffect
  <2> QED
    BY <1>a, <2>1
<1>3. CASE RecoverAnchors
  BY <1>3, RecoverAnchorsEffect
<1>4. CASE Lock
  BY <1>4, <1>a, LockEffect DEF Idle
<1>5. CASE Stop
  BY <1>5, <1>a, StopEffect
<1>6. CASE CopyDirectory
  BY <1>6, <1>a DEF CopyDirectory
<1>7. CASE Damage
  <2>1. Idle /\ UNCHANGED <<app, job>>
    BY <1>7, DamageEffect
  <2>2. trusted /\ UNCHANGED keychain /\ dir'.ks \in {dir.ks, copy.ks}
    BY <1>0, <1>7 DEF Damage, Directories
  <2>3. copy.ks # NoKeystore => copy.ks.version = 3
    BY DEF NewestInv
  <2> QED
    BY <2>1, <2>2, <2>3 DEF TrustedInv, Idle, Protected
<1>8. CASE Start
  <2>1. trusted /\ (app'.screen = "probed" => app'.backend = "secure")
    BY <1>8, StartTrust
  <2>2. /\ UNCHANGED <<dir, job>> /\ keychain'.anchor = keychain.anchor
        /\ keychain'.root \in {keychain.root, "current"} /\ app'.screen \in {"recover", "probed"}
    BY <1>8, StartEffect
  <2> QED
    BY <2>1, <2>2 DEF TrustedInv, Protected, Idle
<1>9. CASE RepairMarker
  BY <1>9, <1>a, RepairMarkerEffect
<1>10. CASE UpgradeLayout
  <2>1. /\ app.screen = "marked" /\ app'.backend = app.backend /\ UNCHANGED <<dir, job>>
        /\ app'.screen \in {"loading", "fatal"} /\ Idle
    BY <1>10, UpgradeLayoutEffect, CourseFacts, JobFields
  <2>2. CASE trusted
    <3>1. keychain' = keychain
      BY <1>10, <2>2, UpgradeLayoutEffect DEF TrustedInv
    <3> QED
      BY <1>a, <2>1, <2>2, <3>1
  <2>3. CASE /\ intact /\ app.backend = "secure" /\ keychain.root = "legacy"
             /\ keychain'.root = "current"
    BY <2>1, <2>3 DEF TrustedInv, NewestInv, Protected, Idle
  <2> QED
    BY <1>10, <2>2, <2>3, UpgradeTrust
<1>11. CASE ShowUnlock
  <2>1. app.screen = "loading" /\ app'.backend = app.backend /\ UNCHANGED <<job, trusted>>
    BY <1>11, ShowUnlockEffect
  <2>2. Idle
    BY <2>1, CourseFacts, JobFields
  <2>3. dir'.ks \in {dir.ks, NoKeystore} /\ keychain'.root = keychain.root
    BY <1>11, ShowUnlockEffect, LoadEffect
  <2> QED
    BY <1>a, <2>1, <2>2, <2>3
<1>12. CASE Load
  <2>1. PICK answered \in BOOLEAN :
          /\ LoadKeystore(answered)
          /\ \/ job' = NoJob
             \/ /\ job'.kind = job.kind /\ job'.pc \in {"confirm", "clear", "save"}
                /\ job'.kind = "remove" /\ job'.pc = "save" =>
                      Verdict(answered) = "loaded" /\ job'.ks = Candidate(dir.ks)
                      /\ Candidate(dir.ks) # NoKeystore
    BY <1>12, LoadStepEffect
  <2>2. At("load") /\ UNCHANGED <<app, trusted>>
    BY <1>12 DEF Load
  <2>3. app.screen \in {"unlock", "session"} /\ job.kind # "recover" /\ app.backend = "secure"
    BY <2>2, CourseFacts DEF TrustedInv, At
  <2>4. dir'.ks \in {dir.ks, NoKeystore} /\ keychain'.root = keychain.root
    BY <2>1, LoadEffect
  <2>5. CASE job' = NoJob \/ ~(job'.kind = "remove" /\ job'.pc = "save")
    BY <1>a, <2>1, <2>2, <2>3, <2>4, <2>5
  <2>6. CASE job'.kind = "remove" /\ job'.pc = "save" /\ job' # NoJob
    <3>1. /\ Verdict(answered) = "loaded" /\ job'.ks = Candidate(dir.ks) /\ job.kind = "remove"
          /\ Candidate(dir.ks) # NoKeystore
      BY <2>1, <2>6
    <3>2. keychain'.anchor = Chain!FromMetadata(dir.ks.state)
      BY <2>1, <2>2, <2>3, <3>1, LoadFollows DEF BarredInv
    <3>3. Protected /\ dir.ks \in Existing
      BY <2>1, <3>1, LoadEffect, ExistingType, KeystoreFields DEF Protected
    <3>4. IsInjective(dir.ks.body.keys)
      BY <3>3 DEF SoundInv, Sound
    <3>5. job'.ks.state.epoch = dir.ks.state.epoch + 1
      BY <2>2, <3>1, <3>3, <3>4, CandidateState
    <3>6. keychain'.anchor.epoch = dir.ks.state.epoch
      BY <3>2 DEF Chain!FromMetadata
    <3>7. keychain'.root = "current" /\ (dir'.ks # NoKeystore => Protected')
      BY <2>2, <2>4, <3>3 DEF TrustedInv, Protected
    <3> QED
      BY <2>2, <2>3, <2>6, <3>5, <3>6, <3>7 DEF TrustedInv
  <2> QED
    BY <2>5, <2>6
<1>13. CASE Save
  <2>1. At("save") /\ UNCHANGED <<keychain, app, trusted>> /\ job.ks.version = 3
    BY <1>13, SaveEffect, CourseFacts DEF At
  <2>2. app.screen \in {"first", "unlock", "session"}
    BY <2>1, CourseFacts DEF At
  <2>3. CASE job' = NoJob /\ dir' = dir
    BY <1>a, <2>1, <2>2, <2>3
  <2>4. CASE /\ job'.kind = job.kind /\ job'.pc = "anchor" /\ job'.ks = job.ks /\ dir'.ks = job.ks
    <3>1. Protected'
      BY <2>1, <2>4, CourseFacts, KeystoreFields DEF Protected, At
    <3> QED
      BY <2>1, <2>4, <3>1 DEF TrustedInv, At
  <2> QED
    BY <1>13, <2>3, <2>4, SaveEffect
<1>14. CASE CommitAnchor
  <2>1. At("anchor") /\ app.screen \in {"first", "unlock", "session"} /\ job.kind # "recover"
    BY <1>14, CourseFacts, CommitAnchorEffect DEF At
  <2>2. CASE trusted /\ job' = NoJob /\ UNCHANGED <<dir, keychain, app>>
    BY <1>a, <2>1, <2>2
  <2>3. CASE /\ trusted \/ intact
             /\ app.backend = "secure" /\ app'.backend = app.backend /\ dir' = dir
             /\ keychain'.anchor = Chain!FromMetadata(job.ks.state)
             /\ keychain'.root = keychain.root
    <3>1. keychain.root = "current"
      BY <2>1, <2>3 DEF TrustedInv, BackendInv, Behind
    <3>2. dir.ks # NoKeystore => Protected
      BY <2>1, <2>3, CourseFacts DEF TrustedInv, AnchorInv, At, Protected
    <3>3. \/ job' = NoJob
          \/ /\ job'.kind = job.kind /\ job'.ks = job.ks /\ job.kind # "remove"
      BY <1>14, CommitAnchorEffect
    <3> QED
      BY <2>1, <2>3, <3>1, <3>2, <3>3 DEF TrustedInv, Idle, Protected
  <2> QED
    BY <1>14, <2>2, <2>3, CommitTrust
<1>15. CASE SaveToken
  <2>1. /\ At("token") /\ app.screen \in {"first", "unlock", "session"}
        /\ app'.screen = app.screen /\ app'.backend = app.backend /\ UNCHANGED <<dir, trusted>>
        /\ keychain'.root = keychain.root
        /\ job' = NoJob \/ (job'.kind = "undo" /\ job'.pc = "save")
    BY <1>15, SaveTokenEffect, CourseFacts DEF At
  <2> QED
    BY <1>a, <2>1
<1>16. CASE ClearToken
  <2>1. /\ At("clear") /\ app.screen \in {"first", "unlock", "session"}
        /\ app'.screen = app.screen /\ app'.backend = app.backend /\ UNCHANGED <<dir, trusted>>
        /\ keychain'.root = keychain.root /\ job' = NoJob
    BY <1>16, ClearTokenEffect, CourseFacts DEF At
  <2> QED
    BY <1>a, <2>1
<1>17. CASE Confirm
  <2>1. At("confirm") /\ app.screen \in {"unlock", "session"} /\ job' = NoJob
    BY <1>17, CourseFacts, ConfirmEffect DEF At
  <2>2. CASE trusted /\ dir'.ks = NoKeystore /\ UNCHANGED <<keychain, app>>
    BY <1>a, <2>1, <2>2
  <2>3. CASE /\ trusted \/ intact
             /\ app.backend = "secure" /\ app'.backend = app.backend /\ dir'.ks = dir.ks
             /\ keychain'.root = keychain.root
    <3>1. keychain.root = "current"
      BY <2>1, <2>3 DEF TrustedInv, BackendInv, Behind
    <3>2. dir.ks # NoKeystore => Protected
      BY <2>1, <2>3, CourseFacts DEF TrustedInv, AnchorInv, At, Protected
    <3> QED
      BY <2>1, <2>3, <3>1, <3>2 DEF TrustedInv, Idle, Protected
  <2> QED
    BY <1>17, <2>2, <2>3, ConfirmTrust
<1>18. CASE Reanchor \/ RewriteRoot \/ RewriteMarker
  <2>1. trusted /\ ~Idle /\ job.pc \in {"reanchor", "root", "marker"}
    BY <1>18 DEF Reanchor, RewriteRoot, RewriteMarker, At
  <2>2. job.kind = "recover"
    BY <2>1, CourseFacts
  <2> QED
    BY <2>1, <2>2 DEF TrustedInv
<1>19. CASE UNCHANGED vars
  <2>1. UNCHANGED <<dir, keychain, app, job, trusted>>
    BY <1>19 DEF vars
  <2> QED
    BY <2>1 DEF TrustedInv, Protected, Idle
<1> QED
  BY <1>1, <1>2, <1>3, <1>4, <1>5, <1>6, <1>7, <1>8, <1>9, <1>10, <1>11, <1>12, <1>13, <1>14,
     <1>15, <1>16, <1>17, <1>18, <1>19 DEF Next, Jobs, Steps, Spawn

-----------------------------------------------------------------------------------
(* The keystores that trusted anchors keep out.                                  *)

\* The trusted anchor moves on to a keystore it accepts, and with it what it keeps out.
LEMMA BarredMoves ==
    ASSUME TypeOK, SoundInv, BarredInv, trusted,
           NEW ks \in Existing, ks.version = 3, Chain!Acceptable(keychain.anchor, ks.state),
           NEW more,
           more = {} \/ (ks.state.epoch = keychain.anchor.epoch + 1 /\ Credentials(ks) \cap more = {})
    PROVE  /\ Chain!FromMetadata(ks.state) # NoAnchor
           /\ \A other \in Existing : other.version = 3 =>
                 Barred(other, Chain!FromMetadata(ks.state), revoked \cup more)
<1>1. keychain.anchor \in Anchors
  BY Fields DEF BarredInv
<1>2. /\ Existing \subseteq Keystores
      /\ \A other \in Existing : other.version = 3 =>
            /\ Chain!VerifyPayload(other.state, other.body)
            /\ Barred(other, keychain.anchor, revoked)
  BY ExistingType DEF SoundInv, Sound, BarredInv
<1>3. Chain!FromMetadata(ks.state) # NoAnchor
  BY <1>2, KeystoreFields, CurrentFits, KeystoreAssumption
<1>4. ASSUME NEW other \in Existing, other.version = 3
      PROVE  Barred(other, Chain!FromMetadata(ks.state), revoked \cup more)
  <2>1. ks \in Keystores /\ other \in Keystores
    BY <1>2
  <2>2. /\ Chain!VerifyPayload(ks.state, ks.body) /\ Barred(ks, keychain.anchor, revoked)
        /\ Chain!VerifyPayload(other.state, other.body)
        /\ Barred(other, keychain.anchor, revoked)
    BY <1>2, <1>4
  <2> QED
    BY <1>1, <1>4, <2>1, <2>2, FollowBarred
<1> QED
  BY <1>3, <1>4

\* The first trusted anchor is that of the newest keystore there is.
LEMMA BarredBegins ==
    ASSUME TypeOK, CourseInv, NewestInv, intact, Protected, ~Idle, job.ks = dir.ks,
           NEW secrets, Credentials(dir.ks) \cap secrets = {}
    PROVE  /\ Chain!FromMetadata(job.ks.state) # NoAnchor
           /\ \A other \in Existing : other.version = 3 =>
                 Barred(other, Chain!FromMetadata(job.ks.state), secrets)
<1>1. dir.ks \in Keystores /\ dir.ks.version = 3 /\ Existing \subseteq Keystores
  BY Fields, ExistingType DEF Protected
<1>2. Chain!FromMetadata(job.ks.state) # NoAnchor
  BY <1>1, KeystoreFields, CurrentFits, KeystoreAssumption
<1>3. ASSUME NEW other \in Existing, other.version = 3
      PROVE  Barred(other, Chain!FromMetadata(dir.ks.state), secrets)
  <2>1. other = dir.ks \/ other.state.epoch < dir.ks.state.epoch
    BY <1>3 DEF Existing, NewestInv
  <2> QED
    BY <1>1, <1>3, <2>1, NewestBarred
<1> QED
  BY <1>2, <1>3

\* An anchor accepts no keystore more than one update ahead.
LEMMA AcceptableEpoch ==
    ASSUME NEW anchor \in Anchors, NEW s \in States, Chain!Acceptable(anchor, s)
    PROVE  s.epoch <= anchor.epoch + 1
<1>1. anchor.epoch \in Nat /\ s.epoch \in Nat
  BY DEF Anchors, States
<1> QED
  BY <1>1 DEF Chain!Acceptable, Chain!IsCurrent, Chain!IsSuccessor, Chain!SaturatingSucc

\* The keystores stay barred when one is loaded.
LEMMA LoadBarred ==
    ASSUME TypeOK, SoundInv, BarredInv, trusted, app.backend = "secure",
           NEW answered \in BOOLEAN, LoadKeystore(answered)
    PROVE  /\ keychain'.anchor # NoAnchor
           /\ \A ks \in Existing : ks.version = 3 => Barred(ks, keychain'.anchor, revoked)
           /\ Verdict(answered) = "loaded" =>
                 /\ keychain'.anchor = Chain!FromMetadata(dir.ks.state)
                 /\ Credentials(dir.ks) \cap revoked = {}
<1>1. keychain.anchor # NoAnchor
  BY DEF BarredInv
<1>2. CASE Verdict(answered) = "loaded"
  <2>1. /\ keychain'.anchor = Chain!FromMetadata(dir.ks.state)
        /\ Chain!Acceptable(keychain.anchor, dir.ks.state)
    BY <1>1, <1>2, LoadFollows
  <2>2. dir.ks \in Existing /\ dir.ks.version = 3
    BY <1>2, LoadEffect, ExistingType DEF Protected
  <2>3. Credentials(dir.ks) \cap revoked = {}
    BY <2>1, <2>2 DEF BarredInv, Barred
  <2>4. \A ks \in Existing : ks.version = 3 =>
           Barred(ks, Chain!FromMetadata(dir.ks.state), revoked \cup {})
    BY <2>1, <2>2, BarredMoves
  <2>5. Chain!FromMetadata(dir.ks.state) # NoAnchor
    BY <2>1, <2>2, BarredMoves
  <2>6. revoked \cup {} = revoked
    OBVIOUS
  <2> QED
    BY <2>1, <2>3, <2>4, <2>5, <2>6
<1>3. CASE Verdict(answered) # "loaded"
  <2>1. keychain' = keychain
    BY <1>3 DEF LoadKeystore, Quarantine
  <2> QED
    BY <1>1, <1>3, <2>1 DEF BarredInv
<1> QED
  BY <1>2, <1>3

\* Every keystore in which something revoked is left stays behind the trusted anchor.
LEMMA BarredStep ==
    ASSUME TypeOK, CourseInv, SlotsInv, BackendInv, AnchorInv, SoundInv, SecretsInv, BarredInv,
           TrustedInv, NewestInv, [Next]_vars
    PROVE  BarredInv'
<1> SUFFICES ASSUME trusted'
             PROVE  BarredInv'
  BY DEF BarredInv
<1>0. /\ dir.ks \in Keystores \cup {NoKeystore} /\ trusted \in BOOLEAN
      /\ Existing \subseteq Keystores
      /\ keychain.anchor # NoAnchor => keychain.anchor \in Anchors /\ keychain.anchor.epoch \in Nat
  BY Fields, ExistingType DEF TypeOK, Anchors
<1>a. ASSUME keychain'.anchor # NoAnchor,
             \A ks \in Existing : ks.version = 3 => Barred(ks, keychain'.anchor, revoked'),
             \A ks \in Existing' : ks \in Existing \/ Barred(ks, keychain'.anchor, revoked')
      PROVE  BarredInv'
  BY <1>a DEF BarredInv
<1>b. ASSUME trusted, keychain'.anchor = keychain.anchor, revoked' = revoked,
             \A ks \in Existing' : ks \in Existing \/ Barred(ks, keychain.anchor, revoked)
      PROVE  BarredInv'
  BY <1>a, <1>b DEF BarredInv
<1>1. CASE Quiet
  BY <1>1, <1>b DEF Quiet
<1>2. CASE CreateIdentity \/ RestoreIdentity
  <2>1. PICK owner \in Nat : NewKeystore(owner) /\ fresh \in Nat
    BY <1>2 DEF CreateIdentity, RestoreIdentity, Exported, TypeOK
  <2>2. /\ job' # NoJob /\ Idle /\ UNCHANGED <<dir, keychain, copy, revoked, trusted>>
    BY <1>2, CreateIdentityEffect, RestoreIdentityEffect
  <2>3. job'.ks.state.epoch = 1 /\ job'.ks.body.keys = << >>
    BY <2>1, NewKeystoreState
  <2>4. Credentials(job'.ks) = {}
    BY <2>3 DEF Credentials, ToSet
  <2>5. keychain.anchor # NoAnchor
    BY <2>2 DEF BarredInv
  <2>6. Barred(job'.ks, keychain.anchor, revoked)
    BY <1>0, <2>3, <2>4, <2>5 DEF Barred
  <2>7. \A ks \in Existing' : ks \in Existing \/ ks = job'.ks
    BY <2>2 DEF Existing, Idle
  <2> QED
    BY <1>b, <2>2, <2>6, <2>7
<1>3. CASE UpgradeLayout
  <2>1. Idle /\ UNCHANGED <<dir, copy, job, revoked>>
    BY <1>3, UpgradeLayoutEffect, CourseFacts, JobFields
  <2>2. Existing' = Existing
    BY <2>1 DEF Existing, Idle
  <2>3. CASE trusted
    <3>1. keychain' = keychain
      BY <1>3, <2>3, UpgradeLayoutEffect DEF TrustedInv
    <3> QED
      BY <1>b, <2>1, <2>2, <2>3, <3>1
  <2>4. CASE /\ intact /\ keychain.root = "legacy" /\ keychain'.anchor = keychain.legacy
    <3>1. keychain.legacy \in Anchors /\ keychain.legacy # NoAnchor
      BY <2>4, Fields DEF NewestInv
    <3>2. ASSUME NEW ks \in Existing
          PROVE  Barred(ks, keychain.legacy, revoked)
      <4>1. ks = dir.ks /\ dir.ks # NoKeystore /\ Protected /\ ks \in Keystores
        BY <1>0, <2>1, <2>4, <3>2 DEF Existing, NewestInv
      <4>2. Fits(keychain.legacy, ks.state) /\ Credentials(ks) \cap revoked = {}
        BY <2>4, <4>1 DEF AnchorInv, NewestInv
      <4>3. Chain!Acceptable(keychain.legacy, ks.state) /\ ks.state \in States
        BY <3>1, <4>1, <4>2, KeystoreFields DEF Fits, Protected
      <4> QED
        BY <3>1, <4>2, <4>3, AcceptableEpoch DEF Barred
    <3> QED
      BY <1>a, <2>1, <2>2, <2>4, <3>1, <3>2
  <2> QED
    BY <1>3, <2>3, <2>4, UpgradeTrust
<1>4. CASE ShowUnlock
  <2>1. /\ app.screen = "loading" /\ UNCHANGED <<copy, job, revoked, trusted>>
    BY <1>4, ShowUnlockEffect
  <2>2. app.backend = "secure"
    BY <2>1 DEF TrustedInv
  <2>3. CASE UNCHANGED <<dir, keychain>>
    <3>1. Existing' = Existing
      BY <2>1, <2>3 DEF Existing, Idle
    <3> QED
      BY <1>b, <2>1, <2>3, <3>1
  <2>4. CASE \E answered \in BOOLEAN : LoadKeystore(answered)
    <3>1. dir'.ks \in {dir.ks, NoKeystore}
      BY <2>4, LoadKeeps
    <3>2. Existing' \subseteq Existing
      BY <2>1, <3>1 DEF Existing, Idle
    <3> QED
      BY <1>a, <2>1, <2>2, <2>4, <3>2, LoadBarred
  <2> QED
    BY <1>4, <2>3, <2>4, ShowUnlockEffect
<1>5. CASE Load
  <2>0. At("load") /\ ~Idle /\ UNCHANGED <<copy, app, revoked, trusted>>
    BY <1>5 DEF Load, At
  <2>1. PICK answered \in BOOLEAN :
          /\ LoadKeystore(answered)
          /\ \/ job' = NoJob
             \/ job' # NoJob /\ job'.ks \in {dir.ks, NoKeystore}
             \/ /\ job' # NoJob /\ Verdict(answered) = "loaded"
                /\ job.kind \in {"add", "remove", "enable", "disable"}
                /\ job'.ks = Candidate(dir.ks) /\ Candidate(dir.ks) # NoKeystore
             \/ Verdict(answered) = "legacy"
    BY <1>5, LoadStepEffect, ClearedJob
  <2>2. app.backend = "secure"
    BY <2>0, CourseFacts DEF TrustedInv, At
  <2>3. /\ keychain'.anchor # NoAnchor
        /\ \A ks \in Existing : ks.version = 3 => Barred(ks, keychain'.anchor, revoked)
        /\ Verdict(answered) = "loaded" =>
              /\ keychain'.anchor = Chain!FromMetadata(dir.ks.state)
              /\ Credentials(dir.ks) \cap revoked = {}
    BY <2>0, <2>1, <2>2, LoadBarred
  <2>4. dir'.ks \in {dir.ks, NoKeystore}
    BY <2>1, LoadKeeps
  <2>5. \A ks \in Existing' : ks \in Existing \/ (job' # NoJob /\ ks = job'.ks)
    BY <2>0, <2>4 DEF Existing, Idle
  <2>6. CASE job' = NoJob \/ job'.ks \in {dir.ks, NoKeystore}
    <3>1. Existing' \subseteq Existing
      BY <2>0, <2>4, <2>6 DEF Existing, Idle
    <3> QED
      BY <1>a, <2>0, <2>3, <3>1
  <2>7. CASE /\ Verdict(answered) = "loaded"
             /\ job.kind \in {"add", "remove", "enable", "disable"}
             /\ job'.ks = Candidate(dir.ks) /\ Candidate(dir.ks) # NoKeystore
    <3>1. Protected /\ dir.ks \in Existing
      BY <2>1, <2>7, LoadEffect, ExistingType, KeystoreFields DEF Protected
    <3>2. Sound(dir.ks, fresh, keychain.token)
      BY <3>1 DEF SoundInv
    <3>3. IsInjective(dir.ks.body.keys)
          /\ (job.kind = "add" => job.secret \notin Credentials(dir.ks))
      BY <2>0, <3>1, <3>2 DEF Sound, SecretsInv, At
    <3>4. /\ job'.ks.state.epoch = dir.ks.state.epoch + 1
          /\ Credentials(job'.ks) \subseteq
                Credentials(dir.ks) \cup (IF job.kind = "add" THEN {job.secret} ELSE {})
      BY <2>0, <2>7, <3>1, <3>3, CandidateState
    <3>5. job.kind = "add" => job.secret \notin revoked
      BY <2>0 DEF SecretsInv
    <3>6. Credentials(job'.ks) \cap revoked = {}
      BY <2>3, <2>7, <3>4, <3>5
    <3>7. keychain'.anchor.epoch = dir.ks.state.epoch /\ dir.ks.state.epoch \in Nat
      BY <1>0, <2>3, <2>7, <3>1, KeystoreFields DEF Chain!FromMetadata, Protected, States
    <3>8. Barred(job'.ks, keychain'.anchor, revoked')
      BY <2>0, <3>4, <3>6, <3>7 DEF Barred
    <3> QED
      BY <1>a, <2>0, <2>3, <2>5, <3>8
  <2>8. Verdict(answered) # "legacy"
    <3>1. trusted /\ (Verdict(answered) = "legacy" => dir.ks \in Keystores /\ dir.ks.version # 3)
      BY <2>0, <2>1, LoadEffect
    <3> QED
      BY <3>1, KeystoreFields DEF TrustedInv, Protected
  <2> QED
    BY <2>1, <2>6, <2>7, <2>8
<1>6. CASE CommitAnchor
  <2>0. /\ At("anchor") /\ ~Idle /\ job.ks \in Keystores /\ job.ks.version = 3
        /\ Existing' \subseteq Existing /\ job.ks \in Existing
    BY <1>6, CommitKeeps, CommitAnchorEffect, ExistingType, KeystoreFields
  <2>1. CASE trusted /\ UNCHANGED <<keychain, revoked>>
    BY <1>b, <2>0, <2>1
  <2>2. CASE /\ trusted \/ intact
             /\ app.backend = "secure" /\ Accepts(job.ks.state)
             /\ keychain'.anchor = Chain!FromMetadata(job.ks.state)
    <3> DEFINE more == IF job.kind = "remove" THEN {job.secret} ELSE {}
    <3>1. revoked' = revoked \/ revoked' = revoked \cup more
      BY <1>6, CommitAnchorEffect
    <3>2. Credentials(job.ks) \cap more = {}
      BY <2>0 DEF SecretsInv, At
    <3>3. more # {} => job.kind = "remove"
      OBVIOUS
    <3> HIDE DEF more
    <3>4. CASE trusted
      <4>1. Chain!Acceptable(keychain.anchor, job.ks.state)
        BY <2>2, <3>4 DEF Accepts, Anchor, BarredInv
      <4>2. more = {} \/ job.ks.state.epoch = keychain.anchor.epoch + 1
        BY <2>0, <3>3, <3>4 DEF TrustedInv, At
      <4>3. /\ keychain'.anchor # NoAnchor
            /\ \A ks \in Existing : ks.version = 3 =>
                  Barred(ks, keychain'.anchor, revoked \cup more)
        BY <2>0, <2>2, <3>2, <3>4, <4>1, <4>2, BarredMoves
      <4>4. \A ks \in Existing : ks.version = 3 => Barred(ks, keychain'.anchor, revoked')
        BY <3>1, <4>3 DEF Barred
      <4> QED
        BY <1>a, <2>0, <4>3, <4>4
    <3>5. CASE ~trusted
      <4>1. intact /\ job.ks = dir.ks /\ Protected
        BY <2>0, <2>2, <3>5, KeystoreFields DEF AnchorInv, At, Protected
      <4>2. Credentials(dir.ks) \cap revoked' = {}
        BY <2>0, <3>1, <3>2, <4>1, KeystoreFields DEF NewestInv
      <4>3. /\ keychain'.anchor # NoAnchor
            /\ \A ks \in Existing : ks.version = 3 => Barred(ks, keychain'.anchor, revoked')
        BY <2>0, <2>2, <4>1, <4>2, BarredBegins
      <4> QED
        BY <1>a, <2>0, <4>3
    <3> QED
      BY <3>4, <3>5
  <2> QED
    BY <1>6, <2>1, <2>2, CommitTrust
<1>7. CASE SaveToken
  <2>1. /\ At("token") /\ ~Idle /\ job.ks \in Keystores /\ job.ks.version = 3
        /\ job.ks \in Existing /\ UNCHANGED <<dir, copy, revoked, trusted>>
        /\ keychain'.anchor = keychain.anchor /\ job.ks.state \in States
    BY <1>7, SaveTokenEffect, CourseFacts, ExistingType, KeystoreAssumption DEF At
  <2>2. CASE job' = NoJob
    <3>1. Existing' \subseteq Existing
      BY <2>1, <2>2 DEF Existing, Idle
    <3> QED
      BY <1>b, <2>1, <3>1
  <2>3. CASE job' # NoJob /\ job'.ks = RemoveDeviceToken(job.ks)
    <3>1. /\ job'.ks.state.epoch = job.ks.state.epoch + 1
          /\ Credentials(job'.ks) = Credentials(job.ks)
      BY <2>1, <2>3, DeviceState DEF Credentials
    <3>2. keychain.anchor = Chain!FromMetadata(job.ks.state) /\ keychain.anchor # NoAnchor
      BY <2>1 DEF TrustedInv, BarredInv, At
    <3>3. Chain!Acceptable(keychain.anchor, job.ks.state)
      BY <2>1, <3>2, CurrentFits DEF Fits
    <3>4. Credentials(job.ks) \cap revoked = {}
      BY <2>1, <3>3 DEF BarredInv, Barred
    <3>5. keychain.anchor.epoch = job.ks.state.epoch
      BY <3>2 DEF Chain!FromMetadata
    <3>6. Barred(job'.ks, keychain.anchor, revoked)
      BY <1>0, <3>1, <3>2, <3>4, <3>5 DEF Barred
    <3>7. \A ks \in Existing' : ks \in Existing \/ ks = job'.ks
      BY <2>1, <2>3 DEF Existing, Idle
    <3> QED
      BY <1>b, <2>1, <3>6, <3>7
  <2> QED
    BY <1>7, <2>2, <2>3, SaveTokenEffect
<1>8. CASE ClearToken
  <2>1. /\ At("clear") /\ ~Idle /\ job' = NoJob /\ UNCHANGED <<dir, copy, trusted>>
        /\ keychain'.anchor = keychain.anchor
    BY <1>8, ClearTokenEffect DEF At
  <2>2. Existing' \subseteq Existing
    BY <2>1 DEF Existing, Idle
  <2>3. CASE revoked' = revoked
    BY <1>b, <2>1, <2>2, <2>3
  <2>4. CASE job.kind = "disable" /\ revoked' = revoked \cup ({job.secret} \ {NoSecret})
    <3>1. job.secret = keychain.token
      BY <2>1, <2>4 DEF SecretsInv
    <3>2. \A ks \in Existing : keychain.token \notin Credentials(ks)
      BY DEF SoundInv, Sound
    <3>3. \A ks \in Existing : ks.version = 3 => Barred(ks, keychain.anchor, revoked)
      BY <2>1 DEF BarredInv
    <3>4. \A ks \in Existing : ks.version = 3 => Barred(ks, keychain'.anchor, revoked')
      BY <2>1, <2>4, <3>1, <3>2, <3>3 DEF Barred
    <3>5. keychain'.anchor # NoAnchor
      BY <2>1 DEF BarredInv
    <3> QED
      BY <1>a, <2>2, <3>4, <3>5
  <2> QED
    BY <1>8, <2>3, <2>4, ClearTokenRevokes
<1>9. CASE Confirm
  <2>0. /\ At("confirm") /\ ~Idle /\ job.ks \in Keystores /\ job.ks.version = 3
        /\ Existing' \subseteq Existing /\ job.ks \in Existing /\ revoked' = revoked
    BY <1>9, ConfirmKeeps, ConfirmEffect, ExistingType, KeystoreFields
  <2>1. CASE trusted /\ UNCHANGED keychain
    BY <1>b, <2>0, <2>1
  <2>2. CASE /\ trusted \/ intact
             /\ app.backend = "secure" /\ Accepts(job.ks.state)
             /\ keychain'.anchor = Chain!FromMetadata(job.ks.state)
    <3>1. CASE trusted
      <4>1. Chain!Acceptable(keychain.anchor, job.ks.state)
        BY <2>2, <3>1 DEF Accepts, Anchor, BarredInv
      <4>2. /\ keychain'.anchor # NoAnchor
            /\ \A ks \in Existing : ks.version = 3 =>
                  Barred(ks, keychain'.anchor, revoked \cup {})
        BY <2>0, <2>2, <3>1, <4>1, BarredMoves
      <4>3. revoked \cup {} = revoked'
        BY <2>0
      <4> QED
        BY <1>a, <2>0, <4>2, <4>3
    <3>2. CASE ~trusted
      <4>1. intact /\ job.ks = dir.ks /\ Protected
        BY <2>0, <2>2, <3>2, KeystoreFields DEF AnchorInv, At, Protected
      <4>2. Credentials(dir.ks) \cap revoked' = {}
        BY <2>0, <4>1, KeystoreFields DEF NewestInv
      <4>3. /\ keychain'.anchor # NoAnchor
            /\ \A ks \in Existing : ks.version = 3 => Barred(ks, keychain'.anchor, revoked')
        BY <2>0, <2>2, <4>1, <4>2, BarredBegins
      <4> QED
        BY <1>a, <2>0, <4>3
    <3> QED
      BY <3>1, <3>2
  <2> QED
    BY <1>9, <2>1, <2>2, ConfirmTrust
<1> QED
  BY <1>1, <1>2, <1>3, <1>4, <1>5, <1>6, <1>7, <1>8, <1>9, QuietSteps
     DEF Next, Jobs, Steps, Spawn

-----------------------------------------------------------------------------------
(* Before anything happened to the store.                                        *)

\* Until something happens to the store, the keystore on disk is the newest there is and
\* has nothing revoked.
LEMMA NewestStep ==
    ASSUME TypeOK, CourseInv, SlotsInv, BackendInv, AnchorInv, SoundInv, SecretsInv,
           NewestInv, [Next]_vars
    PROVE  NewestInv'
<1>0. /\ dir.ks \in Keystores \cup {NoKeystore} /\ copy.ks \in Keystores \cup {NoKeystore}
      /\ dir \in Directories /\ keychain \in Keychains /\ intact \in BOOLEAN
      /\ \A ks \in Keystores : ks.version = 3 => ks.state.epoch \in Nat
  BY Fields, KeystoreFields DEF TypeOK, Directories, States
\* Most steps leave the keystore on disk where it is; a job's is new or none.
<1>a. ASSUME \/ UNCHANGED <<keychain, copy>>
             \/ copy' = copy /\ keychain'.root = keychain.root /\ keychain'.legacy = keychain.legacy
             \/ copy' = copy /\ keychain.root # "legacy" /\ keychain'.root # "legacy",
             dir'.ks = dir.ks, intact' => intact,
             revoked' = revoked,
             app'.screen = "first" => app.screen = "first" \/ dir.ks = NoKeystore,
             \/ job' = NoJob
             \/ job' = job
             \/ job'.ks \in {NoKeystore, dir.ks} /\ job'.pc # "save"
             \/ ~Idle /\ job'.ks = job.ks /\ job'.pc # "save"
      PROVE  NewestInv'
  <2>1. keychain'.root = "legacy" =>
           keychain'.legacy # NoAnchor /\ (dir'.ks # NoKeystore => Protected')
    BY <1>a DEF NewestInv, Protected
  <2>2. copy'.ks # NoKeystore => copy'.ks.version = 3
    BY <1>a DEF NewestInv
  <2>3. ASSUME intact'
        PROVE  /\ dir'.ks # NoKeystore => Credentials(dir'.ks) \cap revoked' = {}
               /\ ~Idle' /\ job'.ks # NoKeystore => Credentials(job'.ks) \cap revoked' = {}
    BY <1>a, <2>3 DEF NewestInv, Idle
  <2>4. ASSUME intact', copy'.ks # NoKeystore
        PROVE  /\ keychain'.root # "legacy" /\ app'.screen # "first" /\ Protected'
               /\ copy'.ks = dir'.ks \/ copy'.ks.state.epoch < dir'.ks.state.epoch
               /\ At("save")' => job'.ks.state.epoch > dir'.ks.state.epoch
    BY <1>a, <2>4 DEF NewestInv, Idle, Protected, At
  <2> QED
    BY <2>1, <2>2, <2>3, <2>4 DEF NewestInv
<1>1. CASE Spawn
  BY <1>1, <1>a, SpawnEffect
<1>2. CASE CreateIdentity \/ RestoreIdentity
  <2>1. PICK owner \in Nat : NewKeystore(owner) /\ fresh \in Nat
    BY <1>2 DEF CreateIdentity, RestoreIdentity, Exported, TypeOK
  <2>2. /\ Idle /\ app.screen = "first"
        /\ UNCHANGED <<dir, keychain, copy, revoked, intact, app>>
    BY <1>2, CreateIdentityEffect, RestoreIdentityEffect
  <2>3. job'.ks.body.keys = << >>
    BY <2>1, NewKeystoreState
  <2>4. Credentials(job'.ks) = {}
    BY <2>3 DEF Credentials, ToSet
  <2>5. intact => copy.ks = NoKeystore
    BY <2>2 DEF NewestInv
  <2> QED
    BY <2>2, <2>4, <2>5 DEF NewestInv, Protected
<1>3. CASE RecoverAnchors
  <2>1. intact' => intact
    BY <1>3, RecoverAnchorsEffect
  <2> QED
    BY <1>3, <1>a, <2>1, RecoverAnchorsEffect
<1>4. CASE Lock
  BY <1>4, <1>a, LockEffect
<1>5. CASE Stop
  BY <1>5, <1>a, StopEffect
<1>6. CASE CopyDirectory
  <2>1. /\ app.screen = "session" /\ Idle /\ Protected /\ copy' = dir
        /\ UNCHANGED <<dir, keychain, app, job, revoked, intact>>
    BY <1>6 DEF CopyDirectory
  <2>2. intact => keychain.root # "legacy"
    BY <2>1, Fields DEF BackendInv, Behind, Marker
  <2> QED
    BY <2>1, <2>2 DEF NewestInv, Protected, Idle, At
<1>7. CASE Damage
  <2>1. ~intact' /\ copy' = NewDir
    BY <1>7, DamageEffect DEF Damage
  <2>2. copy'.ks = NoKeystore
    BY <2>1 DEF NewDir
  <2>3. /\ dir'.ks \in {dir.ks, copy.ks}
        /\ keychain' = keychain \/ keychain' = NewKeychain
    BY <1>0, <1>7 DEF Damage, Directories
  <2>4. NewKeychain.root = "none"
    BY DEF NewKeychain
  <2>5. keychain'.root = "legacy" =>
           keychain'.legacy # NoAnchor /\ (dir'.ks # NoKeystore => Protected')
    BY <2>3, <2>4 DEF NewestInv, Protected
  <2> QED
    BY <2>1, <2>2, <2>5 DEF NewestInv
<1>8. CASE Start
  <2>1. /\ UNCHANGED <<dir, copy, job, revoked, intact>> /\ app'.screen \in {"recover", "probed"}
        /\ keychain'.legacy = keychain.legacy
        /\ keychain'.root = keychain.root \/ (keychain.root = "none" /\ keychain'.root = "current")
    BY <1>8, StartEffect
  <2> QED
    BY <1>a, <2>1
<1>9. CASE RepairMarker
  BY <1>9, <1>a, RepairMarkerEffect
<1>10. CASE UpgradeLayout
  <2>1. /\ UNCHANGED <<dir, copy, job, revoked, intact>> /\ app'.screen \in {"loading", "fatal"}
        /\ app.screen = "marked"
    BY <1>10, UpgradeLayoutEffect
  <2>2. CASE keychain' = keychain \/
             (keychain'.root = keychain.root /\ keychain'.legacy = keychain.legacy)
    BY <1>a, <2>1, <2>2
  <2>3. CASE keychain.root = "legacy" /\ keychain'.root = "current"
    <3>1. Idle
      BY <2>1, CourseFacts, JobFields
    <3> QED
      BY <2>1, <2>3, <3>1 DEF NewestInv, Protected, Idle
  <2> QED
    BY <1>10, <2>2, <2>3, UpgradeLayoutEffect
<1>11. CASE ShowUnlock
  <2>1. app.screen = "loading" /\ UNCHANGED <<copy, job, revoked>>
    BY <1>11, ShowUnlockEffect
  <2>2. CASE /\ dir.ks = NoKeystore /\ app'.screen = "first"
             /\ UNCHANGED <<dir, keychain, intact>>
    BY <1>a, <2>1, <2>2
  <2>3. CASE app'.screen = "unlock" /\ \E answered \in BOOLEAN : LoadKeystore(answered)
    <3>1. PICK answered \in BOOLEAN : LoadKeystore(answered)
      BY <2>3
    <3>2. /\ dir'.ks \in {dir.ks, NoKeystore} /\ intact' = (intact /\ answered)
          /\ keychain'.root = keychain.root /\ keychain'.legacy = keychain.legacy
      BY <3>1, LoadEffect
    <3>3. CASE dir'.ks = dir.ks
      BY <1>a, <2>1, <2>3, <3>2, <3>3
    <3>4. CASE dir'.ks # dir.ks
      <4>1. ~intact'
        BY <2>1, <3>1, <3>2, <3>4, LoadEffect, IntactAccepts DEF Behind
      <4> QED
        BY <2>1, <3>2, <3>4, <4>1 DEF NewestInv
    <3> QED
      BY <3>3, <3>4
  <2> QED
    BY <1>11, <2>2, <2>3, ShowUnlockEffect
<1>12. CASE Load
  <2>0. At("load") /\ ~Idle /\ UNCHANGED <<copy, app, revoked>>
        /\ app.screen \in {"unlock", "session"}
    BY <1>12, CourseFacts DEF Load, At
  <2>1. PICK answered \in BOOLEAN :
          /\ LoadKeystore(answered)
          /\ \/ job' = NoJob
             \/ job' # NoJob /\ job'.ks \in {dir.ks, NoKeystore} /\ job'.pc # "save"
             \/ /\ job' # NoJob /\ Verdict(answered) = "loaded"
                /\ job.kind \in {"add", "remove", "enable", "disable"}
                /\ job'.ks = Candidate(dir.ks) /\ Candidate(dir.ks) # NoKeystore
             \/ /\ job' # NoJob /\ Verdict(answered) = "legacy" /\ job'.ks = RecoverLegacy(dir.ks)
    BY <1>12, LoadStepEffect, ClearedJob
  <2>2. /\ dir'.ks \in {dir.ks, NoKeystore} /\ intact' = (intact /\ answered)
        /\ keychain'.root = keychain.root /\ keychain'.legacy = keychain.legacy
    BY <2>1, LoadEffect
  <2>3. CASE ~intact'
    BY <2>0, <2>2, <2>3 DEF NewestInv, Protected
  <2>4. CASE intact'
    <3>1. dir'.ks = dir.ks
      BY <2>0, <2>1, <2>2, <2>4, LoadEffect, IntactAccepts DEF Behind
    <3>2. CASE job' = NoJob \/ (job'.ks \in {dir.ks, NoKeystore} /\ job'.pc # "save")
      BY <1>a, <2>0, <2>2, <3>1, <3>2
    <3>a. ASSUME dir.ks # NoKeystore, Credentials(job'.ks) \cap revoked = {},
                 copy.ks # NoKeystore => job'.ks.state.epoch > dir.ks.state.epoch
          PROVE  NewestInv'
      BY <2>0, <2>2, <2>4, <3>1, <3>a DEF NewestInv, Protected, Idle, At
    <3>3. CASE /\ Verdict(answered) = "loaded"
               /\ job.kind \in {"add", "remove", "enable", "disable"}
               /\ job'.ks = Candidate(dir.ks) /\ Candidate(dir.ks) # NoKeystore
      <4>1. Protected /\ dir.ks \in Existing /\ dir.ks \in Keystores
        BY <1>0, <2>1, <3>3, LoadEffect, ExistingType DEF Protected
      <4>2. Sound(dir.ks, fresh, keychain.token)
        BY <4>1 DEF SoundInv
      <4>3. IsInjective(dir.ks.body.keys)
            /\ (job.kind = "add" => job.secret \notin Credentials(dir.ks))
        BY <2>0, <4>1, <4>2 DEF Sound, SecretsInv, At
      <4>4. /\ job'.ks.state.epoch = dir.ks.state.epoch + 1
            /\ Credentials(job'.ks) \subseteq
                  Credentials(dir.ks) \cup (IF job.kind = "add" THEN {job.secret} ELSE {})
        BY <2>0, <3>3, <4>1, <4>3, CandidateState
      <4>5. job.kind = "add" => job.secret \notin revoked
        BY <2>0 DEF SecretsInv
      <4>6. Credentials(dir.ks) \cap revoked = {} /\ dir.ks # NoKeystore
        BY <2>2, <2>4, <4>1 DEF NewestInv, Protected
      <4>7. Credentials(job'.ks) \cap revoked = {}
        BY <4>4, <4>5, <4>6
      <4>8. job'.ks.state.epoch > dir.ks.state.epoch
        BY <1>0, <4>1, <4>4 DEF Protected
      <4> QED
        BY <3>a, <4>6, <4>7, <4>8
    <3>4. CASE Verdict(answered) = "legacy" /\ job'.ks = RecoverLegacy(dir.ks)
      <4>1. dir.ks \in Keystores /\ dir.ks.version # 3 /\ dir.ks # NoKeystore
        BY <2>1, <3>4, LoadEffect, KeystoreFields
      <4>2. Credentials(job'.ks) = Credentials(dir.ks)
        BY <3>4, <4>1, RecoverLegacyState DEF Credentials, TypeOK
      <4>3. Credentials(dir.ks) \cap revoked = {} /\ copy.ks = NoKeystore
        BY <2>2, <2>4, <4>1 DEF NewestInv, Protected
      <4> QED
        BY <3>a, <4>1, <4>2, <4>3
    <3> QED
      BY <2>1, <3>2, <3>3, <3>4
  <2> QED
    BY <2>3, <2>4
<1>13. CASE Save
  <2>1. /\ At("save") /\ ~Idle /\ job.ks \in Keystores /\ job.ks.version = 3
        /\ UNCHANGED <<keychain, copy, app, revoked, intact>>
    BY <1>13, SaveEffect, CourseFacts DEF At
  <2>2. CASE job' = NoJob /\ dir' = dir
    BY <1>a, <2>1, <2>2
  <2>3. CASE /\ job'.pc = "anchor" /\ job'.ks = job.ks /\ dir'.ks = job.ks
    <3>1. Protected' /\ job.ks # NoKeystore
      BY <2>1, <2>3, KeystoreFields DEF Protected
    <3>2. ASSUME intact, copy.ks # NoKeystore
          PROVE  copy.ks.state.epoch < job.ks.state.epoch
      <4>1. /\ Protected /\ job.ks.state.epoch > dir.ks.state.epoch
            /\ copy.ks = dir.ks \/ copy.ks.state.epoch < dir.ks.state.epoch
            /\ copy.ks.version = 3
        BY <2>1, <3>2 DEF NewestInv
      <4>2. copy.ks.state.epoch \in Nat /\ dir.ks.state.epoch \in Nat /\ job.ks.state.epoch \in Nat
        BY <1>0, <2>1, <3>2, <4>1 DEF Protected
      <4> QED
        BY <4>1, <4>2
    <3> QED
      BY <2>1, <2>3, <3>1, <3>2 DEF NewestInv, Idle, At
  <2> QED
    BY <1>13, <2>2, <2>3, SaveEffect
<1>14. CASE CommitAnchor
  <2>1. /\ At("anchor") /\ ~Idle /\ job.ks \in Keystores /\ job.ks.version = 3
        /\ job.ks.state \in States /\ dir'.ks = dir.ks
        /\ UNCHANGED <<copy, intact>> /\ (~Idle' => job'.ks = job.ks)
    BY <1>14, CommitKeeps, CommitAnchorEffect, KeystoreFields
  <2>2. keychain'.root = keychain.root /\ keychain'.legacy = keychain.legacy
    BY <1>0, <1>14, <2>1, CommitAnchorEffect, PutAnchorEffect
  <2>3. app'.screen \in {app.screen, "session"}
    BY <1>14, CommitAnchorEffect
  <2>4. job' = NoJob \/ (job'.ks = job.ks /\ job'.pc # "save")
    BY <1>14, CommitAnchorEffect
  <2>5. CASE revoked' = revoked
    BY <1>a, <2>1, <2>2, <2>3, <2>4, <2>5
  <2>6. CASE revoked' = revoked \cup {job.secret} /\ job.kind = "remove" /\ job' = NoJob
    <3>1. intact => job.ks = dir.ks
      BY <2>1, KeystoreFields DEF AnchorInv, At
    <3>2. job.secret \notin Credentials(job.ks)
      BY <2>1, <2>6 DEF SecretsInv, At
    <3>3. dir'.ks # NoKeystore /\ intact => Credentials(dir'.ks) \cap revoked' = {}
      BY <2>1, <2>6, <3>1, <3>2 DEF NewestInv
    <3> QED
      BY <2>1, <2>2, <2>3, <2>6, <3>3 DEF NewestInv, Protected, Idle, At
  <2> QED
    BY <1>14, <2>5, <2>6, CommitAnchorEffect
<1>15. CASE SaveToken
  <2>1. /\ At("token") /\ ~Idle /\ job.ks \in Keystores /\ job.ks.version = 3
        /\ UNCHANGED <<dir, copy, revoked, intact>> /\ app'.screen = app.screen
        /\ keychain'.root = keychain.root /\ keychain'.legacy = keychain.legacy
    BY <1>15, SaveTokenEffect, CourseFacts DEF At
  <2>2. CASE job' = NoJob
    BY <1>a, <2>1, <2>2
  <2>3. CASE job' # NoJob /\ job'.ks = RemoveDeviceToken(job.ks)
    <3>1. /\ job'.ks.state.epoch = job.ks.state.epoch + 1
          /\ Credentials(job'.ks) = Credentials(job.ks)
      BY <2>1, <2>3, DeviceState DEF Credentials
    <3>2. intact => job.ks = dir.ks
      BY <2>1 DEF AnchorInv, At
    <3>3. job.ks.state.epoch \in Nat /\ job.ks # NoKeystore
      BY <1>0, <2>1, KeystoreFields
    <3>4. job'.ks.state.epoch > job.ks.state.epoch
      BY <3>1, <3>3
    <3> QED
      BY <2>1, <3>1, <3>2, <3>3, <3>4 DEF NewestInv, Protected, Idle, At
  <2> QED
    BY <1>15, <2>2, <2>3, SaveTokenEffect
<1>16. CASE ClearToken
  <2>1. /\ At("clear") /\ ~Idle /\ job' = NoJob /\ UNCHANGED <<dir, copy, intact>>
        /\ keychain'.root = keychain.root /\ keychain'.legacy = keychain.legacy
        /\ app'.screen = app.screen
    BY <1>16, ClearTokenEffect DEF At
  <2>2. CASE revoked' = revoked
    BY <1>a, <2>1, <2>2
  <2>3. CASE job.kind = "disable" /\ revoked' = revoked \cup ({job.secret} \ {NoSecret})
    <3>1. job.secret = keychain.token
      BY <2>1, <2>3 DEF SecretsInv
    <3>2. dir.ks # NoKeystore => keychain.token \notin Credentials(dir.ks)
      BY ExistingType DEF SoundInv, Sound
    <3> QED
      BY <2>1, <2>3, <3>1, <3>2 DEF NewestInv, Protected, Idle, At
  <2> QED
    BY <1>16, <2>2, <2>3, ClearTokenRevokes
<1>17. CASE Confirm
  <2>1. /\ At("confirm") /\ ~Idle /\ job' = NoJob /\ job.ks.state \in States /\ job.ks.version = 3
        /\ job.ks # NoKeystore
        /\ UNCHANGED <<copy, revoked>> /\ (intact' => intact)
        /\ app.screen \in {"unlock", "session"}
    BY <1>17, ConfirmEffect, CourseFacts, KeystoreFields DEF At
  <2>2. CASE /\ intact' => ~Accepts(job.ks.state)
             /\ dir'.ks = NoKeystore /\ keychain' = keychain /\ app' = app
    <3>1. intact => job.ks = dir.ks
      BY <2>1 DEF AnchorInv, At
    <3>2. ~intact'
      BY <2>1, <2>2, <3>1, IntactAccepts DEF Behind, Protected
    <3> QED
      BY <2>1, <2>2, <3>2 DEF NewestInv
  <2>3. CASE /\ \E d \in Directories : d.ks = dir.ks /\ PutAnchor(job.ks.state, d)
             /\ app'.screen \in {app.screen, "session"}
    <3>1. /\ dir'.ks = dir.ks /\ keychain'.root = keychain.root
          /\ keychain'.legacy = keychain.legacy
      BY <2>1, <2>3, PutAnchorEffect
    <3> QED
      BY <1>a, <2>1, <2>3, <3>1
  <2> QED
    BY <1>17, <2>2, <2>3, ConfirmEffect
<1>18. CASE Reanchor
  <2>1. /\ ~Idle /\ job.ks.state \in States /\ UNCHANGED <<copy, app, revoked, intact>>
        /\ job' = NoJob \/ (job'.pc = "root" /\ job'.ks = job.ks)
    BY <1>18, ReanchorEffect, CourseFacts DEF At
  <2>2. dir'.ks = dir.ks /\ keychain'.root = keychain.root /\ keychain'.legacy = keychain.legacy
    BY <1>0, <1>18, <2>1, ReanchorEffect, PutAnchorEffect
  <2> QED
    BY <1>a, <2>1, <2>2
<1>19. CASE RewriteRoot
  <2>1. /\ ~Idle /\ UNCHANGED <<dir, copy, app, revoked, intact>>
        /\ job' = NoJob \/ (job'.pc = "marker" /\ job'.ks = job.ks)
        /\ keychain' = keychain \/ keychain'.root = "current"
    BY <1>19, RewriteRootEffect, Fields DEF At
  <2>2. CASE keychain' = keychain \/ keychain.root # "legacy"
    BY <1>a, <2>1, <2>2
  <2>3. CASE keychain.root = "legacy" /\ keychain'.root = "current"
    BY <2>1, <2>3 DEF NewestInv, Protected, Idle, At
  <2> QED
    BY <2>1, <2>2, <2>3
<1>20. CASE RewriteMarker
  BY <1>20, <1>a, RewriteMarkerEffect
<1>21. CASE UNCHANGED vars
  BY <1>21, <1>a DEF vars
<1> QED
  BY <1>1, <1>2, <1>3, <1>4, <1>5, <1>6, <1>7, <1>8, <1>9, <1>10, <1>11, <1>12, <1>13, <1>14,
     <1>15, <1>16, <1>17, <1>18, <1>19, <1>20, <1>21 DEF Next, Jobs, Steps, Spawn

-----------------------------------------------------------------------------------
(* The theorems about what is revoked.                                           *)

\* Every installation the program starts with is sound, and nothing is revoked or trusted yet.
LEMMA RevocationInit ==
    ASSUME Init
    PROVE  SoundInv /\ SecretsInv /\ BarredInv /\ TrustedInv /\ NewestInv
<1> DEFINE body == Body(1, 1, << 2 >>, NoSecret)
<1> DEFINE first == Sealed(body, NoAnchor)
<1>1. body \in Bodies /\ body.keys = << 2 >>
  BY DEF Body, Bodies
<1>2. /\ first \in Keystores /\ first.version = 3 /\ first.body = body
      /\ Chain!VerifyPayload(first.state, body)
  BY <1>1, SealedType, SealedState
<1>3. /\ Legacy(1, << >>).version = 1 /\ Legacy(1, << >>).body.keys = << >>
      /\ Legacy(2, << 2 >>).version = 2 /\ Legacy(2, << 2 >>).body.keys = << 2 >>
  BY DEF Legacy, Body
<1> HIDE DEF body
<1>4. Chain!FromMetadata(first.state) \in Anchors /\ Chain!FromMetadata(first.state) # NoAnchor
  BY <1>2, KeystoreFields, CurrentFits, KeystoreAssumption
<1> HIDE DEF first
<1>5. NewDir.ks = NoKeystore /\ NewKeychain.root = "none" /\ NewKeychain.token = NoSecret
  BY DEF NewDir, NewKeychain
<1>6. /\ copy = NewDir /\ job = NoJob /\ revoked = {} /\ trusted = FALSE
  BY DEF Init
<1>7. NoSecret \notin Nat
  BY KeystoreAssumption
<1>a. ASSUME NEW keys, keys = << >> \/ keys = << 2 >>
      PROVE  /\ IsInjective(keys)
             /\ \A c \in ToSet(keys) : c < 3 /\ c # NoSecret
  <2>1. CASE keys = << >>
    BY <2>1 DEF IsInjective, ToSet
  <2>2. CASE keys = << 2 >>
    <3>1. DOMAIN keys = {1} /\ keys[1] = 2
      BY <2>2
    <3> QED
      BY <1>7, <3>1 DEF IsInjective, ToSet
  <2> QED
    BY <1>a, <2>1, <2>2
<1>b. /\ keychain.token = NoSecret
      /\ \/ dir.ks = NoKeystore /\ keychain.root = "none"
         \/ /\ fresh = 3 /\ keychain.root = "none" /\ dir.ks.version # 3
            /\ dir.ks.body.keys = << >> \/ dir.ks.body.keys = << 2 >>
         \/ /\ fresh = 3 /\ keychain.legacy # NoAnchor /\ dir.ks = first
            /\ dir.ks.body.keys = << 2 >>
  <2>1. NewDir \in Directories /\ NewKeychain \in Keychains
    BY DEF NewDir, NewKeychain, Directories, Keychains
  <2>2. CASE dir = NewDir /\ keychain = NewKeychain
    BY <1>5, <2>2
  <2>3. CASE dir = [NewDir EXCEPT !.ks = Legacy(1, << >>)] /\ keychain = NewKeychain /\ fresh = 3
    <3>1. dir.ks = Legacy(1, << >>)
      BY <2>1, <2>3 DEF Directories
    <3> QED
      BY <1>3, <1>5, <2>3, <3>1
  <2>4. CASE dir = [NewDir EXCEPT !.ks = Legacy(2, << 2 >>)] /\ keychain = NewKeychain /\ fresh = 3
    <3>1. dir.ks = Legacy(2, << 2 >>)
      BY <2>1, <2>4 DEF Directories
    <3> QED
      BY <1>3, <1>5, <2>4, <3>1
  <2>5. CASE /\ dir = [NewDir EXCEPT !.ks = first, !.marker = "secure"]
             /\ keychain = [NewKeychain EXCEPT !.root = "legacy",
                                               !.legacy = Chain!FromMetadata(first.state)]
             /\ fresh = 3
    <3>1. dir.ks = first
      BY <2>1, <2>5 DEF Directories
    <3>2. keychain.token = NoSecret /\ keychain.legacy = Chain!FromMetadata(first.state)
      BY <1>5, <2>1, <2>5 DEF Keychains
    <3> QED
      BY <1>1, <1>2, <1>4, <2>5, <3>1, <3>2
  <2> QED
    BY <2>2, <2>3, <2>4, <2>5 DEF Init, first, body
<1>8. Existing = {dir.ks} \ {NoKeystore}
  BY <1>5, <1>6 DEF Existing, Idle
<1>9. SoundInv
  <2>1. ASSUME NEW ks \in Existing PROVE Sound(ks, fresh, keychain.token)
    <3>1. ks = dir.ks /\ dir.ks # NoKeystore
      BY <1>8
    <3> QED
      BY <1>a, <1>b, <1>2, <3>1 DEF Sound, Credentials
  <2> QED
    BY <1>6, <1>b, <2>1 DEF SoundInv
<1>10. SecretsInv /\ BarredInv /\ TrustedInv
  BY <1>6 DEF SecretsInv, BarredInv, TrustedInv, Idle
<1>11. NewestInv
  BY <1>2, <1>5, <1>6, <1>b DEF NewestInv, Idle, Protected
<1> QED
  BY <1>9, <1>10, <1>11

\* What bars the revoked holds in every reachable state.
THEOREM RevokedIsBarred == Spec => []RevocationInv
<1>1. Init => RevocationInv
  BY InitInv, RevocationInit DEF RevocationInv
<1>2. RevocationInv /\ [Next]_vars => RevocationInv'
  <2> SUFFICES ASSUME RevocationInv, [Next]_vars
               PROVE  RevocationInv'
    OBVIOUS
  <2> USE DEF RevocationInv
  <2>1. IInv'
    BY TypeStep, CourseStep, BackendStep, AnchorStep, SlotsStep DEF IInv
  <2>2. SoundInv' /\ SecretsInv'
    BY SoundStep, SecretsStep DEF IInv
  <2>3. TrustedInv' /\ BarredInv' /\ NewestInv'
    BY TrustedStep, BarredStep, NewestStep DEF IInv
  <2> QED
    BY <2>1, <2>2, <2>3
<1> QED
  BY <1>1, <1>2, PTL DEF Spec

\* A session is only opened by the last step of an unlock when a job is at that step.
LEMMA ConfirmOpens ==
    ASSUME TypeOK, CourseInv, Next, At("confirm"), app'.screen = "session"
    PROVE  Confirm /\ app.screen = "unlock"
<1>1. app.screen = "unlock" /\ ~Idle /\ job.pc = "confirm"
  <2>1. ~Idle /\ job.kind \in Kinds
    BY JobFields DEF At
  <2> QED
    BY <2>1 DEF CourseInv, At, Kinds
<1>2. Confirm
  BY <1>1, LockEffect, StartEffect, RepairMarkerEffect, UpgradeLayoutEffect, ShowUnlockEffect,
     StopEffect
     DEF Next, Jobs, Steps, CreateIdentity, RestoreIdentity, UnlockPassphrase, UnlockPasskey,
     UnlockKeyring, EnrollPasskey, DropPasskey, EnableAutoUnlock, DisableAutoUnlock, RecoverAnchors,
     Load, Save, CommitAnchor, SaveToken, ClearToken, Reanchor, RewriteRoot, RewriteMarker,
     At, CopyDirectory, Damage
<1> QED
  BY <1>1, <1>2

\* While the anchors in the keychain are this store's own, a security key that was removed
\* and a device that was forgotten open no keystore, not one from an older copy of the
\* directory either (KeystoreFile::remove_passkey, remove_device_token,
\* Store::confirm_unlocked_keystore).
THEOREM RevokedNeverOpens == Spec => RevokedStaysRevoked
<1>1. RevocationInv /\ [Next]_vars =>
        [trusted /\ At("confirm") /\ app'.screen = "session" => job.secret \notin revoked]_vars
  <2> SUFFICES ASSUME RevocationInv, Next, trusted, At("confirm"), app'.screen = "session"
               PROVE  job.secret \notin revoked
    BY DEF vars
  <2> USE DEF RevocationInv, IInv
  <2>1. Confirm /\ app.screen = "unlock" /\ ~Idle
    BY ConfirmOpens DEF At
  <2>2. job.kind \in {"unlock", "passkey", "keyring"}
    BY <2>1, JobFields DEF CourseInv, At, Kinds
  <2>3. CASE job.kind = "unlock"
    <3>1. NoSecret \notin revoked
      BY KeystoreAssumption DEF TypeOK
    <3> QED
      BY <2>1, <2>3, <3>1 DEF SecretsInv
  <2>4. CASE job.kind = "keyring"
    BY <2>1, <2>4 DEF SlotsInv, SoundInv
  <2>5. CASE job.kind = "passkey"
    <3>1. Accepts(job.ks.state)
      BY <2>1, ConfirmEffect
    <3>2. job.secret \in Credentials(job.ks)
      BY <2>1, <2>5 DEF SecretsInv, At
    <3>3. job.ks \in Existing /\ job.ks.version = 3
      BY <2>1, CourseFacts, ExistingType, KeystoreFields DEF At
    <3>4. app.backend = "secure" /\ keychain.anchor # NoAnchor
      BY <2>1 DEF TrustedInv, BarredInv
    <3>5. Chain!Acceptable(keychain.anchor, job.ks.state)
      BY <3>1, <3>4 DEF Accepts, Anchor
    <3> QED
      BY <3>2, <3>3, <3>5 DEF BarredInv, Barred
  <2> QED
    BY <2>2, <2>3, <2>4, <2>5
<1> QED
  BY <1>1, RevokedIsBarred, PTL DEF Spec, RevokedStaysRevoked
===================================================================================
