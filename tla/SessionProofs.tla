------------------------------ MODULE SessionProofs ------------------------------
(* Machine-checked proofs of Session's safety properties, for any vaults, files,  *)
(* temporary files and number of revisions, and any combination of failures.      *)
EXTENDS Session, FiniteSetTheorems, TLAPS

-------------------------------------------------------------------------------
(* The wiper's queue.                                                         *)

\* A finite set is queued as a sequence of exactly its elements.
LEMMA SetToSeqElements ==
    ASSUME NEW S, IsFiniteSet(S)
    PROVE  SetToSeq(S) \in Seq(S) /\ ToSet(SetToSeq(S)) = S
<1> DEFINE n == Cardinality(S)
           q == SetToSeq(S)
<1>1. n \in Nat /\ ExistsBijection(1..n, S)
  BY FS_CardinalityType
<1>2. \E g \in [1..n -> S] : IsInjective(g)
  BY <1>1 DEF ExistsBijection, Bijection, Injection
<1>3. q \in [1..n -> S] /\ IsInjective(q)
  BY <1>2 DEF SetToSeq
<1>4. q \in Seq(S) /\ DOMAIN q = 1..n
  BY <1>1, <1>3
<1> DEFINE T == ToSet(q)
<1>5. T \subseteq S
  BY <1>3, <1>4 DEF ToSet
<1>6. q \in Bijection(1..n, T)
  BY <1>3, <1>4 DEF ToSet, Bijection, Injection, Surjection, IsInjective
<1>7. Cardinality(T) = n
  BY <1>1, <1>6, FS_CountingElements DEF ExistsBijection
<1>8. T = S
  BY <1>5, <1>7, FS_Subset
<1> QED
  BY <1>4, <1>8

\* What the operations on the queue do to the files in it.
LEMMA QueueElements ==
    ASSUME NEW S, NEW q \in Seq(S)
    PROVE  /\ ToSet(q) \subseteq S
           /\ \A r \in Seq(S) : q \o r \in Seq(S) /\ ToSet(q \o r) = ToSet(q) \cup ToSet(r)
           /\ \A e \in S : Append(q, e) \in Seq(S) /\ ToSet(Append(q, e)) = ToSet(q) \cup {e}
           /\ q # <<>> => /\ Head(q) \in S /\ Tail(q) \in Seq(S)
                          /\ ToSet(q) = {Head(q)} \cup ToSet(Tail(q))
<1>1. ToSet(q) \subseteq S
  BY DEF ToSet
<1>2. ASSUME NEW r \in Seq(S) PROVE q \o r \in Seq(S) /\ ToSet(q \o r) = ToSet(q) \cup ToSet(r)
  <2>1. /\ q \o r \in Seq(S) /\ DOMAIN (q \o r) = 1..(Len(q) + Len(r))
        /\ \A i \in 1..Len(q) : (q \o r)[i] = q[i]
        /\ \A i \in 1..Len(r) : (q \o r)[Len(q) + i] = r[i]
        /\ Len(q) \in Nat /\ Len(r) \in Nat /\ DOMAIN q = 1..Len(q)
        /\ DOMAIN r = 1..Len(r)
    BY <1>2
  <2>2. ASSUME NEW x \in ToSet(q \o r) PROVE x \in ToSet(q) \cup ToSet(r)
    <3>1. PICK i \in 1..(Len(q) + Len(r)) : x = (q \o r)[i]
      BY <2>1, <2>2 DEF ToSet
    <3>2. CASE i \in 1..Len(q)
      BY <2>1, <3>1, <3>2 DEF ToSet
    <3>3. CASE i \notin 1..Len(q)
      <4>1. i - Len(q) \in 1..Len(r) /\ i = Len(q) + (i - Len(q))
        BY <2>1, <3>3
      <4> QED
        BY <2>1, <3>1, <4>1 DEF ToSet
    <3> QED
      BY <3>2, <3>3
  <2>3. ASSUME NEW x \in ToSet(q) PROVE x \in ToSet(q \o r)
    <3>1. PICK i \in 1..Len(q) : x = q[i]
      BY <2>1, <2>3 DEF ToSet
    <3>2. i \in 1..(Len(q) + Len(r)) /\ x = (q \o r)[i]
      BY <2>1, <3>1
    <3> QED
      BY <2>1, <3>2 DEF ToSet
  <2>4. ASSUME NEW x \in ToSet(r) PROVE x \in ToSet(q \o r)
    <3>1. PICK i \in 1..Len(r) : x = r[i]
      BY <2>1, <2>4 DEF ToSet
    <3>2. Len(q) + i \in 1..(Len(q) + Len(r)) /\ x = (q \o r)[Len(q) + i]
      BY <2>1, <3>1
    <3> QED
      BY <2>1, <3>2 DEF ToSet
  <2> QED
    BY <2>1, <2>2, <2>3, <2>4
<1>3. ASSUME NEW e \in S PROVE Append(q, e) \in Seq(S) /\ ToSet(Append(q, e)) = ToSet(q) \cup {e}
  <2> DEFINE a == Append(q, e)
  <2>1. /\ a \in Seq(S) /\ Len(q) \in Nat /\ DOMAIN q = 1..Len(q)
        /\ DOMAIN a = 1..(Len(q) + 1)
        /\ \A i \in 1..Len(q) : a[i] = q[i]
        /\ a[Len(q) + 1] = e
    BY <1>3
  <2> HIDE DEF a
  <2>2. ASSUME NEW i \in 1..(Len(q) + 1) PROVE a[i] \in ToSet(q) \cup {e}
    <3>1. CASE i = Len(q) + 1
      BY <2>1, <3>1
    <3>2. CASE i # Len(q) + 1
      <4>1. i \in 1..Len(q)
        BY <2>1, <3>2
      <4> QED
        BY <2>1, <4>1 DEF ToSet
    <3> QED
      BY <3>1, <3>2
  <2>3. ASSUME NEW i \in 1..Len(q) PROVE q[i] \in ToSet(a)
    <3>1. i \in 1..(Len(q) + 1) /\ q[i] = a[i]
      BY <2>1
    <3> QED
      BY <2>1, <3>1 DEF ToSet
  <2>4. e \in ToSet(a)
    <3>1. Len(q) + 1 \in 1..(Len(q) + 1)
      BY <2>1
    <3> QED
      BY <2>1, <3>1 DEF ToSet
  <2>5. ToSet(a) \subseteq ToSet(q) \cup {e}
    BY <2>1, <2>2 DEF ToSet
  <2>6. ToSet(q) \subseteq ToSet(a)
    BY <2>1, <2>3 DEF ToSet
  <2> QED
    BY <2>1, <2>4, <2>5, <2>6 DEF a
<1>4. ASSUME q # <<>>
      PROVE  /\ Head(q) \in S /\ Tail(q) \in Seq(S)
             /\ ToSet(q) = {Head(q)} \cup ToSet(Tail(q))
  <2> DEFINE t == Tail(q)
  <2>1. /\ Head(q) \in S /\ t \in Seq(S) /\ Len(q) \in Nat \ {0} /\ Len(t) = Len(q) - 1
        /\ \A i \in 1..Len(t) : t[i] = q[i + 1]
        /\ Head(q) = q[1] /\ DOMAIN q = 1..Len(q) /\ DOMAIN t = 1..Len(t)
    BY <1>4
  <2> HIDE DEF t
  <2>2. ASSUME NEW i \in 1..Len(q) PROVE q[i] \in {Head(q)} \cup ToSet(t)
    <3>1. CASE i = 1
      BY <2>1, <3>1
    <3>2. CASE i # 1
      <4>1. i - 1 \in 1..Len(t) /\ t[i - 1] = q[i]
        BY <2>1, <3>2
      <4> QED
        BY <2>1, <4>1 DEF ToSet
    <3> QED
      BY <3>1, <3>2
  <2>3. ASSUME NEW i \in 1..Len(t) PROVE t[i] \in ToSet(q)
    <3>1. i + 1 \in 1..Len(q) /\ t[i] = q[i + 1]
      BY <2>1
    <3> QED
      BY <2>1, <3>1 DEF ToSet
  <2>4. Head(q) \in ToSet(q)
    BY <2>1 DEF ToSet
  <2>5. ToSet(q) \subseteq {Head(q)} \cup ToSet(t)
    BY <2>1, <2>2 DEF ToSet
  <2>6. ToSet(t) \subseteq ToSet(q)
    BY <2>1, <2>3 DEF ToSet
  <2> QED
    BY <2>1, <2>4, <2>5, <2>6 DEF t
<1> QED
  BY <1>1, <1>2, <1>3, <1>4

-------------------------------------------------------------------------------
(* What the shared pieces of the actions do.                                  *)

\* A step of the job changes what it says it changes, and keeps the rest.
LEMMA GotoFields ==
    ASSUME job \in Job, NEW s, Goto(s)
    PROVE  /\ job'.pc = s /\ job'.kind = job.kind /\ job'.id = job.id /\ job'.path = job.path
           /\ job'.reader = job.reader /\ job'.temp = job.temp /\ job'.text = job.text
           /\ job' = [kind |-> job.kind, pc |-> s, id |-> job.id, reader |-> job.reader,
                      path |-> job.path, temp |-> job.temp, text |-> job.text]
  BY DEF Goto, Job

\* The record a job starts from.
LEMMA SpawnFields ==
    ASSUME NEW kind, NEW pc, NEW id, NEW reader, NEW path, NEW temp, NEW text,
           Spawn(kind, pc, id, reader, path, temp, text)
    PROVE  /\ job'.pc = pc /\ job'.kind = kind /\ job'.id = id /\ job'.path = path
           /\ job'.reader = reader /\ job'.temp = temp /\ job'.text = text
           /\ job' = [kind |-> kind, pc |-> pc, id |-> id, reader |-> reader,
                      path |-> path, temp |-> temp, text |-> text]
  BY DEF Spawn

\* secure_wipe leaves each of its files absent, or counts it as not wiped; it changes
\* no other file.
LEMMA SecureWipeEffect ==
    ASSUME TypeOK, NEW set \in SUBSET Temps, SecureWipe(set)
    PROVE  /\ temps' \in [Temps -> Content] /\ unwiped' \in SUBSET Temps
           /\ \A t \in Temps \ set : temps'[t] = temps[t] /\ (t \in unwiped' <=> t \in unwiped)
           /\ \A t \in set : /\ temps'[t] = "absent" \/ t \in unwiped'
                             /\ temps'[t] \in {"absent", "garbage", temps[t]}
                             /\ temps'[t] = "garbage" => t \in unwiped'
           /\ "wipe" \notin faults => \A t \in set : temps'[t] = "absent"
<1>1. PICK failed \in SUBSET {t \in set : temps[t] # "absent"} :
        /\ failed # {} => "wipe" \in faults
        /\ \E shredded \in SUBSET failed :
             temps' = [t \in Temps |-> IF t \in shredded THEN "garbage"
                                       ELSE IF t \in set \ failed THEN "absent"
                                       ELSE temps[t]]
        /\ unwiped' = (unwiped \ set) \cup failed
  BY DEF SecureWipe
<1>2. PICK shredded \in SUBSET failed :
             temps' = [t \in Temps |-> IF t \in shredded THEN "garbage"
                                       ELSE IF t \in set \ failed THEN "absent"
                                       ELSE temps[t]]
  BY <1>1
<1>3. temps \in [Temps -> Content] /\ unwiped \subseteq Temps
  BY DEF TypeOK
<1>4. ASSUME NEW t \in Temps
      PROVE  temps'[t] = IF t \in shredded THEN "garbage"
                         ELSE IF t \in set \ failed THEN "absent" ELSE temps[t]
  BY <1>2
<1>5. \A t \in Temps : temps'[t] \in Content
  BY <1>3, <1>4 DEF Content
<1>6. temps' \in [Temps -> Content]
  BY <1>2, <1>5
<1>7. unwiped' \in SUBSET Temps
  BY <1>1, <1>3
<1>8. \A t \in Temps \ set : temps'[t] = temps[t] /\ (t \in unwiped' <=> t \in unwiped)
  BY <1>1, <1>2, <1>4
<1>9. \A t \in set : /\ temps'[t] = "absent" \/ t \in unwiped'
                     /\ temps'[t] \in {"absent", "garbage", temps[t]}
                     /\ temps'[t] = "garbage" => t \in unwiped'
  BY <1>1, <1>2, <1>4
<1>10. "wipe" \notin faults => \A t \in set : temps'[t] = "absent"
  BY <1>1, <1>2, <1>4
<1> QED
  BY <1>6, <1>7, <1>8, <1>9, <1>10

\* wipe_all_views queues every view.
LEMMA WipeAllViewsEffect ==
    ASSUME TypeOK, ControlInv, WipeAllViews
    PROVE  /\ queue' \in Seq(Temps) /\ views' = {} /\ IsFiniteSet(views')
           /\ ToSet(queue') = ToSet(queue) \cup views
<1>1. views \subseteq Temps /\ IsFiniteSet(views) /\ queue \in Seq(Temps)
  BY DEF TypeOK, ControlInv
<1>2. SetToSeq(views) \in Seq(views) /\ ToSet(SetToSeq(views)) = views
  BY <1>1, SetToSeqElements
<1>3. SetToSeq(views) \in Seq(Temps)
  BY <1>1, <1>2
<1>4. queue \o SetToSeq(views) \in Seq(Temps)
      /\ ToSet(queue \o SetToSeq(views)) = ToSet(queue) \cup ToSet(SetToSeq(views))
  BY <1>1, <1>3, QueueElements
<1> QED
  BY <1>2, <1>4, FS_EmptySet DEF WipeAllViews

\* wipe_all_temps queues every view, and the file of the check-out unless a job runs.
LEMMA WipeAllTempsEffect ==
    ASSUME TypeOK, ControlInv, WipeAllTemps
    PROVE  /\ queue' \in Seq(Temps) /\ views' = {} /\ IsFiniteSet(views')
           /\ checkout # None /\ job = None =>
                /\ checkout' = None
                /\ ToSet(queue') = ToSet(queue) \cup {checkout.temp} \cup views
           /\ checkout = None \/ job # None =>
                /\ checkout' = checkout
                /\ ToSet(queue') = ToSet(queue) \cup views
<1> DEFINE taken == IF checkout # None /\ job = None THEN {checkout.temp} ELSE {}
<1>1. views \subseteq Temps /\ IsFiniteSet(views) /\ queue \in Seq(Temps)
      /\ (checkout # None => checkout.temp \in Temps)
  BY DEF TypeOK, ControlInv, Checkouts
<1>2. SetToSeq(views) \in Seq(views) /\ ToSet(SetToSeq(views)) = views
  BY <1>1, SetToSeqElements
<1>3. SetToSeq(views) \in Seq(Temps)
  BY <1>1, <1>2
<1>4. taken \subseteq Temps /\ IsFiniteSet(taken)
  BY <1>1, FS_EmptySet, FS_Singleton
<1>5. queue' = queue \o SetToSeq(taken) \o SetToSeq(views) /\ views' = {}
      /\ checkout' = IF taken # {} THEN None ELSE checkout
  BY DEF WipeAllTemps
<1>6. taken = {} \/ (taken = {checkout.temp} /\ taken # {})
  OBVIOUS
<1>7. (checkout # None /\ job = None => taken = {checkout.temp})
      /\ (checkout = None \/ job # None => taken = {})
  OBVIOUS
<1> HIDE DEF taken
<1>8. SetToSeq(taken) \in Seq(taken) /\ ToSet(SetToSeq(taken)) = taken
  BY <1>4, SetToSeqElements
<1>9. SetToSeq(taken) \in Seq(Temps)
  BY <1>4, <1>8
<1>10. queue \o SetToSeq(taken) \in Seq(Temps)
       /\ ToSet(queue \o SetToSeq(taken)) = ToSet(queue) \cup taken
  BY <1>1, <1>8, <1>9, QueueElements
<1> DEFINE first == queue \o SetToSeq(taken)
           rest == SetToSeq(views)
<1>11. first \in Seq(Temps) /\ rest \in Seq(Temps) /\ queue' = first \o rest
  BY <1>3, <1>5, <1>10
<1> HIDE DEF first, rest
<1>12. queue' \in Seq(Temps) /\ ToSet(queue') = ToSet(first) \cup ToSet(rest)
  BY <1>11, QueueElements
<1> QED
  BY <1>2, <1>5, <1>7, <1>10, <1>12, FS_EmptySet DEF first, rest

\* A commit writes one file of one vault, as a new revision.
LEMMA CommitEffect ==
    ASSUME TypeOK, job \in Job, job.kind # "delete", job.id \in Vaults, job.path \in Files,
           vault[job.id] # None, vault[job.id].rev < MaxRev, Stored \in Content
    PROVE  /\ Committed \in [Vaults -> Reader \cup {None}]
           /\ \A v \in Vaults \ {job.id} : Committed[v] = vault[v]
           /\ Committed[job.id] # None /\ Committed[job.id] # vault[job.id]
           /\ \A f \in Files : Committed[job.id].files[f] \in {vault[job.id].files[f], Stored}
<1> DEFINE old1 == vault[job.id]
           new1 == [rev |-> old1.rev + 1, files |-> [old1.files EXCEPT ![job.path] = Stored]]
<1>1. vault \in [Vaults -> Reader \cup {None}] /\ old1 \in Reader
  BY DEF TypeOK
<1>2. old1 = [rev |-> old1.rev, files |-> old1.files] /\ old1.rev \in 1..MaxRev
      /\ old1.files \in [Files -> Content]
  BY <1>1 DEF Reader
<1>3. Committed = [vault EXCEPT ![job.id] = new1]
  <2>1. Committed = [vault EXCEPT ![job.id].rev = @ + 1, ![job.id].files[job.path] = Stored]
    BY DEF Committed
  <2>2. Committed \in [Vaults -> {Committed[v] : v \in Vaults}]
    BY <1>1, <2>1
  <2>3. ASSUME NEW v \in Vaults, v # job.id PROVE Committed[v] = vault[v]
    BY <1>1, <2>1, <2>3
  <2>4. Committed[job.id] = [[old1 EXCEPT !.rev = @ + 1] EXCEPT !.files[job.path] = Stored]
    BY <1>1, <2>1
  <2>5. Committed[job.id] = new1
    BY <1>2, <2>4
  <2> QED
    BY <1>1, <2>2, <2>3, <2>5
<1>4. new1.rev \in 1..MaxRev /\ new1.rev # old1.rev
  BY <1>2, SessionAssumption
<1>5. new1.files \in [Files -> Content]
      /\ \A f \in Files : new1.files[f] \in {old1.files[f], Stored}
  BY <1>2
<1>6. new1 \in Reader /\ new1 # old1
  BY <1>4, <1>5 DEF Reader
<1>7. new1 # None
  BY <1>6, SessionAssumption
<1> HIDE DEF new1, old1
<1> QED
  BY <1>1, <1>3, <1>5, <1>6, <1>7 DEF old1

-------------------------------------------------------------------------------
(* The initial states.                                                        *)

\* The invariant holds when the app is first started.
LEMMA InitInv == Init => IInv
<1> SUFFICES ASSUME Init PROVE IInv
  OBVIOUS
<1>1. PICK f \in Files : vault = [v \in Vaults |-> FirstRevision(f)]
  BY DEF Init
<1>2. AText \in Texts /\ AText # "garbage"
  BY SessionAssumption DEF AText
<1>3. FirstRevision(f) \in Reader /\ Clean(FirstRevision(f)) /\ FirstRevision(f) # None
  <2>1. 1 \in 1..MaxRev
    BY SessionAssumption
  <2>2. [g \in Files |-> IF g = f THEN AText ELSE "absent"] \in [Files -> Content]
    BY <1>2 DEF Content
  <2>3. FirstRevision(f) \in Reader
    BY <2>1, <2>2 DEF FirstRevision, Reader
  <2>4. Clean(FirstRevision(f))
    BY <1>2 DEF FirstRevision, Clean
  <2> QED
    BY <2>3, <2>4, SessionAssumption
<1>4. \A v \in Vaults : vault[v] # None /\ Clean(vault[v])
  BY <1>1, <1>3
<1>5. TypeOK
  <2>1. vault \in [Vaults -> Reader \cup {None}]
    BY <1>1, <1>3
  <2>2. temps \in [Temps -> Content] /\ queue \in Seq(Temps)
    BY DEF Init, Content
  <2> QED
    BY <2>1, <2>2 DEF Init, TypeOK
<1>6. ControlInv
  BY FS_EmptySet DEF Init, ControlInv, At
<1>7. CourseInv /\ JobInv /\ HomeInv /\ CurrentInv
  BY DEF Init, CourseInv, JobInv, HomeInv, CurrentInv, At
<1>8. CleanInv /\ ApartInv /\ ShreddedInv
  BY <1>4 DEF Init, CleanInv, ApartInv, ShreddedInv
<1>9. OwnedInv /\ CleanExit
  BY DEF Init, OwnedInv, PlaintextOwned, CleanExit
<1> QED
  BY <1>5, <1>6, <1>7, <1>8, <1>9 DEF IInv

-------------------------------------------------------------------------------
(* What each action that starts a job sees and does.                          *)

\* The parts of the session's records.
LEMMA OpenFields ==
    ASSUME TypeOK
    PROVE  /\ open # None => open.id \in Vaults /\ open.reader \in Reader
           /\ editor # None => editor.path \in Files /\ editor.text \in Content
           /\ checkout # None => /\ checkout.id \in Vaults /\ checkout.path \in Files
                                 /\ checkout.temp \in Temps /\ checkout.orig \in Content
           /\ \A v \in Vaults : vault[v] \in Reader \cup {None}
           /\ \A t \in Temps : temps[t] \in Content
  BY DEF TypeOK, OpenVaults, Edits, Checkouts

\* A reader lists contents.
LEMMA ReaderFields ==
    ASSUME NEW r \in Reader, NEW f \in Files
    PROVE  r.files[f] \in Content
  BY DEF Reader

\* The parts of a job.
LEMMA JobFields ==
    ASSUME TypeOK, job # None
    PROVE  /\ job \in Job /\ job.id \in Vaults \cup {None} /\ job.reader \in Reader \cup {None}
           /\ job.path \in Files \cup {None} /\ job.temp \in Temps \cup {None}
           /\ job.text \in Content
  BY DEF TypeOK, Job

\* Unlocking.
LEMMA UnlockEffect ==
    ASSUME TypeOK, Unlock
    PROVE  /\ screen = "Unlock" /\ job = None /\ exit = "open"
           /\ job' \in Job /\ job' # None /\ job'.kind = "unlock" /\ job'.pc = "sweep"
           /\ job'.id = None /\ job'.reader = None /\ job'.path = None
           /\ job'.temp = None /\ job'.text = "absent"
           /\ UNCHANGED <<screen, exit, open, editor,
                         checkout, views, watched, queue, temps, old, unwiped, vault, ended>>
<1>1. /\ screen = "Unlock" /\ job = None /\ exit = "open"
  BY DEF Unlock
<1>2. Spawn("unlock", "sweep", None, None, None, None, "absent") /\ OnlyJob
  BY DEF Unlock, SpawnOnOpen
<1>3. /\ None \in Vaults \cup {None} /\ None \in Reader \cup {None}
      /\ None \in Files \cup {None} /\ None \in Temps \cup {None} /\ "absent" \in Content
  BY <1>1, OpenFields, ReaderFields DEF Content
<1>4. job' \in Job
  BY <1>2, <1>3, SpawnFields DEF Job, Kind
<1> QED
  BY <1>1, <1>2, <1>4, SpawnFields, SessionAssumption DEF OnlyJob, sessionVars, tempVars

\* Opening a vault.
LEMMA OpenVaultEffect ==
    ASSUME NEW v \in Vaults, TypeOK, OpenVault(v)
    PROVE  /\ screen = "Unlocked" /\ job = None /\ exit = "open"
           /\ open = None /\ vault[v] # None
           /\ job' \in Job /\ job' # None /\ job'.kind = "open" /\ job'.pc = "load"
           /\ job'.id = v /\ job'.reader = None /\ job'.path = None
           /\ job'.temp = None /\ job'.text = "absent"
           /\ UNCHANGED <<screen, exit, open, editor,
                         checkout, views, watched, queue, temps, old, unwiped, vault, ended>>
<1>1. /\ screen = "Unlocked" /\ job = None /\ exit = "open"
      /\ open = None /\ vault[v] # None
  BY DEF OpenVault, Idle
<1>2. Spawn("open", "load", v, None, None, None, "absent") /\ OnlyJob
  BY DEF OpenVault, SpawnOnOpen
<1>3. /\ v \in Vaults \cup {None} /\ None \in Reader \cup {None}
      /\ None \in Files \cup {None} /\ None \in Temps \cup {None} /\ "absent" \in Content
  BY <1>1, OpenFields, ReaderFields DEF Content
<1>4. job' \in Job
  BY <1>2, <1>3, SpawnFields DEF Job, Kind
<1> QED
  BY <1>1, <1>2, <1>4, SpawnFields, SessionAssumption DEF OnlyJob, sessionVars, tempVars

\* Deleting a vault.
LEMMA DeleteVaultEffect ==
    ASSUME NEW v \in Vaults, TypeOK, DeleteVault(v)
    PROVE  /\ screen = "Unlocked" /\ job = None /\ exit = "open"
           /\ open = None /\ checkout = None /\ vault[v] # None
           /\ job' \in Job /\ job' # None /\ job'.kind = "delete" /\ job'.pc = "commit"
           /\ job'.id = v /\ job'.reader = None /\ job'.path = None
           /\ job'.temp = None /\ job'.text = "absent"
           /\ UNCHANGED <<screen, exit, open, editor,
                         checkout, views, watched, queue, temps, old, unwiped, vault, ended>>
<1>1. /\ screen = "Unlocked" /\ job = None /\ exit = "open"
      /\ open = None /\ checkout = None /\ vault[v] # None
  BY DEF DeleteVault, Idle
<1>2. Spawn("delete", "commit", v, None, None, None, "absent") /\ OnlyJob
  BY DEF DeleteVault, SpawnOnOpen
<1>3. /\ v \in Vaults \cup {None} /\ None \in Reader \cup {None}
      /\ None \in Files \cup {None} /\ None \in Temps \cup {None} /\ "absent" \in Content
  BY <1>1, OpenFields, ReaderFields DEF Content
<1>4. job' \in Job
  BY <1>2, <1>3, SpawnFields DEF Job, Kind
<1> QED
  BY <1>1, <1>2, <1>4, SpawnFields, SessionAssumption DEF OnlyJob, sessionVars, tempVars

\* Creating a text file.
LEMMA NewFileEffect ==
    ASSUME NEW f \in Files, TypeOK, NewFile(f)
    PROVE  /\ screen = "Unlocked" /\ job = None /\ exit = "open"
           /\ open # None /\ editor = None /\ checkout = None
           /\ job' \in Job /\ job' # None /\ job'.kind = "new_file" /\ job'.pc = "commit"
           /\ job'.id = open.id /\ job'.reader = open.reader /\ job'.path = f
           /\ job'.temp = None /\ job'.text = "empty"
           /\ UNCHANGED <<screen, exit, open, editor,
                         checkout, views, watched, queue, temps, old, unwiped, vault, ended>>
<1>1. /\ screen = "Unlocked" /\ job = None /\ exit = "open"
      /\ open # None /\ editor = None /\ checkout = None
  BY DEF NewFile, Changing, Browsing, Idle
<1>2. Spawn("new_file", "commit", open.id, open.reader, f, None, "empty") /\ OnlyJob
  BY DEF NewFile, SpawnOnOpen
<1>3. /\ open.id \in Vaults \cup {None} /\ open.reader \in Reader \cup {None}
      /\ f \in Files \cup {None} /\ None \in Temps \cup {None} /\ "empty" \in Content
  BY <1>1, OpenFields, ReaderFields DEF Content
<1>4. job' \in Job
  BY <1>2, <1>3, SpawnFields DEF Job, Kind
<1> QED
  BY <1>1, <1>2, <1>4, SpawnFields, SessionAssumption DEF OnlyJob, sessionVars, tempVars

\* Opening a text file in the editor.
LEMMA QuickEditEffect ==
    ASSUME NEW f \in Files, TypeOK, QuickEdit(f)
    PROVE  /\ screen = "Unlocked" /\ job = None /\ exit = "open"
           /\ open # None /\ editor = None /\ checkout = None
           /\ job' \in Job /\ job' # None /\ job'.kind = "quick_edit" /\ job'.pc = "read"
           /\ job'.id = open.id /\ job'.reader = open.reader /\ job'.path = f
           /\ job'.temp = None /\ job'.text = "absent"
           /\ UNCHANGED <<screen, exit, open, editor,
                         checkout, views, watched, queue, temps, old, unwiped, vault, ended>>
<1>1. /\ screen = "Unlocked" /\ job = None /\ exit = "open"
      /\ open # None /\ editor = None /\ checkout = None
  BY DEF QuickEdit, Changing, Browsing, Idle
<1>2. Spawn("quick_edit", "read", open.id, open.reader, f, None, "absent") /\ OnlyJob
  BY DEF QuickEdit, SpawnOnOpen
<1>3. /\ open.id \in Vaults \cup {None} /\ open.reader \in Reader \cup {None}
      /\ f \in Files \cup {None} /\ None \in Temps \cup {None} /\ "absent" \in Content
  BY <1>1, OpenFields, ReaderFields DEF Content
<1>4. job' \in Job
  BY <1>2, <1>3, SpawnFields DEF Job, Kind
<1> QED
  BY <1>1, <1>2, <1>4, SpawnFields, SessionAssumption DEF OnlyJob, sessionVars, tempVars

\* Saving the editor.
LEMMA SaveTextFileEffect ==
    ASSUME TypeOK, SaveTextFile
    PROVE  /\ screen = "Unlocked" /\ job = None /\ exit = "open"
           /\ editor # None /\ open # None
           /\ job' \in Job /\ job' # None /\ job'.kind = "save_text" /\ job'.pc = "commit"
           /\ job'.id = open.id /\ job'.reader = open.reader /\ job'.path = editor.path
           /\ job'.temp = None /\ job'.text = editor.text
           /\ UNCHANGED <<screen, exit, open, editor,
                         checkout, views, watched, queue, temps, old, unwiped, vault, ended>>
<1>1. /\ screen = "Unlocked" /\ job = None /\ exit = "open"
      /\ editor # None /\ open # None
  BY DEF SaveTextFile, Idle
<1>2. /\ Spawn("save_text", "commit", open.id, open.reader, editor.path, None, editor.text)
      /\ OnlyJob
  BY DEF SaveTextFile, SpawnOnOpen
<1>3. /\ open.id \in Vaults \cup {None} /\ open.reader \in Reader \cup {None}
      /\ editor.path \in Files \cup {None} /\ None \in Temps \cup {None}
      /\ editor.text \in Content
  BY <1>1, OpenFields, ReaderFields DEF Content
<1>4. job' \in Job
  BY <1>2, <1>3, SpawnFields DEF Job, Kind
<1> QED
  BY <1>1, <1>2, <1>4, SpawnFields, SessionAssumption DEF OnlyJob, sessionVars, tempVars

\* Trashing a file.
LEMMA TrashEffect ==
    ASSUME NEW f \in Files, TypeOK, Trash(f)
    PROVE  /\ screen = "Unlocked" /\ job = None /\ exit = "open"
           /\ open # None /\ editor = None /\ checkout = None
           /\ job' \in Job /\ job' # None /\ job'.kind = "trash" /\ job'.pc = "commit"
           /\ job'.id = open.id /\ job'.reader = open.reader /\ job'.path = f
           /\ job'.temp = None /\ job'.text = "absent"
           /\ UNCHANGED <<screen, exit, open, editor,
                         checkout, views, watched, queue, temps, old, unwiped, vault, ended>>
<1>1. /\ screen = "Unlocked" /\ job = None /\ exit = "open"
      /\ open # None /\ editor = None /\ checkout = None
  BY DEF Trash, Changing, Browsing, Idle
<1>2. Spawn("trash", "commit", open.id, open.reader, f, None, "absent") /\ OnlyJob
  BY DEF Trash, SpawnOnOpen
<1>3. /\ open.id \in Vaults \cup {None} /\ open.reader \in Reader \cup {None}
      /\ f \in Files \cup {None} /\ None \in Temps \cup {None} /\ "absent" \in Content
  BY <1>1, OpenFields, ReaderFields DEF Content
<1>4. job' \in Job
  BY <1>2, <1>3, SpawnFields DEF Job, Kind
<1> QED
  BY <1>1, <1>2, <1>4, SpawnFields, SessionAssumption DEF OnlyJob, sessionVars, tempVars

\* Viewing a file.
LEMMA ViewFileEffect ==
    ASSUME NEW f \in Files, TypeOK, ViewFile(f)
    PROVE  /\ screen = "Unlocked" /\ job = None /\ exit = "open"
           /\ open # None /\ editor = None /\ checkout = None
           /\ job' \in Job /\ job' # None /\ job'.kind = "view" /\ job'.pc = "create"
           /\ job'.id = open.id /\ job'.reader = open.reader /\ job'.path = f
           /\ job'.temp = None /\ job'.text = "absent"
           /\ UNCHANGED <<screen, exit, open, editor,
                         checkout, views, watched, queue, temps, old, unwiped, vault, ended>>
<1>1. /\ screen = "Unlocked" /\ job = None /\ exit = "open"
      /\ open # None /\ editor = None /\ checkout = None
  BY DEF ViewFile, Changing, Browsing, Idle
<1>2. Spawn("view", "create", open.id, open.reader, f, None, "absent") /\ OnlyJob
  BY DEF ViewFile, SpawnOnOpen
<1>3. /\ open.id \in Vaults \cup {None} /\ open.reader \in Reader \cup {None}
      /\ f \in Files \cup {None} /\ None \in Temps \cup {None} /\ "absent" \in Content
  BY <1>1, OpenFields, ReaderFields DEF Content
<1>4. job' \in Job
  BY <1>2, <1>3, SpawnFields DEF Job, Kind
<1> QED
  BY <1>1, <1>2, <1>4, SpawnFields, SessionAssumption DEF OnlyJob, sessionVars, tempVars

\* Checking a file out.
LEMMA CheckOutEffect ==
    ASSUME NEW f \in Files, TypeOK, CheckOut(f)
    PROVE  /\ screen = "Unlocked" /\ job = None /\ exit = "open"
           /\ open # None /\ editor = None /\ checkout = None
           /\ job' \in Job /\ job' # None /\ job'.kind = "check_out" /\ job'.pc = "create"
           /\ job'.id = open.id /\ job'.reader = open.reader /\ job'.path = f
           /\ job'.temp = None /\ job'.text = open.reader.files[f]
           /\ UNCHANGED <<screen, exit, open, editor,
                         checkout, views, watched, queue, temps, old, unwiped, vault, ended>>
<1>1. /\ screen = "Unlocked" /\ job = None /\ exit = "open"
      /\ open # None /\ editor = None /\ checkout = None
  BY DEF CheckOut, Changing, Browsing, Idle
<1>2. /\ Spawn("check_out", "create", open.id, open.reader, f, None, open.reader.files[f])
      /\ OnlyJob
  BY DEF CheckOut, SpawnOnOpen
<1>3. /\ open.id \in Vaults \cup {None} /\ open.reader \in Reader \cup {None}
      /\ f \in Files \cup {None} /\ None \in Temps \cup {None}
      /\ open.reader.files[f] \in Content
  BY <1>1, OpenFields, ReaderFields DEF Content
<1>4. job' \in Job
  BY <1>2, <1>3, SpawnFields DEF Job, Kind
<1> QED
  BY <1>1, <1>2, <1>4, SpawnFields, SessionAssumption DEF OnlyJob, sessionVars, tempVars

\* Checking a file in.
LEMMA CheckInEffect ==
    ASSUME TypeOK, CheckIn
    PROVE  /\ screen = "Unlocked" /\ job = None /\ exit = "open"
           /\ open # None /\ editor = None /\ checkout # None /\ open.id = checkout.id
           /\ job' \in Job /\ job' # None /\ job'.kind = "check_in" /\ job'.pc = "hash"
           /\ job'.id = open.id /\ job'.reader = open.reader /\ job'.path = checkout.path
           /\ job'.temp = checkout.temp /\ job'.text = checkout.orig
           /\ UNCHANGED <<screen, exit, open, editor,
                         checkout, views, watched, queue, temps, old, unwiped, vault, ended>>
<1>1. /\ screen = "Unlocked" /\ job = None /\ exit = "open"
      /\ open # None /\ editor = None /\ checkout # None /\ open.id = checkout.id
  BY DEF CheckIn, Browsing, Idle
<1>2. /\ Spawn("check_in", "hash", open.id, open.reader, checkout.path, checkout.temp, checkout.orig)
      /\ OnlyJob
  BY DEF CheckIn, SpawnOnOpen
<1>3. /\ open.id \in Vaults \cup {None} /\ open.reader \in Reader \cup {None}
      /\ checkout.path \in Files \cup {None} /\ checkout.temp \in Temps \cup {None}
      /\ checkout.orig \in Content
  BY <1>1, OpenFields, ReaderFields DEF Content
<1>4. job' \in Job
  BY <1>2, <1>3, SpawnFields DEF Job, Kind
<1> QED
  BY <1>1, <1>2, <1>4, SpawnFields, SessionAssumption DEF OnlyJob, sessionVars, tempVars

\* Discarding a check-out.
LEMMA DiscardEffect ==
    ASSUME TypeOK, Discard
    PROVE  /\ screen = "Unlocked" /\ job = None /\ exit = "open"
           /\ open # None /\ editor = None /\ checkout # None
           /\ job' \in Job /\ job' # None /\ job'.kind = "discard" /\ job'.pc = "wipe"
           /\ job'.id = None /\ job'.reader = None /\ job'.path = None
           /\ job'.temp = checkout.temp /\ job'.text = "absent"
           /\ UNCHANGED <<screen, exit, open, editor,
                         checkout, views, watched, queue, temps, old, unwiped, vault, ended>>
<1>1. /\ screen = "Unlocked" /\ job = None /\ exit = "open"
      /\ open # None /\ editor = None /\ checkout # None
  BY DEF Discard, Browsing, Idle
<1>2. Spawn("discard", "wipe", None, None, None, checkout.temp, "absent") /\ OnlyJob
  BY DEF Discard, SpawnOnOpen
<1>3. /\ None \in Vaults \cup {None} /\ None \in Reader \cup {None}
      /\ None \in Files \cup {None} /\ checkout.temp \in Temps \cup {None}
      /\ "absent" \in Content
  BY <1>1, OpenFields, ReaderFields DEF Content
<1>4. job' \in Job
  BY <1>2, <1>3, SpawnFields DEF Job, Kind
<1> QED
  BY <1>1, <1>2, <1>4, SpawnFields, SessionAssumption DEF OnlyJob, sessionVars, tempVars

-------------------------------------------------------------------------------
(* What each step of a job sees and does.                                     *)

\* The sweep of the checkout directory on unlock.
LEMMA SweepEffect ==
    ASSUME TypeOK, CourseInv, JobInv, Sweep
    PROVE  /\ job \in Job /\ job' \in Job /\ job # None /\ job' # None
           /\ job'.kind = job.kind /\ job'.id = job.id /\ job'.path = job.path
           /\ job'.reader = job.reader /\ job'.temp = job.temp /\ job'.text = job.text
           /\ job.pc = "sweep" /\ job.kind = "unlock"
           /\ UNCHANGED <<screen, exit, open, editor, checkout, views, watched, queue,
                          vault, ended>>
           /\ temps' \in [Temps -> Content] /\ unwiped' \in SUBSET Temps
           /\ old' \in SUBSET Temps
           /\ \/ job'.pc = "ok" /\ old' = {} /\ \A t \in Temps : temps'[t] = "absent" \/ t \in unwiped'
              \/ job'.pc = "err" /\ UNCHANGED <<temps, unwiped, old>>
<1>1. job # None /\ job.pc = "sweep" /\ OnlyTemps
  BY DEF Sweep, At
<1>2. job \in Job /\ job.kind = "unlock"
  BY <1>1, JobFields DEF CourseInv, Job, Kind
<1>3. CASE SecureWipe(Temps) /\ old' = {} /\ Goto("ok")
  <2>1. job' \in Job /\ job'.pc = "ok"
    BY <1>2, <1>3, GotoFields DEF Job
  <2> QED
    BY <1>1, <1>2, <1>3, <2>1, GotoFields, SecureWipeEffect, SessionAssumption
    DEF OnlyTemps, sessionVars
<1>4. CASE Goto("err") /\ UNCHANGED <<temps, unwiped, old>>
  <2>1. job' \in Job /\ job'.pc = "err"
    BY <1>2, <1>4, GotoFields DEF Job
  <2> QED
    BY <1>1, <1>2, <1>4, <2>1, GotoFields, SessionAssumption
    DEF OnlyTemps, sessionVars, TypeOK
<1> QED
  BY <1>3, <1>4 DEF Sweep

\* Opening a vault reads its current state.
LEMMA LoadEffect ==
    ASSUME TypeOK, CourseInv, JobInv, Load
    PROVE  /\ job \in Job /\ job' \in Job /\ job # None /\ job' # None
           /\ job'.kind = job.kind /\ job'.id = job.id /\ job'.path = job.path
           /\ job'.temp = job.temp /\ job'.text = job.text
           /\ job.pc = "load" /\ job.kind = "open"
           /\ job.id \in Vaults /\ vault[job.id] # None
           /\ UNCHANGED <<screen, exit, open, editor, checkout, views, watched, queue,
                          temps, old, unwiped, vault, ended>>
           /\ \/ job'.pc = "ok" /\ job'.reader = vault[job.id]
              \/ job'.pc = "err" /\ job'.reader = job.reader /\ "io" \in faults
<1>1. job # None /\ job.pc = "load" /\ OnlyVault /\ UNCHANGED vault
  BY DEF Load, At
<1>2. job \in Job /\ job.kind = "open"
  BY <1>1, JobFields DEF CourseInv, Job, Kind, Commits
<1>3. job.id \in Vaults /\ vault[job.id] # None /\ vault[job.id] \in Reader
  BY <1>1, <1>2, OpenFields DEF JobInv, OnOpen, Commits
<1>4. CASE job' = [job EXCEPT !.pc = "ok", !.reader = vault[job.id]]
  <2>1. job' \in Job /\ job'.pc = "ok" /\ job'.reader = vault[job.id]
        /\ job'.kind = job.kind /\ job'.id = job.id /\ job'.path = job.path
        /\ job'.temp = job.temp /\ job'.text = job.text
    BY <1>2, <1>3, <1>4 DEF Job
  <2> QED
    BY <1>1, <1>2, <1>3, <2>1, SessionAssumption DEF OnlyVault, sessionVars, tempVars
<1>5. CASE "io" \in faults /\ Goto("err")
  <2>1. job' \in Job /\ job'.pc = "err"
    BY <1>2, <1>5, GotoFields DEF Job
  <2> QED
    BY <1>1, <1>2, <1>3, <1>5, <2>1, GotoFields, SessionAssumption
    DEF OnlyVault, sessionVars, tempVars
<1> QED
  BY <1>4, <1>5 DEF Load

\* Reopening after a commit reads the current state.
LEMMA ReopenEffect ==
    ASSUME TypeOK, CourseInv, JobInv, Reopen
    PROVE  /\ job \in Job /\ job' \in Job /\ job # None /\ job' # None
           /\ job'.kind = job.kind /\ job'.id = job.id /\ job'.path = job.path
           /\ job'.temp = job.temp /\ job'.text = job.text
           /\ job.pc = "reopen" /\ job.kind \in Commits
           /\ job.id \in Vaults /\ vault[job.id] # None
           /\ UNCHANGED <<screen, exit, open, editor, checkout, views, watched, queue,
                          temps, old, unwiped, vault, ended>>
           /\ \/ job'.pc = "ok" /\ job'.reader = vault[job.id]
              \/ job'.pc = "err" /\ job'.reader = job.reader /\ "save" \in faults
<1>1. job # None /\ job.pc = "reopen" /\ OnlyVault /\ UNCHANGED vault
  BY DEF Reopen, At
<1>2. job \in Job /\ job.kind \in Commits
  BY <1>1, JobFields DEF CourseInv, Job, Kind, Commits
<1>3. job.id \in Vaults /\ vault[job.id] # None /\ vault[job.id] \in Reader
  BY <1>1, <1>2, OpenFields DEF JobInv, OnOpen, Commits
<1>4. CASE job' = [job EXCEPT !.pc = "ok", !.reader = vault[job.id]]
  <2>1. job' \in Job /\ job'.pc = "ok" /\ job'.reader = vault[job.id]
        /\ job'.kind = job.kind /\ job'.id = job.id /\ job'.path = job.path
        /\ job'.temp = job.temp /\ job'.text = job.text
    BY <1>2, <1>3, <1>4 DEF Job
  <2> QED
    BY <1>1, <1>2, <1>3, <2>1, SessionAssumption DEF OnlyVault, sessionVars, tempVars
<1>5. CASE "save" \in faults /\ Goto("err")
  <2>1. job' \in Job /\ job'.pc = "err"
    BY <1>2, <1>5, GotoFields DEF Job
  <2> QED
    BY <1>1, <1>2, <1>3, <1>5, <2>1, GotoFields, SessionAssumption
    DEF OnlyVault, sessionVars, tempVars
<1> QED
  BY <1>4, <1>5 DEF Reopen

\* Reading a file for the editor.
LEMMA ReadEntryEffect ==
    ASSUME TypeOK, CourseInv, JobInv, ReadEntry
    PROVE  /\ job \in Job /\ job' \in Job /\ job # None /\ job' # None
           /\ job'.kind = job.kind /\ job'.id = job.id /\ job'.path = job.path
           /\ job'.reader = job.reader /\ job'.temp = job.temp
           /\ job.pc = "read" /\ job.kind = "quick_edit"
           /\ UNCHANGED <<screen, exit, open, editor, checkout, views, watched, queue,
                          temps, old, unwiped, vault, ended>>
           /\ \/ job'.pc = "ok" /\ job'.text = job.reader.files[job.path]
              \/ job'.pc = "err" /\ job'.text = job.text
<1>1. job # None /\ job.pc = "read" /\ OnlyVault /\ UNCHANGED vault
  BY DEF ReadEntry, At
<1>2. job \in Job /\ job.kind = "quick_edit"
  BY <1>1, JobFields DEF CourseInv, Job, Kind
<1>3. /\ job.path \in Files /\ job.reader \in Reader
      /\ job.reader.files[job.path] \in Content
  BY <1>1, <1>2, JobFields, ReaderFields DEF JobInv, OnOpen
<1>4. CASE job' = [job EXCEPT !.pc = "ok", !.text = job.reader.files[job.path]]
  <2>1. job' \in Job /\ job'.pc = "ok" /\ job'.text = job.reader.files[job.path]
        /\ job'.kind = job.kind /\ job'.id = job.id /\ job'.path = job.path
        /\ job'.temp = job.temp /\ job'.reader = job.reader
    BY <1>2, <1>3, <1>4 DEF Job
  <2> QED
    BY <1>1, <1>2, <2>1, SessionAssumption DEF OnlyVault, sessionVars, tempVars
<1>5. CASE Goto("err")
  <2>1. job' \in Job /\ job'.pc = "err"
    BY <1>2, <1>5, GotoFields DEF Job
  <2> QED
    BY <1>1, <1>2, <1>5, <2>1, GotoFields, SessionAssumption
    DEF OnlyVault, sessionVars, tempVars
<1> QED
  BY <1>4, <1>5 DEF ReadEntry

\* Hashing the file of a check-out.
LEMMA HashTempEffect ==
    ASSUME TypeOK, CourseInv, JobInv, HashTemp
    PROVE  /\ job \in Job /\ job' \in Job /\ job # None /\ job' # None
           /\ job'.kind = job.kind /\ job'.id = job.id /\ job'.path = job.path
           /\ job'.reader = job.reader /\ job'.temp = job.temp /\ job'.text = job.text
           /\ job.pc = "hash" /\ job.kind = "check_in"
           /\ UNCHANGED <<screen, exit, open, editor, checkout, views, watched, queue,
                          temps, old, unwiped, vault, ended>>
           /\ job'.pc \in {"err", "wipe", "commit"}
           /\ temps[job.temp] \in {"absent", job.text} => job'.pc # "commit"
<1>1. job # None /\ job.pc = "hash" /\ OnlyVault /\ UNCHANGED vault
  BY DEF HashTemp, At
<1>2. job \in Job /\ job.kind = "check_in"
  BY <1>1, JobFields DEF CourseInv, Job, Kind
<1> DEFINE to == IF temps[job.temp] = "absent" THEN "err"
                 ELSE IF temps[job.temp] = job.text THEN "wipe" ELSE "commit"
<1>3. Goto(to) /\ to \in {"err", "wipe", "commit"}
      /\ (temps[job.temp] \in {"absent", job.text} => to # "commit")
  BY DEF HashTemp
<1> HIDE DEF to
<1>4. job' \in Job /\ job'.pc = to
  BY <1>2, <1>3, GotoFields DEF Job
<1> QED
  BY <1>1, <1>2, <1>3, <1>4, GotoFields, SessionAssumption
  DEF OnlyVault, sessionVars, tempVars

\* Showing a view, with or without a watcher.
LEMMA LaunchEffect ==
    ASSUME TypeOK, CourseInv, JobInv, Launch
    PROVE  /\ job \in Job /\ job' \in Job /\ job # None /\ job' # None
           /\ job'.kind = job.kind /\ job'.id = job.id /\ job'.path = job.path
           /\ job'.reader = job.reader /\ job'.temp = job.temp /\ job'.text = job.text
           /\ job.pc = "launch" /\ job.kind = "view" /\ job.temp \in Temps
           /\ job'.pc = "ok"
           /\ UNCHANGED <<screen, exit, open, editor, checkout, views, queue, temps, old,
                          unwiped, vault, ended>>
           /\ watched' \subseteq watched \cup {job.temp} /\ watched' \in SUBSET Temps
<1>1. job # None /\ job.pc = "launch" /\ Goto("ok")
      /\ watched' \in {watched, watched \cup {job.temp}}
      /\ UNCHANGED <<screen, exit, sessionVars, queue, temps, old, unwiped, vault, ended>>
  BY DEF Launch, At
<1>2. job \in Job /\ job.kind = "view"
  BY <1>1, JobFields DEF CourseInv, Job, Kind
<1>3. job.temp \in Temps
  BY <1>1, <1>2, JobFields DEF JobInv
<1>4. job' \in Job /\ job'.pc = "ok"
  BY <1>1, <1>2, GotoFields DEF Job
<1>5. watched' \subseteq watched \cup {job.temp} /\ watched' \in SUBSET Temps
  BY <1>1, <1>3 DEF TypeOK
<1> QED
  BY <1>1, <1>2, <1>3, <1>4, <1>5, GotoFields, SessionAssumption DEF sessionVars

\* A commit: of a deletion, of a new revision, or one that fails before or after it.
LEMMA CommitStepEffect ==
    ASSUME TypeOK, CourseInv, JobInv, Commit
    PROVE  /\ job \in Job /\ job' \in Job /\ job # None /\ job' # None
           /\ job'.kind = job.kind /\ job'.id = job.id /\ job'.path = job.path
           /\ job'.reader = job.reader /\ job'.temp = job.temp /\ job'.text = job.text
           /\ job.pc = "commit" /\ job.kind \in Commits \cup {"delete"}
           /\ job.id \in Vaults
           /\ UNCHANGED <<screen, exit, open, editor, checkout, views, watched, queue,
                          temps, old, unwiped, ended>>
           /\ vault' \in [Vaults -> Reader \cup {None}]
           /\ \A v \in Vaults \ {job.id} : vault'[v] = vault[v]
           /\ job.kind = "delete" => job'.pc \in {"ok", "err"} /\ vault'[job.id] \in {vault[job.id], None}
           /\ job.kind # "delete" =>
                /\ vault[job.id] # None /\ vault'[job.id] # None
                /\ job'.pc \in {"err", IF job.kind = "check_in" THEN "wipe_stored" ELSE "reopen"}
                /\ vault'[job.id] # vault[job.id] =>
                      /\ vault[job.id] = job.reader
                      /\ \A f \in Files : vault'[job.id].files[f] \in {vault[job.id].files[f], Stored}
                /\ job'.pc # "err" => vault'[job.id] # vault[job.id]
                /\ (job'.pc = "err" /\ "save" \notin faults) => vault' = vault
<1>1. job # None /\ job.pc = "commit" /\ OnlyVault
      /\ (job.kind = "delete" \/ Stale \/ vault[job.id].rev < MaxRev)
  BY DEF Commit, At
<1>2. job \in Job /\ job.kind \in Commits \cup {"delete"}
  BY <1>1, JobFields DEF CourseInv, Job, Kind, Commits
<1>3. job.id \in Vaults /\ vault \in [Vaults -> Reader \cup {None}]
      /\ (job.kind # "delete" => /\ vault[job.id] # None /\ job.path \in Files
                                 /\ Stored \in Content)
  <2>1. job.id \in Vaults /\ (job.kind # "delete" => vault[job.id] # None /\ job.path \in Files)
    BY <1>1, <1>2, OpenFields DEF JobInv, OnOpen, Commits
  <2>2. ASSUME job.kind # "delete" PROVE Stored \in Content
    <3>1. job.kind = "check_in" => job.temp \in Temps
      BY <1>1, OpenFields DEF JobInv
    <3> QED
      BY <1>1, <3>1, OpenFields, JobFields DEF Stored
  <2> QED
    BY <2>1, <2>2 DEF TypeOK
<1>4. ASSUME job.kind # "delete", ~Stale
      PROVE  /\ Committed \in [Vaults -> Reader \cup {None}]
             /\ \A v \in Vaults \ {job.id} : Committed[v] = vault[v]
             /\ Committed[job.id] # None /\ Committed[job.id] # vault[job.id]
             /\ \A f \in Files : Committed[job.id].files[f] \in {vault[job.id].files[f], Stored}
  BY <1>1, <1>2, <1>3, <1>4, CommitEffect
<1>5. job.kind = "delete" => /\ Committed \in [Vaults -> Reader \cup {None}]
                             /\ \A v \in Vaults \ {job.id} : Committed[v] = vault[v]
                             /\ Committed[job.id] = None
  BY <1>3 DEF Committed
<1>6. Stale <=> vault[job.id] # job.reader
  BY DEF Stale
<1>7. CASE (job.kind = "delete" \/ ~Stale) /\ vault' = Committed /\ Goto(AfterCommit)
  <2>1. AfterCommit = IF job.kind = "delete" THEN "ok"
                      ELSE IF job.kind = "check_in" THEN "wipe_stored" ELSE "reopen"
    BY DEF AfterCommit
  <2>2. job' \in Job /\ job'.pc = AfterCommit
    BY <1>2, <1>7, <2>1, GotoFields DEF Job
  <2>3. UNCHANGED <<screen, exit, open, editor, checkout, views, watched, queue, temps,
                    old,
                    unwiped, ended>>
    BY <1>1 DEF OnlyVault, sessionVars, tempVars
  <2>4. CASE job.kind = "delete"
    BY <1>1, <1>2, <1>3, <1>5, <1>7, <2>1, <2>2, <2>3, <2>4, GotoFields, SessionAssumption
  <2>5. CASE job.kind # "delete"
    BY <1>1, <1>2, <1>3, <1>4, <1>6, <1>7, <2>1, <2>2, <2>3, <2>5, GotoFields,
       SessionAssumption
  <2> QED
    BY <2>4, <2>5
<1>8. CASE /\ "save" \in faults \/ (job.kind # "delete" /\ Stale)
           /\ vault' \in {vault} \cup
                (IF "save" \in faults /\ job.kind # "delete" /\ ~Stale THEN {Committed} ELSE {})
           /\ Goto("err")
  <2>1. job' \in Job /\ job'.pc = "err"
    BY <1>2, <1>8, GotoFields DEF Job
  <2>2. UNCHANGED <<screen, exit, open, editor, checkout, views, watched, queue, temps,
                    old,
                    unwiped, ended>>
    BY <1>1 DEF OnlyVault, sessionVars, tempVars
  <2>3. CASE vault' = vault
    BY <1>1, <1>2, <1>3, <1>8, <2>1, <2>2, <2>3, GotoFields, SessionAssumption
  <2>4. CASE vault' = Committed /\ "save" \in faults /\ job.kind # "delete" /\ ~Stale
    BY <1>1, <1>2, <1>3, <1>4, <1>6, <1>8, <2>1, <2>2, <2>4, GotoFields, SessionAssumption
  <2> QED
    BY <1>8, <2>3, <2>4
<1> QED
  BY <1>7, <1>8 DEF Commit

\* Creating a temporary file under a name nobody uses.
LEMMA CreateTempEffect ==
    ASSUME TypeOK, CourseInv, JobInv, CreateTemp
    PROVE  /\ job \in Job /\ job' \in Job /\ job # None /\ job' # None
           /\ job'.kind = job.kind /\ job'.id = job.id /\ job'.path = job.path
           /\ job'.reader = job.reader /\ job'.text = job.text
           /\ job.pc = "create" /\ job.kind \in {"view", "check_out"}
           /\ UNCHANGED <<screen, exit, open, editor, checkout, views, watched, queue,
                          old, vault, ended>>
           /\ temps' \in [Temps -> Content] /\ unwiped' \in SUBSET Temps
           /\ \/ /\ job'.pc = "decrypt" /\ job'.temp \in Temps /\ temps[job'.temp] = "absent"
                 /\ job'.temp \notin views \cup watched \cup ToSet(queue)
                 /\ \A u \in Temps \ {job'.temp} : /\ temps'[u] = temps[u]
                                                   /\ u \in unwiped' <=> u \in unwiped
              \/ job'.pc = "err" /\ job'.temp = job.temp /\ UNCHANGED <<temps, unwiped>>
<1>1. job # None /\ job.pc = "create" /\ OnlyTemps /\ UNCHANGED old
  BY DEF CreateTemp, At
<1>2. job \in Job /\ job.kind \in {"view", "check_out"}
  BY <1>1, JobFields DEF CourseInv, Job, Kind
<1>3. ASSUME NEW t \in Temps, Fresh(t), temps' = [temps EXCEPT ![t] = "empty"],
             unwiped' = unwiped \ {t}, job' = [job EXCEPT !.pc = "decrypt", !.temp = t]
      PROVE  /\ job \in Job /\ job' \in Job /\ job # None /\ job' # None
             /\ job'.kind = job.kind /\ job'.id = job.id /\ job'.path = job.path
             /\ job'.reader = job.reader /\ job'.text = job.text
             /\ job.pc = "create" /\ job.kind \in {"view", "check_out"}
             /\ UNCHANGED <<screen, exit, open, editor, checkout, views, watched, queue,
                            old, vault, ended>>
             /\ temps' \in [Temps -> Content] /\ unwiped' \in SUBSET Temps
             /\ \/ /\ job'.pc = "decrypt" /\ job'.temp \in Temps /\ temps[job'.temp] = "absent"
                   /\ job'.temp \notin views \cup watched \cup ToSet(queue)
                   /\ \A u \in Temps \ {job'.temp} : /\ temps'[u] = temps[u]
                                                     /\ u \in unwiped' <=> u \in unwiped
                \/ job'.pc = "err" /\ job'.temp = job.temp /\ UNCHANGED <<temps, unwiped>>
  <2>1. job' \in Job /\ job'.pc = "decrypt" /\ job'.temp = t
        /\ job'.kind = job.kind /\ job'.id = job.id /\ job'.path = job.path
        /\ job'.reader = job.reader /\ job'.text = job.text
    BY <1>2, <1>3 DEF Job
  <2>2. temps' \in [Temps -> Content] /\ unwiped' \in SUBSET Temps
        /\ \A u \in Temps \ {t} : temps'[u] = temps[u] /\ (u \in unwiped' <=> u \in unwiped)
    BY <1>3 DEF TypeOK, Content
  <2>3. temps[t] = "absent" /\ t \notin views \cup watched \cup ToSet(queue)
    BY <1>3 DEF Fresh
  <2> QED
    BY <1>1, <1>2, <2>1, <2>2, <2>3, SessionAssumption DEF OnlyTemps, sessionVars
<1>4. CASE Goto("err") /\ UNCHANGED <<temps, unwiped>>
  <2>1. job' \in Job /\ job'.pc = "err"
    BY <1>2, <1>4, GotoFields DEF Job
  <2> QED
    BY <1>1, <1>2, <1>4, <2>1, GotoFields, SessionAssumption
    DEF OnlyTemps, sessionVars, TypeOK
<1> QED
  BY <1>3, <1>4 DEF CreateTemp

\* Decrypting into the temporary file, which is wiped again on an error.
LEMMA DecryptEffect ==
    ASSUME TypeOK, CourseInv, JobInv, Decrypt
    PROVE  /\ job \in Job /\ job' \in Job /\ job # None /\ job' # None
           /\ job'.kind = job.kind /\ job'.id = job.id /\ job'.path = job.path
           /\ job'.reader = job.reader /\ job'.temp = job.temp /\ job'.text = job.text
           /\ job.pc = "decrypt" /\ job.kind \in {"view", "check_out"}
           /\ job.temp \in Temps
           /\ UNCHANGED <<screen, exit, open, editor, checkout, views, watched, queue,
                          old, vault, ended>>
           /\ temps' \in [Temps -> Content] /\ unwiped' \in SUBSET Temps
           /\ \A t \in Temps \ {job.temp} : temps'[t] = temps[t] /\ (t \in unwiped' <=> t \in unwiped)
           /\ \/ /\ job'.pc = IF job.kind = "view" THEN "launch" ELSE "ok"
                 /\ temps'[job.temp] = job.reader.files[job.path] /\ unwiped' = unwiped
              \/ /\ job'.pc = "err"
                 /\ temps'[job.temp] = "absent" \/ job.temp \in unwiped'
<1>1. job # None /\ job.pc = "decrypt" /\ OnlyTemps /\ UNCHANGED old
  BY DEF Decrypt, At
<1>2. job \in Job /\ job.kind \in {"view", "check_out"}
  BY <1>1, JobFields DEF CourseInv, Job, Kind
<1>3. job.temp \in Temps /\ job.path \in Files /\ job.reader \in Reader
      /\ job.reader.files[job.path] \in Content
  BY <1>1, <1>2, JobFields, ReaderFields DEF JobInv, OnOpen
<1>4. CASE /\ temps' = [temps EXCEPT ![job.temp] = job.reader.files[job.path]]
           /\ Goto(IF job.kind = "view" THEN "launch" ELSE "ok") /\ UNCHANGED unwiped
  <2>1. job' \in Job /\ job'.pc = IF job.kind = "view" THEN "launch" ELSE "ok"
    BY <1>2, <1>4, GotoFields DEF Job
  <2>2. temps' \in [Temps -> Content] /\ unwiped' \in SUBSET Temps
        /\ temps'[job.temp] = job.reader.files[job.path]
        /\ \A t \in Temps \ {job.temp} : temps'[t] = temps[t]
    BY <1>3, <1>4 DEF TypeOK
  <2> QED
    BY <1>1, <1>2, <1>3, <1>4, <2>1, <2>2, GotoFields, SessionAssumption
    DEF OnlyTemps, sessionVars
<1>5. CASE SecureWipe({job.temp}) /\ Goto("err")
  <2>1. job' \in Job /\ job'.pc = "err"
    BY <1>2, <1>5, GotoFields DEF Job
  <2> QED
    BY <1>1, <1>2, <1>3, <1>5, <2>1, GotoFields, SecureWipeEffect, SessionAssumption
    DEF OnlyTemps, sessionVars
<1> QED
  BY <1>4, <1>5 DEF Decrypt

\* Wiping the file of a check-out, stored or not.
LEMMA WipeTempEffect ==
    ASSUME TypeOK, CourseInv, JobInv, WipeTemp
    PROVE  /\ job \in Job /\ job' \in Job /\ job # None /\ job' # None
           /\ job'.kind = job.kind /\ job'.id = job.id /\ job'.path = job.path
           /\ job'.reader = job.reader /\ job'.temp = job.temp /\ job'.text = job.text
           /\ job.kind \in {"check_in", "discard"} /\ job.temp \in Temps
           /\ UNCHANGED <<screen, exit, open, editor, checkout, views, watched, queue,
                          old, vault, ended>>
           /\ temps' \in [Temps -> Content] /\ unwiped' \in SUBSET Temps
           /\ \A t \in Temps \ {job.temp} : temps'[t] = temps[t] /\ (t \in unwiped' <=> t \in unwiped)
           /\ temps'[job.temp] = "absent" \/ job.temp \in unwiped' 
           /\ \/ job.pc = "wipe_stored" /\ job'.pc = "reopen" /\ job.kind = "check_in"
              \/ job.pc = "wipe" /\ job'.pc = "ok"
<1>1. job # None /\ job.pc \in {"wipe", "wipe_stored"} /\ OnlyTemps /\ UNCHANGED old
      /\ SecureWipe({job.temp})
      /\ Goto(IF job.pc = "wipe_stored" THEN "reopen" ELSE "ok")
  BY DEF WipeTemp, At
<1>2. job \in Job /\ job.kind \in {"check_in", "discard"}
      /\ (job.pc = "wipe_stored" => job.kind = "check_in")
  BY <1>1, JobFields DEF CourseInv, Job, Kind
<1>3. job.temp \in Temps
  BY <1>1, <1>2, OpenFields DEF JobInv
<1>4. job' \in Job /\ job'.pc = IF job.pc = "wipe_stored" THEN "reopen" ELSE "ok"
  BY <1>1, <1>2, GotoFields DEF Job
<1> QED
  BY <1>1, <1>2, <1>3, <1>4, GotoFields, SecureWipeEffect, SessionAssumption
  DEF OnlyTemps, sessionVars

-------------------------------------------------------------------------------
(* What the reports and the wiper do.                                         *)

\* A report that carries a vault shows it.
LEMMA ShowVaultEffect ==
    ASSUME TypeOK, job # None, job.id \in Vaults, job.reader # None, ShowVault
    PROVE  /\ open' \in OpenVaults /\ open' # None
           /\ open'.id = job.id /\ open'.reader = job.reader
<1>1. open' = [id |-> job.id, reader |-> job.reader] /\ job.reader \in Reader
  BY JobFields DEF ShowVault
<1>2. open' \in OpenVaults
  BY <1>1 DEF OpenVaults
<1> QED
  BY <1>1, <1>2, SessionAssumption

\* Applying the report of each kind of job.
LEMMA ApplyReportEffect ==
    ASSUME TypeOK, CourseInv, JobInv, ApplyReport
    PROVE  /\ job # None /\ job \in Job /\ job.pc \in {"ok", "err"} /\ exit \in {"open", "held"}
           /\ job' = None
           /\ UNCHANGED <<exit, watched, queue, temps, old, unwiped, vault, ended>>
           /\ \/ /\ job.pc = "err"
                 /\ UNCHANGED <<screen, open, editor, checkout, views>>
              \/ /\ job.pc = "ok" /\ job.kind = "unlock"
                 /\ screen' = "Unlocked" /\ UNCHANGED <<open, editor, checkout, views>>
              \/ /\ job.pc = "ok" /\ job.kind = "open"
                 /\ open' \in OpenVaults /\ open' # None /\ open'.id = job.id
                 /\ open'.reader = job.reader
                 /\ editor' = None /\ UNCHANGED <<screen, checkout, views>>
              \/ /\ job.pc = "ok" /\ job.kind = "trash"
                 /\ open' \in OpenVaults /\ open' # None /\ open'.id = job.id
                 /\ open'.reader = job.reader
                 /\ UNCHANGED <<screen, editor, checkout, views>>
              \/ /\ job.pc = "ok" /\ job.kind = "delete"
                 /\ UNCHANGED <<screen, open, editor, checkout, views>>
              \/ /\ job.pc = "ok" /\ job.kind = "save_text"
                 /\ open' \in OpenVaults /\ open' # None /\ open'.id = job.id
                 /\ open'.reader = job.reader
                 /\ editor' = None /\ UNCHANGED <<screen, checkout, views>>
              \/ /\ job.pc = "ok" /\ job.kind = "new_file"
                 /\ open' \in OpenVaults /\ open' # None /\ open'.id = job.id
                 /\ open'.reader = job.reader
                 /\ editor' \in Edits /\ editor'.text = job.text /\ UNCHANGED <<screen,
                                                                                checkout, views>>
              \/ /\ job.pc = "ok" /\ job.kind = "quick_edit"
                 /\ editor' \in Edits /\ editor'.text = job.text /\ UNCHANGED <<screen,
                                                                                open, checkout, views>>
              \/ /\ job.pc = "ok" /\ job.kind = "view"
                 /\ job.temp \in Temps /\ views' = views \cup {job.temp}
                 /\ UNCHANGED <<screen, open, editor, checkout>>
              \/ /\ job.pc = "ok" /\ job.kind = "check_out"
                 /\ checkout' \in Checkouts /\ checkout' # None /\ checkout'.id = job.id
                 /\ checkout'.temp = job.temp /\ checkout'.orig = job.text
                 /\ job.temp \in Temps
                 /\ UNCHANGED <<screen, open, editor, views>>
              \/ /\ job.pc = "ok" /\ job.kind = "check_in"
                 /\ open' \in OpenVaults /\ open' # None /\ open'.id = job.id
                 /\ open'.reader = job.reader
                 /\ checkout' = None /\ UNCHANGED <<screen, editor, views>>
              \/ /\ job.pc = "ok" /\ job.kind = "discard"
                 /\ checkout' = None /\ UNCHANGED <<screen, open, editor, views>>
<1>1. job # None /\ job.pc \in {"ok", "err"} /\ exit \in {"open", "held"} /\ job' = None
      /\ UNCHANGED <<exit, watched, queue, temps, old, unwiped, vault, ended>>
  BY DEF ApplyReport, tempVars
<1>2. job \in Job
  BY <1>1, JobFields
<1>3. CASE job.pc = "err"
  BY <1>1, <1>2, <1>3 DEF ApplyReport, sessionVars
<1>4. CASE job.pc = "ok"
  <2>1. job.kind \in OnOpen \cup {"open"} => job.id \in Vaults /\ job.reader # None
    BY <1>1, <1>4, OpenFields DEF JobInv, OnOpen
  <2>2. job.kind \in OnOpen => job.path \in Files
    BY <1>1 DEF JobInv
  <2>3. job.kind \in {"view", "check_out"} => job.temp \in Temps
    BY <1>1, <1>4, JobFields DEF JobInv
  <2>4. CASE ApplyUnlocked
    BY <1>1, <1>2, <1>4, <2>4 DEF ApplyUnlocked, sessionVars
  <2>5. CASE ApplySetOpen
    <3>1. job.kind = "open" /\ ShowVault /\ editor' = None /\ UNCHANGED <<screen,
                                                                          checkout, views>>
      BY <2>5 DEF ApplySetOpen, ResetBrowse
    <3> QED
      BY <1>1, <1>2, <1>4, <2>1, <3>1, ShowVaultEffect
  <2>6. CASE ApplyReplaceOpen
    <3>1. job.kind = "trash" /\ ShowVault /\ UNCHANGED <<screen, editor, checkout, views>>
      BY <2>6 DEF ApplyReplaceOpen
    <3> QED
      BY <1>1, <1>2, <1>4, <2>1, <3>1, ShowVaultEffect DEF OnOpen
  <2>7. CASE ApplyDeleted
    <3>1. open = None
      BY <1>1, <2>7 DEF JobInv, ApplyDeleted
    <3> QED
      BY <1>1, <1>2, <1>4, <2>7, <3>1 DEF ApplyDeleted
  <2>8. CASE ApplyEditor
    <3>1. job.kind \in {"new_file", "quick_edit", "save_text"} /\ UNCHANGED <<screen,
                                                                              checkout, views>>
          /\ (IF job.kind = "quick_edit" THEN UNCHANGED open ELSE ShowVault)
          /\ editor' = IF job.kind = "save_text" THEN None
                       ELSE [path |-> job.path, text |-> job.text]
      BY <2>8 DEF ApplyEditor
    <3>2. job.kind # "save_text" => editor' \in Edits /\ editor'.text = job.text
      BY <1>1, <2>2, <3>1, JobFields DEF Edits, OnOpen
    <3> QED
      BY <1>1, <1>2, <1>4, <2>1, <3>1, <3>2, ShowVaultEffect DEF OnOpen
  <2>9. CASE ApplyStartView
    BY <1>1, <1>2, <1>4, <2>3, <2>9 DEF ApplyStartView
  <2>10. CASE ApplyStartCheckout
    <3>1. job.kind = "check_out" /\ UNCHANGED <<screen, open, editor, views>>
          /\ checkout' = [id |-> job.id, path |-> job.path, temp |-> job.temp, orig |-> job.text]
      BY <2>10 DEF ApplyStartCheckout
    <3>2. checkout' \in Checkouts
      BY <1>1, <2>1, <2>2, <2>3, <3>1, JobFields DEF Checkouts, OnOpen
    <3> QED
      BY <1>1, <1>2, <1>4, <2>3, <3>1, <3>2, SessionAssumption
  <2>11. CASE ApplyEndCheckout
    <3>1. job.kind \in {"check_in", "discard"} /\ checkout' = None
          /\ UNCHANGED <<screen, editor, views>>
          /\ (IF job.kind = "check_in" THEN ShowVault ELSE UNCHANGED open)
      BY <2>11 DEF ApplyEndCheckout
    <3> QED
      BY <1>1, <1>2, <1>4, <2>1, <3>1, ShowVaultEffect DEF OnOpen
  <2> QED
    BY <1>4, <2>4, <2>5, <2>6, <2>7, <2>8, <2>9, <2>10, <2>11 DEF ApplyReport
<1> QED
  BY <1>1, <1>3, <1>4

\* The user saves the checked-out file.
LEMMA EditTempEffect ==
    ASSUME TypeOK, NEW c \in Texts, EditTemp(c)
    PROVE  /\ checkout # None /\ checkout.temp \in Temps /\ temps[checkout.temp] # "absent"
           /\ UNCHANGED <<screen, exit, job, open, editor, checkout, views, watched,
                          queue, old, unwiped, vault, ended>>
           /\ temps'[checkout.temp] \notin {"absent", "garbage"}
           /\ \A t \in Temps \ {checkout.temp} : temps'[t] = temps[t]
<1>1. checkout # None /\ temps[checkout.temp] \in Texts \cup {"empty"}
      /\ temps' = [temps EXCEPT ![checkout.temp] = c]
  BY DEF EditTemp
<1>2. /\ checkout.temp \in Temps /\ c \notin {"absent", "garbage"}
      /\ temps[checkout.temp] # "absent"
  BY <1>1, OpenFields, SessionAssumption
<1> QED
  BY <1>1, <1>2 DEF EditTemp, TypeOK, sessionVars

\* The wiper overwrites the file at the head of its queue.
LEMMA ShredEffect ==
    ASSUME TypeOK, Shred
    PROVE  /\ screen # "Down" /\ Head(queue) \in ToSet(queue) /\ Head(queue) \in Temps
           /\ UNCHANGED <<screen, exit, job, open, editor, checkout, views, watched,
                          queue, old, unwiped, vault, ended>>
           /\ temps' \in [Temps -> Content]
           /\ \A t \in Temps \ {Head(queue)} : temps'[t] = temps[t]
           /\ temps[Head(queue)] # "absent" /\ temps'[Head(queue)] = "garbage"
<1>1. queue \in Seq(Temps) /\ queue # <<>> /\ screen # "Down"
      /\ temps[Head(queue)] \notin {"absent", "garbage"}
      /\ temps' = [temps EXCEPT ![Head(queue)] = "garbage"]
  BY DEF TypeOK, Shred
<1>2. Head(queue) \in Temps /\ ToSet(queue) = {Head(queue)} \cup ToSet(Tail(queue))
  BY <1>1, QueueElements
<1> DEFINE h == Head(queue)
<1>3. temps' \in [Temps -> Content] /\ temps'[h] = "garbage" /\ \A t \in Temps \ {h} : temps'[t] = temps[t]
  BY <1>1, <1>2 DEF TypeOK, Content
<1> QED
  BY <1>1, <1>2, <1>3 DEF Shred, sessionVars

\* The wiper is done with the file at the head of its queue.
LEMMA UnlinkEffect ==
    ASSUME TypeOK, Unlink
    PROVE  /\ screen # "Down" /\ Head(queue) \in Temps
           /\ queue' \in Seq(Temps) /\ ToSet(queue) = {Head(queue)} \cup ToSet(queue')
           /\ UNCHANGED <<screen, exit, job, open, editor, checkout, views, watched, old,
                          vault, ended>>
           /\ temps' \in [Temps -> Content] /\ unwiped' \in SUBSET Temps
           /\ \A t \in Temps \ {Head(queue)} : temps'[t] = temps[t] /\ (t \in unwiped' <=> t \in unwiped)
           /\ temps'[Head(queue)] = "absent" \/ Head(queue) \in unwiped'
<1>1. queue \in Seq(Temps) /\ queue # <<>> /\ screen # "Down" /\ queue' = Tail(queue)
  BY DEF TypeOK, Unlink
<1>2. /\ Head(queue) \in Temps /\ queue' \in Seq(Temps)
      /\ ToSet(queue) = {Head(queue)} \cup ToSet(queue')
  BY <1>1, QueueElements
<1> DEFINE h == Head(queue)
<1>3. \/ /\ temps' = [temps EXCEPT ![h] = IF @ = "garbage" THEN "absent" ELSE @]
         /\ unwiped' = IF temps'[h] = "absent" THEN unwiped \ {h} ELSE unwiped \cup {h}
      \/ unwiped' = unwiped \cup {h} /\ UNCHANGED temps
  BY DEF Unlink
<1>4. h \in Temps /\ temps \in [Temps -> Content] /\ unwiped \subseteq Temps
  BY <1>2 DEF TypeOK
<1> HIDE DEF h
<1>5. temps' \in [Temps -> Content] /\ unwiped' \in SUBSET Temps
      /\ \A t \in Temps \ {h} : temps'[t] = temps[t] /\ (t \in unwiped' <=> t \in unwiped)
      /\ (temps'[h] = "absent" \/ h \in unwiped')
  <2>1. CASE unwiped' = unwiped \cup {h} /\ UNCHANGED temps
    BY <1>4, <2>1
  <2>2. CASE /\ temps' = [temps EXCEPT ![h] = IF @ = "garbage" THEN "absent" ELSE @]
             /\ unwiped' = IF temps'[h] = "absent" THEN unwiped \ {h} ELSE unwiped \cup {h}
    BY <1>4, <2>2 DEF Content
  <2> QED
    BY <1>3, <2>1, <2>2
<1> QED
  BY <1>1, <1>2, <1>5 DEF Unlink, sessionVars, h

\* The watcher queues the file it watched.
LEMMA ViewerClosesEffect ==
    ASSUME TypeOK, NEW t \in Temps, ViewerCloses(t)
    PROVE  /\ screen # "Down" /\ t \in watched /\ watched' = watched \ {t}
           /\ UNCHANGED <<screen, exit, job, open, editor, checkout, views, temps, old,
                          unwiped, vault, ended>>
           /\ queue' \in Seq(Temps) /\ ToSet(queue') = ToSet(queue) \cup {t}
  BY QueueElements DEF TypeOK, ViewerCloses, sessionVars

-------------------------------------------------------------------------------
(* Every step keeps each part of the invariant.                               *)

\* Every step keeps the types.
LEMMA TypeStep ==
    ASSUME TypeOK, ControlInv, CourseInv, JobInv, [Next]_vars
    PROVE  TypeOK'
<1>0. UNCHANGED faults
  BY DEF Next, vars
<1> USE <1>0 DEF TypeOK, sessionVars, tempVars
<1>1. CASE Unlock
  BY <1>1, UnlockEffect
<1>2. CASE Lock
  BY <1>2, WipeAllViewsEffect DEF Lock, Idle
<1>3. CASE Nav
  BY <1>3, WipeAllViewsEffect DEF Nav, Idle
<1>4. CASE CloseVault
  BY <1>4, WipeAllViewsEffect DEF CloseVault, Browsing, Idle, ResetBrowse
<1>5. CASE CheckIn
  BY <1>5, CheckInEffect
<1>6. CASE Discard
  BY <1>6, DiscardEffect
<1>7. CASE SaveTextFile
  BY <1>7, SaveTextFileEffect
<1>8. CASE CloseTextEditor
  BY <1>8 DEF CloseTextEditor, Idle
<1>9. ASSUME NEW v \in Vaults, OpenVault(v) PROVE TypeOK'
  BY <1>9, OpenVaultEffect
<1>10. ASSUME NEW v \in Vaults, DeleteVault(v) PROVE TypeOK'
  BY <1>10, DeleteVaultEffect
<1>11. ASSUME NEW f \in Files, NewFile(f) PROVE TypeOK'
  BY <1>11, NewFileEffect
<1>12. ASSUME NEW f \in Files, QuickEdit(f) PROVE TypeOK'
  BY <1>12, QuickEditEffect
<1>13. ASSUME NEW f \in Files, Trash(f) PROVE TypeOK'
  BY <1>13, TrashEffect
<1>14. ASSUME NEW f \in Files, ViewFile(f) PROVE TypeOK'
  BY <1>14, ViewFileEffect
<1>15. ASSUME NEW f \in Files, CheckOut(f) PROVE TypeOK'
  BY <1>15, CheckOutEffect
<1>16. ASSUME NEW c \in Texts, TypeText(c) PROVE TypeOK'
  <2>1. editor \in Edits /\ editor' = [editor EXCEPT !.text = c]
    BY <1>16 DEF TypeText
  <2>2. editor' \in Edits
    BY <1>16, <2>1 DEF Edits, Content
  <2> QED
    BY <1>16, <2>2 DEF TypeText
<1>17. ASSUME NEW c \in Texts, EditTemp(c) PROVE TypeOK'
  <2>1. temps' = [temps EXCEPT ![checkout.temp] = c] /\ c \in Content
    BY <1>17 DEF EditTemp, Content
  <2>2. temps' \in [Temps -> Content]
    BY <2>1
  <2> QED
    BY <1>17, <2>2 DEF EditTemp
<1>18. CASE Sweep
  BY <1>18, SweepEffect
<1>19. CASE Load
  BY <1>19, LoadEffect
<1>20. CASE Commit
  BY <1>20, CommitStepEffect
<1>21. CASE Reopen
  BY <1>21, ReopenEffect
<1>22. CASE ReadEntry
  BY <1>22, ReadEntryEffect
<1>23. CASE CreateTemp
  BY <1>23, CreateTempEffect
<1>24. CASE Decrypt
  BY <1>24, DecryptEffect
<1>25. CASE Launch
  BY <1>25, LaunchEffect
<1>26. CASE HashTemp
  BY <1>26, HashTempEffect
<1>27. CASE WipeTemp
  BY <1>27, WipeTempEffect
<1>28. CASE ApplyReport
  BY <1>28, ApplyReportEffect
<1>29. CASE DropClosedViews
  BY <1>29 DEF DropClosedViews
<1>30. CASE Shred
  BY <1>30, ShredEffect
<1>31. CASE Unlink
  BY <1>31, UnlinkEffect
<1>32. ASSUME NEW t \in Temps, ViewerCloses(t) PROVE TypeOK'
  BY <1>32, ViewerClosesEffect
<1>33. CASE RequestClose
  BY <1>33, WipeAllTempsEffect DEF RequestClose
<1>34. CASE ReleaseClose
  BY <1>34 DEF ReleaseClose
<1>35. CASE ForcedClose
  BY <1>35 DEF ForcedClose
<1>36. CASE OnExit
  BY <1>36, WipeAllTempsEffect DEF OnExit
<1>37. CASE Finish
  BY <1>37 DEF Finish, ProcessGone
<1>38. CASE Kill
  BY <1>38 DEF Kill, ProcessGone
<1>39. CASE Start
  BY <1>39 DEF Start
<1>40. CASE UNCHANGED vars
  BY <1>40 DEF vars
<1> QED
  BY <1>1, <1>2, <1>3, <1>4, <1>5, <1>6, <1>7, <1>8, <1>9, <1>10, <1>11, <1>12, <1>13,
     <1>14, <1>15, <1>16, <1>17, <1>18, <1>19, <1>20, <1>21, <1>22, <1>23, <1>24,
     <1>25, <1>26, <1>27, <1>28, <1>29, <1>30, <1>31, <1>32, <1>33, <1>34, <1>35,
     <1>36, <1>37, <1>38, <1>39, <1>40 DEF Next, UserStep, JobStep, FrameStep,
     WiperStep, ExitStep

\* Every step keeps what the screens and the stages of the exit leave behind.
LEMMA ControlStep ==
    ASSUME TypeOK, ControlInv, CourseInv, JobInv, [Next]_vars
    PROVE  ControlInv'
<1>0. UNCHANGED faults
  BY DEF Next, vars
<1> USE <1>0 DEF ControlInv, At, sessionVars, tempVars
<1>1. CASE Unlock
  BY <1>1, UnlockEffect
<1>2. CASE Lock
  BY <1>2, WipeAllViewsEffect DEF Lock, Idle
<1>3. CASE Nav
  BY <1>3, WipeAllViewsEffect DEF Nav, Idle
<1>4. CASE CloseVault
  BY <1>4, WipeAllViewsEffect DEF CloseVault, Browsing, Idle, ResetBrowse
<1>5. CASE CheckIn
  BY <1>5, CheckInEffect
<1>6. CASE Discard
  BY <1>6, DiscardEffect
<1>7. CASE SaveTextFile
  BY <1>7, SaveTextFileEffect
<1>8. CASE CloseTextEditor
  BY <1>8 DEF CloseTextEditor, Idle
<1>9. ASSUME NEW v \in Vaults, OpenVault(v) PROVE ControlInv'
  BY <1>9, OpenVaultEffect
<1>10. ASSUME NEW v \in Vaults, DeleteVault(v) PROVE ControlInv'
  BY <1>10, DeleteVaultEffect
<1>11. ASSUME NEW f \in Files, NewFile(f) PROVE ControlInv'
  BY <1>11, NewFileEffect
<1>12. ASSUME NEW f \in Files, QuickEdit(f) PROVE ControlInv'
  BY <1>12, QuickEditEffect
<1>13. ASSUME NEW f \in Files, Trash(f) PROVE ControlInv'
  BY <1>13, TrashEffect
<1>14. ASSUME NEW f \in Files, ViewFile(f) PROVE ControlInv'
  BY <1>14, ViewFileEffect
<1>15. ASSUME NEW f \in Files, CheckOut(f) PROVE ControlInv'
  BY <1>15, CheckOutEffect
<1>16. ASSUME NEW c \in Texts, TypeText(c) PROVE ControlInv'
  BY <1>16 DEF TypeText, Idle
<1>17. ASSUME NEW c \in Texts, EditTemp(c) PROVE ControlInv'
  BY <1>17, EditTempEffect
<1>18. CASE Sweep
  BY <1>18, SweepEffect
<1>19. CASE Load
  BY <1>19, LoadEffect
<1>20. CASE Commit
  BY <1>20, CommitStepEffect
<1>21. CASE Reopen
  BY <1>21, ReopenEffect DEF Commits
<1>22. CASE ReadEntry
  BY <1>22, ReadEntryEffect
<1>23. CASE CreateTemp
  BY <1>23, CreateTempEffect
<1>24. CASE Decrypt
  BY <1>24, DecryptEffect
<1>25. CASE Launch
  BY <1>25, LaunchEffect
<1>26. CASE HashTemp
  BY <1>26, HashTempEffect
<1>27. CASE WipeTemp
  BY <1>27, WipeTempEffect
<1>28. CASE ApplyReport
  <2>1. screen \in {"Unlock", "Unlocked", "Down"}
    BY DEF TypeOK
  <2>2. IsFiniteSet(views')
    BY <1>28, ApplyReportEffect, FS_AddElement
  <2> QED
    BY <1>28, <2>1, <2>2, ApplyReportEffect
<1>29. CASE DropClosedViews
  BY <1>29, FS_Subset DEF DropClosedViews
<1>30. CASE Shred
  BY <1>30, ShredEffect
<1>31. CASE Unlink
  BY <1>31, UnlinkEffect
<1>32. ASSUME NEW t \in Temps, ViewerCloses(t) PROVE ControlInv'
  BY <1>32, ViewerClosesEffect
<1>33. CASE RequestClose
  BY <1>33, WipeAllTempsEffect DEF RequestClose
<1>34. CASE ReleaseClose
  BY <1>34 DEF ReleaseClose
<1>35. CASE ForcedClose
  BY <1>35 DEF ForcedClose
<1>36. CASE OnExit
  BY <1>36, WipeAllTempsEffect DEF OnExit
<1>37. CASE Finish
  BY <1>37, FS_EmptySet DEF Finish, ProcessGone
<1>38. CASE Kill
  BY <1>38, FS_EmptySet DEF Kill, ProcessGone
<1>39. CASE Start
  BY <1>39 DEF Start
<1>40. CASE UNCHANGED vars
  BY <1>40 DEF vars
<1> QED
  BY <1>1, <1>2, <1>3, <1>4, <1>5, <1>6, <1>7, <1>8, <1>9, <1>10, <1>11, <1>12, <1>13,
     <1>14, <1>15, <1>16, <1>17, <1>18, <1>19, <1>20, <1>21, <1>22, <1>23, <1>24,
     <1>25, <1>26, <1>27, <1>28, <1>29, <1>30, <1>31, <1>32, <1>33, <1>34, <1>35,
     <1>36, <1>37, <1>38, <1>39, <1>40 DEF Next, UserStep, JobStep, FrameStep,
     WiperStep, ExitStep

\* Every job keeps to its course.
LEMMA CourseStep ==
    ASSUME TypeOK, ControlInv, CourseInv, JobInv, [Next]_vars
    PROVE  CourseInv'
<1>0. UNCHANGED faults
  BY DEF Next, vars
<1> USE <1>0 DEF CourseInv, sessionVars, tempVars
<1>1. CASE Unlock
  BY <1>1, UnlockEffect
<1>2. CASE Lock
  BY <1>2, WipeAllViewsEffect DEF Lock, Idle
<1>3. CASE Nav
  BY <1>3, WipeAllViewsEffect DEF Nav, Idle
<1>4. CASE CloseVault
  BY <1>4, WipeAllViewsEffect DEF CloseVault, Browsing, Idle, ResetBrowse
<1>5. CASE CheckIn
  BY <1>5, CheckInEffect
<1>6. CASE Discard
  BY <1>6, DiscardEffect
<1>7. CASE SaveTextFile
  BY <1>7, SaveTextFileEffect
<1>8. CASE CloseTextEditor
  BY <1>8 DEF CloseTextEditor, Idle
<1>9. ASSUME NEW v \in Vaults, OpenVault(v) PROVE CourseInv'
  BY <1>9, OpenVaultEffect
<1>10. ASSUME NEW v \in Vaults, DeleteVault(v) PROVE CourseInv'
  BY <1>10, DeleteVaultEffect
<1>11. ASSUME NEW f \in Files, NewFile(f) PROVE CourseInv'
  BY <1>11, NewFileEffect
<1>12. ASSUME NEW f \in Files, QuickEdit(f) PROVE CourseInv'
  BY <1>12, QuickEditEffect
<1>13. ASSUME NEW f \in Files, Trash(f) PROVE CourseInv'
  BY <1>13, TrashEffect
<1>14. ASSUME NEW f \in Files, ViewFile(f) PROVE CourseInv'
  BY <1>14, ViewFileEffect
<1>15. ASSUME NEW f \in Files, CheckOut(f) PROVE CourseInv'
  BY <1>15, CheckOutEffect
<1>16. ASSUME NEW c \in Texts, TypeText(c) PROVE CourseInv'
  BY <1>16 DEF TypeText, Idle
<1>17. ASSUME NEW c \in Texts, EditTemp(c) PROVE CourseInv'
  BY <1>17, EditTempEffect
<1>18. CASE Sweep
  BY <1>18, SweepEffect
<1>19. CASE Load
  BY <1>19, LoadEffect
<1>20. CASE Commit
  BY <1>20, CommitStepEffect
<1>21. CASE Reopen
  BY <1>21, ReopenEffect
<1>22. CASE ReadEntry
  BY <1>22, ReadEntryEffect
<1>23. CASE CreateTemp
  BY <1>23, CreateTempEffect
<1>24. CASE Decrypt
  BY <1>24, DecryptEffect
<1>25. CASE Launch
  BY <1>25, LaunchEffect
<1>26. CASE HashTemp
  BY <1>26, HashTempEffect
<1>27. CASE WipeTemp
  BY <1>27, WipeTempEffect
<1>28. CASE ApplyReport
  BY <1>28, ApplyReportEffect
<1>29. CASE DropClosedViews
  BY <1>29 DEF DropClosedViews
<1>30. CASE Shred
  BY <1>30, ShredEffect
<1>31. CASE Unlink
  BY <1>31, UnlinkEffect
<1>32. ASSUME NEW t \in Temps, ViewerCloses(t) PROVE CourseInv'
  BY <1>32, ViewerClosesEffect
<1>33. CASE RequestClose
  BY <1>33, WipeAllTempsEffect DEF RequestClose
<1>34. CASE ReleaseClose
  BY <1>34 DEF ReleaseClose
<1>35. CASE ForcedClose
  BY <1>35 DEF ForcedClose
<1>36. CASE OnExit
  BY <1>36, WipeAllTempsEffect DEF OnExit
<1>37. CASE Finish
  BY <1>37 DEF Finish, ProcessGone
<1>38. CASE Kill
  BY <1>38 DEF Kill, ProcessGone
<1>39. CASE Start
  BY <1>39 DEF Start
<1>40. CASE UNCHANGED vars
  BY <1>40 DEF vars
<1> QED
  BY <1>1, <1>2, <1>3, <1>4, <1>5, <1>6, <1>7, <1>8, <1>9, <1>10, <1>11, <1>12, <1>13,
     <1>14, <1>15, <1>16, <1>17, <1>18, <1>19, <1>20, <1>21, <1>22, <1>23, <1>24,
     <1>25, <1>26, <1>27, <1>28, <1>29, <1>30, <1>31, <1>32, <1>33, <1>34, <1>35,
     <1>36, <1>37, <1>38, <1>39, <1>40 DEF Next, UserStep, JobStep, FrameStep,
     WiperStep, ExitStep

\* What a job was given holds until it reports.
LEMMA JobInvStep ==
    ASSUME TypeOK, ControlInv, CourseInv, JobInv, HomeInv, [Next]_vars
    PROVE  JobInv'
<1>0. UNCHANGED faults
  BY DEF Next, vars
<1> USE <1>0 DEF JobInv, OnOpen, Commits, sessionVars, tempVars
<1>1. CASE Unlock
  BY <1>1, UnlockEffect DEF ControlInv
<1>2. CASE Lock
  BY <1>2, WipeAllViewsEffect DEF Lock, Idle
<1>3. CASE Nav
  BY <1>3, WipeAllViewsEffect DEF Nav, Idle
<1>4. CASE CloseVault
  BY <1>4, WipeAllViewsEffect DEF CloseVault, Browsing, Idle, ResetBrowse
<1>5. CASE CheckIn
  BY <1>5, CheckInEffect, OpenFields, SessionAssumption DEF HomeInv
<1>6. CASE Discard
  BY <1>6, DiscardEffect
<1>7. CASE SaveTextFile
  BY <1>7, SaveTextFileEffect, OpenFields, SessionAssumption DEF HomeInv
<1>8. CASE CloseTextEditor
  BY <1>8 DEF CloseTextEditor, Idle
<1>9. ASSUME NEW v \in Vaults, OpenVault(v) PROVE JobInv'
  BY <1>9, OpenVaultEffect, OpenFields, SessionAssumption DEF HomeInv
<1>10. ASSUME NEW v \in Vaults, DeleteVault(v) PROVE JobInv'
  BY <1>10, DeleteVaultEffect, OpenFields, SessionAssumption DEF HomeInv
<1>11. ASSUME NEW f \in Files, NewFile(f) PROVE JobInv'
  BY <1>11, NewFileEffect, OpenFields, SessionAssumption DEF HomeInv
<1>12. ASSUME NEW f \in Files, QuickEdit(f) PROVE JobInv'
  BY <1>12, QuickEditEffect, OpenFields, SessionAssumption DEF HomeInv
<1>13. ASSUME NEW f \in Files, Trash(f) PROVE JobInv'
  BY <1>13, TrashEffect, OpenFields, SessionAssumption DEF HomeInv
<1>14. ASSUME NEW f \in Files, ViewFile(f) PROVE JobInv'
  BY <1>14, ViewFileEffect, OpenFields, SessionAssumption DEF HomeInv
<1>15. ASSUME NEW f \in Files, CheckOut(f) PROVE JobInv'
  BY <1>15, CheckOutEffect, OpenFields, SessionAssumption DEF HomeInv
<1>16. ASSUME NEW c \in Texts, TypeText(c) PROVE JobInv'
  BY <1>16 DEF TypeText, Idle
<1>17. ASSUME NEW c \in Texts, EditTemp(c) PROVE JobInv'
  BY <1>17, EditTempEffect
<1>18. CASE Sweep
  BY <1>18, SweepEffect
<1>19. CASE Load
  BY <1>19, LoadEffect
<1>20. CASE Commit
  BY <1>20, CommitStepEffect
<1>21. CASE Reopen
  BY <1>21, ReopenEffect
<1>22. CASE ReadEntry
  BY <1>22, ReadEntryEffect
<1>23. CASE CreateTemp
  BY <1>23, CreateTempEffect, SessionAssumption
<1>24. CASE Decrypt
  BY <1>24, DecryptEffect
<1>25. CASE Launch
  BY <1>25, LaunchEffect
<1>26. CASE HashTemp
  BY <1>26, HashTempEffect
<1>27. CASE WipeTemp
  BY <1>27, WipeTempEffect
<1>28. CASE ApplyReport
  BY <1>28, ApplyReportEffect
<1>29. CASE DropClosedViews
  BY <1>29 DEF DropClosedViews
<1>30. CASE Shred
  BY <1>30, ShredEffect
<1>31. CASE Unlink
  BY <1>31, UnlinkEffect
<1>32. ASSUME NEW t \in Temps, ViewerCloses(t) PROVE JobInv'
  BY <1>32, ViewerClosesEffect
<1>33. CASE RequestClose
  BY <1>33, WipeAllTempsEffect DEF RequestClose
<1>34. CASE ReleaseClose
  BY <1>34 DEF ReleaseClose
<1>35. CASE ForcedClose
  BY <1>35 DEF ForcedClose
<1>36. CASE OnExit
  BY <1>36, WipeAllTempsEffect DEF OnExit
<1>37. CASE Finish
  BY <1>37 DEF Finish, ProcessGone
<1>38. CASE Kill
  BY <1>38 DEF Kill, ProcessGone
<1>39. CASE Start
  BY <1>39 DEF Start
<1>40. CASE UNCHANGED vars
  BY <1>40 DEF vars
<1> QED
  BY <1>1, <1>2, <1>3, <1>4, <1>5, <1>6, <1>7, <1>8, <1>9, <1>10, <1>11, <1>12, <1>13,
     <1>14, <1>15, <1>16, <1>17, <1>18, <1>19, <1>20, <1>21, <1>22, <1>23, <1>24,
     <1>25, <1>26, <1>27, <1>28, <1>29, <1>30, <1>31, <1>32, <1>33, <1>34, <1>35,
     <1>36, <1>37, <1>38, <1>39, <1>40 DEF Next, UserStep, JobStep, FrameStep,
     WiperStep, ExitStep

\* Every step keeps an edit at home.
LEMMA HomeStep ==
    ASSUME TypeOK, ControlInv, CourseInv, JobInv, HomeInv, [Next]_vars
    PROVE  HomeInv'
<1>0. UNCHANGED faults
  BY DEF Next, vars
<1> USE <1>0 DEF HomeInv, sessionVars, tempVars
<1>1. CASE Unlock
  BY <1>1, UnlockEffect
<1>2. CASE Lock
  BY <1>2, WipeAllViewsEffect DEF Lock, Idle
<1>3. CASE Nav
  BY <1>3, WipeAllViewsEffect DEF Nav, Idle
<1>4. CASE CloseVault
  BY <1>4, WipeAllViewsEffect DEF CloseVault, Browsing, Idle, ResetBrowse
<1>5. CASE CheckIn
  BY <1>5, CheckInEffect
<1>6. CASE Discard
  BY <1>6, DiscardEffect
<1>7. CASE SaveTextFile
  BY <1>7, SaveTextFileEffect
<1>8. CASE CloseTextEditor
  BY <1>8 DEF CloseTextEditor, Idle
<1>9. ASSUME NEW v \in Vaults, OpenVault(v) PROVE HomeInv'
  BY <1>9, OpenVaultEffect
<1>10. ASSUME NEW v \in Vaults, DeleteVault(v) PROVE HomeInv'
  BY <1>10, DeleteVaultEffect
<1>11. ASSUME NEW f \in Files, NewFile(f) PROVE HomeInv'
  BY <1>11, NewFileEffect
<1>12. ASSUME NEW f \in Files, QuickEdit(f) PROVE HomeInv'
  BY <1>12, QuickEditEffect
<1>13. ASSUME NEW f \in Files, Trash(f) PROVE HomeInv'
  BY <1>13, TrashEffect
<1>14. ASSUME NEW f \in Files, ViewFile(f) PROVE HomeInv'
  BY <1>14, ViewFileEffect
<1>15. ASSUME NEW f \in Files, CheckOut(f) PROVE HomeInv'
  BY <1>15, CheckOutEffect
<1>16. ASSUME NEW c \in Texts, TypeText(c) PROVE HomeInv'
  BY <1>16 DEF TypeText, Idle
<1>17. ASSUME NEW c \in Texts, EditTemp(c) PROVE HomeInv'
  BY <1>17, EditTempEffect
<1>18. CASE Sweep
  BY <1>18, SweepEffect
<1>19. CASE Load
  BY <1>19, LoadEffect
<1>20. CASE Commit
  BY <1>20, CommitStepEffect, OpenFields DEF JobInv, OnOpen, Commits
<1>21. CASE Reopen
  BY <1>21, ReopenEffect
<1>22. CASE ReadEntry
  BY <1>22, ReadEntryEffect
<1>23. CASE CreateTemp
  BY <1>23, CreateTempEffect
<1>24. CASE Decrypt
  BY <1>24, DecryptEffect
<1>25. CASE Launch
  BY <1>25, LaunchEffect
<1>26. CASE HashTemp
  BY <1>26, HashTempEffect
<1>27. CASE WipeTemp
  BY <1>27, WipeTempEffect
<1>28. CASE ApplyReport
  BY <1>28, ApplyReportEffect, SessionAssumption DEF JobInv, OnOpen
<1>29. CASE DropClosedViews
  BY <1>29 DEF DropClosedViews
<1>30. CASE Shred
  BY <1>30, ShredEffect
<1>31. CASE Unlink
  BY <1>31, UnlinkEffect
<1>32. ASSUME NEW t \in Temps, ViewerCloses(t) PROVE HomeInv'
  BY <1>32, ViewerClosesEffect
<1>33. CASE RequestClose
  BY <1>33, WipeAllTempsEffect DEF RequestClose
<1>34. CASE ReleaseClose
  BY <1>34 DEF ReleaseClose
<1>35. CASE ForcedClose
  BY <1>35 DEF ForcedClose
<1>36. CASE OnExit
  BY <1>36, WipeAllTempsEffect DEF OnExit
<1>37. CASE Finish
  BY <1>37 DEF Finish, ProcessGone
<1>38. CASE Kill
  BY <1>38 DEF Kill, ProcessGone
<1>39. CASE Start
  BY <1>39 DEF Start
<1>40. CASE UNCHANGED vars
  BY <1>40 DEF vars
<1> QED
  BY <1>1, <1>2, <1>3, <1>4, <1>5, <1>6, <1>7, <1>8, <1>9, <1>10, <1>11, <1>12, <1>13,
     <1>14, <1>15, <1>16, <1>17, <1>18, <1>19, <1>20, <1>21, <1>22, <1>23, <1>24,
     <1>25, <1>26, <1>27, <1>28, <1>29, <1>30, <1>31, <1>32, <1>33, <1>34, <1>35,
     <1>36, <1>37, <1>38, <1>39, <1>40 DEF Next, UserStep, JobStep, FrameStep,
     WiperStep, ExitStep

\* Every step keeps the browser current.
LEMMA CurrentStep ==
    ASSUME TypeOK, ControlInv, CourseInv, JobInv, HomeInv, CurrentInv, [Next]_vars
    PROVE  CurrentInv'
<1>0. UNCHANGED faults
  BY DEF Next, vars
<1> USE <1>0 DEF CurrentInv, At, Commits, sessionVars, tempVars
<1>1. CASE Unlock
  BY <1>1, UnlockEffect
<1>2. CASE Lock
  BY <1>2, WipeAllViewsEffect DEF Lock, Idle
<1>3. CASE Nav
  BY <1>3, WipeAllViewsEffect DEF Nav, Idle
<1>4. CASE CloseVault
  BY <1>4, WipeAllViewsEffect DEF CloseVault, Browsing, Idle, ResetBrowse
<1>5. CASE CheckIn
  BY <1>5, CheckInEffect
<1>6. CASE Discard
  BY <1>6, DiscardEffect
<1>7. CASE SaveTextFile
  BY <1>7, SaveTextFileEffect
<1>8. CASE CloseTextEditor
  BY <1>8 DEF CloseTextEditor, Idle
<1>9. ASSUME NEW v \in Vaults, OpenVault(v) PROVE CurrentInv'
  BY <1>9, OpenVaultEffect
<1>10. ASSUME NEW v \in Vaults, DeleteVault(v) PROVE CurrentInv'
  BY <1>10, DeleteVaultEffect
<1>11. ASSUME NEW f \in Files, NewFile(f) PROVE CurrentInv'
  BY <1>11, NewFileEffect
<1>12. ASSUME NEW f \in Files, QuickEdit(f) PROVE CurrentInv'
  BY <1>12, QuickEditEffect
<1>13. ASSUME NEW f \in Files, Trash(f) PROVE CurrentInv'
  BY <1>13, TrashEffect
<1>14. ASSUME NEW f \in Files, ViewFile(f) PROVE CurrentInv'
  BY <1>14, ViewFileEffect
<1>15. ASSUME NEW f \in Files, CheckOut(f) PROVE CurrentInv'
  BY <1>15, CheckOutEffect
<1>16. ASSUME NEW c \in Texts, TypeText(c) PROVE CurrentInv'
  BY <1>16 DEF TypeText, Idle
<1>17. ASSUME NEW c \in Texts, EditTemp(c) PROVE CurrentInv'
  BY <1>17, EditTempEffect
<1>18. CASE Sweep
  BY <1>18, SweepEffect
<1>19. CASE Load
  BY <1>19, LoadEffect
<1>20. CASE Commit
  BY <1>20, CommitStepEffect, OpenFields DEF JobInv, OnOpen
<1>21. CASE Reopen
  BY <1>21, ReopenEffect
<1>22. CASE ReadEntry
  BY <1>22, ReadEntryEffect
<1>23. CASE CreateTemp
  BY <1>23, CreateTempEffect
<1>24. CASE Decrypt
  BY <1>24, DecryptEffect
<1>25. CASE Launch
  BY <1>25, LaunchEffect
<1>26. CASE HashTemp
  BY <1>26, HashTempEffect
<1>27. CASE WipeTemp
  BY <1>27, WipeTempEffect DEF JobInv, OnOpen
<1>28. CASE ApplyReport
  BY <1>28, ApplyReportEffect
<1>29. CASE DropClosedViews
  BY <1>29 DEF DropClosedViews
<1>30. CASE Shred
  BY <1>30, ShredEffect
<1>31. CASE Unlink
  BY <1>31, UnlinkEffect
<1>32. ASSUME NEW t \in Temps, ViewerCloses(t) PROVE CurrentInv'
  BY <1>32, ViewerClosesEffect
<1>33. CASE RequestClose
  BY <1>33, WipeAllTempsEffect DEF RequestClose
<1>34. CASE ReleaseClose
  BY <1>34 DEF ReleaseClose
<1>35. CASE ForcedClose
  BY <1>35 DEF ForcedClose
<1>36. CASE OnExit
  BY <1>36, WipeAllTempsEffect DEF OnExit
<1>37. CASE Finish
  BY <1>37 DEF Finish, ProcessGone
<1>38. CASE Kill
  BY <1>38 DEF Kill, ProcessGone
<1>39. CASE Start
  BY <1>39 DEF Start
<1>40. CASE UNCHANGED vars
  BY <1>40 DEF vars
<1> QED
  BY <1>1, <1>2, <1>3, <1>4, <1>5, <1>6, <1>7, <1>8, <1>9, <1>10, <1>11, <1>12, <1>13,
     <1>14, <1>15, <1>16, <1>17, <1>18, <1>19, <1>20, <1>21, <1>22, <1>23, <1>24,
     <1>25, <1>26, <1>27, <1>28, <1>29, <1>30, <1>31, <1>32, <1>33, <1>34, <1>35,
     <1>36, <1>37, <1>38, <1>39, <1>40 DEF Next, UserStep, JobStep, FrameStep,
     WiperStep, ExitStep


\* Every step keeps half-wiped bytes out of the vaults and the editors.
LEMMA CleanStep ==
    ASSUME TypeOK, ControlInv, CourseInv, JobInv, HomeInv, CleanInv, ShreddedInv,
       [Next]_vars
    PROVE  CleanInv'
<1>0. UNCHANGED faults
  BY DEF Next, vars
<1> USE <1>0 DEF CleanInv, Clean, sessionVars, tempVars
<1>1. CASE Unlock
  BY <1>1, UnlockEffect
<1>2. CASE Lock
  BY <1>2, WipeAllViewsEffect DEF Lock, Idle
<1>3. CASE Nav
  BY <1>3, WipeAllViewsEffect DEF Nav, Idle
<1>4. CASE CloseVault
  BY <1>4, WipeAllViewsEffect DEF CloseVault, Browsing, Idle, ResetBrowse
<1>5. CASE CheckIn
  BY <1>5, CheckInEffect
<1>6. CASE Discard
  BY <1>6, DiscardEffect
<1>7. CASE SaveTextFile
  BY <1>7, SaveTextFileEffect
<1>8. CASE CloseTextEditor
  BY <1>8 DEF CloseTextEditor, Idle
<1>9. ASSUME NEW v \in Vaults, OpenVault(v) PROVE CleanInv'
  BY <1>9, OpenVaultEffect
<1>10. ASSUME NEW v \in Vaults, DeleteVault(v) PROVE CleanInv'
  BY <1>10, DeleteVaultEffect
<1>11. ASSUME NEW f \in Files, NewFile(f) PROVE CleanInv'
  BY <1>11, NewFileEffect
<1>12. ASSUME NEW f \in Files, QuickEdit(f) PROVE CleanInv'
  BY <1>12, QuickEditEffect
<1>13. ASSUME NEW f \in Files, Trash(f) PROVE CleanInv'
  BY <1>13, TrashEffect
<1>14. ASSUME NEW f \in Files, ViewFile(f) PROVE CleanInv'
  BY <1>14, ViewFileEffect
<1>15. ASSUME NEW f \in Files, CheckOut(f) PROVE CleanInv'
  BY <1>15, CheckOutEffect
<1>16. ASSUME NEW c \in Texts, TypeText(c) PROVE CleanInv'
  <2>1. editor \in Edits /\ editor' = [editor EXCEPT !.text = c] /\ c # "garbage"
    BY <1>16, SessionAssumption DEF TypeText, TypeOK
  <2>2. editor'.text = c
    BY <2>1 DEF Edits
  <2> QED
    BY <1>16, <2>1, <2>2 DEF TypeText
<1>17. ASSUME NEW c \in Texts, EditTemp(c) PROVE CleanInv'
  BY <1>17, EditTempEffect
<1>18. CASE Sweep
  BY <1>18, SweepEffect
<1>19. CASE Load
  BY <1>19, LoadEffect
<1>20. CASE Commit
  <2>1. ASSUME job.kind # "delete", vault[job.id] = job.reader PROVE Stored # "garbage"
    <3>1. CASE job.kind = "check_in"
      <4>1. checkout # None /\ checkout.temp = job.temp /\ checkout.id = job.id
            /\ job.reader = open.reader /\ job # None /\ job.pc = "commit"
        BY <1>20, <3>1, CommitStepEffect DEF JobInv, OnOpen, HomeInv
      <4>2. temps[job.temp] # "garbage"
        BY <2>1, <4>1 DEF ShreddedInv, At
      <4> QED
        BY <3>1, <4>2 DEF Stored
    <3>2. CASE job.kind # "check_in"
      BY <1>20, <3>2, CommitStepEffect DEF Stored
    <3> QED
      BY <3>1, <3>2
  <2>2. ASSUME NEW v \in Vaults, vault'[v] # None, NEW f \in Files PROVE vault'[v].files[f] # "garbage"
    <3>1. CASE vault'[v] = vault[v]
      BY <2>2, <3>1
    <3>2. CASE vault'[v] # vault[v] /\ job.kind # "delete"
      BY <1>20, <2>1, <2>2, <3>2, CommitStepEffect
    <3>3. CASE v = job.id /\ job.kind = "delete"
      BY <1>20, <2>2, <3>3, CommitStepEffect
    <3> QED
      BY <1>20, <3>1, <3>2, <3>3, CommitStepEffect
  <2> QED
    BY <1>20, <2>2, CommitStepEffect
<1>21. CASE Reopen
  BY <1>21, ReopenEffect
<1>22. CASE ReadEntry
  BY <1>22, ReadEntryEffect, JobFields DEF JobInv, OnOpen
<1>23. CASE CreateTemp
  BY <1>23, CreateTempEffect
<1>24. CASE Decrypt
  BY <1>24, DecryptEffect
<1>25. CASE Launch
  BY <1>25, LaunchEffect
<1>26. CASE HashTemp
  BY <1>26, HashTempEffect
<1>27. CASE WipeTemp
  BY <1>27, WipeTempEffect
<1>28. CASE ApplyReport
  BY <1>28, ApplyReportEffect, SessionAssumption DEF JobInv, OnOpen
<1>29. CASE DropClosedViews
  BY <1>29 DEF DropClosedViews
<1>30. CASE Shred
  BY <1>30, ShredEffect
<1>31. CASE Unlink
  BY <1>31, UnlinkEffect
<1>32. ASSUME NEW t \in Temps, ViewerCloses(t) PROVE CleanInv'
  BY <1>32, ViewerClosesEffect
<1>33. CASE RequestClose
  BY <1>33, WipeAllTempsEffect DEF RequestClose
<1>34. CASE ReleaseClose
  BY <1>34 DEF ReleaseClose
<1>35. CASE ForcedClose
  BY <1>35 DEF ForcedClose
<1>36. CASE OnExit
  BY <1>36, WipeAllTempsEffect DEF OnExit
<1>37. CASE Finish
  BY <1>37 DEF Finish, ProcessGone
<1>38. CASE Kill
  BY <1>38 DEF Kill, ProcessGone
<1>39. CASE Start
  BY <1>39 DEF Start
<1>40. CASE UNCHANGED vars
  BY <1>40 DEF vars
<1> QED
  BY <1>1, <1>2, <1>3, <1>4, <1>5, <1>6, <1>7, <1>8, <1>9, <1>10, <1>11, <1>12, <1>13,
     <1>14, <1>15, <1>16, <1>17, <1>18, <1>19, <1>20, <1>21, <1>22, <1>23, <1>24,
     <1>25, <1>26, <1>27, <1>28, <1>29, <1>30, <1>31, <1>32, <1>33, <1>34, <1>35,
     <1>36, <1>37, <1>38, <1>39, <1>40 DEF Next, UserStep, JobStep, FrameStep,
     WiperStep, ExitStep

\* Every step keeps the wiper away from the file of a check-out.
LEMMA ApartStep ==
    ASSUME TypeOK, ControlInv, CourseInv, JobInv, ApartInv, CleanInv, [Next]_vars
    PROVE  ApartInv'
<1>0. UNCHANGED faults
  BY DEF Next, vars
<1> USE <1>0 DEF ApartInv, sessionVars, tempVars
<1>1. CASE Unlock
  BY <1>1, UnlockEffect
<1>2. CASE Lock
  BY <1>2, WipeAllViewsEffect DEF Lock, Idle
<1>3. CASE Nav
  BY <1>3, WipeAllViewsEffect DEF Nav, Idle
<1>4. CASE CloseVault
  BY <1>4, WipeAllViewsEffect DEF CloseVault, Browsing, Idle, ResetBrowse
<1>5. CASE CheckIn
  BY <1>5, CheckInEffect
<1>6. CASE Discard
  BY <1>6, DiscardEffect
<1>7. CASE SaveTextFile
  BY <1>7, SaveTextFileEffect
<1>8. CASE CloseTextEditor
  BY <1>8 DEF CloseTextEditor, Idle
<1>9. ASSUME NEW v \in Vaults, OpenVault(v) PROVE ApartInv'
  BY <1>9, OpenVaultEffect
<1>10. ASSUME NEW v \in Vaults, DeleteVault(v) PROVE ApartInv'
  BY <1>10, DeleteVaultEffect
<1>11. ASSUME NEW f \in Files, NewFile(f) PROVE ApartInv'
  BY <1>11, NewFileEffect
<1>12. ASSUME NEW f \in Files, QuickEdit(f) PROVE ApartInv'
  BY <1>12, QuickEditEffect
<1>13. ASSUME NEW f \in Files, Trash(f) PROVE ApartInv'
  BY <1>13, TrashEffect
<1>14. ASSUME NEW f \in Files, ViewFile(f) PROVE ApartInv'
  BY <1>14, ViewFileEffect
<1>15. ASSUME NEW f \in Files, CheckOut(f) PROVE ApartInv'
  BY <1>15, CheckOutEffect
<1>16. ASSUME NEW c \in Texts, TypeText(c) PROVE ApartInv'
  BY <1>16 DEF TypeText, Idle
<1>17. ASSUME NEW c \in Texts, EditTemp(c) PROVE ApartInv'
  BY <1>17, EditTempEffect DEF JobInv
<1>18. CASE Sweep
  BY <1>18, SweepEffect
<1>19. CASE Load
  BY <1>19, LoadEffect
<1>20. CASE Commit
  BY <1>20, CommitStepEffect
<1>21. CASE Reopen
  BY <1>21, ReopenEffect DEF Commits
<1>22. CASE ReadEntry
  BY <1>22, ReadEntryEffect
<1>23. CASE CreateTemp
  BY <1>23, CreateTempEffect
<1>24. CASE Decrypt
  BY <1>24, DecryptEffect DEF JobInv, OnOpen, CleanInv, Clean
<1>25. CASE Launch
  BY <1>25, LaunchEffect DEF JobInv
<1>26. CASE HashTemp
  BY <1>26, HashTempEffect
<1>27. CASE WipeTemp
  BY <1>27, WipeTempEffect
<1>28. CASE ApplyReport
  BY <1>28, ApplyReportEffect, SessionAssumption DEF JobInv
<1>29. CASE DropClosedViews
  BY <1>29 DEF DropClosedViews
<1>30. CASE Shred
  BY <1>30, ShredEffect, JobFields, SessionAssumption
<1>31. CASE Unlink
  BY <1>31, UnlinkEffect, JobFields
<1>32. ASSUME NEW t \in Temps, ViewerCloses(t) PROVE ApartInv'
  BY <1>32, ViewerClosesEffect
<1>33. CASE RequestClose
  BY <1>33, WipeAllTempsEffect DEF RequestClose
<1>34. CASE ReleaseClose
  BY <1>34 DEF ReleaseClose
<1>35. CASE ForcedClose
  BY <1>35 DEF ForcedClose
<1>36. CASE OnExit
  BY <1>36, WipeAllTempsEffect DEF OnExit
<1>37. CASE Finish
  BY <1>37 DEF Finish, ProcessGone
<1>38. CASE Kill
  BY <1>38 DEF Kill, ProcessGone
<1>39. CASE Start
  BY <1>39 DEF Start
<1>40. CASE UNCHANGED vars
  BY <1>40 DEF vars
<1> QED
  BY <1>1, <1>2, <1>3, <1>4, <1>5, <1>6, <1>7, <1>8, <1>9, <1>10, <1>11, <1>12, <1>13,
     <1>14, <1>15, <1>16, <1>17, <1>18, <1>19, <1>20, <1>21, <1>22, <1>23, <1>24,
     <1>25, <1>26, <1>27, <1>28, <1>29, <1>30, <1>31, <1>32, <1>33, <1>34, <1>35,
     <1>36, <1>37, <1>38, <1>39, <1>40 DEF Next, UserStep, JobStep, FrameStep,
     WiperStep, ExitStep

\* Every step keeps a shredded check-out from being stored.
LEMMA ShreddedStep ==
    ASSUME TypeOK, ControlInv, CourseInv, JobInv, HomeInv, ApartInv, CleanInv,
       ShreddedInv, [Next]_vars
    PROVE  ShreddedInv'
<1>0. UNCHANGED faults
  BY DEF Next, vars
<1> USE <1>0 DEF ShreddedInv, At, sessionVars, tempVars
<1>1. CASE Unlock
  BY <1>1, UnlockEffect
<1>2. CASE Lock
  BY <1>2, WipeAllViewsEffect DEF Lock, Idle
<1>3. CASE Nav
  BY <1>3, WipeAllViewsEffect DEF Nav, Idle
<1>4. CASE CloseVault
  BY <1>4, WipeAllViewsEffect DEF CloseVault, Browsing, Idle, ResetBrowse
<1>5. CASE CheckIn
  BY <1>5, CheckInEffect
<1>6. CASE Discard
  BY <1>6, DiscardEffect
<1>7. CASE SaveTextFile
  BY <1>7, SaveTextFileEffect
<1>8. CASE CloseTextEditor
  BY <1>8 DEF CloseTextEditor, Idle
<1>9. ASSUME NEW v \in Vaults, OpenVault(v) PROVE ShreddedInv'
  BY <1>9, OpenVaultEffect
<1>10. ASSUME NEW v \in Vaults, DeleteVault(v) PROVE ShreddedInv'
  BY <1>10, DeleteVaultEffect
<1>11. ASSUME NEW f \in Files, NewFile(f) PROVE ShreddedInv'
  BY <1>11, NewFileEffect
<1>12. ASSUME NEW f \in Files, QuickEdit(f) PROVE ShreddedInv'
  BY <1>12, QuickEditEffect
<1>13. ASSUME NEW f \in Files, Trash(f) PROVE ShreddedInv'
  BY <1>13, TrashEffect
<1>14. ASSUME NEW f \in Files, ViewFile(f) PROVE ShreddedInv'
  BY <1>14, ViewFileEffect
<1>15. ASSUME NEW f \in Files, CheckOut(f) PROVE ShreddedInv'
  BY <1>15, CheckOutEffect
<1>16. ASSUME NEW c \in Texts, TypeText(c) PROVE ShreddedInv'
  BY <1>16 DEF TypeText, Idle
<1>17. ASSUME NEW c \in Texts, EditTemp(c) PROVE ShreddedInv'
  BY <1>17, EditTempEffect
<1>18. CASE Sweep
  BY <1>18, SweepEffect DEF JobInv
<1>19. CASE Load
  BY <1>19, LoadEffect
<1>20. CASE Commit
  BY <1>20, CommitStepEffect, OpenFields DEF JobInv, OnOpen, HomeInv, Commits
<1>21. CASE Reopen
  BY <1>21, ReopenEffect
<1>22. CASE ReadEntry
  BY <1>22, ReadEntryEffect
<1>23. CASE CreateTemp
  BY <1>23, CreateTempEffect DEF JobInv
<1>24. CASE Decrypt
  BY <1>24, DecryptEffect DEF JobInv
<1>25. CASE Launch
  BY <1>25, LaunchEffect
<1>26. CASE HashTemp
  BY <1>26, HashTempEffect
<1>27. CASE WipeTemp
  BY <1>27, WipeTempEffect DEF JobInv, OnOpen, HomeInv
<1>28. CASE ApplyReport
  BY <1>28, ApplyReportEffect DEF JobInv, ApartInv
<1>29. CASE DropClosedViews
  BY <1>29 DEF DropClosedViews
<1>30. CASE Shred
  BY <1>30, ShredEffect, OpenFields DEF ApartInv
<1>31. CASE Unlink
  BY <1>31, UnlinkEffect, OpenFields DEF ApartInv
<1>32. ASSUME NEW t \in Temps, ViewerCloses(t) PROVE ShreddedInv'
  BY <1>32, ViewerClosesEffect
<1>33. CASE RequestClose
  BY <1>33, WipeAllTempsEffect DEF RequestClose
<1>34. CASE ReleaseClose
  BY <1>34 DEF ReleaseClose
<1>35. CASE ForcedClose
  BY <1>35 DEF ForcedClose
<1>36. CASE OnExit
  BY <1>36, WipeAllTempsEffect DEF OnExit
<1>37. CASE Finish
  BY <1>37 DEF Finish, ProcessGone
<1>38. CASE Kill
  BY <1>38 DEF Kill, ProcessGone
<1>39. CASE Start
  BY <1>39 DEF Start
<1>40. CASE UNCHANGED vars
  BY <1>40 DEF vars
<1> QED
  BY <1>1, <1>2, <1>3, <1>4, <1>5, <1>6, <1>7, <1>8, <1>9, <1>10, <1>11, <1>12, <1>13,
     <1>14, <1>15, <1>16, <1>17, <1>18, <1>19, <1>20, <1>21, <1>22, <1>23, <1>24,
     <1>25, <1>26, <1>27, <1>28, <1>29, <1>30, <1>31, <1>32, <1>33, <1>34, <1>35,
     <1>36, <1>37, <1>38, <1>39, <1>40 DEF Next, UserStep, JobStep, FrameStep,
     WiperStep, ExitStep

\* Every step keeps each plaintext file with an owner.
LEMMA OwnedStep ==
    ASSUME TypeOK, ControlInv, CourseInv, JobInv, OwnedInv, [Next]_vars
    PROVE  OwnedInv'
<1>0. UNCHANGED faults
  BY DEF Next, vars
<1> USE <1>0 DEF OwnedInv, PlaintextOwned, Held, Wiped, sessionVars, tempVars
<1>1. CASE Unlock
  BY <1>1, UnlockEffect
<1>2. CASE Lock
  BY <1>2, WipeAllViewsEffect DEF Lock, Idle
<1>3. CASE Nav
  BY <1>3, WipeAllViewsEffect DEF Nav, Idle
<1>4. CASE CloseVault
  BY <1>4, WipeAllViewsEffect DEF CloseVault, Browsing, Idle, ResetBrowse
<1>5. CASE CheckIn
  BY <1>5, CheckInEffect
<1>6. CASE Discard
  BY <1>6, DiscardEffect
<1>7. CASE SaveTextFile
  BY <1>7, SaveTextFileEffect
<1>8. CASE CloseTextEditor
  BY <1>8 DEF CloseTextEditor, Idle
<1>9. ASSUME NEW v \in Vaults, OpenVault(v) PROVE OwnedInv'
  BY <1>9, OpenVaultEffect
<1>10. ASSUME NEW v \in Vaults, DeleteVault(v) PROVE OwnedInv'
  BY <1>10, DeleteVaultEffect
<1>11. ASSUME NEW f \in Files, NewFile(f) PROVE OwnedInv'
  BY <1>11, NewFileEffect
<1>12. ASSUME NEW f \in Files, QuickEdit(f) PROVE OwnedInv'
  BY <1>12, QuickEditEffect
<1>13. ASSUME NEW f \in Files, Trash(f) PROVE OwnedInv'
  BY <1>13, TrashEffect
<1>14. ASSUME NEW f \in Files, ViewFile(f) PROVE OwnedInv'
  BY <1>14, ViewFileEffect
<1>15. ASSUME NEW f \in Files, CheckOut(f) PROVE OwnedInv'
  BY <1>15, CheckOutEffect
<1>16. ASSUME NEW c \in Texts, TypeText(c) PROVE OwnedInv'
  BY <1>16 DEF TypeText, Idle
<1>17. ASSUME NEW c \in Texts, EditTemp(c) PROVE OwnedInv'
  <2>1. \A t \in Temps : Wiped(t) => Wiped(t)'
    BY <1>17, EditTempEffect
  <2>2. job # None /\ job.kind \in {"check_in", "discard"} => job.temp \in Temps
    BY OpenFields DEF JobInv
  <2>3. PlaintextOwned'
    BY <1>17, EditTempEffect
  <2>4. UNCHANGED job
    BY <1>17, EditTempEffect
  <2> HIDE DEF PlaintextOwned, Wiped
  <2> QED
    BY <2>1, <2>2, <2>3, <2>4, JobFields
<1>18. CASE Sweep
  BY <1>18, SweepEffect
<1>19. CASE Load
  BY <1>19, LoadEffect
<1>20. CASE Commit
  BY <1>20, CommitStepEffect DEF Commits
<1>21. CASE Reopen
  BY <1>21, ReopenEffect DEF Commits
<1>22. CASE ReadEntry
  BY <1>22, ReadEntryEffect
<1>23. CASE CreateTemp
  BY <1>23, CreateTempEffect, SessionAssumption DEF JobInv
<1>24. CASE Decrypt
  BY <1>24, DecryptEffect
<1>25. CASE Launch
  BY <1>25, LaunchEffect
<1>26. CASE HashTemp
  BY <1>26, HashTempEffect
<1>27. CASE WipeTemp
  BY <1>27, WipeTempEffect
<1>28. CASE ApplyReport
  <2>1. job # None /\ job' = None /\ UNCHANGED <<queue, temps, old, unwiped>>
        /\ (screen' = screen \/ (screen' = "Unlocked" /\ job.pc = "ok" /\ job.kind = "unlock"))
    BY <1>28, ApplyReportEffect
  <2>2. ASSUME NEW t \in Temps, t \in Held, ~Wiped(t) PROVE t \in Held'
    <3>1. CASE t = job.temp
      <4>1. job.kind \in {"view", "check_out", "check_in", "discard"}
        BY <2>1, <3>1, SessionAssumption DEF JobInv
      <4>2. CASE job.kind \in {"view", "check_out"}
        BY <1>28, <2>1, <2>2, <3>1, <4>2, ApplyReportEffect, SessionAssumption
      <4>3. CASE job.kind \in {"check_in", "discard"}
        <5>1. checkout # None /\ checkout.temp = t
          BY <2>1, <3>1, <4>3 DEF JobInv
        <5>2. job.pc # "ok"
          BY <2>1, <2>2, <3>1, <4>3
        <5> QED
          BY <1>28, <5>1, <5>2, ApplyReportEffect
      <4> QED
        BY <4>1, <4>2, <4>3
    <3>2. CASE t \in views \cup ToSet(queue)
      BY <1>28, <3>2, ApplyReportEffect
    <3>3. CASE checkout # None /\ checkout.temp = t
      <4>1. job.kind \in {"check_in", "discard"} /\ job.temp = t
        BY <2>1, <3>3 DEF JobInv
      <4> QED
        BY <3>1, <4>1
    <3> QED
      BY <2>1, <2>2, <3>1, <3>2, <3>3
  <2>3. screen' = "Unlocked" /\ screen # "Unlocked" => old = {}
    BY <2>1 DEF ControlInv, At
  <2>4. ASSUME NEW t \in Temps, screen' # "Down", temps'[t] # "absent", t \notin unwiped'
        PROVE  t \in Held' \/ (screen' = "Unlock" /\ t \in old')
    <3>1. screen # "Down" /\ ~Wiped(t)
      BY <2>1, <2>4 DEF ControlInv
    <3> QED
      BY <2>1, <2>2, <2>3, <2>4, <3>1
  <2> QED
    BY <2>1, <2>4
<1>29. CASE DropClosedViews
  BY <1>29 DEF DropClosedViews
<1>30. CASE Shred
  <2>1. ASSUME NEW t \in Temps, screen # "Down", temps'[t] # "absent", t \notin unwiped'
        PROVE  t \in Held' \/ (screen = "Unlock" /\ t \in old)
    BY <1>30, <2>1, ShredEffect
  <2>2. ASSUME NEW t \in Temps, Wiped(t) PROVE Wiped(t)'
    BY <1>30, <2>2, ShredEffect
  <2>3. UNCHANGED <<job, screen, old>>
    BY <1>30, ShredEffect
  <2>4. job # None /\ job.kind \in {"check_in", "discard"} => job.temp \in Temps
    BY OpenFields DEF JobInv
  <2>5. PlaintextOwned'
    BY <2>1, <2>3
  <2> HIDE DEF PlaintextOwned, Wiped
  <2> QED
    BY <2>2, <2>3, <2>4, <2>5, JobFields
<1>31. CASE Unlink
  <2>1. ASSUME NEW t \in Temps, screen # "Down", temps'[t] # "absent", t \notin unwiped'
        PROVE  t \in Held' \/ (screen = "Unlock" /\ t \in old)
    BY <1>31, <2>1, UnlinkEffect
  <2>2. ASSUME NEW t \in Temps, Wiped(t) PROVE Wiped(t)'
    BY <1>31, <2>2, UnlinkEffect
  <2>3. UNCHANGED <<job, screen, old>>
    BY <1>31, UnlinkEffect
  <2>4. job # None /\ job.kind \in {"check_in", "discard"} => job.temp \in Temps
    BY OpenFields DEF JobInv
  <2>5. PlaintextOwned'
    BY <2>1, <2>3
  <2> HIDE DEF PlaintextOwned, Wiped
  <2> QED
    BY <2>2, <2>3, <2>4, <2>5, JobFields
<1>32. ASSUME NEW t \in Temps, ViewerCloses(t) PROVE OwnedInv'
  BY <1>32, ViewerClosesEffect
<1>33. CASE RequestClose
  BY <1>33, WipeAllTempsEffect DEF RequestClose
<1>34. CASE ReleaseClose
  BY <1>34 DEF ReleaseClose
<1>35. CASE ForcedClose
  BY <1>35 DEF ForcedClose
<1>36. CASE OnExit
  BY <1>36, WipeAllTempsEffect DEF OnExit
<1>37. CASE Finish
  BY <1>37 DEF Finish, ProcessGone
<1>38. CASE Kill
  BY <1>38 DEF Kill, ProcessGone
<1>39. CASE Start
  BY <1>39 DEF Start
<1>40. CASE UNCHANGED vars
  BY <1>40 DEF vars
<1> QED
  BY <1>1, <1>2, <1>3, <1>4, <1>5, <1>6, <1>7, <1>8, <1>9, <1>10, <1>11, <1>12, <1>13,
     <1>14, <1>15, <1>16, <1>17, <1>18, <1>19, <1>20, <1>21, <1>22, <1>23, <1>24,
     <1>25, <1>26, <1>27, <1>28, <1>29, <1>30, <1>31, <1>32, <1>33, <1>34, <1>35,
     <1>36, <1>37, <1>38, <1>39, <1>40 DEF Next, UserStep, JobStep, FrameStep,
     WiperStep, ExitStep

\* Every step keeps a clean exit clean.
LEMMA CleanExitStep ==
    ASSUME TypeOK, ControlInv, CourseInv, JobInv, OwnedInv, CleanExit, [Next]_vars
    PROVE  CleanExit'
<1>0. UNCHANGED faults
  BY DEF Next, vars
<1> USE <1>0 DEF CleanExit, sessionVars, tempVars
<1>1. CASE Unlock
  BY <1>1, UnlockEffect
<1>2. CASE Lock
  BY <1>2, WipeAllViewsEffect DEF Lock, Idle
<1>3. CASE Nav
  BY <1>3, WipeAllViewsEffect DEF Nav, Idle
<1>4. CASE CloseVault
  BY <1>4, WipeAllViewsEffect DEF CloseVault, Browsing, Idle, ResetBrowse
<1>5. CASE CheckIn
  BY <1>5, CheckInEffect
<1>6. CASE Discard
  BY <1>6, DiscardEffect
<1>7. CASE SaveTextFile
  BY <1>7, SaveTextFileEffect
<1>8. CASE CloseTextEditor
  BY <1>8 DEF CloseTextEditor, Idle
<1>9. ASSUME NEW v \in Vaults, OpenVault(v) PROVE CleanExit'
  BY <1>9, OpenVaultEffect
<1>10. ASSUME NEW v \in Vaults, DeleteVault(v) PROVE CleanExit'
  BY <1>10, DeleteVaultEffect
<1>11. ASSUME NEW f \in Files, NewFile(f) PROVE CleanExit'
  BY <1>11, NewFileEffect
<1>12. ASSUME NEW f \in Files, QuickEdit(f) PROVE CleanExit'
  BY <1>12, QuickEditEffect
<1>13. ASSUME NEW f \in Files, Trash(f) PROVE CleanExit'
  BY <1>13, TrashEffect
<1>14. ASSUME NEW f \in Files, ViewFile(f) PROVE CleanExit'
  BY <1>14, ViewFileEffect
<1>15. ASSUME NEW f \in Files, CheckOut(f) PROVE CleanExit'
  BY <1>15, CheckOutEffect
<1>16. ASSUME NEW c \in Texts, TypeText(c) PROVE CleanExit'
  BY <1>16 DEF TypeText, Idle
<1>17. ASSUME NEW c \in Texts, EditTemp(c) PROVE CleanExit'
  BY <1>17, EditTempEffect DEF ControlInv
<1>18. CASE Sweep
  BY <1>18, SweepEffect
<1>19. CASE Load
  BY <1>19, LoadEffect
<1>20. CASE Commit
  BY <1>20, CommitStepEffect
<1>21. CASE Reopen
  BY <1>21, ReopenEffect
<1>22. CASE ReadEntry
  BY <1>22, ReadEntryEffect
<1>23. CASE CreateTemp
  BY <1>23, CreateTempEffect DEF ControlInv
<1>24. CASE Decrypt
  BY <1>24, DecryptEffect DEF ControlInv
<1>25. CASE Launch
  BY <1>25, LaunchEffect
<1>26. CASE HashTemp
  BY <1>26, HashTempEffect
<1>27. CASE WipeTemp
  BY <1>27, WipeTempEffect
<1>28. CASE ApplyReport
  BY <1>28, ApplyReportEffect
<1>29. CASE DropClosedViews
  BY <1>29 DEF DropClosedViews
<1>30. CASE Shred
  BY <1>30, ShredEffect
<1>31. CASE Unlink
  BY <1>31, UnlinkEffect
<1>32. ASSUME NEW t \in Temps, ViewerCloses(t) PROVE CleanExit'
  BY <1>32, ViewerClosesEffect
<1>33. CASE RequestClose
  BY <1>33, WipeAllTempsEffect DEF RequestClose
<1>34. CASE ReleaseClose
  BY <1>34 DEF ReleaseClose
<1>35. CASE ForcedClose
  BY <1>35 DEF ForcedClose
<1>36. CASE OnExit
  BY <1>36, WipeAllTempsEffect DEF OnExit
<1>37. CASE Finish
  <2>1. ASSUME ended' = "clean", NEW t \in Temps \ old, temps[t] # "absent"
        PROVE  t \in unwiped
    <3>1. queue = <<>> /\ job = None /\ exit = "finishing"
      BY <1>37, <2>1 DEF Finish
    <3>2. screen # "Down" /\ views = {} /\ checkout = None
      BY <3>1 DEF ControlInv
    <3>3. ToSet(queue) = {}
      BY <3>1 DEF ToSet
    <3>4. Held = {}
      BY <3>1, <3>2, <3>3 DEF Held
    <3> QED
      BY <2>1, <3>2, <3>4 DEF OwnedInv, PlaintextOwned
  <2> QED
    BY <1>37, <2>1 DEF Finish
<1>38. CASE Kill
  BY <1>38 DEF Kill, ProcessGone
<1>39. CASE Start
  BY <1>39 DEF Start
<1>40. CASE UNCHANGED vars
  BY <1>40 DEF vars
<1> QED
  BY <1>1, <1>2, <1>3, <1>4, <1>5, <1>6, <1>7, <1>8, <1>9, <1>10, <1>11, <1>12, <1>13,
     <1>14, <1>15, <1>16, <1>17, <1>18, <1>19, <1>20, <1>21, <1>22, <1>23, <1>24,
     <1>25, <1>26, <1>27, <1>28, <1>29, <1>30, <1>31, <1>32, <1>33, <1>34, <1>35,
     <1>36, <1>37, <1>38, <1>39, <1>40 DEF Next, UserStep, JobStep, FrameStep,
     WiperStep, ExitStep


-------------------------------------------------------------------------------
(* The theorems.                                                              *)

\* Every reachable state of every session satisfies the inductive invariant
\* (app.rs: update, dispatch, apply, the spawn_* jobs, wipe_all_temps, on_exit).
THEOREM Invariance == Spec => []IInv
<1>1. Init => IInv
  BY InitInv
<1>2. IInv /\ [Next]_vars => IInv'
  BY TypeStep, ControlStep, CourseStep, JobInvStep, HomeStep, CurrentStep, CleanStep,
     ApartStep, ShreddedStep, OwnedStep, CleanExitStep DEF IInv
<1> QED
  BY <1>1, <1>2, PTL DEF Spec

\* However the user, the job, the wiper, the watchers and the close interleave, and
\* whatever fails, no plaintext file is forgotten: unless a wipe of it has failed,
\* somebody who will wipe it knows it (spawn_view, spawn_check_out, spawn_check_in,
\* wipe_all_views, wipe_all_temps, finish_unlock).
THEOREM PlaintextHasAnOwner == Spec => []PlaintextOwned
<1>1. IInv => PlaintextOwned
  BY DEF IInv, OwnedInv
<1> QED
  BY <1>1, Invariance, PTL

\* A process that ends with no job running and an empty wiper queue leaves none of its
\* plaintext behind, on every path to the exit (poll_exit_wipe, on_exit).
THEOREM CleanExitsLeaveNothing == Spec => []CleanExit
<1>1. IInv => CleanExit
  BY DEF IInv
<1> QED
  BY <1>1, Invariance, PTL

\* The bytes of a half-wiped file never reach a vault, even when a check-in is retried
\* after a wipe of its file failed (spawn_check_in, mutate_vault, wipe_all_temps).
THEOREM ShreddedBytesAreNeverStored == Spec => []NeverStoresShredded
<1>1. IInv => NeverStoresShredded
  BY DEF IInv, CleanInv, Clean, ShreddedInv, NeverStoresShredded
<1> QED
  BY <1>1, Invariance, PTL

\* While a file is checked out or edited its vault stays open and exists: no Lock, Nav,
\* CloseVault, deletion or late report takes it away (checkout_active, apply).
THEOREM EditsKeepTheirVault == Spec => []EditsStayHome
<1>1. IInv => EditsStayHome
  BY DEF IInv, HomeInv, EditsStayHome
<1> QED
  BY <1>1, Invariance, PTL

\* When no save fails, an idle session shows the vault that is on disk: every job that
\* commits hands its new reader back (reopen_after_save, apply).
THEOREM IdleBrowserIsCurrent == Spec => []BrowserCurrent
<1>1. IInv => BrowserCurrent
  BY DEF IInv, CurrentInv, Idle, BrowserCurrent
<1> QED
  BY <1>1, Invariance, PTL
==================================================================================
