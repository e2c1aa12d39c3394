------------------------------- MODULE Transfer -------------------------------
(***************************************************************************)
(* Direct transfers (filesec-gui/src/net, filesec-core/src/transport.rs    *)
(* and the transfer part of the window): one listening session, the        *)
(* senders that dial it and the user who decides.                          *)
(*                                                                         *)
(* The accept loop hands every connection to a worker thread that holds    *)
(* one of a few handshake slots until the peer is authenticated and        *)
(* admitted; one admitted worker at a time owns the transfer.  The user's  *)
(* commands travel window -> accept loop -> private channel of the owner;  *)
(* the workers' events travel back through one queue.  A connection is a   *)
(* stream of frames: a broken or silent one shows as a failing read, and a *)
(* frame lost or repeated inside it as a record that does not open.        *)
(*                                                                         *)
(* A second listening session shares nothing with the first (fresh secret, *)
(* channels and tables), so one session is modelled.  The expected sender  *)
(* is chosen among the verified contacts of the same contact book the      *)
(* workers later consult, so the unverified-sender refusal cannot be met.  *)
(***************************************************************************)
EXTENDS Naturals, Sequences, SequencesExt, FiniteSets

CONSTANTS
    Conns,          \* connection attempts, each by one run of the sender
    Callers,        \* connection -> who may dial: "expected", another contact ("other")
                    \* or somebody without the transfer code ("nocode")
    Address,        \* connection -> source address
    Size,           \* connection -> data records in its container
    MAX_TRANSFER_SIZE, MAX_CONCURRENT_HANDSHAKES, MAX_HELLOS_PER_SECRET,
    FAILURE_THRESHOLD,
    Flaky,          \* connections on which the network may lose or repeat frames
    MaxFaults,      \* ... and how many of them
    None            \* no connection

ASSUME TransferAssumption ==
    /\ None \notin Conns
    /\ Callers \in [Conns -> SUBSET {"expected", "other", "nocode"}]
    /\ Size \in [Conns -> Nat \ {0}]
    /\ MAX_CONCURRENT_HANDSHAKES > 0 /\ FAILURE_THRESHOLD > 0

VARIABLES
    listener,       \* "off", "starting", "up" or "down" (the stop flag is set)
    worker,         \* connection -> where its worker thread is
    active,         \* transfer_active and active_cmd: the worker that owns the transfer
    channel,        \* commands in the owner's private channel
    got,            \* connection -> data records written to its temp file
    answered,       \* the replay cache: connections whose Hello was answered
    failures,       \* address -> failed handshakes on record
    blocked,        \* addresses refused until their backoff is over
    stored,         \* connections whose vault was imported
    commands,       \* window -> accept loop
    events,         \* workers -> window
    window,         \* [on, offer]: a transfer is shown, and whose offer
    caller,         \* connection -> who dials
    sender,         \* connection -> where its sender is
    sent,           \* connection -> data records written
    up,             \* connection -> frames on their way to the receiver
    down,           \* connection -> the answer on its way to the sender
    faults,         \* frames lost or repeated so far
    unfinished      \* history: connections that had more to receive when the session ended

listenVars == <<listener, active, channel, commands, unfinished>>
workerVars == <<worker, got, answered, failures, blocked, stored>>
windowVars == <<events, window>>
senderVars == <<caller, sender, sent>>
wireVars   == <<up, down>>
vars == <<listenVars, workerVars, windowVars, senderVars, wireVars, faults>>

Addresses == {Address[c] : c \in Conns}

\* A worker that holds a handshake slot.
Handshaking == {c \in Conns : worker[c] \in {"hello", "confirm"}}

\* A worker past its admission; the guard is released when it ends.
Transferring == {"offer", "decide", "receive", "reading", "import"}

Frame(type, n) == [type |-> type, n |-> n]

Init ==
    /\ listener = "off" /\ active = None /\ channel = <<>> /\ commands = <<>>
    /\ unfinished = {}
    /\ worker = [c \in Conns |-> "none"]
    /\ got = [c \in Conns |-> <<>>]
    /\ answered = {} /\ blocked = {} /\ stored = {}
    /\ failures = [a \in Addresses |-> 0]
    /\ events = <<>> /\ window = [on |-> FALSE, offer |-> None]
    /\ caller \in [Conns -> {"expected", "other", "nocode"}]
    /\ \A c \in Conns : caller[c] \in Callers[c]
    /\ sender = [c \in Conns |-> "idle"]
    /\ sent = [c \in Conns |-> 0]
    /\ up = [c \in Conns |-> <<>>]
    /\ down = [c \in Conns |-> "nothing"]
    /\ faults = 0

-------------------------------------------------------------------------------
(* The window.                                                               *)

\* Emitter::emit: nobody reads the events of a session that was stopped.
Emit(batch) == events' = IF window.on THEN events \o batch ELSE events

\* start_listen: the form is accepted only while no transfer is shown.
StartListen ==
    /\ listener = "off"
    /\ listener' = "starting"
    /\ window' = [on |-> TRUE, offer |-> None]
    /\ UNCHANGED <<active, channel, commands, unfinished, workerVars, events, senderVars, wireVars, faults>>

\* apply_net_event: an error of any connection takes the shown offer away.
apply_net_event(w, event) ==
    CASE event.type = "offer"    -> [w EXCEPT !.offer = event.of]
      [] event.type = "error"    -> [w EXCEPT !.offer = None]
      [] event.type = "received" -> [w EXCEPT !.offer = None]
      [] event.type = "stopped"  -> [on |-> FALSE, offer |-> None]

\* poll_transfer: drain everything the workers reported.
poll_transfer ==
    /\ window.on /\ events # <<>>
    /\ window' = FoldLeft(apply_net_event, window, events)
    /\ events' = <<>>
    /\ UNCHANGED <<listenVars, workerVars, senderVars, wireVars, faults>>

\* transfer_command: Accept or Reject in the offer dialog, which it closes.
Decide(command) ==
    /\ window.on /\ window.offer # None
    /\ commands' = Append(commands, command)
    /\ window' = [window EXCEPT !.offer = None]
    /\ UNCHANGED <<listener, active, channel, unfinished, workerVars, events, senderVars, wireVars, faults>>

\* stop_transfer: the handle is dropped with its queues.
stop_transfer ==
    /\ window.on
    /\ commands' = Append(commands, "stop")
    /\ window' = [on |-> FALSE, offer |-> None]
    /\ events' = <<>>
    /\ UNCHANGED <<listener, active, channel, unfinished, workerVars, senderVars, wireVars, faults>>

-------------------------------------------------------------------------------
(* The accept loop.                                                          *)

\* A worker that waits for its last record or has everything.
LastRead(c) ==
    \/ worker[c] = "reading" /\ Len(got[c]) = Size[c]
    \/ worker[c] = "import"

\* The session ends: the stop flag is set; start_listener reports it.
Down(batch) ==
    /\ listener' = "down"
    /\ unfinished' = {c \in Conns \ stored : ~LastRead(c)}
    /\ commands' = <<>>
    /\ Emit(batch)

\* run: bind the port and announce the session to a window that still listens.
Listen ==
    /\ listener = "starting"
    /\ \/ window.on /\ listener' = "up" /\ UNCHANGED <<commands, unfinished, events>>
       \/ Down(<<[type |-> "error"], [type |-> "stopped"]>>)
    /\ UNCHANGED <<active, channel, workerVars, window, senderVars, wireVars, faults>>

\* forward_command: without an owner the command is dropped.
forward_command(command) ==
    channel' = IF active = None THEN channel ELSE Append(channel, command)

\* One turn of the loop's command routing.
RouteCommand ==
    /\ listener = "up" /\ commands # <<>>
    /\ IF Head(commands) = "stop"
       THEN Down(<<[type |-> "stopped"]>>) /\ forward_command("cancel")
       ELSE /\ forward_command(Head(commands))
            /\ commands' = Tail(commands)
            /\ UNCHANGED <<listener, unfinished, events>>
    /\ UNCHANGED <<active, workerVars, window, senderVars, wireVars, faults>>

\* The listening socket fails: the session ends and the owner sees the flag.
AcceptFails ==
    /\ listener = "up"
    /\ Down(<<[type |-> "error"], [type |-> "stopped"]>>)
    /\ UNCHANGED <<active, channel, workerVars, window, senderVars, wireVars, faults>>

\* allow and try_acquire: a backed-off address, or no free slot, is closed at once.
Accept(c) ==
    /\ listener = "up" /\ worker[c] = "none"
    /\ sender[c] = "auth" \/ up[c] # <<>>
    /\ worker' = [worker EXCEPT ![c] =
            IF Address[c] \notin blocked /\ Cardinality(Handshaking) < MAX_CONCURRENT_HANDSHAKES
            THEN "hello" ELSE "closed"]
    /\ UNCHANGED <<listenVars, got, answered, failures, blocked, stored, windowVars, senderVars,
                   wireVars, faults>>

\* Time passes: a block is over, or prune and make_room forget the address.
BackoffOver(a) ==
    /\ failures[a] > 0
    /\ \/ a \in blocked /\ UNCHANGED failures
       \/ failures' = [failures EXCEPT ![a] = 0]
    /\ blocked' = blocked \ {a}
    /\ UNCHANGED <<listenVars, worker, got, answered, stored, windowVars, senderVars, wireVars, faults>>

-------------------------------------------------------------------------------
(* A worker.                                                                 *)

\* handle_conn returns: the socket, the temp file and, with the guard, the
\* private channel are gone.  A user-facing error is reported after that.
End(c, next) ==
    /\ worker' = [worker EXCEPT ![c] = next]
    /\ up' = [up EXCEPT ![c] = <<>>]
    /\ got' = [got EXCEPT ![c] = <<>>]
    /\ IF active = c
       THEN active' = None /\ channel' = <<>>
       ELSE UNCHANGED <<active, channel>>
    /\ UNCHANGED <<listener, commands, unfinished, answered, senderVars, faults>>

Shown(c) == End(c, "report") /\ UNCHANGED <<failures, blocked, stored, windowVars, down>>

Quiet(c) == End(c, "closed") /\ UNCHANGED <<failures, blocked, stored, windowVars, down>>

\* record_failure: at the threshold the address is backed off.
Probe(c) ==
    LET a == Address[c] IN
    /\ End(c, "closed")
    /\ failures' = [failures EXCEPT ![a] = @ + 1]
    /\ blocked' = IF failures[a] + 1 >= FAILURE_THRESHOLD THEN blocked \cup {a} ELSE blocked
    /\ UNCHANGED <<stored, windowVars, down>>

\* open_record: counters are not on the wire, so only the next record opens.
Opens(c, n) == Head(up[c]).n = n

Step(c, next) ==
    /\ worker' = [worker EXCEPT ![c] = next]
    /\ up' = [up EXCEPT ![c] = Tail(@)]
    /\ UNCHANGED <<listener, commands, unfinished, stored, senderVars, faults>>

\* read_hello_write_auth: prove the code, be new to the replay cache, then be
\* answered; record_success forgets the address's failures.  A connection sends one
\* Hello and it is its own, so here only a full cache can refuse one.
ReadHello(c) ==
    /\ worker[c] = "hello" /\ up[c] # <<>>
    /\ IF /\ caller[c] # "nocode" /\ c \notin answered
          /\ Cardinality(answered) < MAX_HELLOS_PER_SECRET
       THEN /\ Step(c, "confirm")
            /\ answered' = answered \cup {c}
            /\ failures' = [failures EXCEPT ![Address[c]] = 0]
            /\ blocked' = blocked \ {Address[c]}
            /\ down' = [down EXCEPT ![c] = "auth"]
            /\ UNCHANGED <<active, channel, got, windowVars>>
       ELSE Probe(c)

\* Mutant: a second sender takes the transfer over.
AdmitAlways(c) == TRUE

\* compare_exchange on transfer_active.
Admit(c) == active = None

\* read_confirm and admission: the slot is handed back and a fresh private
\* channel registered.
ReadConfirm(c) ==
    /\ worker[c] = "confirm" /\ up[c] # <<>>
    /\ IF ~Opens(c, 0) \/ caller[c] # "expected" THEN Shown(c)
       ELSE IF ~Admit(c) THEN Quiet(c)
       ELSE /\ Step(c, "offer")
            /\ active' = c /\ channel' = <<>>
            /\ UNCHANGED <<got, answered, failures, blocked, down, windowVars>>

\* Mutant: only the handshake looks for Stop.
CancelledNever == FALSE

\* transfer_cancelled: the stop flag, or Cancel next in the channel.
Cancelled ==
    \/ listener = "down"
    \/ channel # <<>> /\ Head(channel) = "cancel"

\* A poll between partial reads: any other command is swallowed.
Poll(c) ==
    /\ worker[c] \in {"offer", "reading"} /\ active = c
    /\ \/ Cancelled /\ Shown(c)
       \/ /\ ~Cancelled /\ channel # <<>>
          /\ channel' = Tail(channel)
          /\ UNCHANGED <<listener, active, commands, unfinished, workerVars, windowVars, senderVars,
                         wireVars, faults>>

\* The offer: refused when too large, declined when the disk has no room for
\* two copies, else shown to the user.
ReadOffer(c) ==
    /\ worker[c] = "offer" /\ up[c] # <<>>
    /\ IF ~Opens(c, 1) \/ Size[c] > MAX_TRANSFER_SIZE THEN Shown(c)
       ELSE \/ /\ Step(c, "decide")
               /\ Emit(<<[type |-> "offer", of |-> c]>>)
               /\ UNCHANGED <<active, channel, got, answered, failures, blocked, down, window>>
            \/ /\ End(c, "report")
               /\ down' = [down EXCEPT ![c] = "decline"]
               /\ UNCHANGED <<failures, blocked, stored, windowVars>>

\* wait_decision, and the answer to the sender.  The stop flag is looked at
\* before each wait, so a queued Accept can still be taken after it is set.
WaitDecision(c) ==
    /\ worker[c] = "decide" /\ active = c
    /\ \/ listener = "down" /\ Quiet(c)
       \/ /\ channel # <<>> /\ Head(channel) = "accept"
          /\ channel' = Tail(channel)
          /\ worker' = [worker EXCEPT ![c] = "receive"]
          /\ down' = [down EXCEPT ![c] = "accept"]
          /\ UNCHANGED <<listener, active, commands, unfinished, got, answered, failures, blocked, stored,
                         windowVars, senderVars, up, faults>>
       \/ /\ channel # <<>> /\ Head(channel) = "reject"
          /\ End(c, "closed")
          /\ down' = [down EXCEPT ![c] = "decline"]
          /\ UNCHANGED <<failures, blocked, stored, windowVars>>
       \/ channel # <<>> /\ Head(channel) = "cancel" /\ Quiet(c)

\* The head of receive_into's loop, which also swallows one command.
NextRecord(c) ==
    /\ worker[c] = "receive" /\ active = c
    /\ IF Cancelled THEN Shown(c)
       ELSE /\ worker' = [worker EXCEPT ![c] = "reading"]
            /\ channel' = IF channel = <<>> THEN channel ELSE Tail(channel)
            /\ UNCHANGED <<listener, active, commands, unfinished, got, answered, failures, blocked, stored,
                           windowVars, senderVars, wireVars, faults>>

\* One record: Data up to the declared size, then Done.
ReadRecord(c) ==
    /\ worker[c] = "reading" /\ up[c] # <<>>
    /\ LET frame == Head(up[c]) IN
       IF \/ ~Opens(c, Len(got[c]) + 2)
          \/ frame.type = "data" /\ Len(got[c]) + 1 > Size[c]
          \/ frame.type = "done" /\ Len(got[c]) # Size[c]
       THEN Shown(c)
       ELSE /\ IF frame.type = "data"
               THEN Step(c, "receive") /\ got' = [got EXCEPT ![c] = Append(@, frame.n)]
               ELSE Step(c, "import") /\ UNCHANGED got
            /\ UNCHANGED <<active, channel, answered, failures, blocked, down, windowVars>>

\* The container that sender c streams.
Whole(c) == [i \in 1..Size[c] |-> i + 1]

\* import_received: the container must be whole; nothing interrupts it.
Import(c) ==
    /\ worker[c] = "import" /\ got[c] = Whole(c)
    /\ stored' = stored \cup {c}
    /\ Emit(<<[type |-> "received"]>>)
    /\ End(c, "closed")
    /\ UNCHANGED <<failures, blocked, window, down>>

\* Mutant: a decision is awaited without a deadline.
GivesUpAnywhereElse(c) ==
    \/ worker[c] = "hello" /\ Probe(c)
    \/ worker[c] = "confirm" /\ Quiet(c)
    \/ worker[c] \in Transferring \ {"decide"} /\ Shown(c)

\* A deadline passes, the connection breaks, or a local step fails.
GivesUp(c) ==
    \/ worker[c] = "hello" /\ Probe(c)
    \/ worker[c] = "confirm" /\ Quiet(c)
    \/ worker[c] \in Transferring /\ Shown(c)

\* service: show the error of a worker that has already let go of the transfer.
Report(c) ==
    /\ worker[c] = "report"
    /\ worker' = [worker EXCEPT ![c] = "closed"]
    /\ Emit(<<[type |-> "error"]>>)
    /\ UNCHANGED <<listenVars, got, answered, failures, blocked, stored, window, senderVars,
                   wireVars, faults>>

Worker(c) ==
    \/ ReadHello(c) \/ ReadConfirm(c) \/ Poll(c) \/ ReadOffer(c) \/ WaitDecision(c)
    \/ NextRecord(c) \/ ReadRecord(c) \/ Import(c) \/ GivesUp(c) \/ Report(c)

-------------------------------------------------------------------------------
(* A sender.                                                                 *)

\* A frame written to a connection the receiver has closed goes nowhere.
Write(c, frame) == up' = IF worker[c] = "closed" THEN up ELSE [up EXCEPT ![c] = Append(@, frame)]

Advance(c, next) ==
    /\ sender' = [sender EXCEPT ![c] = next]
    /\ UNCHANGED <<listenVars, workerVars, windowVars, down, faults>>

\* Connect and write Hello; the connection waits to be accepted.
Dial(c) ==
    /\ sender[c] = "idle" /\ listener = "up"
    /\ Advance(c, "auth") /\ Write(c, Frame("hello", 0))
    /\ UNCHANGED <<caller, sent>>

\* read_auth_write_confirm.
WriteConfirm(c) ==
    /\ sender[c] = "auth" /\ down[c] = "auth"
    /\ Advance(c, "plan") /\ Write(c, Frame("confirm", 0))
    /\ UNCHANGED <<caller, sent>>

\* The export plan gives the size to offer.
WriteOffer(c) ==
    /\ sender[c] = "plan"
    /\ Advance(c, "await") /\ Write(c, Frame("offer", 1))
    /\ UNCHANGED <<caller, sent>>

ReadDecision(c) ==
    /\ sender[c] = "await" /\ down[c] \in {"accept", "decline"}
    /\ Advance(c, IF down[c] = "accept" THEN "stream" ELSE "declined")
    /\ UNCHANGED <<caller, sent, up>>

\* RecordWriter::send_data.
WriteData(c) ==
    /\ sender[c] = "stream" /\ sent[c] < Size[c]
    /\ Advance(c, "stream") /\ Write(c, Frame("data", sent[c] + 2))
    /\ sent' = [sent EXCEPT ![c] = @ + 1]
    /\ UNCHANGED caller

\* finish: Sent is reported as soon as Done is written.
WriteDone(c) ==
    /\ sender[c] = "stream" /\ sent[c] = Size[c]
    /\ Advance(c, "sent") /\ Write(c, Frame("done", sent[c] + 2))
    /\ sent' = [sent EXCEPT ![c] = 0]
    /\ UNCHANGED caller

\* A timeout, Cancel, a closed connection or a failed export; a sender that
\* cannot even connect stays idle.
SenderFails(c) ==
    /\ sender[c] \in {"auth", "plan", "await", "stream"}
    /\ Advance(c, "failed")
    /\ sent' = [sent EXCEPT ![c] = 0]
    /\ UNCHANGED <<caller, up>>

Sender(c) ==
    \/ Dial(c) \/ WriteConfirm(c) \/ WriteOffer(c) \/ ReadDecision(c) \/ WriteData(c)
    \/ WriteDone(c) \/ SenderFails(c)

\* The network loses or repeats a frame.
LoseOrRepeat(c) ==
    /\ c \in Flaky /\ faults < MaxFaults /\ up[c] # <<>>
    /\ faults' = faults + 1
    /\ \/ up' = [up EXCEPT ![c] = Tail(@)]
       \/ up' = [up EXCEPT ![c] = <<Head(@)>> \o @]
    /\ UNCHANGED <<listenVars, workerVars, windowVars, senderVars, down>>

Next ==
    \/ StartListen \/ poll_transfer \/ Decide("accept") \/ Decide("reject") \/ stop_transfer
    \/ Listen \/ RouteCommand \/ AcceptFails
    \/ \E a \in Addresses : BackoffOver(a)
    \/ \E c \in Conns : Accept(c) \/ Worker(c) \/ Sender(c) \/ LoseOrRepeat(c)

\* Every wait of a worker has a deadline and threads keep being scheduled.
Fairness == \A c \in Conns : WF_vars(Worker(c))

Spec == Init /\ [][Next]_vars /\ Fairness

-------------------------------------------------------------------------------
(* Properties.                                                               *)

Accepts(queue) == Cardinality({i \in 1..Len(queue) : queue[i] = "accept"})

Stage(c) ==
    CASE c \in stored -> "stored"
      [] c \notin stored /\ worker[c] \in {"receive", "reading", "import"} -> "taking"
      [] c \notin stored /\ worker[c] \in {"report", "closed"} -> "closed"
      [] OTHER -> "open"

Promise == INSTANCE Delivery WITH
    clicks <- Accepts(commands) + Accepts(channel),
    stage  <- [c \in Conns |-> Stage(c)],
    told   <- [c \in Conns |-> IF sender[c] \in {"sent", "declined"} THEN sender[c] ELSE "nothing"]

\* Refinement: whatever workers, window and network do, the listener takes one
\* vault at a time, each on a press of Accept of its own, stores only what it
\* took, and a sender is told "declined" only of a vault that is never stored.
Delivers == Promise!Spec

\* Every connection a worker serves comes to an end, and with it the handshake
\* slot, the single-transfer flag and the temp file are free again, even when
\* the peer falls silent, the user never answers and nobody stops the session.
TransfersEnd ==
    \A c \in Conns :
        worker[c] \notin {"none", "closed"} ~> worker[c] = "closed"

\* A session that ends while a connection still shakes hands, is being offered
\* or decided, or has more than its last record to receive, never stores that
\* connection's vault: not through a handshake that ignores the stop flag, nor
\* through an Accept that was already queued.
StopMeansStop == stored \cap unfinished = {}

-------------------------------------------------------------------------------
(* The inductive invariant behind the refinement and StopMeansStop.          *)

\* The record counter tells the handshake, the offer and the container apart.
FrameType == [type : {"hello", "confirm"}, n : {0}] \cup [type : {"offer"}, n : {1}]
             \cup [type : {"data", "done"}, n : Nat \ {0, 1}]

\* Type invariant of what the promise depends on (the window and its events
\* decide only which commands come).
TypeOK ==
    /\ listener \in {"off", "starting", "up", "down"}
    /\ worker \in [Conns -> {"none", "hello", "confirm", "report", "closed"} \cup Transferring]
    /\ active \in Conns \cup {None}
    /\ channel \in Seq({"accept", "reject", "cancel"})
    /\ commands \in Seq({"accept", "reject", "stop"})
    /\ got \in [Conns -> Seq(Nat)]
    /\ stored \subseteq Conns /\ unfinished \subseteq Conns
    /\ sender \in [Conns -> {"idle", "auth", "plan", "await", "stream", "sent", "declined",
                             "failed"}]
    /\ sent \in [Conns -> Nat]
    /\ up \in [Conns -> Seq(FrameType)]
    /\ down \in [Conns -> {"nothing", "auth", "accept", "decline"}]

\* The private channel is the active worker's, and no other worker transfers.
OwnerInv ==
    /\ \A c \in Conns : worker[c] \in Transferring => active = c
    /\ active = None => channel = <<>>

\* What an answer on its way says of the worker that gave it.
AnswerInv ==
    \A c \in Conns :
        /\ c \in stored => worker[c] = "closed" /\ down[c] = "accept"
        /\ down[c] = "accept" => worker[c] \in {"receive", "reading", "import", "report", "closed"}
        /\ down[c] = "decline" => worker[c] \in {"report", "closed"}
        /\ worker[c] \in {"receive", "reading", "import"} => down[c] = "accept"
        /\ sender[c] \in {"stream", "sent"} => down[c] = "accept"

\* What the session's end found unfinished does not come near its import again.
StoppedInv ==
    \A c \in unfinished : listener = "down" /\ c \notin stored /\ ~LastRead(c)

IInv == TypeOK /\ OwnerInv /\ AnswerInv /\ StoppedInv
===============================================================================
