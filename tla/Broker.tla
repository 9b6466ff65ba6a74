------------------------------- MODULE Broker -------------------------------
(***************************************************************************)
(* The launcher-owned decision broker on Linux (src/broker/linux.rs): the  *)
(* serve thread, one worker thread per accepted connection, the replay     *)
(* ledger they share, the session audit they append to, and the two sides  *)
(* the broker cannot control: the hook clients that connect (hook.rs and   *)
(* broker::request) and the process tree under the Codex child.            *)
(*                                                                         *)
(* A worker is a sequence of steps, one per access to state that another   *)
(* thread or process can change.  Two reads are one step only where the    *)
(* first one reads a value that changes once and in one direction, so that *)
(* reading it later could not have turned a pass into a different pass.    *)
(* Times are not modelled: a deadline may strike at any step.              *)
(***************************************************************************)
EXTENDS RequestLedger, Integers

CONSTANTS
    Conns,          \* connections a client may make during the session
    Pids,           \* process ids a client may have
    MaxStart,       \* bound on the start times (incarnations) of one pid
    Messages,       \* what clients may send, a subset of Message
    MaxActive,      \* MAX_ACTIVE_CONNECTIONS (16 in the code)
    Verification    \* TRUE when the broker has no admission (verify-local-hook)

\* A frame stalls (late, truncated, oversized), has bytes after it, does not
\* parse as a broker request, or is a well-formed request.
FrameKinds == {"stalled", "trailing", "malformed", "request"}

\* authentic: the peer has our uid and sent this session's secret.
\* admitted: decision::decide answers Allow for the input.
Message == [frame : FrameKinds, authentic : BOOLEAN, admitted : BOOLEAN,
            input : HookInput]

ASSUME BrokerAssumption ==
    /\ IsFiniteSet(Conns)
    /\ MaxActive \in Nat \ {0}
    /\ MaxStart \in Nat
    /\ Verification \in BOOLEAN
    /\ Messages \subseteq Message /\ Messages # {}
    /\ Pids # {}

VARIABLES
    \* SharedState and the serve thread
    servePc,    \* "off", "check", "accept", "drain", "joined", "panicked"
    shutdown,   \* the stop flag
    expected,   \* has the Codex child's identity been recorded?
    active,     \* active_connections
    workers,    \* connections whose JoinHandle serve still holds
    ledger,     \* RequestLedger, behind a mutex
    \* one worker per connection
    pc,         \* where the worker of a connection is
    peerStart,  \* the start time the worker read for its peer's pid
    reply,      \* the frame the worker wrote: "none", "allow", "no_decision"
    \* the session audit: which records each connection's worker appended
    audit, auditDir,
    \* clients and processes
    client,     \* "idle", "waiting", "approved", "declined"
    peer, msg,  \* the pid the kernel reports and what the client sends
    proc,       \* process table: alive, start time, below the Codex child?
    child,      \* the Codex child: "none", "running", "exited"
    \* history: one record per consume that returned true
    grants

serveVars  == <<servePc, shutdown, expected, active, workers>>
workerVars == <<pc, peerStart, reply>>
auditVars  == <<audit, auditDir>>
clientVars == <<client, peer, msg>>
osVars     == <<proc, child>>
ledgerVars == <<ledger, grants>>
bvars == <<serveVars, workerVars, auditVars, clientVars, osVars, ledgerVars>>

AuditKinds == {"attempt", "invoked", "request", "allow", "emitted"}
ServePcs == {"off", "check", "accept", "drain", "joined", "panicked"}
\* Worker steps up to the one that consumes the ledger, and those after it.
Unchecked == {"attempt", "read", "expected", "ancestry", "decide"}
Checked   == {"recheck", "identify", "consume"}
Granted   == {"allow", "write", "emitted"}
Live      == Unchecked \cup Checked \cup Granted \cup {"refuse", "release"}
WorkerPcs == Live \cup {"idle", "backlog", "done"}

Proc == [alive : BOOLEAN, start : 0 .. MaxStart, below : BOOLEAN]
Invocations == Pids \X (0 .. MaxStart)
Grants == [conn : Conns, input : HookInput, invocation : Invocations]

\* Placeholders that no step reads: Connect sets both.
AnyPid == CHOOSE p \in Pids : TRUE
AnyMessage == CHOOSE m \in Messages : TRUE

Listening == servePc \in {"check", "accept"}

Init ==
    /\ servePc = "off" /\ shutdown = FALSE /\ expected = FALSE
    /\ active = 0 /\ workers = {}
    /\ pc = [c \in Conns |-> "idle"]
    /\ peerStart = [c \in Conns |-> 0]
    /\ reply = [c \in Conns |-> "none"]
    /\ audit = [c \in Conns |-> {}] /\ auditDir = TRUE
    /\ client = [c \in Conns |-> "idle"]
    /\ peer = [c \in Conns |-> AnyPid]
    /\ msg = [c \in Conns |-> AnyMessage]
    /\ proc = [p \in Pids |-> [alive |-> FALSE, start |-> 0, below |-> FALSE]]
    /\ child = "none"
    /\ ledger = EmptyLedger /\ grants = {}

-----------------------------------------------------------------------------
(* The Codex child and the processes below it.                             *)

\* Both launchers start the broker before they spawn the child.
SpawnChild ==
    /\ child = "none" /\ servePc # "off" /\ auditDir
    /\ child' = "running"
    /\ UNCHANGED <<serveVars, workerVars, auditVars, clientVars, proc, ledgerVars>>

\* Whatever was below the child is reparented when the child dies.
ChildExits ==
    /\ child = "running"
    /\ child' = "exited"
    /\ proc' = [p \in Pids |-> [alive |-> proc[p].alive, below |-> FALSE,
                             start |-> proc[p].start]]
    /\ UNCHANGED <<serveVars, workerVars, auditVars, clientVars, ledgerVars>>

\* A process takes an unused pid, with a start time of its own; only a
\* running child can have new descendants.
Fork(p) ==
    /\ ~proc[p].alive /\ proc[p].start < MaxStart
    /\ \E below \in (IF child = "running" THEN BOOLEAN ELSE {FALSE}) :
          proc' = [proc EXCEPT ![p] = [alive |-> TRUE, below |-> below,
                                       start |-> proc[p].start + 1]]
    /\ UNCHANGED <<serveVars, workerVars, auditVars, clientVars, child, ledgerVars>>

Exit(p) ==
    /\ proc[p].alive
    /\ proc' = [proc EXCEPT ![p] = [alive |-> FALSE, below |-> FALSE,
                                    start |-> proc[p].start]]
    /\ UNCHANGED <<serveVars, workerVars, auditVars, clientVars, child, ledgerVars>>

\* A process between p and the child exits and p is adopted elsewhere.
Reparent(p) ==
    /\ proc[p].alive /\ proc[p].below
    /\ proc' = [proc EXCEPT ![p] = [alive |-> TRUE, below |-> FALSE,
                                    start |-> proc[p].start]]
    /\ UNCHANGED <<serveVars, workerVars, auditVars, clientVars, child, ledgerVars>>

\* What validate_ancestry establishes at the instant its walks agree.
DescendsFromChild(p) == proc[p].alive /\ proc[p].below

-----------------------------------------------------------------------------
(* Clients.                                                                *)

Connect(c) ==
    /\ Listening
    /\ pc[c] = "idle"
    /\ \E p \in Pids, m \in Messages :
          /\ proc[p].alive
          /\ peer' = [peer EXCEPT ![c] = p]
          /\ msg' = [msg EXCEPT ![c] = m]
    /\ pc' = [pc EXCEPT ![c] = "backlog"]
    /\ client' = [client EXCEPT ![c] = "waiting"]
    /\ UNCHANGED <<serveVars, peerStart, reply, auditVars, osVars, ledgerVars>>

\* The client reads an allow, then end of file, and prints the allow for Codex
\* on its stdout.  End of file comes when the worker returns or the launcher's
\* process ends; the model lets it come at any time after the frame.
ClientApproves(c) ==
    /\ client[c] = "waiting" /\ reply[c] = "allow"
    /\ client' = [client EXCEPT ![c] = "approved"]
    /\ UNCHANGED <<serveVars, workerVars, auditVars, peer, msg, osVars, ledgerVars>>

\* The client ends without printing: no decision, its deadline, end of file,
\* a protocol error, a failed stdout, or its death.  Its socket is closed.
ClientDeclines(c) ==
    /\ client[c] = "waiting"
    /\ client' = [client EXCEPT ![c] = "declined"]
    /\ UNCHANGED <<serveVars, workerVars, auditVars, peer, msg, osVars, ledgerVars>>

-----------------------------------------------------------------------------
(* The owner's calls: Broker::start, set_codex_identity, stop_accepting,   *)
(* and the removal of the session's directories once shutdown has          *)
(* returned.  shutdown is stop_accepting followed by a wait for servePc.   *)

Start ==
    /\ servePc = "off"
    /\ servePc' = "check"
    /\ UNCHANGED <<shutdown, expected, active, workers, workerVars, auditVars,
                   clientVars, osVars, ledgerVars>>

SetCodexIdentity ==
    /\ child # "none"
    /\ expected' = TRUE
    /\ UNCHANGED <<servePc, shutdown, active, workers, workerVars, auditVars,
                   clientVars, osVars, ledgerVars>>

StopAccepting ==
    /\ servePc # "off"
    /\ shutdown' = TRUE
    /\ UNCHANGED <<servePc, expected, active, workers, workerVars, auditVars,
                   clientVars, osVars, ledgerVars>>

\* The serve thread ended: join returns Ok or, after a panic, Err.
Joined == servePc \in {"joined", "panicked"}

\* Session::cleanup, or the drop of a Session.
RemoveSession ==
    /\ auditDir' = FALSE
    /\ UNCHANGED <<serveVars, workerVars, audit, clientVars, osVars, ledgerVars>>

\* An owner removes the session after a shutdown, or on an error before the
\* child was spawned.
Cleanup ==
    /\ (Joined /\ shutdown) \/ child = "none"
    /\ RemoveSession

-----------------------------------------------------------------------------
(* The serve thread.                                                       *)

\* Dropping the listener resets the connections nobody accepted.
DropListener(dropped) ==
    pc' = [c \in Conns |->
              IF pc[c] = "backlog" \/ c \in dropped THEN "done" ELSE pc[c]]

\* reap_finished_workers: forget the handles of finished threads.
Reaped == {c \in workers : pc[c] # "done"}

\* Mutant: the slot limit is off by one.
ServeRoundOffByOne ==
    /\ servePc = "check" /\ ~shutdown
    /\ workers' = Reaped
    /\ servePc' = IF active <= MaxActive THEN "accept" ELSE "check"
    /\ UNCHANGED <<shutdown, expected, active, workerVars, auditVars,
                   clientVars, osVars, ledgerVars>>

\* One turn of the loop: reap, then wait while all slots are taken.
ServeRound ==
    /\ servePc = "check" /\ ~shutdown
    /\ workers' = Reaped
    /\ servePc' = IF active < MaxActive THEN "accept" ELSE "check"
    /\ UNCHANGED <<shutdown, expected, active, workerVars, auditVars,
                   clientVars, osVars, ledgerVars>>

ServeStops ==
    /\ servePc = "check" /\ shutdown
    /\ servePc' = "drain"
    /\ DropListener({})
    /\ UNCHANGED <<shutdown, expected, active, workers, peerStart, reply,
                   auditVars, clientVars, osVars, ledgerVars>>

ServeAccept(c) ==
    /\ servePc = "accept" /\ pc[c] = "backlog"
    /\ active' = active + 1
    /\ workers' = workers \cup {c}
    /\ pc' = [pc EXCEPT ![c] = "attempt"]
    /\ servePc' = "check"
    /\ UNCHANGED <<shutdown, expected, peerStart, reply, auditVars, clientVars,
                   osVars, ledgerVars>>

\* Mutant: keep polling accept without another look at the stop flag.
ServeIdleForever ==
    /\ servePc = "accept"
    /\ \A c \in Conns : pc[c] # "backlog"
    /\ UNCHANGED bvars

\* accept would block: nothing is waiting.
ServeIdle ==
    /\ servePc = "accept"
    /\ \A c \in Conns : pc[c] # "backlog"
    /\ servePc' = "check"
    /\ UNCHANGED <<shutdown, expected, active, workers, workerVars, auditVars,
                   clientVars, osVars, ledgerVars>>

\* Any other error of accept ends the loop for good.
ServeAcceptError ==
    /\ servePc = "accept"
    /\ servePc' = "drain"
    /\ DropListener({})
    /\ UNCHANGED <<shutdown, expected, active, workers, peerStart, reply,
                   auditVars, clientVars, osVars, ledgerVars>>

\* thread::spawn panics when no thread can be created: the count stays
\* raised, the listener is dropped and the live workers are detached.
ServeSpawnPanic(c) ==
    /\ servePc = "accept" /\ pc[c] = "backlog"
    /\ active' = active + 1
    /\ workers' = {}
    /\ servePc' = "panicked"
    /\ DropListener({c})
    /\ UNCHANGED <<shutdown, expected, peerStart, reply, auditVars, clientVars,
                   osVars, ledgerVars>>

\* Mutant: the workers are detached instead of joined.
ServeDetaches ==
    /\ servePc = "drain"
    /\ servePc' = "joined"
    /\ workers' = {}
    /\ UNCHANGED <<shutdown, expected, active, workerVars, auditVars,
                   clientVars, osVars, ledgerVars>>

ServeJoins ==
    /\ servePc = "drain"
    /\ \A c \in workers : pc[c] = "done"
    /\ servePc' = "joined"
    /\ workers' = {}
    /\ UNCHANGED <<shutdown, expected, active, workerVars, auditVars,
                   clientVars, osVars, ledgerVars>>

-----------------------------------------------------------------------------
(* A worker: handle_connection and the verify_request it calls.            *)

\* Move the worker of c, leaving its other local state alone.
Goto(c, next) ==
    /\ pc' = [pc EXCEPT ![c] = next]
    /\ UNCHANGED <<peerStart, reply>>

\* audit::append_private for a record of c; it fails with the directory gone.
AppendRecord(c, kinds) ==
    /\ auditDir
    /\ audit' = [audit EXCEPT ![c] = @ \cup kinds]
    /\ UNCHANGED auditDir

\* Peer credentials and the attempt record; without both the connection is
\* dropped with no answer.
WorkerAttempt(c) ==
    /\ pc[c] = "attempt"
    /\ \/ AppendRecord(c, {"attempt"}) /\ Goto(c, "read")
       \/ Goto(c, "release") /\ UNCHANGED auditVars
    /\ UNCHANGED <<serveVars, clientVars, osVars, ledgerVars>>

\* Mutant: a failed invocation record is ignored.
WorkerReadUnrecorded(c) ==
    /\ pc[c] = "read"
    /\ msg[c].frame = "request"
    /\ Goto(c, "expected")
    /\ UNCHANGED <<serveVars, auditVars, clientVars, osVars, ledgerVars>>

\* Read one frame before the deadline, insist that nothing follows it, parse
\* it, and record the invocation before any authorization.
WorkerRead(c) ==
    /\ pc[c] = "read"
    /\ \/ Goto(c, "release") /\ UNCHANGED auditVars
       \/ /\ msg[c].frame \in {"trailing", "malformed", "request"}
          /\ Goto(c, "refuse") /\ UNCHANGED auditVars
       \/ /\ msg[c].frame = "request"
          /\ AppendRecord(c, {"invoked"}) /\ Goto(c, "expected")
    /\ UNCHANGED <<serveVars, clientVars, osVars, ledgerVars>>

\* Mutant: a broker without a recorded identity accepts any ancestry.
WorkerCheckUnbound(c) ==
    /\ pc[c] = "expected"
    /\ Goto(c, IF ~shutdown /\ msg[c].authentic THEN "ancestry" ELSE "refuse")
    /\ UNCHANGED <<serveVars, auditVars, clientVars, osVars, ledgerVars>>

\* verify_request: the recorded identity, the stop flag, uid and secret.
WorkerCheckExpected(c) ==
    /\ pc[c] = "expected"
    /\ Goto(c, IF expected /\ ~shutdown /\ msg[c].authentic
                 THEN "ancestry" ELSE "refuse")
    /\ UNCHANGED <<serveVars, auditVars, clientVars, osVars, ledgerVars>>

\* validate_peer; a walk that meets a change or a vanished process refuses.
WorkerCheckAncestry(c) ==
    /\ pc[c] = "ancestry"
    /\ \/ DescendsFromChild(peer[c]) /\ Goto(c, "decide")
       \/ Goto(c, "refuse")
    /\ UNCHANGED <<serveVars, auditVars, clientVars, osVars, ledgerVars>>

\* Mutant: no second look at the stop flag.
WorkerDecideStaleStop(c) ==
    /\ pc[c] = "decide"
    /\ \/ /\ msg[c].admitted
          /\ Verification \/ child = "running"
          /\ Goto(c, "recheck")
       \/ Goto(c, "refuse")
    /\ UNCHANGED <<serveVars, auditVars, clientVars, osVars, ledgerVars>>

\* The admission's check of the child's executable (production only), the
\* decision engine, the admission again, and the stop flag again.
WorkerDecide(c) ==
    /\ pc[c] = "decide"
    /\ \/ /\ msg[c].admitted /\ ~shutdown
          /\ Verification \/ child = "running"
          /\ Goto(c, "recheck")
       \/ /\ ~msg[c].admitted \/ shutdown \/ ~Verification
          /\ Goto(c, "refuse")
    /\ UNCHANGED <<serveVars, auditVars, clientVars, osVars, ledgerVars>>

\* validate_peer once more.
WorkerRecheck(c) ==
    /\ pc[c] = "recheck"
    /\ \/ DescendsFromChild(peer[c]) /\ Goto(c, "identify")
       \/ Goto(c, "refuse")
    /\ UNCHANGED <<serveVars, auditVars, clientVars, osVars, ledgerVars>>

\* read_process: whichever process now has the peer's pid.
WorkerIdentify(c) ==
    /\ pc[c] = "identify"
    /\ \/ /\ proc[peer[c]].alive
          /\ peerStart' = [peerStart EXCEPT ![c] = proc[peer[c]].start]
          /\ pc' = [pc EXCEPT ![c] = "consume"]
          /\ UNCHANGED reply
       \/ Goto(c, "refuse")
    /\ UNCHANGED <<serveVars, auditVars, clientVars, osVars, ledgerVars>>

\* RequestLedger::consume under its mutex.
WorkerConsume(c) ==
    LET input      == msg[c].input
        invocation == <<peer[c], peerStart[c]>>
    IN  /\ pc[c] = "consume"
        /\ IF Consumable(ledger, input, invocation, Verification)
           THEN /\ ledger' = Consumed(ledger, input, invocation)
                /\ grants' = grants \cup {[conn |-> c, input |-> input,
                                           invocation |-> invocation]}
                /\ Goto(c, "allow")
           ELSE /\ UNCHANGED ledgerVars
                /\ Goto(c, "refuse")
        /\ UNCHANGED <<serveVars, auditVars, clientVars, osVars>>

\* Mutant: a failed append does not withhold the allow.
WorkerAuditAllowAnyway(c) ==
    /\ pc[c] = "allow"
    /\ Goto(c, "write")
    /\ AppendRecord(c, {"request", "allow"}) \/ UNCHANGED auditVars
    /\ UNCHANGED <<serveVars, clientVars, osVars, ledgerVars>>

\* The request record, then the allow record; if either append fails the
\* answer is no_decision although the ledger entry stays spent.
WorkerAuditAllow(c) ==
    /\ pc[c] = "allow"
    /\ \/ AppendRecord(c, {"request", "allow"}) /\ Goto(c, "write")
       \/ AppendRecord(c, {"request"}) /\ Goto(c, "refuse")
       \/ Goto(c, "refuse") /\ UNCHANGED auditVars
    /\ UNCHANGED <<serveVars, clientVars, osVars, ledgerVars>>

\* A write succeeds only while the client's end is open; it fails past the
\* deadline.
WorkerWriteAllow(c) ==
    /\ pc[c] = "write"
    /\ \/ /\ client[c] = "waiting"
          /\ reply' = [reply EXCEPT ![c] = "allow"]
          /\ pc' = [pc EXCEPT ![c] = "emitted"]
          /\ UNCHANGED peerStart
       \/ Goto(c, "release")
    /\ UNCHANGED <<serveVars, auditVars, clientVars, osVars, ledgerVars>>

\* The emitted record; its failure is ignored.
WorkerAuditEmitted(c) ==
    /\ pc[c] = "emitted"
    /\ Goto(c, "release")
    /\ AppendRecord(c, {"emitted"}) \/ UNCHANGED auditVars
    /\ UNCHANGED <<serveVars, clientVars, osVars, ledgerVars>>

\* write_response_until(NoDecision); its failure is ignored.
WorkerRefuse(c) ==
    /\ pc[c] = "refuse"
    /\ pc' = [pc EXCEPT ![c] = "release"]
    /\ \/ /\ client[c] = "waiting"
          /\ reply' = [reply EXCEPT ![c] = "no_decision"]
       \/ UNCHANGED reply
    /\ UNCHANGED <<peerStart, serveVars, auditVars, clientVars, osVars, ledgerVars>>

\* Mutant: the slot is not given back.
WorkerReleaseLeaks(c) ==
    /\ pc[c] = "release"
    /\ pc' = [pc EXCEPT ![c] = "done"]
    /\ UNCHANGED <<serveVars, peerStart, reply, auditVars, clientVars, osVars,
                   ledgerVars>>

\* The thread's locals and its stream are dropped and the slot is given back.
WorkerRelease(c) ==
    /\ pc[c] = "release"
    /\ pc' = [pc EXCEPT ![c] = "done"]
    /\ peerStart' = [peerStart EXCEPT ![c] = 0]
    /\ peer' = [peer EXCEPT ![c] = AnyPid]
    /\ msg' = [msg EXCEPT ![c] = AnyMessage]
    /\ active' = active - 1
    /\ UNCHANGED <<servePc, shutdown, expected, workers, reply, auditVars, client,
                   osVars, ledgerVars>>

-----------------------------------------------------------------------------
ServeWorks ==
    \/ ServeRound \/ ServeStops \/ ServeIdle \/ ServeJoins
    \/ \E c \in Conns : ServeAccept(c)

ServeFails == ServeAcceptError \/ \E c \in Conns : ServeSpawnPanic(c)

ServeStep == ServeWorks \/ ServeFails

WorkerStep(c) ==
    \/ WorkerAttempt(c) \/ WorkerRead(c) \/ WorkerCheckExpected(c)
    \/ WorkerCheckAncestry(c) \/ WorkerDecide(c) \/ WorkerRecheck(c)
    \/ WorkerIdentify(c) \/ WorkerConsume(c) \/ WorkerAuditAllow(c)
    \/ WorkerWriteAllow(c) \/ WorkerAuditEmitted(c) \/ WorkerRefuse(c)
    \/ WorkerRelease(c)

ClientStep(c) == Connect(c) \/ ClientApproves(c) \/ ClientDeclines(c)

ProcessStep == ChildExits \/ \E p \in Pids : Fork(p) \/ Exit(p) \/ Reparent(p)

OwnerStep ==
    SpawnChild \/ Start \/ SetCodexIdentity \/ StopAccepting \/ Cleanup

Next ==
    \/ ServeStep
    \/ \E c \in Conns : WorkerStep(c) \/ ClientStep(c)
    \/ ProcessStep
    \/ OwnerStep

\* Threads are scheduled, and both ends bound their I/O by deadlines; no
\* failure of accept or of thread creation is asked for.
Fairness ==
    /\ WF_bvars(ServeWorks)
    /\ \A c \in Conns : WF_bvars(WorkerStep(c)) /\ WF_bvars(ClientDeclines(c))

SafeSpec == Init /\ [][Next]_bvars
Spec == SafeSpec /\ Fairness

-----------------------------------------------------------------------------
(* Properties.                                                             *)

\* Every variable has its type.
TypeOK ==
    /\ servePc \in ServePcs
    /\ shutdown \in BOOLEAN /\ expected \in BOOLEAN
    /\ active \in Int
    /\ workers \subseteq Conns
    /\ pc \in [Conns -> WorkerPcs]
    /\ peerStart \in [Conns -> 0 .. MaxStart]
    /\ reply \in [Conns -> {"none", "allow", "no_decision"}]
    /\ audit \in [Conns -> SUBSET AuditKinds] /\ auditDir \in BOOLEAN
    /\ client \in [Conns -> {"idle", "waiting", "approved", "declined"}]
    /\ peer \in [Conns -> Pids]
    /\ msg \in [Conns -> Messages]
    /\ proc \in [Pids -> Proc]
    /\ child \in {"none", "running", "exited"}
    /\ ledger \in [session : Sessions \cup {NoSession},
                   invocations : SUBSET Invocations, requests : SUBSET HookInput]
    /\ grants \subseteq Grants

LiveWorkers == {c \in Conns : pc[c] \in Live}

\* active_connections is raised by serve and lowered by the workers, in
\* different threads.  Until serve panics it counts the live workers exactly,
\* never exceeds MAX_ACTIVE_CONNECTIONS, and leaves room when serve is about
\* to accept (so the second comparison in serve never rejects).
SlotsMatchWorkers ==
    servePc # "panicked" =>
        /\ active = Cardinality(LiveWorkers)
        /\ active <= MaxActive
        /\ servePc = "accept" => active < MaxActive

\* Replay protection: no request, no hook invocation and no connection is
\* granted twice, all grants are for one Codex session, a verification broker
\* grants at most once, and grants never exceed the ledger's limit, whatever
\* the workers' interleaving.
OneShot ==
    /\ \A g, h \in grants :
          /\ g.input.session = h.input.session
          /\ \/ g.conn = h.conn \/ g.input = h.input \/ g.invocation = h.invocation
             => g = h
    /\ Cardinality(grants) <= MaxInvocations
    /\ Verification => Cardinality(grants) <= 1

\* An allow that reached a client, or that the client printed for Codex, was
\* consumed from the ledger by the same connection and audited first.
AllowIsBacked ==
    \A c \in Conns : reply[c] = "allow" \/ client[c] = "approved" =>
        /\ \E g \in grants : g.conn = c
        /\ {"attempt", "invoked", "request", "allow"} \subseteq audit[c]

\* The broker implements one-shot approval: a consume is a grant, a client
\* printing an allow is an approval, every other step leaves both alone.
Approved == {g \in grants : client[g.conn] = "approved"}
Promise == INSTANCE OneShotApproval WITH
              Clients <- Conns, Requests <- HookInput, Limit <- MaxInvocations,
              Single <- Verification, granted <- grants, approved <- Approved
OneShotSpec == Promise!Spec

\* The records of a connection are a chain: outcome::read_audit counts them
\* and calls a session malformed when a later kind outnumbers an earlier one.
AuditChain ==
    \A c \in Conns :
        /\ "emitted" \in audit[c] => "allow" \in audit[c] /\ reply[c] = "allow"
        /\ "allow" \in audit[c] => "request" \in audit[c]
        /\ "request" \in audit[c] => "invoked" \in audit[c]
        /\ "invoked" \in audit[c] => "attempt" \in audit[c]

\* No approval without the child's identity: requests that arrive between
\* Broker::start and set_codex_identity are never granted.
IdentityFirst == grants # {} => expected

\* Once Broker::shutdown has returned Ok nothing writes to the audit, the
\* ledger or a client: the launcher may read the audit and delete it.
JoinedIsQuiet ==
    [][servePc = "joined" => UNCHANGED <<audit, ledger, reply, active>>]_bvars

\* stop_accepting is final for every connection whose worker has not yet
\* passed the second look at the stop flag in verify_request.
StopIsFinal ==
    \A c \in Conns :
        [](shutdown /\ pc[c] \in Unchecked \cup {"idle", "backlog"}
             => [](\A g \in grants : g.conn # c))

\* Broker::shutdown returns: after the stop flag is set the serve thread ends.
ShutdownReturns == (shutdown /\ servePc # "off") ~> Joined

\* A client that connected is served or reset, even with every slot taken.
ConnectionsEnd == \A c \in Conns : pc[c] = "backlog" ~> pc[c] = "done"

\* docs/architecture.md:130 says a final identity check prevents a child that
\* has exited or been reparented from receiving a decision.  The code checks
\* before consuming, auditing and writing.
NoDecisionAfterExit ==
    [][\A c \in Conns : reply[c] = "none" /\ reply'[c] = "allow"
           => child = "running" /\ DescendsFromChild(peer[c])]_bvars

-----------------------------------------------------------------------------
(* The inductive invariant behind SlotsMatchWorkers, OneShot,              *)
(* AllowIsBacked, AuditChain and IdentityFirst, in named parts.            *)

\* serve holds a handle for every live worker until it panics; before it
\* starts there is nothing, once joined nothing is left.
HandlesCoverWorkers ==
    /\ servePc # "panicked" => LiveWorkers \subseteq workers
    /\ servePc = "off" => \A c \in Conns : pc[c] = "idle"
    /\ servePc = "joined" => LiveWorkers = {}
    /\ ~Listening => \A c \in Conns : pc[c] # "backlog"

\* The ledger holds what was granted, and nothing else.
LedgerMatchesGrants ==
    /\ ledger.requests = {g.input : g \in grants}
    /\ ledger.invocations = {g.invocation : g \in grants}
    /\ ledger.session = NoSession <=> grants = {}
    /\ \A g \in grants : g.input.session = ledger.session
    /\ IsFiniteSet(grants) /\ IsFiniteSet(ledger.invocations)
    /\ Cardinality(grants) = Cardinality(ledger.invocations)

HasGrant(c) == \E g \in grants : g.conn = c

\* What the worker of c has done by the time it is at a step.
History(c) ==
    /\ pc[c] \in Unchecked \cup Checked \cup {"idle", "backlog"} => ~HasGrant(c)
    /\ pc[c] \in Granted => HasGrant(c)
    /\ pc[c] \in Checked \cup Granted \cup {"ancestry", "decide"} => expected
    /\ pc[c] \notin {"emitted", "release", "done"} => reply[c] = "none"
    /\ pc[c] = "emitted" => reply[c] = "allow"
    /\ client[c] = "approved" => reply[c] = "allow"
    /\ client[c] = "idle" => pc[c] = "idle"
    /\ pc[c] \notin {"idle", "backlog", "attempt", "release", "refuse", "done"}
         => "attempt" \in audit[c]
    /\ pc[c] \in Checked \cup Granted \cup {"expected", "ancestry", "decide"}
         => "invoked" \in audit[c]
    /\ pc[c] \in {"write", "emitted"} => {"request", "allow"} \subseteq audit[c]

WorkerHistory == \A c \in Conns : History(c)

IInv ==
    /\ TypeOK
    /\ SlotsMatchWorkers /\ HandlesCoverWorkers
    /\ LedgerMatchesGrants /\ OneShot
    /\ WorkerHistory /\ AllowIsBacked /\ AuditChain /\ IdentityFirst

=============================================================================
