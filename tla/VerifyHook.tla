----------------------------- MODULE VerifyHook -----------------------------
(***************************************************************************)
(* verify-local-hook on Linux (launcher.rs, verification_probe.rs): one    *)
(* Codex child is run in a temporary repository, the broker may grant one  *)
(* request, a loopback witness counts the HTTP requests it receives, and   *)
(* the launcher passes the verification only when the evidence the broker, *)
(* the witness and Git left is exactly one of each.                        *)
(*                                                                         *)
(* The launcher, the broker's workers, the witness thread, the child's     *)
(* process tree and the user's Ctrl-C interleave.  Broker.tla has the      *)
(* broker in detail; here a worker is its sequence of steps, and a serve    *)
(* that ended at an accept error is one nobody connects to any more.       *)
(* Every fallible call may fail; a removal that fails leaves its directory,*)
(* an append that fails may leave a part of its line, and a stop of the    *)
(* process group does not reach a descendant that left the group.          *)
(***************************************************************************)
EXTENDS Integers, FiniteSets

CONSTANTS Conns,    \* connections a client may make to the broker
          Heads,    \* connections anybody may make to the witness
          MaxTorn   \* bound: appends of which only a part is written

ASSUME VerifyAssumption == IsFiniteSet(Conns) /\ MaxTorn \in Nat

\* "state": some of VerificationState's three directories; "session": some of
\* the broker session's two.
Temps == {"state", "session"}
HeadKinds == {"exact", "other"}

VARIABLES
    pc, outcome, cleanupError,
    temps,              \* temporary directories on disk
    silent,             \* those a failed creation left without a word
    handler, flag,      \* the interrupt registration and its flag, while a loop looks at it
    expired,            \* has the running time limit passed?
    serve,              \* "none", "serving", "panicked", "down"
    stopped, expected,  \* the broker's shutdown flag; is its identity set?
    ledger,             \* the invocations the ledger consumed
    conn,               \* the worker of each connection
    audit,              \* the whole lines of each kind: [Records -> Nat]
    tail,               \* the end of the audit file, see Append
    torn,               \* how many appends were cut short (history)
    child, exitOk,      \* the Codex child and its exit status
    kids,               \* its descendants in the process group
    strays,             \* has one of them left the group?
    dirty,              \* does Git report changes in the repository?
    witness, head, headKind, seen,
    evidence,           \* what the launcher read: {} or one record
    retained            \* the diagnostic copy: "none", "kept" or "failed"

launcherVars == <<pc, outcome, cleanupError, temps, silent, evidence, retained>>
signalVars   == <<handler, flag, expired>>
auditVars    == <<audit, tail, torn>>
brokerVars   == <<serve, stopped, expected, ledger, conn, auditVars>>
childVars    == <<child, exitOk, kids, strays, dirty>>
witnessVars  == <<witness, head, headKind, seen>>
vars == <<launcherVars, signalVars, brokerVars, childVars, witnessVars>>

Records == {"attempt", "invoked", "request", "allow", "emitted"}
InTree == child = "running" \/ kids = "alive" \/ strays

Init ==
    /\ pc = "start" /\ outcome = "none" /\ cleanupError = FALSE
    /\ temps = {} /\ silent = {}
    /\ handler = "default" /\ flag = FALSE /\ expired = FALSE
    /\ serve = "none" /\ stopped = FALSE /\ expected = FALSE
    /\ ledger = {} /\ conn = [c \in Conns |-> "idle"]
    /\ audit = [r \in Records |-> 0] /\ tail = "whole" /\ torn = 0
    /\ child = "none" /\ exitOk = FALSE
    /\ kids = "none" /\ strays = FALSE /\ dirty = FALSE
    /\ witness = "none" /\ head = [h \in Heads |-> "idle"]
    /\ headKind = [h \in Heads |-> "other"] /\ seen = [exact |-> 0, other |-> 0]
    /\ evidence = {} /\ retained = "none"
-----------------------------------------------------------------------------
(* The witness thread and the processes that connect to it.                *)

Knock(h) ==
    /\ head[h] = "idle" /\ witness \in {"watching", "stopping"}
    /\ child # "none"                 \* nobody else knows the port
    /\ \E k \in HeadKinds :
        /\ k = "exact" => InTree      \* only the child's tree knows the nonce
        /\ headKind' = [headKind EXCEPT ![h] = k]
    /\ head' = [head EXCEPT ![h] = "queued"]
    /\ UNCHANGED <<launcherVars, signalVars, brokerVars, childVars, witness, seen>>

\* observe and receive_head: an exact HEAD that arrives in time and is
\* answered counts as exact, everything else as unexpected.  The flag is
\* looked at before accept, so what was accepted under it still counts.
Observe(h) ==
    /\ witness \in {"watching", "stopping"} /\ head[h] = "queued"
    /\ head' = [head EXCEPT ![h] = "served"]
    /\ \E exact \in BOOLEAN :
        /\ exact => headKind[h] = "exact"
        /\ seen' = IF exact THEN [seen EXCEPT !.exact = @ + 1]
                            ELSE [seen EXCEPT !.other = @ + 1]
    /\ UNCHANGED <<launcherVars, signalVars, brokerVars, childVars, witness, headKind>>

\* A socket error other than a timeout ends the thread with an error.
WitnessFails ==
    /\ witness \in {"watching", "stopping"} /\ \E h \in Heads : head[h] = "queued"
    /\ witness' = "failed"
    /\ UNCHANGED <<launcherVars, signalVars, brokerVars, childVars, head, headKind, seen>>

\* The loop ends at the stop flag; what is still queued is never looked at.
WitnessStops ==
    /\ witness = "stopping" /\ witness' = "stopped"
    /\ UNCHANGED <<launcherVars, signalVars, brokerVars, childVars, head, headKind, seen>>
-----------------------------------------------------------------------------
(* The broker: its audit file, its workers and its serve thread.           *)

\* append_private: the line, nothing, or (a full disk) a part of it, to which
\* the next record is glued and lost.  A part that shows, as the counts match
\* lines by their beginning, counts as the line; only "broker connection" is
\* compared whole, and counts while nothing is glued to it (tail = "attempt").
Append(record, ok) ==
    \/ /\ ok /\ tail' = "whole" /\ UNCHANGED torn
       /\ audit' = IF tail = "whole" THEN [audit EXCEPT ![record] = @ + 1] ELSE audit
    \/ ~ok /\ UNCHANGED auditVars
    \/ /\ ~ok /\ torn < MaxTorn /\ torn' = torn + 1
       /\ \E shows \in BOOLEAN :
            /\ shows => tail = "whole"
            /\ tail' = IF shows /\ record = "attempt" THEN "attempt" ELSE "torn"
            /\ audit' = IF shows /\ record # "attempt"
                          THEN [audit EXCEPT ![record] = @ + 1] ELSE audit

\* A client connects and is accepted; who is still in the backlog when the
\* listener closes is not told apart from who never came.  The stop flag is
\* looked at before accept, so one more may slip in after it.
Accept(c) ==
    /\ serve = "serving" /\ conn[c] = "idle"
    /\ child # "none"                 \* nobody else knows the socket
    /\ conn' = [conn EXCEPT ![c] = "accepted"]
    /\ UNCHANGED <<launcherVars, signalVars, childVars, witnessVars, serve, stopped,
                   expected, ledger, auditVars>>

\* thread::spawn panics when no thread can be had: the connection is dropped, the
\* listener closed, and the workers there are go on without anyone to join them.
SpawnPanics(c) ==
    /\ serve = "serving" /\ conn[c] = "idle" /\ child # "none"
    /\ serve' = "panicked" /\ conn' = [conn EXCEPT ![c] = "dropped"]
    /\ UNCHANGED <<launcherVars, signalVars, childVars, witnessVars, stopped,
                   expected, ledger, auditVars>>

Worker(c, from, to) ==
    /\ conn[c] = from /\ conn' = [conn EXCEPT ![c] = to]
    /\ UNCHANGED <<launcherVars, signalVars, childVars, witnessVars, serve, stopped,
                   expected>>

\* A worker that appends a record, and ends if it cannot.
RecordOrEnd(c, from, record, to, otherwise) ==
    \E ok \in BOOLEAN :
        /\ Worker(c, from, IF ok THEN to ELSE otherwise)
        /\ Append(record, ok) /\ UNCHANGED ledger

\* Without the peer's credentials, or the record, nothing is answered.
Attempt(c) ==
    \/ RecordOrEnd(c, "accepted", "attempt", "attempted", "dropped")
    \/ Worker(c, "accepted", "dropped") /\ UNCHANGED <<ledger, auditVars>>

\* A frame that is late or malformed leaves no second record.
Parse(c) ==
    \/ RecordOrEnd(c, "attempted", "invoked", "invoked", "unparsed")
    \/ Worker(c, "attempted", "unparsed") /\ UNCHANGED <<ledger, auditVars>>

\* verify_request up to the ledger: the child bound and alive, the broker not
\* stopped, and the command the probe's (else Refuse).
Check(c) ==
    /\ expected /\ child = "running" /\ ~stopped
    /\ Worker(c, "invoked", "checked") /\ UNCHANGED <<ledger, auditVars>>

Refuse(c) == Worker(c, "invoked", "refused") /\ UNCHANGED <<ledger, auditVars>>

\* RequestLedger::consume, for a verification: once.
Consume(c) ==
    /\ IF ledger = {}
         THEN Worker(c, "checked", "consumed") /\ ledger' = {c}
         ELSE Worker(c, "checked", "refused") /\ UNCHANGED ledger
    /\ UNCHANGED auditVars

Request(c) == RecordOrEnd(c, "consumed", "request", "requested", "refused")
Allow(c)   == RecordOrEnd(c, "requested", "allow", "allowed", "refused")

Respond(c) ==
    /\ Worker(c, "allowed", "answered") \/ Worker(c, "allowed", "refused")
    /\ UNCHANGED <<ledger, auditVars>>

Emitted(c) == RecordOrEnd(c, "answered", "emitted", "emitted", "emitted")

Ended == {"dropped", "unparsed", "refused", "emitted"}
WorkersIdle == \A c \in Conns : conn[c] \in {"idle"} \cup Ended
-----------------------------------------------------------------------------
(* The child's process tree.                                               *)

\* A descendant that leaves the group (setsid, setpgid) is out of its reach for
\* good.  One that ends by itself is not told apart from an idle one.
ChildWorks ==
    /\ InTree
    /\ \/ dirty' = TRUE /\ UNCHANGED <<kids, strays>>
       \/ child = "running" /\ kids' = "alive" /\ UNCHANGED <<strays, dirty>>
       \/ kids = "alive" /\ strays' = TRUE /\ UNCHANGED <<kids, dirty>>
    /\ UNCHANGED <<launcherVars, signalVars, brokerVars, witnessVars, child, exitOk>>

ChildExits ==
    /\ child = "running" /\ child' = "exited"
    /\ UNCHANGED <<launcherVars, signalVars, brokerVars, witnessVars, exitOk, kids, strays, dirty>>

\* Until the wait loop is left; later the flag is set and never read.
Watched == {"start", "confirm", "receive", "recheck", "state", "init",
            "auth", "session", "broker", "arm", "baseline", "spawn", "bind", "register", "wait", "try"}

\* Ctrl-C.  After the confirmation's registration is dropped the handler stays
\* installed without an action, so the signal is ignored until the next one.
CtrlC ==
    /\ pc \in Watched
    /\ flag' = (handler = "flag" \/ flag)
    /\ IF handler = "default"
         THEN pc' = "done" /\ outcome' = "failed"
         ELSE UNCHANGED <<pc, outcome>>
    /\ UNCHANGED <<cleanupError, temps, silent, evidence, retained, handler, expired, brokerVars,
                   childVars, witnessVars>>

TimePasses ==
    /\ pc \in {"confirm", "receive", "wait", "try"} /\ ~expired
    /\ expired' = TRUE
    /\ UNCHANGED <<launcherVars, brokerVars, childVars, witnessVars, handler, flag>>
-----------------------------------------------------------------------------
(* The launcher's main thread, in program order.                           *)

To(from, to) ==
    /\ pc = from /\ pc' = to
    /\ UNCHANGED outcome

\* Preconditions, target resolution and the witness; nothing is on disk yet.
Begin ==
    /\ To("start", "confirm")
    /\ witness' = "watching" /\ handler' = "flag" /\ flag' = FALSE
    /\ UNCHANGED <<cleanupError, temps, silent, evidence, retained, expired, brokerVars,
                   childVars, head, headKind, seen>>

BeginFails ==
    /\ pc = "start" /\ pc' = "done" /\ outcome' = "failed"
    /\ UNCHANGED <<cleanupError, temps, silent, evidence, retained, signalVars, brokerVars,
                   childVars, witnessVars>>

\* Leave by an error: `to` is the first part of the unwinding that applies.
Fail(from, to) ==
    /\ pc = from /\ pc' = to /\ outcome' = "failed"
    /\ UNCHANGED <<cleanupError, temps, silent, evidence, retained, signalVars, brokerVars,
                   childVars, witnessVars>>

Keep == UNCHANGED <<cleanupError, temps, silent, evidence, retained, signalVars, brokerVars,
                    childVars, witnessVars>>

\* confirm_with_timeout: the flag and the limit are looked at, then the line
\* is waited for 100 ms.
ConfirmPoll ==
    \/ flag /\ Fail("confirm", "unwind")
    \/ ~flag /\ expired /\ Fail("confirm", "unwind")
    \/ ~flag /\ ~expired /\ To("confirm", "receive") /\ Keep

ConfirmReceive ==
    \/ To("receive", "confirm") /\ Keep         \* no line yet
    \/ To("receive", "recheck") /\ Keep         \* the exact phrase
    \/ Fail("receive", "unwind")                \* another line, EOF, error

\* The version is read again, then the confirmation's registration dropped.
Recheck ==
    /\ To("recheck", "state")
    /\ handler' = "ignored" /\ flag' = FALSE /\ expired' = FALSE
    /\ UNCHANGED <<cleanupError, temps, silent, evidence, retained, brokerVars, childVars, witnessVars>>

Create(from, to, made) ==
    /\ To(from, to) /\ temps' = temps \cup made
    /\ UNCHANGED <<cleanupError, silent, evidence, retained, signalVars, brokerVars,
                   childVars, witnessVars>>

CreateState    == Create("state", "init", {"state"})
\* git init, add and commit with hooks and global configuration disabled, the
\* clean status that ends it, and the empty audit in the evidence directory.
InitRepository == Create("init", "auth", {}) /\ ~dirty
\* The auth file is copied through a held handle into the private home.
StageAuth      == Create("auth", "session", {})
CreateSession  == Create("session", "broker", {"session"})

\* private_verification_tempdir fails for one of the directories.  What there
\* was of that one is dropped, and nobody hears when that fails; those made
\* before it are closed, and a failure is reported.
CreateStateFails ==
    /\ pc = "state" /\ pc' = "unwind" /\ outcome' = "failed"
    /\ \E left, dropped \in SUBSET {"state"} :
        /\ temps' = left \cup dropped /\ silent' = dropped
        /\ cleanupError' = (left # {})
    /\ UNCHANGED <<evidence, retained, signalVars, brokerVars, childVars, witnessVars>>

\* Session::create drops what it has made; then the state is closed.
CreateSessionFails ==
    /\ pc = "session" /\ pc' = "temps" /\ outcome' = "failed"
    /\ silent' \in SUBSET {"session"} /\ temps' = temps \cup silent'
    /\ UNCHANGED <<cleanupError, evidence, retained, signalVars, brokerVars, childVars,
                   witnessVars>>

StartBroker ==
    /\ To("broker", "arm") /\ serve' = "serving"
    /\ UNCHANGED <<cleanupError, temps, silent, evidence, retained, signalVars, stopped,
                   expected, ledger, conn, auditVars, childVars, witnessVars>>

\* The child's command line and environment: the private home, no credentials.
ArmChild == To("arm", "baseline") /\ Keep

\* temporary_repository_status: tracked, untracked and ignored files.
RepositoryClean == ~dirty

\* Nothing but Git and the harness has touched the repository so far.
Baseline == To("baseline", "spawn") /\ RepositoryClean /\ Keep

Spawn ==
    /\ To("spawn", "bind") /\ child' = "running"
    /\ UNCHANGED <<cleanupError, temps, silent, evidence, retained, signalVars, brokerVars,
                   exitOk, kids, strays, dirty, witnessVars>>

\* current_process_identity and set_codex_identity.
Bind ==
    /\ To("bind", "register") /\ child # "none" /\ expected' = TRUE
    /\ UNCHANGED <<cleanupError, temps, silent, evidence, retained, signalVars, serve,
                   stopped, ledger, conn, auditVars, childVars, witnessVars>>

Register ==
    /\ To("register", "wait")
    /\ handler' = "flag" /\ flag' = FALSE /\ expired' = FALSE
    /\ UNCHANGED <<cleanupError, temps, silent, evidence, retained, brokerVars, childVars,
                   witnessVars>>

SetupFails ==
    \/ Fail("recheck", "unwind")
    \/ \E at \in {"init", "auth", "broker"} : Fail(at, "temps")
    \/ \E at \in {"arm", "baseline", "spawn"} : Fail(at, "join")
    \/ Fail("bind", "kill") \/ Fail("register", "kill")

\* wait_for_bound_child: flag, limit and try_wait, in this order, every 25 ms.
\* Who leaves the loop looks at neither again.
LeaveWait == flag' = FALSE /\ expired' = FALSE /\ UNCHANGED handler

WaitInterrupt ==
    /\ pc = "wait"
    /\ IF flag
         THEN /\ pc' = "kill" /\ outcome' = "failed"
              /\ stopped' = TRUE /\ LeaveWait
         ELSE pc' = "try" /\ UNCHANGED <<outcome, stopped, signalVars>>
    /\ UNCHANGED <<cleanupError, temps, silent, evidence, retained, serve, expected,
                   ledger, conn, auditVars, childVars, witnessVars>>

\* Mutant: the limit counts only once an interrupt is set.
LimitIfFlagged == expired /\ flag

LimitReached == expired

WaitTimeout ==
    /\ pc = "try" /\ LimitReached
    /\ pc' = "kill" /\ outcome' = "failed" /\ stopped' = TRUE /\ LeaveWait
    /\ UNCHANGED <<cleanupError, temps, silent, evidence, retained, serve, expected,
                   ledger, conn, auditVars, childVars, witnessVars>>

TryWait ==
    /\ ~LimitReached
    /\ IF child = "exited"
         THEN /\ To("try", "tree") /\ LeaveWait
              /\ child' = "reaped" /\ exitOk' \in BOOLEAN
         ELSE To("try", "wait") /\ UNCHANGED <<child, exitOk, signalVars>>
    /\ UNCHANGED <<cleanupError, temps, silent, evidence, retained, brokerVars, kids, strays,
                   dirty, witnessVars>>

TryWaitFails ==
    /\ pc = "try" /\ ~LimitReached /\ pc' = "kill" /\ outcome' = "failed" /\ LeaveWait
    /\ UNCHANGED <<cleanupError, temps, silent, evidence, retained, brokerVars, childVars,
                   witnessVars>>

\* Mutant: a failed stop keeps the child from being reaped, and is ignored.
KillIgnored ==
    /\ To("kill", "join")
    /\ \E killed \in BOOLEAN :
        /\ kids' = IF killed THEN "none" ELSE kids
        /\ child' = IF killed THEN "reaped" ELSE child
    /\ UNCHANGED <<cleanupError, temps, silent, evidence, retained, signalVars, brokerVars,
                   exitOk, strays, dirty, witnessVars>>

\* ChildTree::stop_and_reap: the process group is killed and the child reaped;
\* either may fail, and the other is attempted all the same.
KillAndReap ==
    /\ To("kill", "join")
    /\ \E killed, reaped \in BOOLEAN :
        /\ kids' = IF killed THEN "none" ELSE kids
        /\ \/ reaped /\ child' = "reaped"
           \/ ~reaped /\ child' = "exited"
           \/ ~reaped /\ ~killed /\ child' = child
        /\ cleanupError' = (cleanupError \/ ~killed \/ ~reaped)
    /\ UNCHANGED <<temps, silent, evidence, retained, signalVars, brokerVars, exitOk,
                   strays, dirty, witnessVars>>

\* Mutant: the descendants are left alone.
StopTreeParentOnly ==
    /\ To("tree", "freeze")
    /\ UNCHANGED <<cleanupError, temps, silent, evidence, retained, signalVars, brokerVars,
                   childVars, witnessVars>>

\* The child is gone; what is left of its process group is killed before
\* anything is read.
StopTree ==
    /\ To("tree", "freeze") /\ kids' = "none"
    /\ UNCHANGED <<cleanupError, temps, silent, evidence, retained, signalVars, brokerVars,
                   child, exitOk, strays, dirty, witnessVars>>

StopTreeFails ==
    /\ pc = "tree" /\ pc' = "join" /\ outcome' = "failed"
    /\ cleanupError' = TRUE
    /\ UNCHANGED <<temps, silent, evidence, retained, signalVars, brokerVars, childVars,
                   witnessVars>>

\* stop_accepting, then shutdown, which joins serve: it closes the listener
\* and joins its workers, or has panicked and reports that.
StopAccepting(from, to) ==
    /\ To(from, to) /\ stopped' = TRUE
    /\ UNCHANGED <<cleanupError, temps, silent, evidence, retained, signalVars, serve,
                   expected, ledger, conn, auditVars, childVars, witnessVars>>

Joined ==
    /\ serve = "serving" /\ WorkersIdle /\ serve' = "down"
    /\ UNCHANGED <<temps, silent, evidence, retained, signalVars, stopped, expected,
                   ledger, conn, auditVars, childVars, witnessVars>>

JoinFailed ==
    /\ serve = "panicked"
    /\ UNCHANGED <<temps, silent, evidence, retained, signalVars, brokerVars, childVars,
                   witnessVars>>

Freeze == StopAccepting("freeze", "frozen")

FreezeJoin ==
    \/ Joined /\ To("frozen", "probe") /\ UNCHANGED cleanupError
    \/ JoinFailed /\ pc = "frozen" /\ pc' = "temps" /\ outcome' = "failed" /\ UNCHANGED cleanupError

\* Unwinding with a broker to shut down.
Abort == StopAccepting("join", "joining")

AbortJoin ==
    /\ To("joining", "temps")
    /\ \/ Joined /\ UNCHANGED cleanupError
       \/ JoinFailed /\ cleanupError' = TRUE

\* VerificationProbe::finish.
ProbeFinish ==
    /\ To("probe", "probed")
    /\ witness' = IF witness = "watching" THEN "stopping" ELSE witness
    /\ UNCHANGED <<cleanupError, temps, silent, evidence, retained, signalVars, brokerVars,
                   childVars, head, headKind, seen>>

\* broker_attempt_count and its like: matching lines of the bounded audit.
Counted(r) == audit[r] + (IF r = "attempt" /\ tail = "attempt" THEN 1 ELSE 0)

\* The audit's counts, the witness's and Git's status are read.
ReadEvidence ==
    \/ /\ To("probed", "retain") /\ witness = "stopped"
       /\ evidence' = {[audit |-> [r \in Records |-> Counted(r)], seen |-> seen,
                         clean |-> RepositoryClean]}
       /\ UNCHANGED <<cleanupError, temps, silent, retained, signalVars, brokerVars,
                      childVars, witnessVars>>
    \/ witness \in {"stopped", "failed"} /\ Fail("probed", "temps")

\* Mutant: what succeeded is counted, not what was attempted.
EnoughEvidence ==
    /\ exitOk
    /\ \E e \in evidence :
        /\ e.clean /\ e.seen.exact = 1
        /\ \A r \in {"request", "allow", "emitted"} : e.audit[r] = 1

ExactEvidence ==
    /\ exitOk
    /\ evidence = {[audit |-> [r \in Records |-> 1],
                    seen |-> [exact |-> 1, other |-> 0], clean |-> TRUE]}

\* Session::cleanup and VerificationState::cleanup, each whatever became of the
\* other.  The session's parts go in order, and after an error the rest is only
\* dropped: an error need not leave anything, what is left had an error.
RemoveTemps(from, to) ==
    /\ pc = from /\ pc' = to
    /\ \E left \in SUBSET (temps \ silent), error \in BOOLEAN :
        /\ left # {} => error
        /\ error => left # {} \/ "session" \in temps \ silent
        /\ temps' = silent \cup left /\ cleanupError' = (cleanupError \/ error)
    /\ UNCHANGED <<silent, evidence, retained, signalVars, brokerVars, childVars, witnessVars>>

\* With --diagnostic-dir a copy is kept; a partial one is removed again.
RetainDiagnostic ==
    /\ To("retain", "cleanup") /\ retained' \in {"none", "kept", "failed"}
    /\ UNCHANGED <<cleanupError, temps, silent, evidence, signalVars, brokerVars, childVars,
                   witnessVars>>

\* Nothing has failed before the cleanup on this path.
Passes == retained # "failed" /\ ~cleanupError' /\ ExactEvidence

Verdict ==
    /\ RemoveTemps("cleanup", "unwind")
    /\ outcome' = IF Passes THEN "passed" ELSE "failed"

AbortTemps == RemoveTemps("temps", "unwind") /\ UNCHANGED outcome

\* Dropping the probe stops the witness and joins it.
Unwind ==
    /\ To("unwind", "unwinding")
    /\ witness' = IF witness = "watching" THEN "stopping" ELSE witness
    /\ UNCHANGED <<cleanupError, temps, silent, evidence, retained, signalVars, brokerVars,
                   childVars, head, headKind, seen>>

Return == To("unwinding", "done") /\ witness \in {"stopped", "failed"} /\ Keep
-----------------------------------------------------------------------------
ConfirmStep == ConfirmPoll \/ ConfirmReceive
SetupStep ==
    \/ Recheck \/ CreateState \/ InitRepository
    \/ StageAuth \/ CreateSession \/ StartBroker \/ ArmChild \/ Baseline \/ Spawn \/ Bind \/ Register
WaitStep == WaitInterrupt \/ WaitTimeout \/ TryWait
StopStep ==
    \/ KillAndReap \/ StopTree \/ Freeze \/ FreezeJoin
    \/ Abort \/ AbortJoin
EvidenceStep ==
    ProbeFinish \/ ReadEvidence \/ RetainDiagnostic \/ Verdict \/ AbortTemps \/ Unwind \/ Return
LauncherStep ==
    Begin \/ ConfirmStep \/ SetupStep \/ WaitStep \/ StopStep \/ EvidenceStep
WorkerStep(c) ==
    \/ Attempt(c) \/ Parse(c) \/ Check(c) \/ Refuse(c) \/ Consume(c)
    \/ Request(c) \/ Allow(c) \/ Respond(c) \/ Emitted(c)
ServeStep(c) == Accept(c) \/ SpawnPanics(c)
Finished == pc = "done" /\ UNCHANGED vars

Next ==
    \/ LauncherStep \/ BeginFails \/ SetupFails \/ CreateStateFails \/ CreateSessionFails
    \/ TryWaitFails \/ StopTreeFails
    \/ \E c \in Conns : ServeStep(c) \/ WorkerStep(c)
    \/ \E h \in Heads : Knock(h) \/ Observe(h)
    \/ WitnessFails \/ WitnessStops
    \/ ChildWorks \/ ChildExits \/ CtrlC \/ TimePasses
    \/ Finished

Spec == Init /\ [][Next]_vars

\* Threads that can run do, and time passes; nothing is assumed of the child,
\* the clients and the user.
Fairness ==
    /\ WF_vars(LauncherStep) /\ WF_vars(TimePasses) /\ WF_vars(WitnessStops)
    /\ \A c \in Conns : WF_vars(WorkerStep(c))

FairSpec == Spec /\ Fairness
-----------------------------------------------------------------------------
\* The connections other than c whose record of this kind the broker wrote.
Begun == {"idle", "accepted", "dropped"}
Attempted(c) == {d \in Conns \ {c} : conn[d] \notin Begun}
Invoked(c)   == {d \in Conns \ {c} : conn[d] \notin Begun \cup {"attempted", "unparsed"}}

\* A passed verification means that, in the system and not only in the
\* counts, one connection consumed the ledger and was answered with an allow,
\* and of the others none was recorded unless appends were cut short: one for
\* each record that does not show.  One exact request was served and nothing
\* else; the child, its group and all directories are gone; and nothing but a
\* descendant outside the group has touched the repository
\* (verify_local_hook, from the freeze to the verdict).
PassIsEarned ==
    outcome = "passed" =>
        /\ \E c \in Conns :
            /\ ledger = {c} /\ conn[c] = "emitted"
            /\ Cardinality(Attempted(c)) + Cardinality(Invoked(c)) <= torn
        /\ \E h \in Heads : /\ head[h] = "served" /\ headKind[h] = "exact"
                            /\ \A i \in Heads \ {h} : head[i] # "served"
        /\ child = "reaped" /\ exitOk /\ kids = "none" /\ temps = {}
        /\ serve = "down" /\ (dirty => strays)

\* "A late client must not change the log after the diagnostic summary is
\* made": once the evidence is read, no client, worker or witness can change
\* what it was read from, and only a descendant that left the group can still
\* change the repository.
EvidenceFrozen ==
    [][evidence # {} => /\ UNCHANGED <<audit, tail, seen, exitOk>>
                        /\ dirty' # dirty => strays]_vars

\* However the verification ends, no error path forgets the child, its group,
\* the broker's or the witness's thread or a directory.  What survives was
\* reported, but for the directory whose creation failed, which is left before
\* any child ran; and workers that nobody joined, after a panic of serve, which
\* fails the verification.
NothingOutlives ==
    pc = "done" =>
        /\ cleanupError \/ (child \in {"none", "reaped"} /\ kids = "none" /\ temps = silent)
        /\ silent # {} => outcome = "failed" /\ child = "none"
        /\ \/ serve \in {"none", "down"} /\ WorkersIdle
           \/ serve = "panicked" /\ outcome = "failed"
        /\ witness \in {"none", "stopped", "failed"}

\* A child that never exits, a client that stalls, a user who never answers:
\* the verifier returns all the same (the ten-minute limits).
Returns == <>(pc = "done")
=============================================================================
