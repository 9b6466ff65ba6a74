# A TLA+ verification of codex-autoapprover

codex-autoapprover launches the Codex command-line program "armed": Codex calls
a hook for every permission request, the hook asks a broker that lives in the
launcher's process, and the broker answers *allow* for the requests its policy
admits, once each, or *no decision* for everything else.  Around that core sit
a local state store, a selector of releases, and installers that replace the
executable atomically.

This directory holds TLA+ modules translated from the source, the TLC runs that
check them on small instances, and TLAPS proofs that hold for every instance.
`PROJECT.json` maps every definition to the source lines it stands for.

## 1. Inventory of the system

| Component | Source | State it keeps | Operations | What makes it correct |
|---|---|---|---|---|
| Decision broker (Linux) | `src/broker/linux.rs`, `src/broker/mod.rs` | stop flag, expected child identity, slot counter, worker handles, replay ledger | `start`, `set_codex_identity`, `stop_accepting`, `shutdown`; `serve`; `handle_connection`, `verify_request`; `consume` | one grant per request, invocation and connection; slots never leak; shutdown returns |
| Hook client | `src/hook.rs`, `broker::request` | a socket and a deadline | connect, send, read one answer, print | prints an allow only after the broker granted it |
| Launcher | `src/launcher.rs` | session, broker, child, interrupt flag | `run`, `launch_unarmed`, `wait_for_bound_child`, `diagnose`, `preview` | nothing granted before the child is verified; no broker left behind; the outcome it reports is final |
| Hook verification | `src/launcher.rs`, `src/verification_probe.rs`, `src/child_tree.rs` | verification broker, process tree, probe file | `verify_local_hook` | reports success only for one granted probe, and leaves no process |
| Session audit | `src/audit.rs` | a file of records in the session's directory | `initialize`, `append_private`, counts | records of a connection form a chain |
| Process identity | `src/process/linux.rs`, `windows.rs` | none (reads `/proc`) | `read_process`, `validate_ancestry` | no false descendant under pid reuse |
| Decision engine | `src/decision.rs` | none | `decide` | allow only for admitted requests |
| Protocol, arming, CLI | `src/protocol.rs`, `arming.rs`, `cli.rs` | none | parse, environment | strict parsing |
| Admission, certification, identity | `src/admission.rs`, `certification.rs`, `identity.rs`, `artifact.rs`, `environment.rs`, `compatibility.rs` | tables and digests of files | inspect, verify | an executable that changed is not admitted |
| Codex resolver | `src/codex.rs` | none | resolve, bounded probes | bounded output and time |
| Local update state | `src/update/state.rs`, `outcome.rs` | a JSON file, a lease | load, record, save | no lost update, old or new state after a crash, bounded list |
| Release selection | `src/update/selection.rs`, `manifest.rs`, `verify.rs` | none | select | never a revoked or older release |
| Configuration editor | `src/configure.rs` | Codex's configuration, a backup | `render`, `run` | the user's file is never lost |
| Linux installer | `scripts/install-linux.sh` | marker, releases, two links, three journals | install, rollback, status, uninstall | every operation is atomic under a kill at any time |
| Windows counterparts | `src/broker/windows.rs`, `src/process/windows.rs`, `scripts/install-windows*.ps1` | as on Linux | as on Linux | as on Linux |
| Upstream watch and repair | `scripts/watch_codex.py`, ... | a state file in the repository | scheduled jobs | no candidate is skipped |
| Release gate and packaging | `scripts/release_gate.py`, ... | none | sequential checks | out of scope: pure input and output |

**Interactions.**  The launcher owns the broker: it calls `start`, spawns Codex,
records Codex's identity with `set_codex_identity`, waits, and calls `shutdown`.
Codex spawns hook processes; each connects to the broker's socket from a process
that must descend from the Codex child.  The serve thread accepts connections
and gives each a worker thread.  Workers share the ledger (a mutex), the slot
counter and the stop flag (atomics), and append to the session audit.  After the
join the launcher reads the audit back, records an observation in the local
state, and deletes the session.  Before all this it admits the installed Codex:
it hashes the package's files, looks the digests up among the embedded
certificates, and repeats the comparison around the launch and around every
decision.  `verify-local-hook` starts a second kind of session, with a broker
that may grant one request, a loopback witness and a temporary repository.

**What is hard.**  Workers interleave with each other, with the launcher's stop
flag and with process exit, reparenting and pid reuse; every audit append, read
and write may fail; clients stall or vanish; `accept` and thread creation may
fail; the launcher may leave by any of its error paths; the installer may be
killed between any two changes of the file system.  A package manager replaces
the files the launcher is hashing; launchers of one user finish together and
write one state file, and the machine may lose power while they do; on Windows
closing a handle gives its value away.  `PROJECT.json` lists these
under `hazards`, each with its line and the properties that would catch it.

## 2. Modules

| Module | Models | Role |
|---|---|---|
| `RequestLedger` | `RequestLedger::consume` | operators: when a consume succeeds, and its result |
| `OneShotApproval` | - | abstract: what a broker session promises |
| `Broker` | `broker/linux.rs`, with the client of `hook.rs` and the processes of `process/linux.rs` | state machine; refines `OneShotApproval` |
| `Launcher` | `launcher::run`, `wait_for_bound_child` | composition: EXTENDS `Broker`; refines its safety specification |
| `BrokerProofs` | - | theorems about `Broker` and `Launcher` |
| `AtomicInstall` | - | abstract: the two links as if operations were indivisible |
| `LinuxInstaller` | `scripts/install-linux.sh` | state machine with a crash at any point; refines `AtomicInstall` |
| `InstallerProofs` | - | theorems about `LinuxInstaller` |
| `Outcome` | `update/outcome.rs` | operators: the reader of the audit, the categories of a session |
| `SessionAudit` | `audit.rs`, the appends of `handle_connection`, `record_session_observation` | state machine: what workers write, and what the launcher reads |
| `ObservationList` | the list of `update/state.rs` | operators: merge, order, eviction |
| `Observations` | the same, over many sessions | state machine over the operators |
| `OutcomesProofs` | - | theorems about `SessionAudit`, `Observations` and `Selection` |
| `ObservationRegister` | - | abstract: a register that launchers update in one step |
| `StateStore` | lease, load, save of `update/state.rs` | state machine with crashes and power loss; implements `ObservationRegister` |
| `ObservationListProofs` | - | lemmas on the list, which `StateStoreProofs` and `OutcomesProofs` use |
| `StateStoreProofs` | - | theorems about `StateStore` |
| `VerifyHook` | `verify_local_hook`, `verification_probe.rs` | state machine: launcher, workers, witness, process tree, Ctrl-C |
| `VerifyHookProofs` | - | theorems about `VerifyHook` |
| `ChildTree` | `child_tree.rs` on both platforms | state machine |
| `Decision` | `protocol.rs`, `decision.rs` | operators: strict parsing and `decide` |
| `Admission` | `admission.rs`, `artifact.rs`, `identity.rs`, `certification.rs`, the launch in `launcher.rs` | state machine; uses `Decision` |
| `AdmissionProofs` | - | theorems about `Admission` |
| `Manifest`, `Selection` | `update/manifest.rs`, `update/selection.rs` | operators, and a catalog that is published in any order |
| `PipeBroker` | `broker/windows.rs` | state machine |
| `WindowsProofs` | - | theorems about `PipeBroker` and `ChildTree` |
| `MC*` | - | instances for TLC |

Definitions marked "Mutant" are deliberately wrong variants of the definition
that follows them.  No specification uses one; replacing the definition by its
mutant must make the property it is listed with in `PROJECT.json` fail.

### Broker

One variable group per owner.  `serveVars` are `SharedState` and the locals of
`serve`; `workerVars` the program counter and locals of each worker;
`auditVars` the records a connection's worker has appended and whether the
session's directory still exists; `clientVars` and `osVars` are the
environment.  `grants` is a history variable with a record for every consume
that returned true.

A worker's program counter names the step it takes next:

| pc | Action | Code |
|---|---|---|
| `attempt` | `WorkerAttempt` | peer credentials, attempt record |
| `read` | `WorkerRead` | frame until the deadline, end of frame, parse, invocation record |
| `expected` | `WorkerCheckExpected` | recorded identity, stop flag, uid, secret |
| `ancestry` | `WorkerCheckAncestry` | first `validate_peer` |
| `decide` | `WorkerDecide` | admission, decision engine, admission, stop flag |
| `recheck` | `WorkerRecheck` | second `validate_peer` |
| `identify` | `WorkerIdentify` | `read_process` for the peer's start time |
| `consume` | `WorkerConsume` | the ledger under its mutex |
| `allow` | `WorkerAuditAllow` | request and allow records; a failure withholds the allow |
| `write` | `WorkerWriteAllow` | the allow frame |
| `emitted` | `WorkerAuditEmitted` | the emitted record, failure ignored |
| `refuse` | `WorkerRefuse` | the no-decision frame, failure ignored |
| `release` | `WorkerRelease` | locals dropped, slot given back |

Abstractions.  A message is a record of what the checks tell apart: the kind of
its frame, whether peer and secret are authentic, what `decide` answers, and the
hook input the ledger digests (digests are taken not to collide).  Times are left
out: a deadline may strike at any step that performs I/O.  A process is alive or
not, has a start time, and is below the Codex child or not; `Fork` reuses pids
with a new start time.  The two walks of `validate_ancestry` are one step, and a
walk may always refuse.  `ClientApproves` may happen as soon as the allow frame
was written, while the real client also waits for end of file: the model allows
more, never less.

### Launcher

`lpc` is the main thread of `launcher::run`: `inspect` (admission), `arm`
(broker started), `bind` (child spawned), `identity` (child verified), `wait`
(`wait_for_bound_child`), then `stop`, `join`, `observe`, `cleanup`, `exit`, and
the error path `abort`, `abort_join`.  Every owner action of `Broker` is taken
only where the main thread takes it.  `ConfigureFails` is the early return
between the broker's start and the spawn, on which the broker is not shut down.
When `lpc` is `exit` the process is gone and `ThreadStep` is disabled.

### LinuxInstaller

The variables are the files the script manages; a step changes at most one of
them, with the tests that precede the change.  The script holds an exclusive
`flock`, so one invocation slot suffices.  `Crash` ends the invocation at any
step: a kill (the EXIT trap does not run) or a failing command under `set -e`
(it does).  The next `Begin` may be any operation with any release, and starts
with the recovery phase.  `acting` tells recovery from the operation itself,
which share `recover_rollback` and `finish_uninstall`.  `outcome` records how
the last invocation ended: `failed` when one of the tests on journals, links
and releases ended it, `stranded` when `check_marker` did.

Left out: what other programs do to the directory (ownership, mode and link-type
tests), loss of unsynced data, and temporary links and journals under names that
no later invocation reads.  `NoLog` is an absent journal.

### SessionAudit and Outcome

`log` is the file, each line as its reader takes it, and `open` says that the
last line lacks its end.  An append writes its line, nothing, or a part of it
(`CutShort`, counted by `torn`), to which the next record is glued.  The reader
knows every record but "broker connection" by how its line begins, so a part
that is long enough counts as the record and swallows the one behind it
(`Glued`); a shorter part makes a foreign line.  A short write whose rest is
written after another worker's append is not modelled.  A worker's step decides
by the result of its append whether it goes on, as `handle_connection` does; its
client is sent an answer or has gone.  `Read` happens after the join and applies `ReadAudit`: the size
limit, the lines in order, the limit of each kind, the nesting of the counts.
`Broker` shows that each connection's records form a chain; here the question is
what is concluded from all of them.

### Observations and StateStore

An identity is a number in `observation_order`, and `Sorted` is the stable sort
by it (`Rank` counts the entries that come before).  `Recorded` gives the lists
that recording may lead to (two readings of the clock), with the insertion in
order, the merge with saturating counts and the eviction.  `Observations`
applies it one session after the other.  In `StateStore` every launcher goes
through open, lock, verify, load, merge, create, write, sync, verify, rename and
sync, each of which may fail; `Crash` leaves the temporary file behind,
`PowerLoss` sets the file to one of the contents in `durable`, and `ReplaceLock`
is somebody removing the lock file.  Process ids, and with them the names of
temporary files, are used again.

### VerifyHook and ChildTree

`pc` is the main thread of `verify_local_hook` in program order; error returns
go to the first part of the unwinding that applies (`kill`, `join`, `temps`,
`unwind`).  `handler` is what Ctrl-C meets: the default action, a registered
flag, or a handler without an action.  `conn[c]` is how far the worker of a
connection is: credentials and attempt record, frame and invocation record,
the checks of `verify_request` (one step here), the ledger, the request and
allow records, the answer, the emitted record.  Any append may fail or be cut
short; `audit` counts the lines of each kind that show, and `tail` is what the
next append meets at the end of the file.  A client connects and is accepted in
one step, an accept error is a listener nobody connects to any more, and the
limit on slots is left to `Broker`.  At any connection `thread::spawn` may panic
(`SpawnPanics`): shutdown then fails (`JoinFailed`) while workers go on.

`kids` are descendants in the process group, which a successful stop kills;
`strays` says that one has left the group, out of reach for good.  Descendants
that end by themselves are not told apart from idle ones.  `temps` are the
directories on disk, `silent` those that a failed creation dropped and failed to
remove without a word.  `LeaveWait` clears the interrupt flag and the limit once
nobody looks at them, which only merges states.  The witness is reduced to the
two counts it keeps.  `evidence` is what the launcher read, and the verdict looks
at nothing else.  In `VerifyHook` stopping the tree is one step that may fail;
`ChildTree` opens it: forks, exits and departures from the group interleave with
spawn, assignment to the job, resume, stop, reap and close.

### Admission and Decision

A file has a content and a stamp; every change gives it a new stamp.  Digests
are injective.  The launch binds the files one after the other, admits the
target, and runs its checks; a recheck looks at the location and names first
and then at each file's stamp, one step each (`RecheckFile`), so a package
manager can act between any two.  `OnSuccess` and `OnFailure` say where each
of the seven rechecks leads.  A document is the sequence of its fields as
written; `Parse` and `Decide` are the checks of the code on it, in their order.

### Manifest and Selection

A runtime floor keeps the spelling of its numbers, because identities compare
text while the selector compares numbers.  The parser's identity of a
compatibility record includes the hook fields, which the selector's match
leaves out; the five of them are one field here, of which `ValidRecord` accepts
one value (`manifest.rs:506`), as the code does.  The instance of the run has
one libc; the theorems have any.  `FirstReason` is the order of the
code's checks.  The reference definition (`Applicable`, `Fits`, `Verdicts`)
knows no order at all.

### PipeBroker

Handles are values that the system gives out again after `CloseHandle`;
`Instances` counts a pipe instance until both of its ends are closed.
`Reached` is whom a worker's read or write really gets to.  The checks of
`verify_request`, which are those of the Linux broker, are one step.

## 3. Runs

| Run | Instance | Shows |
|---|---|---|
| `broker` | 2 connections, 2 slots, one pid with 2 incarnations, requests of 2 Codex sessions, ledger limit 2 | `OneShot`, `SlotsMatchWorkers`, `AllowIsBacked`, `JoinedIsQuiet`, and that `Broker` implements `OneShotApproval` |
| `broker_live` | 2 connections compete for 1 slot, some stall; verification broker; fairness | `AuditChain`, `IdentityFirst`, `ShutdownReturns`, `ConnectionsEnd`, `StopIsFinal` |
| `broker_exit` | 1 connection | expected violation of `NoDecisionAfterExit` (section 6) |
| `launcher` | 1 connection, messages of every kind, fairness | `ObservationIsFinal`, `ExitAfterJoin`, `LauncherExits`, `InterruptStops` |
| `installer` | 3 releases, any number of invocations and kills | `LinksAreRunnable`, `RecoveryAccepts`, `SuccessDelivers`, refinement of `AtomicInstall` |
| `installer_stranded` | 1 release | expected violation of `JournalsAreFinished` (section 6) |
| `verify_hook` | 2 connections to the broker, 2 to the witness, 1 line cut short, in three parts, fairness | `PassIsEarned`, `EvidenceFrozen`, `NothingOutlives`, `Returns` |
| `outcomes` | audit of 3 connections with a limit of 2 per kind and 2 lines cut short; 3 identities for 2 places; catalogs of 2 of 60 manifests for 40 hosts | `ClaimsHappened`, `RefusalIsVisible`; `NewestAreKept`, `FailuresStayVisible`; `SelectionIsBest`, `ValidatedIsUnambiguous` |
| `state_store` | 2 launchers, 2 launches, a crash or power loss, a replaced lock file, fairness | `AcknowledgedSurvives`, `ImplementsRegister`, `WaitsAreBounded` |
| `admission` | 2 certified releases and an altered file, 1 helper, 2 changes after the start, 3 hosts | `AdmittedWhole`, `RunsCertifiedBytes`, `AuthorityIsExact`, `OneReading` |
| `windows` | 2 clients, 2 instances, 1 request; a child with 3 more processes; fairness | `AnswersMatch`, `NothingLeftOpen`, `StopEndsService`; `StopLeavesNone` |
| `windows_pipe` | 2 clients, 2 requests | expected violation of `WorkerOwnsPipe` (section 6) |

`MCOutcomes` and `MCWindows` put parts that share no state side by side: `part`
is chosen in the initial state and only that part moves.  The parts of
`MCVerifyHook` share the launcher: each lets one part of its environment do what
it likes (the broker with two clients, torn lines and a panic; the process tree
with Ctrl-C and failing removals; the witness with two connections and socket
errors) and keeps the other two to their ordinary course.  The launcher's steps
and the failures of its other calls are in each.  The theorems on `VerifyHook`
are about all of it together.

**Why the bounds are enough to be interesting.**  Every conflict the ledger
resolves is between two requests: the same input twice, the same invocation
twice, two sessions, two probes, or the last free place.  Two connections with
a pid that is reused (`MaxStart = 2`) produce each of these in every order, and
the proofs of section 5 remove the bound.  One slot for two connections makes
the second wait while the first stalls.  Three releases are the current, the
previous and a new one; the number of invocations and of kills is not bounded,
since the state of the file system is finite.  Three connections pass the
limit of two records of a kind, and three identities the limit of two places;
counts saturate after two sessions.  A lost update needs two launchers, a name
collision of temporary files a launcher that dies and one that comes after it.
The two changes of `admission` (`MaxChanges = 3` counts the first installation)
are what it takes to change a file and put it back, or to mix two releases.
A second connection to the broker is what races for a verification's one grant
and what a torn line can hide; a second one to the witness is what must spoil
its count.  One line cut short is enough to lose a record behind it; hiding a
client whose invocation was recorded takes two, which `outcomes` has.
Connections are symmetric where the runs say so (they are only compared), and
so are releases.

The named bounds are `MaxActive` (16 in the code), `MaxInvocations` (4096),
`MaxCount` (64), `MaxLines` (the lines that 64 KiB of audit hold),
`MaxObservations`, `MaxAssets` and `MaxRecords` (the limits of the code), and,
without a counterpart in the code, `MaxStart` (start times of one pid),
`MaxRuns`, `MaxReplaced`, `MaxCrashes`, `MaxChanges`, `MaxTorn` (appends cut
short) and `MaxCatalog`.

Deadlock is not checked for the brokers and the launcher: a session whose
connections are used up, or whose launcher has exited, stops.  The other runs
check it.

## 4. Fairness

`Broker!Fairness` asks for weak fairness of the serve thread (its failures
excepted), of every worker and of `ClientDeclines`.  Threads are scheduled; every read and write of a worker
is bounded by a deadline, and so is the client, hence a client never waits
forever.  `ShutdownReturns` and `ConnectionsEnd` need no more.  `LFairness` asks
for weak fairness of the launcher's main thread (which polls `try_wait`) and of
the broker's threads while the process exists.  Nothing is asked of Codex, of
hook processes or of failures: `LauncherExits` starts from a child that has
exited.

`VerifyHook!Fairness` asks the same of the main thread, of the workers and of
the stopping witness, and that time passes; the child, the clients and the user
may do nothing for ever, and `Returns` holds all the same because of the
ten-minute limits.  `StateStore!FairSpec` asks for the launcher that polls the
lock, and for time, and nothing of the one that holds the lock.
`PipeBroker!PFairness` asks for the serve thread and the workers;
`CreateNamedPipeW` returns, whether it succeeds or not.

## 5. Theorems

Those about the broker are of `SafeSpec`, those about the launcher of
`LSafeSpec`, both without fairness; `Spec` is the specification of the component
named in the row.  They hold for every value of the constants that satisfies the
assumptions listed below the table.

| Theorem | States |
|---|---|
| `TypeCorrect` | `SafeSpec => []TypeOK` |
| `Inductive` | `SafeSpec => []IInv` |
| `ReplayProtection` | `SafeSpec => []OneShot` |
| `SlotAccounting` | `SafeSpec => []SlotsMatchWorkers` |
| `AllowsAreBacked` | `SafeSpec => []AllowIsBacked` |
| `AuditIsChained` | `SafeSpec => []AuditChain` |
| `IdentityComesFirst` | `SafeSpec => []IdentityFirst` |
| `JoinedStaysQuiet` | `SafeSpec => JoinedIsQuiet` |
| `StoppedIsFinal` | `SafeSpec => StopIsFinal` |
| `Refinement` | `SafeSpec => OneShotSpec` |
| `SessionInductive` | `LSafeSpec => [](IInv /\ OwnerInOrder)` |
| `BrokerInsideSession` | `LSafeSpec => SafeSpec` (`BrokerInside`) |
| `ObservationStaysFinal` | `LSafeSpec => []ObservationIsFinal` |
| `NoBrokerLeftBehind` | `LSafeSpec => []ExitAfterJoin` |
| `GrantsOnlyArmed` | `LSafeSpec => []ArmedBeforeGrant` |
| `InstallerInductive` | `ISpec => []Consistent` |
| `InstalledIsRunnable` | `ISpec => []LinksAreRunnable` |
| `RecoverySucceeds` | `ISpec => []RecoveryAccepts` |
| `StrandedIsEmpty` | `ISpec => []StrandedHoldsNothing` |
| `InstallIsAtomic` | `ISpec => AtomicSpec` |
| `SuccessIsReal` | `ISpec => SuccessDelivers` |
| `VerifySafe` | `VerifyHook`: `Spec => []VerifyInv` |
| `VerifyPassIsEarned` | `VerifyHook`: `Spec => []PassIsEarned` |
| `VerifyNothingOutlives` | `VerifyHook`: `Spec => []NothingOutlives` |
| `VerifyEvidenceFrozen` | `VerifyHook`: `Spec => EvidenceFrozen` |
| `AdmissionSafe` | `Admission`: `Spec => []AdmissionInv` |
| `AdmissionIsWhole` | `Admission`: `Spec => []AdmittedWhole` |
| `ChildRunsCertifiedBytes` | `Admission`: `Spec => []RunsCertifiedBytes` |
| `ApprovalIsExact` | `Admission`: `Spec => []AuthorityIsExact` |
| `ApprovalHasOneReading` | `Admission`: `Spec => []OneReading` |
| `StoreSafe` | `StateStore`: `Spec => []StoreInv` |
| `RecordedStaysRecorded` | `StateStore`: `Spec => []AcknowledgedSurvives` |
| `StoreIsRegister` | `StateStore`: `Spec => ImplementsRegister` |
| `AuditSafe` | `SessionAudit`: `Spec => []AuditInv` |
| `AuditClaimsHappened` | `SessionAudit`: `Spec => []ClaimsHappened` |
| `AuditShowsRefusals` | `SessionAudit`: `Spec => []RefusalIsVisible` |
| `ObservationsSafe` | `ObservationsSpec => []ObservationsInv` |
| `ObservationsKeepNewest` | `ObservationsSpec => []NewestAreKept` |
| `ObservationsShowFailures` | `ObservationsSpec => []FailuresStayVisible` |
| `OfferSafe` | `OfferSpec => []OfferInv` |
| `OfferIsBest` | `OfferSpec => []SelectionIsBest` |
| `AcceptedNeverBlocks` | `OfferSpec => []ValidatedIsUnambiguous` |
| `PipeSafe` | `PSpec => []PipeInv` |
| `PipeAnswersMatch` | `PSpec => []AnswersMatch` |
| `PipeNothingLeftOpen` | `PSpec => []NothingLeftOpen` |
| `PipeOwnedWhileServing` | `PSpec => []OwnedWhileServing` |
| `StopIsComplete` | `ChildTree!Spec => []StopLeavesNone` |
| `NoneEscapesTheJob` | `ChildTree!Spec => []JobHoldsAll` |

**Assumptions.**  Each is named, stands in the module that declares the
constants, and is evaluated by TLC on the instances of section 3.

* `LedgerAssumption`: no session is not a session; the limit is a natural number.
  `BrokerAssumption`: finitely many connections, at least one slot, at least one
  pid and one message.
* `InstallerAssumption`: no link (`None`) is not a release.
* `AdmissionAssumption`: a helper is neither the npm shim nor its package file
  (they lie in other directories); an absent file has no content; a request is a
  JSON document.
* `StoreAssumption`: observations, files and clock readings have their types, and
  a file that is found decodes to a valid list or is corrupt (`load` refuses any
  other); no launcher is not a launcher.  `ListAssumption` and
  `OutcomeAssumption`: the limits of the list and of the counters are not zero
  (8 and 64 in the code).
* `AuditAssumption`: finitely many connections, a natural number of lines cut
  short, and the reader's size limit holds
  five records for each count it admits.  In the code that is five kinds of at
  most 64 records of at most 85 bytes, well under 64 KiB, so a log that is too
  long has too many records of some kind.
* `ObservationsAssumption`: identities and times are numbers, and a session with
  an entry has a result.  That is what `read_audit` returns: every connection it
  counts as an entry is then counted under one of the results.
* `SelectionAssumption`: manifests and hosts have the types they are decoded into;
  what the parser refuses may be among the manifests.
* `PipeAssumption`: finitely many clients, at least one slot, a request is not
  one of the words for a frame that carries none.
* `VerifyAssumption`: finitely many connections to the broker, and a natural
  number of lines cut short; witness connections are any set.  `ChildTree`
  assumes nothing: any number of processes.

**The broker's argument.**  None of the properties is inductive.  `OneShot` says what the
*grants* are, while `consume` tests the *ledger*: `LedgerMatchesGrants` ties the
two.  `OneShot` also says that a connection is granted once, which holds because
a worker that has not passed `consume` has no grant: that is `WorkerHistory`,
which records what a worker has done by the time it is at each step, and from
which `AllowIsBacked` and `AuditChain` follow too.  `SlotsMatchWorkers` needs
`HandlesCoverWorkers` to know that a joined serve thread leaves no live worker
and that nothing is in the backlog of a dropped listener.  `IInv` is the
conjunction of these parts with the properties.  `BrokerProofs` proves one
lemma per part: the part is preserved by every step from `IInv`.
`Refinement` maps a successful `WorkerConsume` to `Grant` and `ClientApproves`
to `Approve`; every other step leaves the mapped variables alone, and `IInv`
supplies the freshness of the granted connection and the equality of the
ledger's size with the number of grants.

**The launcher's argument.**  A step of a session is a step of `Broker` only while
the main thread is where it should be: `CleanupSession` removes the session's
directory, which `Broker` allows only after a shutdown.  `OwnerInOrder` says what
the main thread has done by each step; `StepInside` turns it into a step of
`Broker`, so that `IInv` carries over.  `ObservationIsFinal` then follows from
`QuietStep` (a joined broker writes nothing) and `AllowIsBacked`.

**The installer's argument.**  A kill may come anywhere, so what recovery relies
on must hold of the files alone: that is `FilesAgree` (at most one journal; the
links are among those the journal explains; a complete release behind every
link; nothing managed without the marker).  It is not inductive by itself: the
next step of an operation also depends on what the script read before, so
`PhasesAgree`, `ActingAgrees`, `InstallSteps` and `RecoverySteps` tie the step
to the files.  `Ending` shows once that ending the invocation at any step keeps
the invariant; every other action has a step of its own.  `InstallIsAtomic` maps
the rename of an install or rollback journal, and the writing of the uninstall
journal, to the abstract operation; the links follow unseen, and when a journal
is removed the links say what it said.

**The child tree's argument.**  A stop kills the members of the boundary, so
what runs outside must be excluded: `JobHoldsAll` does it on Windows, where a
process starts suspended, joins the job and only then runs, and what it starts
inherits the job.  `SpawnInOrder` says that a stop can only follow, and that
nothing is still suspended by then.  A fork after a stop needs a running parent,
of which there is none inside the boundary.

**Stopping is final.**  `StopIsFinal` nests one box in another.  `Stopped(c)` (the
flag is set, the worker has not passed its second look at the flag, and has no
grant) follows from `IInv` whenever the outer condition holds, is itself kept by
every step from `IInv`, and implies the inner condition; the temporal step only
combines these.

**The verification's argument.**  The verdict looks at counts, the property at
connections and processes.  `AuditCounts` ties the two by a balance: every
connection and every invocation that was recorded either shows in the audit or
was swallowed by a line cut short (`Shown` adds `torn`, less the one whose line
is still open and may swallow another).  With one attempt and one invocation in
the evidence, what is left for other connections is at most `torn`, which is the
bound of `PassIsEarned`; TLC finds it reached.  The worker that wrote the emitted
record holds the ledger's one grant.  `WitnessCounts` says what a count of zero
or one tells about the connections behind it.  `PlaceOfBroker`, `PlaceOfChild` and `PlaceOfTheRest` say what
may be running or on disk at each place of the main thread, so that every error
path unwinds what its place may have left; `BrokerQuiet` adds that a joined
broker has no worker under way, and after a panic the outcome is already a
failure.  `EvidenceHolds` then keeps the evidence equal to what it was read from,
since everything that could change it is at rest, but for a descendant outside
the process group, which may still reach the repository.

**The argument for admission.**  `StampsAreNew` gives what a recheck relies on: a
file whose stamp is the recorded one has not changed since it was bound.
`Rechecking` says of a recheck that is under way that every file it has passed,
and every file that still is as recorded, had the recorded content at the instant
the recheck began; when no file is left that instant is the witness of
`AdmittedWhole`.  `ImageIsBound` follows the open handle rather than the path,
and `CertificateHolds` and `RequestRead` carry what was established earlier (the
certificate, the one reading of the request) through the rechecks around it.

**The state store's argument.**  `LeaseHeld` is mutual exclusion, which holds as
long as nobody replaces the lock file; `WorkIsCurrent` says that what the holder
is about to commit is a legal update of what the file holds, and
`SyncedBeforeRename` that a name only ever moves to data on disk, so `durable`
stays a set of legal contents.  `AcknowledgedSurvives` needs all three, and that
recording keeps every other entry and evicts only the smallest
(`ObservationListProofs`).  `StoreIsRegister` maps the rename to the abstract
update, and power loss to the register's own fall back to an earlier content.

**The argument for the audit.**  The property compares sums over all connections
with numbers of records.  `EmittedSent` bounds the emitted records, plus the
workers about to add one, by the allows that were sent; a torn append adds at
most one line and swallowing only removes some, so `ClaimsHappened` follows
whatever is torn.  `RecordsPaid` is the balance of the verification's argument:
recorded connections and invocations are at most `Price`, the lines that show
them (or spoil the audit) and the appends cut short, less the open one.  A
refused client leaves an attempt, and perhaps an invocation, that no emitted
record settles; to hide it the lines must be short of it, which costs one torn
append for each.  `ChainOfRecords` is used only while nothing was torn: then each
kind of record, plus the workers that may still add to it, is at most the kind
before, so the audit is readable.

**The argument for the observations.**  `NewestAreKept` is inductive with the
types: the entry that is evicted is the smallest of a full list, so everything
forgotten stays below everything kept.  `FailuresStayVisible` rests on `EntriesTell`
(an entry's category is that of its counts, which are not all zero) and on the
merge, which never lowers a count and so never lowers the aggregate's rank;
an identity that was evicted is below a list that is full and stays full, so
recording it again evicts it again: it never comes back without its past.

**The argument for selection.**  The invariant only says that an offer is
`SelectApplicable` of a catalog of accepted manifests; the work is in what that
operator returns.  `Before` is a strict total order on numbers of one length (the
first that differs decides, and there is a first since the naturals are
well-founded), so a finite set of versions or floors has a greatest: the one with
the fewest above it.  Accepted floors have one spelling, so equal numbers mean
equal identities and the greatest floor belongs to one asset; a record's tuple is
determined by what it is matched with, so there is one verdict.  `CandidateIs`
joins these: whatever check comes first, a release is found if and only if it
suits the host.  `SelectsBest` compares the loop with the reference definition.

**The pipe broker's argument.**  Handle values are used again, so a worker's
handle alone says nothing.  `OwnPipe` says that a worker's pipe, *while it is
open*, leads to the worker's own client, and is open until serve leaves its loop;
after that serve creates no pipe, so a value that was closed under a worker is no
other pipe of the broker, and a write to it fails.  `FarEnds` supplies the other ends, `Accounted`
and `Slots` an owner for every handle and slot, `Earned` the grants.

**Only model-checked.**  Liveness (`ShutdownReturns`, `ConnectionsEnd`,
`LauncherExits`, `InterruptStops`, `Returns`, `WaitsAreBounded`,
`StopEndsService`) is outside what the prover handles.  `SuccessIsQuiet` is a
conjunct of `Consistent` and has no theorem of its own.  Every other property of
the passing runs is proved.  What is true only of the instances is therefore
liveness, and that the specifications are not vacuous: the runs fire every action.

## 6. Findings

* `broker_exit`.  `docs/architecture.md:130` says "a final identity check
  prevents a child that has exited or been reparented from receiving a
  decision".  The last `validate_peer` precedes the ledger, two audit records
  and the write, so an allow can be written after the child exited.  The window
  cannot be closed by a check before a write; the sentence promises more than
  the code does.
* `installer_stranded`.  `README.md:35` says that "install, rollback and
  uninstall journals finish interrupted pointer changes on the next
  invocation".  There are two ways to a journal that none finishes.  An uninstall
  where nothing was installed writes its journal without a marker, and is killed:
  that is TLC's trace.  And `finish_uninstall` removes the ownership marker
  before its journal, and may be killed in between.  Either way the next
  invocation finds a journal without a marker and `check_marker` dies, and so
  does every later one.  `StrandedHoldsNothing` shows that by then no link and no
  release is left.
* `windows_pipe`.  `src/broker/windows.rs:955` justifies moving a handle between
  threads with "lifetimes are bounded by the spawning broker worker".  When the
  next instance cannot be created after a worker was spawned (line 229), the
  loop is left with the value it has given to that worker, and line 235 closes
  it while the worker reads or writes.  `AnswersMatch` shows that even so no
  client reads an allow that was not granted to it: serve has left the loop and
  creates no further pipe, so the value cannot become another pipe of the broker.

**Observations** that no run states, because no line of the repository is
contradicted in so many words:

* A retried rollback after an interrupted one rolls back twice (the recovery
  finishes the first, the invocation performs its own).  `AtomicInstall` allows
  it, and no document says what a retry should do; it is listed as a hazard.
* Between the confirmation and the registration for the child,
  `verify-local-hook` ignores Ctrl-C: the confirmation's handler stays installed
  without an action (`launcher.rs:483`, `SECURITY.md:63`).  `CtrlC` in
  `VerifyHook` models it.
* `read_audit` and the counts of a verification know records by how their lines
  begin (`outcome.rs:265`, `audit.rs:172`).  A disk that is full for part of a
  line can therefore glue the next record to a line that still counts, and a
  client's connection disappears from a readable audit.  `RefusalIsVisible` and
  `PassIsEarned` give the price, one line cut short for each record that is
  missing; the bound is tight.
* `thread::spawn` in `serve` panics when no thread can be had (`linux.rs:286`).
  The slot stays taken and the workers are never joined, so `SlotsMatchWorkers`,
  `JoinedIsQuiet` and `ObservationIsFinal` speak of a serve thread that has not
  panicked; in `VerifyHook` the panic makes the verification fail.
* On Unix a stop kills the child's process group (`child_tree.rs:39`).  A
  descendant that left it outlives the verification, and may change the
  temporary repository after its status was read; `PassIsEarned` and
  `EvidenceFrozen` except exactly that.
* A verification directory whose creation fails half way is dropped, and a
  failure to remove it is not reported (`launcher.rs:1074`, `linux.rs:53`).
* The comment at `protocol.rs:138` leaves nested values to serde_json, while the
  parser refuses duplicate names at every depth, which is what `OneReading` needs.
* Connections still in the backlog when the broker stops are not counted among
  the attempts a verification must find to be exactly one (`linux.rs:271`);
  `PassIsEarned` therefore speaks of the connections that were accepted.
* `audit::initialize` creates an empty file (`audit.rs:150`) and `read_audit`
  calls an empty file unavailable (`outcome.rs:255`), so a session in which Codex
  never asked is not recorded as `no_hook_invocation`; `ClaimsHappened` shows
  that this category is never observed.
* `print-hook-config` inspects with no sandbox chosen (`launcher.rs:404`), which
  `Eligible` refuses.

## 7. Not modelled

* *Configuration editor* (`configure.rs`).  One process edits one file by hand;
  what it does to the text is TOML editing, and recovery after a crash is left
  to the user, who is told which backup to look at.
* *Windows installers*.  PowerShell counterparts of `install-linux.sh` with
  other primitives for replacing files; the protocol of journals is the one
  `LinuxInstaller` models.
* *Process snapshots*.  Ancestry is one step that may always refuse; what a walk
  over records that change meanwhile can return depends on how the kernel
  allocates pids.  The Windows snapshot and the overlapped operations inside a
  single read or write are left out too.
* *Arming environment and resolver*.  The environment given to Codex, the PATH
  lookup and the limits on a probe's output are sequential; that probes may fail
  or see another file is part of `Admission`.
* *Signature verification* (`update/verify.rs`) has no caller outside its tests.
* *Directories above the state file*.  `open_parent` (`state.rs:738`) creates
  missing ones and does not sync them in their own parents, so a power loss
  after the very first launch may lose the directory with the file;
  `AcknowledgedSurvives` and `ImplementsRegister` start from a directory that is
  on disk.
* *Upstream watch and repair, release gate and packaging, roadmap validator,
  command line*.  Sequential input and output without state of their own, or
  scheduled jobs whose state is a repository's.

What is worth proving next: that `SessionAudit` is what the audit of a `Broker`
session amounts to (each of its steps is one of the broker's appends), and the
composition of `Launcher` with `StateStore`, so that an observation recorded for a
session is the one its broker's audit supports.
