-------------------------- MODULE VerifyHookProofs --------------------------
(***************************************************************************)
(* What verify-local-hook promises, for any number of connections to the   *)
(* broker and to the witness.  Hidden steps of the argument are the parts  *)
(* of VerifyInv: what the audit counts, what the witness counts, and what  *)
(* the launcher's place says of the broker, the child and the directories. *)
(***************************************************************************)
EXTENDS VerifyHook, FiniteSetTheorems, TLAPS

ConnStates == {"idle", "accepted", "attempted", "invoked", "checked", "consumed", "requested",
               "allowed", "answered"} \cup Ended
Setup     == {"recheck", "state", "init", "auth", "session", "broker"}
Before    == {"start", "confirm", "receive"} \cup Setup
Armed     == {"arm", "baseline", "spawn"}
Running   == {"bind", "register", "wait", "try"}
Settled   == {"freeze", "frozen", "probe", "probed", "retain", "cleanup"}
Unwinding == {"join", "joining", "temps", "unwind", "unwinding", "done"}
Places    == Before \cup Armed \cup Running \cup {"tree", "kill"} \cup Settled \cup Unwinding

VTypeOK ==
    /\ pc \in Places /\ outcome \in {"none", "failed", "passed"}
    /\ cleanupError \in BOOLEAN /\ temps \subseteq Temps /\ silent \subseteq Temps
    /\ handler \in {"default", "flag", "ignored"} /\ flag \in BOOLEAN /\ expired \in BOOLEAN
    /\ serve \in {"none", "serving", "panicked", "down"}
    /\ stopped \in BOOLEAN /\ expected \in BOOLEAN
    /\ conn \in [Conns -> ConnStates] /\ audit \in [Records -> Nat]
    /\ tail \in {"whole", "torn", "attempt"} /\ torn \in Nat
    /\ child \in {"none", "running", "exited", "reaped"} /\ exitOk \in BOOLEAN
    /\ kids \in {"none", "alive"} /\ strays \in BOOLEAN /\ dirty \in BOOLEAN
    /\ witness \in {"none", "watching", "stopping", "stopped", "failed"}
    /\ head \in [Heads -> {"idle", "queued", "served"}]
    /\ headKind \in [Heads -> HeadKinds] /\ seen \in [exact : Nat, other : Nat]
    /\ retained \in {"none", "kept", "failed"}

Bit(b) == IF b THEN 1 ELSE 0

\* The connections whose attempt and whose invocation the broker wrote, and
\* what the audit shows of both: a record that does not show was lost to an
\* append cut short, and the last one of those may still cost the next record.
AllAttempted == {c \in Conns : conn[c] \notin Begun}
AllInvoked   == {c \in Conns : conn[c] \notin Begun \cup {"attempted", "unparsed"}}
Shown == (audit["attempt"] + audit["invoked"] + torn) - Bit(tail # "whole")

Holding == {"consumed", "requested", "allowed", "answered", "emitted"}

\* The audit against the workers: every record written shows or was paid for,
\* the ledger knows the one worker that holds its grant, and an emission shows
\* only after the answer.
AuditCounts ==
    /\ Cardinality(AllAttempted) + Cardinality(AllInvoked) <= Shown
    /\ \A c \in Conns : conn[c] \in Holding => ledger = {c}
    /\ audit["emitted"] > 0 => \E c \in Conns : conn[c] = "emitted"

\* The witness's counts against the connections it served.
WitnessCounts ==
    /\ seen.exact + seen.other = 0 => \A h \in Heads : head[h] # "served"
    /\ seen.exact + seen.other = 1 =>
         \A h, i \in Heads : head[h] = "served" /\ head[i] = "served" => h = i
    /\ seen.exact > 0 => \E h \in Heads : head[h] = "served" /\ headKind[h] = "exact"

\* A broker that is not up has no worker under way.
BrokerQuiet == serve \in {"none", "down"} => WorkersIdle

\* The launcher's place, and what is then running or on disk.
PlaceOfBroker ==
    /\ pc \in Before => serve = "none"
    /\ pc \in Armed => serve = "serving"
    /\ pc \in {"probe", "probed", "retain", "cleanup"} => serve = "down"
    /\ pc \in {"kill", "join", "joining", "temps"} => outcome = "failed"
    /\ pc \in {"temps", "unwind", "unwinding", "done"} =>
         serve \in {"none", "down"} \/ (serve = "panicked" /\ outcome = "failed")
PlaceOfChild ==
    /\ child = "none" => kids = "none" /\ ~strays
    /\ pc \in Before \cup Armed => child = "none"
    /\ pc \in Running => child \in {"running", "exited"}
    /\ pc = "tree" => child = "reaped"
    /\ pc \in Settled => child = "reaped" /\ kids = "none"
    /\ pc \in Unwinding => cleanupError \/ (child \in {"none", "reaped"} /\ kids = "none")
PlaceOfTheRest ==
    /\ pc \in {"start", "confirm", "receive", "recheck", "state"} => temps = {}
    /\ pc \in {"unwind", "unwinding", "done"} => cleanupError \/ temps = silent
    /\ silent # {} => /\ pc \in {"temps", "unwind", "unwinding", "done"}
                      /\ child = "none" /\ outcome = "failed"
    /\ handler = "default" => pc \in {"start", "done"}
    /\ pc = "start" => witness = "none"
    /\ pc = "done" => witness \in {"none", "stopped", "failed"}

\* The evidence is what it was read from, and all of it is at rest, but for
\* the repository, which a descendant outside the group can still reach.
Counts == [r \in Records |-> Counted(r)]
EvidenceHolds ==
    /\ pc \notin {"retain", "cleanup", "unwind", "unwinding", "done"} => evidence = {}
    /\ evidence # {} =>
         /\ \E clean \in BOOLEAN :
              /\ evidence = {[audit |-> Counts, seen |-> seen, clean |-> clean]}
              /\ clean /\ dirty => strays
         /\ serve = "down" /\ child = "reaped" /\ kids = "none" /\ witness = "stopped"
    /\ outcome = "passed" =>
         /\ pc \in {"unwind", "unwinding", "done"}
         /\ temps = {} /\ ExactEvidence

VerifyInv ==
    /\ VTypeOK /\ AuditCounts /\ WitnessCounts /\ BrokerQuiet
    /\ PlaceOfBroker /\ PlaceOfChild /\ PlaceOfTheRest /\ EvidenceHolds
-----------------------------------------------------------------------------
(* Which steps change what.                                                *)

LauncherAny ==
    \/ LauncherStep \/ BeginFails \/ SetupFails \/ CreateStateFails \/ CreateSessionFails
    \/ TryWaitFails \/ StopTreeFails
WitnessAny == (\E h \in Heads : Knock(h) \/ Observe(h)) \/ WitnessFails \/ WitnessStops
WorkerAny == \E c \in Conns : ServeStep(c) \/ WorkerStep(c)
WorldAny == ChildWorks \/ ChildExits \/ CtrlC \/ TimePasses

\* Next, by who takes the step.
LEMMA NextCases ==
  ASSUME [Next]_vars
  PROVE  LauncherAny \/ WitnessAny \/ WorkerAny \/ WorldAny \/ UNCHANGED vars
  BY DEF Next, LauncherAny, WitnessAny, WorkerAny, WorldAny, Finished

\* The launcher only starts, stops and reads: it writes no evidence itself.
LEMMA LauncherFrame ==
  ASSUME LauncherAny
  PROVE  UNCHANGED <<ledger, conn, auditVars, head, headKind, seen, strays, dirty>>
<1> USE DEF launcherVars, signalVars, brokerVars, auditVars, childVars, witnessVars
<1>1. CASE Begin \/ BeginFails
  BY <1>1 DEF Begin, BeginFails
<1>2. CASE ConfirmStep
  BY <1>2 DEF ConfirmStep, ConfirmPoll, ConfirmReceive, Fail, Keep
<1>3. CASE SetupStep
  BY <1>3 DEF SetupStep, Recheck, CreateState, InitRepository, StageAuth, CreateSession,
              Create, StartBroker, ArmChild, Baseline, Spawn, Bind, Register, Keep
<1>4. CASE WaitStep
  BY <1>4 DEF WaitStep, WaitInterrupt, WaitTimeout, TryWait, LeaveWait
<1>5. CASE StopStep
  BY <1>5 DEF StopStep, KillAndReap, StopTree, Freeze, FreezeJoin, Abort, AbortJoin,
              StopAccepting, Joined, JoinFailed
<1>6. CASE EvidenceStep
  BY <1>6 DEF EvidenceStep, ProbeFinish, ReadEvidence, RetainDiagnostic, Verdict, AbortTemps,
              RemoveTemps, Unwind, Return, Keep, Fail
<1>7. CASE SetupFails \/ CreateStateFails \/ CreateSessionFails \/ TryWaitFails \/ StopTreeFails
  BY <1>7 DEF SetupFails, CreateStateFails, CreateSessionFails, TryWaitFails, LeaveWait, StopTreeFails, Fail
<1> QED
  BY <1>1, <1>2, <1>3, <1>4, <1>5, <1>6, <1>7 DEF LauncherAny, LauncherStep

\* A worker changes its own place, the ledger and the audit; serve may panic.
LEMMA WorkerFrame ==
  ASSUME WorkerAny
  PROVE  UNCHANGED <<launcherVars, signalVars, childVars, witnessVars, stopped, expected>>
  BY DEF WorkerAny, ServeStep, Accept, SpawnPanics, WorkerStep, Attempt, Parse, Check, Refuse,
         Consume, Request, Allow, Respond, Emitted, RecordOrEnd, Worker
LEMMA WitnessFrame ==
  ASSUME WitnessAny
  PROVE  UNCHANGED <<launcherVars, signalVars, brokerVars, childVars>>
  BY DEF WitnessAny, Knock, Observe, WitnessFails, WitnessStops
LEMMA WorldFrame ==
  ASSUME WorldAny
  PROVE  UNCHANGED <<brokerVars, witnessVars, temps, silent, evidence, retained, cleanupError, handler>>
  BY DEF WorldAny, ChildWorks, ChildExits, CtrlC, TimePasses, launcherVars, signalVars

-----------------------------------------------------------------------------
(* The counts.                                                             *)

\* An append moves what shows by its record at least.
LEMMA AppendShows ==
  ASSUME audit \in [Records -> Nat], tail \in {"whole", "torn", "attempt"}, torn \in Nat,
         NEW record \in Records, NEW ok \in BOOLEAN, Append(record, ok)
  PROVE  /\ audit' \in [Records -> Nat] /\ tail' \in {"whole", "torn", "attempt"} /\ torn' \in Nat
         /\ Shown \in Int /\ Shown' \in Int
         /\ Shown' >= Shown + Bit(ok /\ record \in {"attempt", "invoked"})
         /\ record # "emitted" => audit'["emitted"] = audit["emitted"]
<1>. /\ "attempt" \in Records /\ "invoked" \in Records /\ "emitted" \in Records
  BY DEF Records
<1>1. CASE ok
  <2>1. CASE tail = "whole"
    BY <1>1, <2>1 DEF Append, auditVars, Shown, Bit
  <2>2. CASE tail # "whole"
    BY <1>1, <2>2 DEF Append, auditVars, Shown, Bit
  <2>. QED BY <2>1, <2>2
<1>2. CASE ~ok
  <2>1. CASE UNCHANGED auditVars
    BY <1>2, <2>1 DEF auditVars, Shown, Bit
  <2>2. CASE ~UNCHANGED auditVars
    <3>1. PICK shows \in BOOLEAN :
            /\ torn' = torn + 1
            /\ shows => tail = "whole"
            /\ tail' = IF shows /\ record = "attempt" THEN "attempt" ELSE "torn"
            /\ audit' = IF shows /\ record # "attempt"
                          THEN [audit EXCEPT ![record] = @ + 1] ELSE audit
      BY <1>2, <2>2 DEF Append
    <3>. QED BY <1>2, <3>1 DEF Shown, Bit
  <2>. QED BY <2>1, <2>2
<1>. QED BY <1>1, <1>2

Hidden == Begun \cup {"attempted", "unparsed"}

\* The connections with a recorded attempt, when one moves.
LEMMA AttemptedMoves ==
  ASSUME conn \in [Conns -> ConnStates], NEW c \in Conns, NEW to \in ConnStates,
         conn' = [conn EXCEPT ![c] = to], to \in Begun => conn[c] \in Begun
  PROVE  /\ Cardinality(AllAttempted) \in Nat /\ Cardinality(AllAttempted') \in Nat
         /\ Cardinality(AllAttempted') = Cardinality(AllAttempted) + Bit(conn[c] \in Begun /\ to \notin Begun)
<1> DEFINE was == AllAttempted
           is  == AllAttempted'
<1>1. IsFiniteSet(was)
  BY VerifyAssumption, FS_Subset DEF AllAttempted
<1>2. was = {d \in Conns : conn[d] \notin Begun} /\ is = {d \in Conns : conn'[d] \notin Begun}
  BY DEF AllAttempted
<1> HIDE DEF was, is
<1>3. Cardinality(was) \in Nat
  BY <1>1, FS_CardinalityType
<1>4. CASE conn[c] \in Begun /\ to \notin Begun
  <2>1. is = was \cup {c} /\ c \notin was
    BY <1>2, <1>4
  <2>2. Cardinality(was \cup {c}) = Cardinality(was) + 1
    BY <1>1, <2>1, FS_AddElement
  <2>. QED BY <1>3, <1>4, <2>1, <2>2 DEF Bit, was, is
<1>5. CASE ~(conn[c] \in Begun /\ to \notin Begun)
  <2>1. is = was
    BY <1>2, <1>5
  <2>. QED BY <1>3, <1>5, <2>1 DEF Bit, was, is
<1>. QED BY <1>4, <1>5

\* The connections with a recorded invocation, when one moves.
LEMMA InvokedMoves ==
  ASSUME conn \in [Conns -> ConnStates], NEW c \in Conns, NEW to \in ConnStates,
         conn' = [conn EXCEPT ![c] = to], to \in Hidden => conn[c] \in Hidden
  PROVE  /\ Cardinality(AllInvoked) \in Nat /\ Cardinality(AllInvoked') \in Nat
         /\ Cardinality(AllInvoked') = Cardinality(AllInvoked) + Bit(conn[c] \in Hidden /\ to \notin Hidden)
<1> DEFINE was == AllInvoked
           is  == AllInvoked'
<1>1. IsFiniteSet(was)
  BY VerifyAssumption, FS_Subset DEF AllInvoked
<1>2. was = {d \in Conns : conn[d] \notin Hidden} /\ is = {d \in Conns : conn'[d] \notin Hidden}
  BY DEF AllInvoked, Hidden
<1> HIDE DEF was, is
<1>3. Cardinality(was) \in Nat
  BY <1>1, FS_CardinalityType
<1>4. CASE conn[c] \in Hidden /\ to \notin Hidden
  <2>1. is = was \cup {c} /\ c \notin was
    BY <1>2, <1>4
  <2>2. Cardinality(was \cup {c}) = Cardinality(was) + 1
    BY <1>1, <2>1, FS_AddElement
  <2>. QED BY <1>3, <1>4, <2>1, <2>2 DEF Bit, was, is
<1>5. CASE ~(conn[c] \in Hidden /\ to \notin Hidden)
  <2>1. is = was
    BY <1>2, <1>5
  <2>. QED BY <1>3, <1>5, <2>1 DEF Bit, was, is
<1>. QED BY <1>4, <1>5

\* One worker's move, with what it did to the audit.
LEMMA MoveCounts ==
  ASSUME VTypeOK, AuditCounts, NEW c \in Conns, NEW from, NEW to \in ConnStates,
         conn[c] = from, conn' = [conn EXCEPT ![c] = to],
         audit' \in [Records -> Nat], tail' \in {"whole", "torn", "attempt"}, torn' \in Nat,
         Shown \in Int, Shown' \in Int,
         to \in Begun => from \in Begun, to \in Hidden => from \in Hidden,
         Shown' >= Shown + Bit(from \in Begun /\ to \notin Begun)
                         + Bit(from \in Hidden /\ to \notin Hidden),
         \/ from \in Holding /\ UNCHANGED ledger
         \/ to \notin Holding /\ UNCHANGED ledger /\ from \notin Holding
         \/ ledger = {} /\ ledger' = {c},
         audit'["emitted"] > 0 => audit["emitted"] > 0 \/ to = "emitted",
         from # "emitted"
  PROVE  AuditCounts' /\ conn' \in [Conns -> ConnStates]
<1> USE DEF VTypeOK
<1>1. conn' \in [Conns -> ConnStates] /\ conn'[c] = to /\ \A d \in Conns : d # c => conn'[d] = conn[d]
  OBVIOUS
<1> DEFINE a == Cardinality(AllAttempted)
           b == Cardinality(AllAttempted')
           i == Cardinality(AllInvoked)
           j == Cardinality(AllInvoked')
           s == Shown
           u == Shown'
<1>2. a \in Nat /\ b \in Nat /\ b = a + Bit(from \in Begun /\ to \notin Begun)
  BY AttemptedMoves
<1>3. i \in Nat /\ j \in Nat /\ j = i + Bit(from \in Hidden /\ to \notin Hidden)
  BY InvokedMoves
<1>4. /\ s \in Int /\ u \in Int /\ a + i <= s
      /\ u >= s + Bit(from \in Begun /\ to \notin Begun) + Bit(from \in Hidden /\ to \notin Hidden)
  BY DEF AuditCounts
<1> HIDE DEF a, b, i, j, s, u
<1>5. b + j <= u
  BY <1>2, <1>3, <1>4 DEF Bit
<1>6. \A d \in Conns : conn'[d] \in Holding => ledger' = {d}
  BY <1>1 DEF AuditCounts
<1>7. audit'["emitted"] > 0 => \E d \in Conns : conn'[d] = "emitted"
  BY <1>1 DEF AuditCounts
<1>. QED BY <1>1, <1>5, <1>6, <1>7 DEF AuditCounts, b, j, u

\* A worker that appends its record, or ends.
LEMMA RecordCounts ==
  ASSUME VTypeOK, AuditCounts, NEW c \in Conns, NEW from \in ConnStates, NEW record \in Records,
         NEW to \in ConnStates, NEW otherwise \in ConnStates,
         RecordOrEnd(c, from, record, to, otherwise),
         <<from, record, to, otherwise>>
           \in {<<"accepted", "attempt", "attempted", "dropped">>,
                <<"attempted", "invoked", "invoked", "unparsed">>,
                <<"consumed", "request", "requested", "refused">>,
                <<"requested", "allow", "allowed", "refused">>,
                <<"answered", "emitted", "emitted", "emitted">>}
  PROVE  /\ AuditCounts' /\ conn' \in [Conns -> ConnStates] /\ audit' \in [Records -> Nat]
         /\ tail' \in {"whole", "torn", "attempt"} /\ torn' \in Nat
<1>1. PICK ok \in BOOLEAN :
        /\ Worker(c, from, IF ok THEN to ELSE otherwise) /\ Append(record, ok) /\ UNCHANGED ledger
  BY DEF RecordOrEnd
<1> DEFINE next == IF ok THEN to ELSE otherwise
<1>2. /\ audit' \in [Records -> Nat] /\ tail' \in {"whole", "torn", "attempt"} /\ torn' \in Nat
      /\ Shown \in Int /\ Shown' \in Int
      /\ Shown' >= Shown + Bit(ok /\ record \in {"attempt", "invoked"})
      /\ record # "emitted" => audit'["emitted"] = audit["emitted"]
  BY <1>1, AppendShows DEF VTypeOK
<1>3. conn[c] = from /\ conn' = [conn EXCEPT ![c] = next] /\ next \in ConnStates
  BY <1>1 DEF Worker
<1>4. /\ next \in Begun => from \in Begun
      /\ next \in Hidden => from \in Hidden
      /\ Bit(from \in Begun /\ next \notin Begun) + Bit(from \in Hidden /\ next \notin Hidden)
           = Bit(ok /\ record \in {"attempt", "invoked"})
      /\ from # "emitted" /\ (record = "emitted" => next = "emitted")
      /\ from \in Holding \/ (next \notin Holding /\ from \notin Holding)
  BY DEF Begun, Hidden, Holding, Bit
<1> HIDE DEF next
<1>5. Shown' >= Shown + Bit(from \in Begun /\ next \notin Begun)
                      + Bit(from \in Hidden /\ next \notin Hidden)
  BY <1>2, <1>4 DEF Bit
<1>6. audit'["emitted"] > 0 => audit["emitted"] > 0 \/ next = "emitted"
  BY <1>2, <1>4
<1>. QED BY <1>1, <1>2, <1>3, <1>4, <1>5, <1>6, MoveCounts

\* A worker that moves without a record.
LEMMA SilentCounts ==
  ASSUME VTypeOK, AuditCounts, NEW c \in Conns, NEW from, NEW to \in ConnStates,
         conn[c] = from, conn' = [conn EXCEPT ![c] = to], UNCHANGED auditVars,
         \/ /\ UNCHANGED ledger
            /\ <<from, to>> \in {<<"idle", "accepted">>, <<"idle", "dropped">>,
                 <<"accepted", "dropped">>, <<"attempted", "unparsed">>, <<"invoked", "checked">>,
                 <<"invoked", "refused">>, <<"checked", "refused">>, <<"allowed", "answered">>,
                 <<"allowed", "refused">>}
         \/ <<from, to>> = <<"checked", "consumed">> /\ ledger = {} /\ ledger' = {c}
  PROVE  /\ AuditCounts' /\ conn' \in [Conns -> ConnStates] /\ audit' \in [Records -> Nat]
         /\ tail' \in {"whole", "torn", "attempt"} /\ torn' \in Nat
<1>1. /\ audit' \in [Records -> Nat] /\ tail' \in {"whole", "torn", "attempt"} /\ torn' \in Nat
      /\ audit' = audit /\ tail' = tail /\ torn' = torn
  BY DEF auditVars, VTypeOK
<1>2. Shown \in Int /\ Shown' = Shown
  BY <1>1 DEF Shown, Bit, VTypeOK, Records
<1>3. /\ to \in Begun => from \in Begun
      /\ to \in Hidden => from \in Hidden
      /\ Bit(from \in Begun /\ to \notin Begun) = 0 /\ Bit(from \in Hidden /\ to \notin Hidden) = 0
      /\ from # "emitted"
      /\ \/ from \in Holding /\ UNCHANGED ledger
         \/ to \notin Holding /\ UNCHANGED ledger /\ from \notin Holding
         \/ ledger = {} /\ ledger' = {c}
  BY DEF Begun, Hidden, Holding, Bit
<1>4. Shown' >= Shown + Bit(from \in Begun /\ to \notin Begun) + Bit(from \in Hidden /\ to \notin Hidden)
  BY <1>2, <1>3
<1>5. audit'["emitted"] > 0 => audit["emitted"] > 0 \/ to = "emitted"
  BY <1>1
<1>6. Shown' \in Int
  BY <1>2
<1>. QED BY <1>1, <1>2, <1>3, <1>4, <1>5, <1>6, MoveCounts

\* One worker's step, seen from the audit.
LEMMA WorkerCounts ==
  ASSUME VTypeOK, AuditCounts, NEW c \in Conns, ServeStep(c) \/ WorkerStep(c)
  PROVE  /\ AuditCounts' /\ conn' \in [Conns -> ConnStates] /\ audit' \in [Records -> Nat]
         /\ tail' \in {"whole", "torn", "attempt"} /\ torn' \in Nat
<1> DEFINE Goal == /\ AuditCounts' /\ conn' \in [Conns -> ConnStates] /\ audit' \in [Records -> Nat]
                   /\ tail' \in {"whole", "torn", "attempt"} /\ torn' \in Nat
           Quiet == {<<"accepted", "dropped">>, <<"attempted", "unparsed">>,
                     <<"invoked", "checked">>, <<"invoked", "refused">>, <<"checked", "refused">>,
                     <<"allowed", "answered">>, <<"allowed", "refused">>}
<1>0. /\ {"idle", "accepted", "attempted", "invoked", "checked", "consumed", "requested", "allowed",
          "answered", "dropped", "unparsed", "refused", "emitted"} \subseteq ConnStates
      /\ {"attempt", "invoked", "request", "allow", "emitted"} \subseteq Records
  BY DEF ConnStates, Ended, Records
<1> HIDE DEF Goal
<1>1. ASSUME NEW from, NEW to, Worker(c, from, to), UNCHANGED <<ledger, auditVars>>,
             <<from, to>> \in Quiet
      PROVE  Goal
  <2>1. to \in ConnStates /\ conn[c] = from /\ conn' = [conn EXCEPT ![c] = to]
    BY <1>0, <1>1 DEF Worker
  <2>. QED BY <1>1, <2>1, SilentCounts DEF Goal
<1>2. CASE ServeStep(c)
  <2>1. PICK to \in {"accepted", "dropped"} :
          conn[c] = "idle" /\ conn' = [conn EXCEPT ![c] = to] /\ UNCHANGED <<ledger, auditVars>>
    BY <1>2 DEF ServeStep, Accept, SpawnPanics
  <2>2. <<"idle", to>> \in {<<"idle", "accepted">>, <<"idle", "dropped">>} /\ to \in ConnStates
    BY <1>0
  <2>. QED BY <2>1, <2>2, SilentCounts DEF Goal
<1>3. CASE Attempt(c) \/ Parse(c)
  BY <1>0, <1>1, <1>3, RecordCounts DEF Attempt, Parse, Goal
<1>4. CASE Check(c) \/ Refuse(c) \/ Respond(c)
  <2>1. PICK from, to :
          /\ Worker(c, from, to) /\ UNCHANGED <<ledger, auditVars>>
          /\ <<from, to>> \in Quiet
    <3>1. /\ Check(c) => Worker(c, "invoked", "checked") /\ UNCHANGED <<ledger, auditVars>>
          /\ Refuse(c) => Worker(c, "invoked", "refused") /\ UNCHANGED <<ledger, auditVars>>
          /\ Respond(c) => /\ UNCHANGED <<ledger, auditVars>>
                           /\ Worker(c, "allowed", "answered") \/ Worker(c, "allowed", "refused")
      BY DEF Check, Refuse, Respond
    <3>2. /\ <<"invoked", "checked">> \in Quiet /\ <<"invoked", "refused">> \in Quiet
          /\ <<"allowed", "answered">> \in Quiet /\ <<"allowed", "refused">> \in Quiet
      OBVIOUS
    <3> HIDE DEF Quiet
    <3>. QED BY <1>4, <3>1, <3>2, Zenon
  <2> HIDE DEF Quiet
  <2>. QED BY <1>1, <2>1, Zenon DEF Goal
<1>5. CASE Consume(c)
  <2>1. CASE ledger = {}
    <3>1. /\ conn[c] = "checked" /\ conn' = [conn EXCEPT ![c] = "consumed"] /\ ledger' = {c}
          /\ UNCHANGED auditVars /\ "consumed" \in ConnStates
      BY <1>0, <1>5, <2>1 DEF Consume, Worker
    <3>. QED BY <2>1, <3>1, SilentCounts DEF Goal
  <2>2. CASE ledger # {}
    <3>1. Worker(c, "checked", "refused") /\ UNCHANGED <<ledger, auditVars>>
      BY <1>5, <2>2 DEF Consume
    <3>2. <<"checked", "refused">> \in Quiet
      OBVIOUS
    <3> HIDE DEF Quiet
    <3>. QED BY <1>1, <3>1, <3>2, Zenon DEF Goal
  <2>. QED BY <2>1, <2>2
<1>6. CASE Request(c) \/ Allow(c) \/ Emitted(c)
  BY <1>0, <1>6, RecordCounts DEF Request, Allow, Emitted, Goal
<1>. QED
  BY <1>2, <1>3, <1>4, <1>5, <1>6 DEF WorkerStep, Goal

LEMMA AuditStep ==
  ASSUME VerifyInv, [Next]_vars
  PROVE  /\ AuditCounts' /\ conn' \in [Conns -> ConnStates] /\ audit' \in [Records -> Nat]
         /\ tail' \in {"whole", "torn", "attempt"} /\ torn' \in Nat
<1> USE DEF VerifyInv
<1>1. CASE WorkerAny
  BY <1>1, WorkerCounts DEF WorkerAny
<1>2. CASE ~WorkerAny
  <2>1. UNCHANGED <<ledger, conn, auditVars>>
    BY <1>2, LauncherFrame, WitnessFrame, WorldFrame, NextCases DEF vars, brokerVars
  <2>. QED
    BY <2>1 DEF AuditCounts, AllAttempted, AllInvoked, Shown, auditVars, VTypeOK
<1>. QED
  BY <1>1, <1>2

LEMMA WitnessStep ==
  ASSUME VerifyInv, [Next]_vars
  PROVE  /\ WitnessCounts' /\ head' \in [Heads -> {"idle", "queued", "served"}]
         /\ headKind' \in [Heads -> HeadKinds] /\ seen' \in [exact : Nat, other : Nat]
<1> USE DEF VerifyInv, VTypeOK
<1>1. ASSUME NEW h \in Heads, Knock(h)
      PROVE  /\ WitnessCounts' /\ head' \in [Heads -> {"idle", "queued", "served"}]
             /\ headKind' \in [Heads -> HeadKinds] /\ seen' \in [exact : Nat, other : Nat]
  BY <1>1 DEF Knock, WitnessCounts
<1>2. ASSUME NEW h \in Heads, Observe(h)
      PROVE  /\ WitnessCounts' /\ head' \in [Heads -> {"idle", "queued", "served"}]
             /\ headKind' \in [Heads -> HeadKinds] /\ seen' \in [exact : Nat, other : Nat]
  <2>1. /\ head[h] = "queued" /\ head' = [head EXCEPT ![h] = "served"] /\ UNCHANGED headKind
        /\ \/ headKind[h] = "exact" /\ seen' = [seen EXCEPT !.exact = @ + 1]
           \/ seen' = [seen EXCEPT !.other = @ + 1]
    BY <1>2 DEF Observe
  <2>2. CASE headKind[h] = "exact" /\ seen' = [seen EXCEPT !.exact = @ + 1]
    <3>1. seen'.exact = seen.exact + 1 /\ seen'.other = seen.other /\ seen.exact \in Nat /\ seen.other \in Nat
          /\ seen' \in [exact : Nat, other : Nat]
      BY <2>2
    <3>. QED
      BY <2>1, <2>2, <3>1 DEF WitnessCounts
  <2>3. CASE seen' = [seen EXCEPT !.other = @ + 1]
    <3>1. seen'.exact = seen.exact /\ seen'.other = seen.other + 1 /\ seen.exact \in Nat /\ seen.other \in Nat
          /\ seen' \in [exact : Nat, other : Nat]
      BY <2>3
    <3>. QED
      BY <2>1, <2>3, <3>1 DEF WitnessCounts
  <2>. QED
    BY <2>1, <2>2, <2>3
<1>3. CASE UNCHANGED <<head, headKind, seen>>
  BY <1>3 DEF WitnessCounts
<1>4. CASE LauncherAny
  BY <1>3, <1>4, LauncherFrame
<1>5. CASE WitnessFails \/ WitnessStops
  BY <1>3, <1>5 DEF WitnessFails, WitnessStops
<1>6. CASE WorkerAny \/ WorldAny \/ UNCHANGED vars
  BY <1>3, <1>6, WorkerFrame, WorldFrame DEF vars, witnessVars
<1>. QED
  BY <1>1, <1>2, <1>4, <1>5, <1>6, NextCases DEF WitnessAny
-----------------------------------------------------------------------------
(* The launcher's steps.                                                   *)

\* The broker is up exactly where the launcher's place says so.
LEMMA LauncherBroker ==
  ASSUME VerifyInv, LauncherAny
  PROVE  PlaceOfBroker' /\ BrokerQuiet'
<1> USE DEF launcherVars, signalVars, brokerVars, auditVars, childVars, witnessVars,
        Places, Before, Setup, Armed, Running, Settled, Unwinding,
        VerifyInv, VTypeOK, PlaceOfBroker, BrokerQuiet, WorkersIdle
<1>1. CASE Begin \/ BeginFails
  BY <1>1 DEF Begin, BeginFails, To
<1>2. CASE ConfirmStep
  BY <1>2 DEF ConfirmStep, ConfirmPoll, ConfirmReceive, Fail, Keep, To
<1>3. CASE Recheck \/ CreateState \/ InitRepository \/ StageAuth \/ CreateSession
  BY <1>3 DEF Recheck, CreateState, InitRepository, StageAuth, CreateSession, Create, To
<1>4. CASE StartBroker \/ ArmChild \/ Baseline \/ Spawn \/ Bind \/ Register
  BY <1>4 DEF StartBroker, ArmChild, Baseline, Spawn, Bind, Register, Keep, To
<1>5. CASE WaitStep
  BY <1>5 DEF WaitStep, WaitInterrupt, WaitTimeout, TryWait, LeaveWait, To
<1>6. CASE KillAndReap \/ StopTree
  BY <1>6 DEF KillAndReap, StopTree, To
<1>7. CASE Freeze \/ FreezeJoin \/ Abort \/ AbortJoin
  BY <1>7 DEF Freeze, FreezeJoin, Abort, AbortJoin, StopAccepting, Joined, JoinFailed, To
<1>8. CASE ProbeFinish \/ ReadEvidence \/ RetainDiagnostic
  BY <1>8 DEF ProbeFinish, ReadEvidence, RetainDiagnostic, Fail, To
<1>9. CASE Verdict \/ AbortTemps
  BY <1>9 DEF Verdict, AbortTemps, RemoveTemps
<1>10. CASE Unwind \/ Return
  BY <1>10 DEF Unwind, Return, Keep, To
<1>11. CASE SetupFails
  BY <1>11 DEF SetupFails, Fail
<1>12. CASE CreateStateFails \/ CreateSessionFails \/ TryWaitFails \/ StopTreeFails
  BY <1>12 DEF CreateStateFails, CreateSessionFails, TryWaitFails, LeaveWait, StopTreeFails
<1>. QED
  BY <1>1, <1>2, <1>3, <1>4, <1>5, <1>6, <1>7, <1>8, <1>9, <1>10, <1>11, <1>12
  DEF LauncherAny, LauncherStep, SetupStep, StopStep, EvidenceStep

\* No error path forgets the child or its group.
LEMMA LauncherChild ==
  ASSUME VerifyInv, LauncherAny
  PROVE  PlaceOfChild'
<1> USE DEF launcherVars, signalVars, brokerVars, auditVars, childVars, witnessVars,
        Places, Before, Setup, Armed, Running, Settled, Unwinding,
        VerifyInv, VTypeOK, PlaceOfChild
<1>1. CASE Begin \/ BeginFails
  BY <1>1 DEF Begin, BeginFails, To
<1>2. CASE ConfirmStep
  BY <1>2 DEF ConfirmStep, ConfirmPoll, ConfirmReceive, Fail, Keep, To
<1>3. CASE Recheck \/ CreateState \/ InitRepository \/ StageAuth \/ CreateSession
  BY <1>3 DEF Recheck, CreateState, InitRepository, StageAuth, CreateSession, Create, To
<1>4. CASE StartBroker \/ ArmChild \/ Baseline \/ Spawn \/ Bind \/ Register
  BY <1>4 DEF StartBroker, ArmChild, Baseline, Spawn, Bind, Register, Keep, To
<1>5. CASE WaitStep
  BY <1>5 DEF WaitStep, WaitInterrupt, WaitTimeout, TryWait, LeaveWait, To
<1>6. CASE KillAndReap \/ StopTree
  <2>1. CASE KillAndReap
    <3>1. PICK killed, reaped \in BOOLEAN :
            /\ kids' = IF killed THEN "none" ELSE kids
            /\ \/ reaped /\ child' = "reaped"
               \/ ~reaped /\ child' = "exited"
               \/ ~reaped /\ ~killed /\ child' = child
            /\ cleanupError' = (cleanupError \/ ~killed \/ ~reaped)
      BY <2>1, Zenon DEF KillAndReap
    <3>2. pc = "kill" /\ pc' = "join" /\ strays' = strays
      BY <2>1 DEF KillAndReap, To
    <3>3. cleanupError' \/ (killed /\ reaped)
      BY <3>1, Zenon
    <3>4. child' = "none" => child = "none"
      BY <3>1
    <3>5. child = "none" => kids' = "none" /\ ~strays'
      BY <3>1, <3>2
    <3>6. cleanupError' \/ (child' = "reaped" /\ kids' = "none")
      BY <3>1, <3>3
    <3>. QED BY <3>2, <3>4, <3>5, <3>6
  <2>2. CASE StopTree
    BY <2>2 DEF StopTree, To
  <2>. QED BY <1>6, <2>1, <2>2
<1>7. CASE Freeze \/ FreezeJoin \/ Abort \/ AbortJoin
  BY <1>7 DEF Freeze, FreezeJoin, Abort, AbortJoin, StopAccepting, Joined, JoinFailed, To
<1>8. CASE ProbeFinish \/ ReadEvidence \/ RetainDiagnostic
  BY <1>8 DEF ProbeFinish, ReadEvidence, RetainDiagnostic, Fail, To
<1>9. CASE Verdict \/ AbortTemps
  BY <1>9 DEF Verdict, AbortTemps, RemoveTemps
<1>10. CASE Unwind \/ Return
  BY <1>10 DEF Unwind, Return, Keep, To
<1>11. CASE SetupFails
  BY <1>11 DEF SetupFails, Fail
<1>12. CASE CreateStateFails \/ CreateSessionFails \/ TryWaitFails \/ StopTreeFails
  BY <1>12 DEF CreateStateFails, CreateSessionFails, TryWaitFails, LeaveWait, StopTreeFails
<1>. QED
  BY <1>1, <1>2, <1>3, <1>4, <1>5, <1>6, <1>7, <1>8, <1>9, <1>10, <1>11, <1>12
  DEF LauncherAny, LauncherStep, SetupStep, StopStep, EvidenceStep

\* Nor a directory or the witness.
LEMMA LauncherRest ==
  ASSUME VerifyInv, LauncherAny
  PROVE  PlaceOfTheRest'
<1> USE DEF launcherVars, signalVars, brokerVars, auditVars, childVars, witnessVars,
        Places, Before, Setup, Armed, Running, Settled, Unwinding,
        VerifyInv, VTypeOK, PlaceOfBroker, PlaceOfChild, PlaceOfTheRest
<1>1. CASE Begin \/ BeginFails
  BY <1>1 DEF Begin, BeginFails, To
<1>2. CASE ConfirmStep
  BY <1>2 DEF ConfirmStep, ConfirmPoll, ConfirmReceive, Fail, Keep, To
<1>3. CASE Recheck \/ CreateState \/ InitRepository \/ StageAuth \/ CreateSession
  BY <1>3 DEF Recheck, CreateState, InitRepository, StageAuth, CreateSession, Create, To
<1>4. CASE StartBroker \/ ArmChild \/ Baseline \/ Spawn \/ Bind \/ Register
  BY <1>4 DEF StartBroker, ArmChild, Baseline, Spawn, Bind, Register, Keep, To
<1>5. CASE WaitStep
  BY <1>5 DEF WaitStep, WaitInterrupt, WaitTimeout, TryWait, LeaveWait, To
<1>6. CASE KillAndReap \/ StopTree
  BY <1>6 DEF KillAndReap, StopTree, To
<1>7. CASE Freeze \/ FreezeJoin \/ Abort \/ AbortJoin
  BY <1>7 DEF Freeze, FreezeJoin, Abort, AbortJoin, StopAccepting, Joined, JoinFailed, To
<1>8. CASE ProbeFinish \/ ReadEvidence \/ RetainDiagnostic
  BY <1>8 DEF ProbeFinish, ReadEvidence, RetainDiagnostic, Fail, To
<1>9. CASE Verdict \/ AbortTemps
  BY <1>9 DEF Verdict, AbortTemps, RemoveTemps
<1>10. CASE Unwind \/ Return
  BY <1>10 DEF Unwind, Return, Keep, To
<1>11. CASE SetupFails
  BY <1>11 DEF SetupFails, Fail
<1>12. CASE CreateStateFails \/ CreateSessionFails \/ TryWaitFails \/ StopTreeFails
  <2>1. CASE CreateStateFails
    <3>1. PICK left, dropped \in SUBSET {"state"} :
            temps' = left \cup dropped /\ silent' = dropped /\ (left # {} => cleanupError')
      BY <2>1 DEF CreateStateFails
    <3>2. cleanupError' \/ temps' = silent'
      BY <3>1
    <3>. QED BY <2>1, <3>2 DEF CreateStateFails
  <2>2. CASE CreateSessionFails
    BY <2>2 DEF CreateSessionFails
  <2>3. CASE TryWaitFails \/ StopTreeFails
    BY <2>3 DEF TryWaitFails, LeaveWait, StopTreeFails
  <2>. QED BY <1>12, <2>1, <2>2, <2>3
<1>. QED
  BY <1>1, <1>2, <1>3, <1>4, <1>5, <1>6, <1>7, <1>8, <1>9, <1>10, <1>11, <1>12
  DEF LauncherAny, LauncherStep, SetupStep, StopStep, EvidenceStep

\* What was read stays what it was read from.
LEMMA LauncherEvidence ==
  ASSUME VerifyInv, LauncherAny
  PROVE  EvidenceHolds'
<1> USE DEF launcherVars, signalVars, brokerVars, auditVars, childVars, witnessVars,
        Places, Before, Setup, Armed, Running, Settled, Unwinding,
        VerifyInv, VTypeOK, PlaceOfBroker, PlaceOfChild, PlaceOfTheRest, EvidenceHolds,
        ExactEvidence
<1>0. Counts' = Counts /\ dirty' = dirty /\ strays' = strays /\ seen' = seen
  BY LauncherFrame DEF Counts, Counted
<1> USE <1>0
<1>1. CASE Begin \/ BeginFails
  BY <1>1 DEF Begin, BeginFails, To
<1>2. CASE ConfirmStep
  BY <1>2 DEF ConfirmStep, ConfirmPoll, ConfirmReceive, Fail, Keep, To
<1>3. CASE Recheck \/ CreateState \/ InitRepository \/ StageAuth \/ CreateSession
  BY <1>3 DEF Recheck, CreateState, InitRepository, StageAuth, CreateSession, Create, To
<1>4. CASE StartBroker \/ ArmChild \/ Baseline \/ Spawn \/ Bind \/ Register
  BY <1>4 DEF StartBroker, ArmChild, Baseline, Spawn, Bind, Register, Keep, To
<1>5. CASE WaitStep
  BY <1>5 DEF WaitStep, WaitInterrupt, WaitTimeout, TryWait, LeaveWait, To
<1>6. CASE KillAndReap \/ StopTree
  BY <1>6 DEF KillAndReap, StopTree, To
<1>7. CASE Freeze \/ FreezeJoin \/ Abort \/ AbortJoin
  BY <1>7 DEF Freeze, FreezeJoin, Abort, AbortJoin, StopAccepting, Joined, JoinFailed, To
<1>8. CASE ProbeFinish \/ ReadEvidence \/ RetainDiagnostic
  <2>1. CASE ProbeFinish \/ RetainDiagnostic
    BY <2>1 DEF ProbeFinish, RetainDiagnostic, To
  <2>2. CASE ReadEvidence
    <3>1. CASE witness \in {"stopped", "failed"} /\ Fail("probed", "temps")
      BY <3>1 DEF Fail
    <3>2. CASE ~(witness \in {"stopped", "failed"} /\ Fail("probed", "temps"))
      <4>1. evidence' = {[audit |-> Counts, seen |-> seen, clean |-> ~dirty]}
        BY <2>2, <3>2 DEF ReadEvidence, RepositoryClean, Counts
      <4>2. PICK clean \in BOOLEAN : clean = ~dirty
        OBVIOUS
      <4>3. evidence' = {[audit |-> Counts', seen |-> seen', clean |-> clean]}
        BY <4>1, <4>2
      <4>. QED
        BY <2>2, <3>2, <4>2, <4>3 DEF ReadEvidence, To
    <3>. QED
      BY <3>1, <3>2
  <2>. QED
    BY <1>8, <2>1, <2>2
<1>9. CASE Verdict \/ AbortTemps
  <2>1. CASE Verdict
    BY <2>1 DEF Verdict, RemoveTemps, Passes
  <2>2. CASE AbortTemps
    BY <2>2 DEF AbortTemps, RemoveTemps
  <2>. QED
    BY <1>9, <2>1, <2>2
<1>10. CASE Unwind \/ Return
  BY <1>10 DEF Unwind, Return, Keep, To
<1>11. CASE SetupFails
  BY <1>11 DEF SetupFails, Fail
<1>12. CASE CreateStateFails \/ CreateSessionFails \/ TryWaitFails \/ StopTreeFails
  BY <1>12 DEF CreateStateFails, CreateSessionFails, TryWaitFails, LeaveWait, StopTreeFails
<1>. QED
  BY <1>1, <1>2, <1>3, <1>4, <1>5, <1>6, <1>7, <1>8, <1>9, <1>10, <1>11, <1>12
  DEF LauncherAny, LauncherStep, SetupStep, StopStep, EvidenceStep

\* The launcher's own variables keep their types; the truth values apart.
Enumerated ==
    /\ pc \in Places /\ outcome \in {"none", "failed", "passed"}
    /\ handler \in {"default", "flag", "ignored"}
    /\ serve \in {"none", "serving", "panicked", "down"}
    /\ child \in {"none", "running", "exited", "reaped"} /\ kids \in {"none", "alive"}
    /\ witness \in {"none", "watching", "stopping", "stopped", "failed"}
    /\ retained \in {"none", "kept", "failed"}
Truths ==
    /\ cleanupError \in BOOLEAN /\ flag \in BOOLEAN /\ expired \in BOOLEAN
    /\ stopped \in BOOLEAN /\ expected \in BOOLEAN
    /\ exitOk \in BOOLEAN /\ strays \in BOOLEAN /\ dirty \in BOOLEAN

\* Each launcher's step sets them to values of their sets.
LEMMA LauncherEnumerated ==
  ASSUME VerifyInv, LauncherAny
  PROVE  Enumerated'
<1>0. Enumerated
  BY DEF VerifyInv, VTypeOK, Enumerated
<1> USE <1>0 DEF launcherVars, signalVars, brokerVars, auditVars, childVars, witnessVars,
        Places, Before, Setup, Armed, Running, Settled, Unwinding, Enumerated
<1>1. CASE Begin \/ BeginFails
  BY <1>1 DEF Begin, BeginFails, To
<1>2. CASE ConfirmStep
  BY <1>2 DEF ConfirmStep, ConfirmPoll, ConfirmReceive, Fail, Keep, To
<1>3. CASE Recheck \/ CreateState \/ InitRepository \/ StageAuth \/ CreateSession
  BY <1>3 DEF Recheck, CreateState, InitRepository, StageAuth, CreateSession, Create, To
<1>4. CASE StartBroker \/ ArmChild \/ Baseline \/ Spawn \/ Bind \/ Register
  BY <1>4 DEF StartBroker, ArmChild, Baseline, Spawn, Bind, Register, Keep, To
<1>5. CASE WaitStep
  BY <1>5 DEF WaitStep, WaitInterrupt, WaitTimeout, TryWait, LeaveWait, To
<1>6. CASE KillAndReap \/ StopTree
  BY <1>6 DEF KillAndReap, StopTree, To
<1>7. CASE Freeze \/ FreezeJoin \/ Abort \/ AbortJoin
  BY <1>7 DEF Freeze, FreezeJoin, Abort, AbortJoin, StopAccepting, Joined, JoinFailed, To
<1>8. CASE ProbeFinish \/ ReadEvidence \/ RetainDiagnostic
  BY <1>8 DEF ProbeFinish, ReadEvidence, RetainDiagnostic, Fail, To
<1>9. CASE Verdict \/ AbortTemps
  BY <1>9 DEF Verdict, AbortTemps, RemoveTemps
<1>10. CASE Unwind \/ Return
  BY <1>10 DEF Unwind, Return, Keep, To
<1>11. CASE SetupFails
  BY <1>11 DEF SetupFails, Fail
<1>12. CASE CreateStateFails \/ CreateSessionFails \/ TryWaitFails \/ StopTreeFails
  BY <1>12 DEF CreateStateFails, CreateSessionFails, TryWaitFails, LeaveWait, StopTreeFails
<1>. QED
  BY <1>1, <1>2, <1>3, <1>4, <1>5, <1>6, <1>7, <1>8, <1>9, <1>10, <1>11, <1>12
  DEF LauncherAny, LauncherStep, SetupStep, StopStep, EvidenceStep

\* The launcher makes no directory but the verification's.
LEMMA LauncherTemps ==
  ASSUME VerifyInv, LauncherAny
  PROVE  temps' \subseteq Temps /\ silent' \subseteq Temps
<1>0. temps \subseteq Temps /\ silent \subseteq Temps
  BY DEF VerifyInv, VTypeOK
<1> USE <1>0 DEF launcherVars, Temps
<1>1. CASE Begin \/ BeginFails
  BY <1>1 DEF Begin, BeginFails, To
<1>2. CASE ConfirmStep
  BY <1>2 DEF ConfirmStep, ConfirmPoll, ConfirmReceive, Fail, Keep, To
<1>3. CASE Recheck \/ CreateState \/ InitRepository \/ StageAuth \/ CreateSession
  BY <1>3 DEF Recheck, CreateState, InitRepository, StageAuth, CreateSession, Create, To
<1>4. CASE StartBroker \/ ArmChild \/ Baseline \/ Spawn \/ Bind \/ Register
  BY <1>4 DEF StartBroker, ArmChild, Baseline, Spawn, Bind, Register, Keep, To
<1>5. CASE WaitStep
  BY <1>5 DEF WaitStep, WaitInterrupt, WaitTimeout, TryWait, LeaveWait, To
<1>6. CASE KillAndReap \/ StopTree
  BY <1>6 DEF KillAndReap, StopTree, To
<1>7. CASE Freeze \/ FreezeJoin \/ Abort \/ AbortJoin
  BY <1>7 DEF Freeze, FreezeJoin, Abort, AbortJoin, StopAccepting, Joined, JoinFailed, To
<1>8. CASE ProbeFinish \/ ReadEvidence \/ RetainDiagnostic
  BY <1>8 DEF ProbeFinish, ReadEvidence, RetainDiagnostic, Fail, To
<1>9. CASE Verdict \/ AbortTemps
  BY <1>9 DEF Verdict, AbortTemps, RemoveTemps
<1>10. CASE Unwind \/ Return
  BY <1>10 DEF Unwind, Return, Keep, To
<1>11. CASE SetupFails
  BY <1>11 DEF SetupFails, Fail
<1>12. CASE CreateStateFails \/ CreateSessionFails \/ TryWaitFails \/ StopTreeFails
  BY <1>12 DEF CreateStateFails, CreateSessionFails, TryWaitFails, LeaveWait, StopTreeFails
<1>. QED
  BY <1>1, <1>2, <1>3, <1>4, <1>5, <1>6, <1>7, <1>8, <1>9, <1>10, <1>11, <1>12
  DEF LauncherAny, LauncherStep, SetupStep, StopStep, EvidenceStep

\* And truth values to truth values.
LEMMA LauncherTruths ==
  ASSUME VerifyInv, LauncherAny
  PROVE  Truths'
<1> USE DEF launcherVars, signalVars, brokerVars, auditVars, childVars, witnessVars,
        VerifyInv, VTypeOK, Truths
<1>1. CASE Begin \/ BeginFails
  BY <1>1 DEF Begin, BeginFails, To
<1>2. CASE ConfirmStep
  BY <1>2 DEF ConfirmStep, ConfirmPoll, ConfirmReceive, Fail, Keep, To
<1>3. CASE Recheck \/ CreateState \/ InitRepository \/ StageAuth \/ CreateSession
  BY <1>3 DEF Recheck, CreateState, InitRepository, StageAuth, CreateSession, Create, To
<1>4. CASE StartBroker \/ ArmChild \/ Baseline \/ Spawn \/ Bind \/ Register
  <2>1. CASE StartBroker \/ ArmChild \/ Baseline \/ Spawn
    BY <2>1 DEF StartBroker, ArmChild, Baseline, Spawn, Keep
  <2>2. CASE Bind
    BY <2>2 DEF Bind
  <2>3. CASE Register
    BY <2>3 DEF Register
  <2>. QED BY <1>4, <2>1, <2>2, <2>3
<1>5. CASE WaitStep
  BY <1>5 DEF WaitStep, WaitInterrupt, WaitTimeout, TryWait, LeaveWait, To
<1>6. CASE KillAndReap \/ StopTree
  <2>1. cleanupError' \in BOOLEAN
    <3>1. CASE KillAndReap
      <4>1. PICK killed, reaped \in BOOLEAN : cleanupError' = (cleanupError \/ ~killed \/ ~reaped)
        BY <3>1, Zenon DEF KillAndReap
      <4>. QED BY <4>1, Zenon
    <3>. QED BY <1>6, <3>1 DEF StopTree
  <2>. QED
    BY <1>6, <2>1 DEF KillAndReap, StopTree
<1>7. CASE Freeze \/ FreezeJoin \/ Abort \/ AbortJoin
  <2>1. CASE Freeze \/ Abort
    BY <2>1 DEF Freeze, Abort, StopAccepting
  <2>2. CASE FreezeJoin
    BY <2>2 DEF FreezeJoin, Joined, JoinFailed
  <2>3. CASE AbortJoin
    BY <2>3 DEF AbortJoin, Joined, JoinFailed
  <2>. QED BY <1>7, <2>1, <2>2, <2>3
<1>8. CASE ProbeFinish \/ ReadEvidence \/ RetainDiagnostic
  BY <1>8 DEF ProbeFinish, ReadEvidence, RetainDiagnostic, Fail, To
<1>9. CASE Verdict \/ AbortTemps
  <2>1. PICK error \in BOOLEAN : cleanupError' = (cleanupError \/ error)
    BY <1>9, Zenon DEF Verdict, AbortTemps, RemoveTemps
  <2>2. cleanupError' \in BOOLEAN
    BY <2>1, Zenon
  <2>. QED
    BY <1>9, <2>2 DEF Verdict, AbortTemps, RemoveTemps
<1>10. CASE Unwind \/ Return
  BY <1>10 DEF Unwind, Return, Keep, To
<1>11. CASE SetupFails
  BY <1>11 DEF SetupFails, Fail
<1>12. CASE CreateStateFails \/ CreateSessionFails \/ TryWaitFails \/ StopTreeFails
  BY <1>12 DEF CreateStateFails, CreateSessionFails, TryWaitFails, LeaveWait, StopTreeFails
<1>. QED
  BY <1>1, <1>2, <1>3, <1>4, <1>5, <1>6, <1>7, <1>8, <1>9, <1>10, <1>11, <1>12
  DEF LauncherAny, LauncherStep, SetupStep, StopStep, EvidenceStep
-----------------------------------------------------------------------------
(* Everybody else's steps.                                                 *)

\* A worker cannot start in a broker that is down.
LEMMA WorkerHolds ==
  ASSUME VerifyInv, WorkerAny
  PROVE  /\ Enumerated' /\ Truths' /\ UNCHANGED <<temps, silent>> /\ BrokerQuiet'
         /\ PlaceOfBroker' /\ PlaceOfChild'
         /\ PlaceOfTheRest' /\ EvidenceHolds'
<1> USE DEF VerifyInv
<1>1. UNCHANGED <<launcherVars, signalVars, childVars, witnessVars, stopped, expected>>
  BY WorkerFrame
<1>2. /\ serve' = serve \/ (serve = "serving" /\ serve' = "panicked" /\ child # "none")
      /\ serve \in {"none", "down"} => UNCHANGED <<conn, auditVars>>
  BY DEF WorkerAny, ServeStep, Accept, SpawnPanics, WorkerStep, Attempt, Parse, Check, Refuse,
         Consume, Request, Allow, Respond, Emitted, RecordOrEnd, Worker,
         BrokerQuiet, WorkersIdle, Ended
<1>3. Truths' /\ PlaceOfChild' /\ PlaceOfTheRest'
  BY <1>1 DEF VTypeOK, Truths, PlaceOfChild, PlaceOfTheRest,
              launcherVars, signalVars, childVars, witnessVars
<1>4. Enumerated' /\ PlaceOfBroker'
  BY <1>1, <1>2 DEF VTypeOK, Enumerated, PlaceOfBroker, PlaceOfChild, Before, Setup, Armed,
                    launcherVars, signalVars, childVars, witnessVars
<1>5. BrokerQuiet'
  BY <1>2 DEF BrokerQuiet, WorkersIdle
<1>6. EvidenceHolds'
  BY <1>1, <1>2 DEF EvidenceHolds, ExactEvidence, Counts, Counted, auditVars, launcherVars,
                    childVars, witnessVars
<1>. QED
  BY <1>1, <1>3, <1>4, <1>5, <1>6 DEF launcherVars

\* A witness that has stopped counts nothing more.
LEMMA WitnessHolds ==
  ASSUME VerifyInv, WitnessAny
  PROVE  /\ Enumerated' /\ Truths' /\ UNCHANGED <<temps, silent>> /\ BrokerQuiet'
         /\ PlaceOfBroker' /\ PlaceOfChild'
         /\ PlaceOfTheRest' /\ EvidenceHolds'
<1> USE DEF VerifyInv
<1>1. UNCHANGED <<launcherVars, signalVars, brokerVars, childVars>>
  BY WitnessFrame
<1>2. /\ \/ UNCHANGED witness
         \/ witness \in {"watching", "stopping"} /\ witness' \in {"failed", "stopped"}
      /\ witness \notin {"watching", "stopping"} => UNCHANGED <<witness, seen>>
  BY DEF WitnessAny, Knock, Observe, WitnessFails, WitnessStops
<1>3. Enumerated' /\ Truths' /\ PlaceOfBroker' /\ PlaceOfChild' /\ BrokerQuiet'
  BY <1>1, <1>2 DEF VTypeOK, Enumerated, Truths, PlaceOfBroker, PlaceOfChild, BrokerQuiet,
              WorkersIdle, launcherVars, signalVars, brokerVars, childVars
<1>4. PlaceOfTheRest'
  BY <1>1, <1>2 DEF PlaceOfTheRest, launcherVars, signalVars, childVars
<1>5. EvidenceHolds'
  BY <1>1, <1>2 DEF EvidenceHolds, ExactEvidence, Counts, Counted, launcherVars, brokerVars,
                    auditVars, childVars
<1>. QED
  BY <1>1, <1>3, <1>4, <1>5 DEF launcherVars

\* The child's tree, the clock and Ctrl-C: once the child is reaped and its
\* descendants gone, none of them touches the repository.
LEMMA WorldHolds ==
  ASSUME VerifyInv, WorldAny
  PROVE  /\ Enumerated' /\ Truths' /\ UNCHANGED <<temps, silent>> /\ BrokerQuiet'
         /\ PlaceOfBroker' /\ PlaceOfChild'
         /\ PlaceOfTheRest' /\ EvidenceHolds'
<1> USE DEF VerifyInv, VTypeOK
<1>0. UNCHANGED <<brokerVars, witnessVars, temps, silent, evidence, retained, cleanupError,
                  handler>>
  BY WorldFrame
<1>1. CASE ChildWorks \/ ChildExits
  <2>1. /\ UNCHANGED <<pc, outcome, flag, expired, exitOk>>
        /\ InTree /\ child' \in {child, "exited"} /\ (child' # child => child = "running")
        /\ kids' = kids \/ (kids' = "alive" /\ child = "running")
        /\ strays' # strays => kids = "alive"
        /\ dirty' # dirty => InTree
    BY <1>1 DEF ChildWorks, ChildExits, InTree, launcherVars, signalVars
  <2>2. Truths'
    <3>1. strays' \in BOOLEAN /\ dirty' \in BOOLEAN
      BY <1>1 DEF ChildWorks, ChildExits
    <3>. QED
      BY <1>0, <2>1, <3>1, Zenon DEF Truths, brokerVars
  <2>3. Enumerated' /\ BrokerQuiet' /\ PlaceOfBroker'
    BY <1>0, <2>1 DEF Enumerated, BrokerQuiet, WorkersIdle, PlaceOfBroker, brokerVars, witnessVars
  <2>4. PlaceOfChild' /\ PlaceOfTheRest'
    BY <1>0, <2>1 DEF PlaceOfChild, PlaceOfTheRest, InTree, Before, Setup, Armed, Running,
                      Settled, Unwinding, witnessVars
  <2>5. EvidenceHolds'
    <3>1. CASE evidence = {}
      BY <1>0, <2>1, <3>1 DEF EvidenceHolds, ExactEvidence
    <3>2. CASE evidence # {}
      <4>1. /\ child' = "reaped" /\ kids' = "none" /\ strays' = strays
            /\ dirty' # dirty => strays
        BY <2>1, <3>2 DEF EvidenceHolds, InTree
      <4>2. Counts' = Counts /\ seen' = seen /\ UNCHANGED <<serve, witness, evidence, temps>>
        BY <1>0 DEF Counts, Counted, brokerVars, auditVars, witnessVars
      <4>. QED
        BY <2>1, <3>2, <4>1, <4>2 DEF EvidenceHolds, ExactEvidence
    <3>. QED BY <3>1, <3>2
  <2>. QED
    BY <1>0, <2>2, <2>3, <2>4, <2>5
<1>2. CASE CtrlC
  <2>1. /\ pc \in Watched /\ UNCHANGED <<expired, childVars, brokerVars, witnessVars>>
        /\ flag' \in BOOLEAN
    BY <1>2, Zenon DEF CtrlC
  <2>2. \/ UNCHANGED <<pc, outcome>>
        \/ handler = "default" /\ pc' = "done" /\ outcome' = "failed"
    BY <1>2 DEF CtrlC
  <2>3. Truths'
    BY <1>0, <2>1, Zenon DEF Truths, brokerVars, childVars
  <2>4. CASE UNCHANGED <<pc, outcome>>
    BY <1>0, <2>1, <2>3, <2>4 DEF Enumerated, BrokerQuiet, WorkersIdle, PlaceOfBroker,
        PlaceOfChild, PlaceOfTheRest, EvidenceHolds, ExactEvidence, Counts, Counted,
        brokerVars, auditVars, childVars, witnessVars
  <2>5. CASE handler = "default" /\ pc' = "done" /\ outcome' = "failed"
    <3>1. pc = "start"
      BY <2>1, <2>5 DEF PlaceOfTheRest, Watched
    <3>. QED
      BY <1>0, <2>1, <2>3, <2>5, <3>1 DEF Enumerated, BrokerQuiet, WorkersIdle, PlaceOfBroker,
        PlaceOfChild, PlaceOfTheRest, EvidenceHolds, brokerVars, childVars, witnessVars,
        Places, Before, Setup, Armed, Running, Settled, Unwinding
  <2>. QED
    BY <2>2, <2>4, <2>5
<1>3. CASE TimePasses
  <2>1. UNCHANGED <<launcherVars, childVars, handler, flag>> /\ expired' \in BOOLEAN
    BY <1>3 DEF TimePasses
  <2>. QED
    BY <1>0, <2>1 DEF Enumerated, Truths, BrokerQuiet, WorkersIdle, PlaceOfBroker,
        PlaceOfChild, PlaceOfTheRest, EvidenceHolds, ExactEvidence, Counts, Counted,
        launcherVars, brokerVars, auditVars, childVars, witnessVars
<1>. QED
  BY <1>1, <1>2, <1>3 DEF WorldAny
-----------------------------------------------------------------------------
(* The theorems.                                                           *)

LEMMA VerifyInit ==
  ASSUME Init
  PROVE  VerifyInv
<1>1. VTypeOK
  BY DEF Init, VTypeOK, Places, Before, Setup, Temps, ConnStates, HeadKinds
<1>2. AuditCounts
  <2>1. AllAttempted = {} /\ AllInvoked = {}
    BY DEF Init, AllAttempted, AllInvoked, Begun
  <2>2. Cardinality(AllAttempted) = 0 /\ Cardinality(AllInvoked) = 0
    BY <2>1, FS_EmptySet
  <2>3. Shown = 0
    BY DEF Init, Shown, Bit, Records
  <2>. QED BY <2>2, <2>3 DEF Init, AuditCounts, Holding, Records
<1>3. WitnessCounts /\ BrokerQuiet
  BY DEF Init, WitnessCounts, BrokerQuiet, WorkersIdle
<1>4. PlaceOfBroker /\ PlaceOfChild /\ PlaceOfTheRest /\ EvidenceHolds
  BY DEF Init, PlaceOfBroker, PlaceOfChild, PlaceOfTheRest, EvidenceHolds,
         Before, Setup, Armed, Running, Settled, Unwinding
<1>. QED
  BY <1>1, <1>2, <1>3, <1>4 DEF VerifyInv

LEMMA VerifyNext ==
  ASSUME VerifyInv, [Next]_vars
  PROVE  VerifyInv'
<1>1. /\ Enumerated' /\ Truths' /\ temps' \subseteq Temps /\ silent' \subseteq Temps
      /\ BrokerQuiet' /\ PlaceOfBroker' /\ PlaceOfChild'
      /\ PlaceOfTheRest' /\ EvidenceHolds'
  <2>1. CASE LauncherAny
    BY <2>1, LauncherEnumerated, LauncherTemps, LauncherTruths, LauncherBroker,
       LauncherChild, LauncherRest,
       LauncherEvidence
  <2>2. CASE UNCHANGED vars
    BY <2>2 DEF vars, launcherVars, signalVars, brokerVars, auditVars, childVars, witnessVars,
      VerifyInv, VTypeOK, Enumerated, Truths, BrokerQuiet, WorkersIdle, PlaceOfBroker,
      PlaceOfChild, PlaceOfTheRest, EvidenceHolds, ExactEvidence, Counts, Counted
  <2>3. temps \subseteq Temps /\ silent \subseteq Temps
    BY DEF VerifyInv, VTypeOK
  <2>. QED
    BY <2>1, <2>2, <2>3, WorkerHolds, WitnessHolds, WorldHolds, NextCases
<1>2. VTypeOK'
  BY <1>1, AuditStep, WitnessStep DEF VTypeOK, Enumerated, Truths
<1>. QED
  BY <1>1, <1>2, AuditStep, WitnessStep DEF VerifyInv

\* The inductive invariant of a verification.
THEOREM VerifySafe == Spec => []VerifyInv
<1>1. Init => VerifyInv
  BY VerifyInit
<1>2. VerifyInv /\ [Next]_vars => VerifyInv'
  BY VerifyNext
<1>. QED
  BY <1>1, <1>2, PTL DEF Spec

\* The connections other than c, counted.
LEMMA OthersCounted ==
  ASSUME NEW c \in Conns, conn[c] = "emitted"
  PROVE  /\ Cardinality(AllAttempted) = Cardinality(Attempted(c)) + 1 /\ Cardinality(Attempted(c)) \in Nat
         /\ Cardinality(AllInvoked) = Cardinality(Invoked(c)) + 1 /\ Cardinality(Invoked(c)) \in Nat
<1>1. /\ AllAttempted = Attempted(c) \cup {c} /\ c \notin Attempted(c)
      /\ AllInvoked = Invoked(c) \cup {c} /\ c \notin Invoked(c)
  BY DEF AllAttempted, Attempted, AllInvoked, Invoked, Begun
<1>2. IsFiniteSet(Attempted(c)) /\ IsFiniteSet(Invoked(c))
  BY VerifyAssumption, FS_Subset DEF Attempted, Invoked
<1>3. /\ Cardinality(Attempted(c) \cup {c}) = Cardinality(Attempted(c)) + 1
      /\ Cardinality(Invoked(c) \cup {c}) = Cardinality(Invoked(c)) + 1
  BY <1>1, <1>2, FS_AddElement
<1>. QED BY <1>1, <1>2, <1>3, FS_CardinalityType

\* verify_local_hook returns success only for a run in which one connection
\* consumed the ledger and was answered, at most one record of another one is
\* missing for each append cut short, one exact request was served and nothing
\* else, and nothing of the child's group is left, whatever else tried to connect.
THEOREM VerifyPassIsEarned == Spec => []PassIsEarned
<1>1. VerifyInv => PassIsEarned
  <2> SUFFICES ASSUME VerifyInv, outcome = "passed"
               PROVE  PassIsEarned
    BY DEF PassIsEarned
  <2> USE DEF VerifyInv
  <2>1. ExactEvidence /\ temps = {} /\ evidence # {}
    BY DEF EvidenceHolds, ExactEvidence
  <2>2. PICK clean \in BOOLEAN :
          /\ evidence = {[audit |-> Counts, seen |-> seen, clean |-> clean]}
          /\ clean /\ dirty => strays
    BY <2>1 DEF EvidenceHolds
  <2>3. [audit |-> Counts, seen |-> seen, clean |-> clean] =
        [audit |-> [r \in Records |-> 1], seen |-> [exact |-> 1, other |-> 0], clean |-> TRUE]
    BY <2>1, <2>2 DEF ExactEvidence
  <2>4. Counts = [r \in Records |-> 1] /\ seen = [exact |-> 1, other |-> 0] /\ clean = TRUE
    BY <2>3
  <2>5. serve = "down" /\ child = "reaped" /\ kids = "none" /\ exitOk /\ (dirty => strays)
    BY <2>1, <2>2, <2>4 DEF EvidenceHolds, ExactEvidence
  <2>6. \A r \in Records : Counted(r) = 1
    BY <2>4 DEF Counts
  <2>7. /\ audit["attempt"] + Bit(tail = "attempt") = 1 /\ audit["invoked"] = 1
        /\ audit["emitted"] = 1 /\ audit["attempt"] \in Nat /\ torn \in Nat
    BY <2>6 DEF Counted, Records, Bit, VTypeOK
  <2>8. PICK c \in Conns : conn[c] = "emitted"
    BY <2>7 DEF AuditCounts
  <2>9. ledger = {c}
    BY <2>8 DEF AuditCounts, Holding
  <2>10. Cardinality(Attempted(c)) + Cardinality(Invoked(c)) <= torn
    <3>1. Shown <= torn + 2 /\ Shown \in Int
      BY <2>7 DEF Shown, Bit
    <3>2. Cardinality(AllAttempted) + Cardinality(AllInvoked) <= Shown
      BY DEF AuditCounts
    <3> DEFINE a == Cardinality(Attempted(c))
               i == Cardinality(Invoked(c))
               s == Shown
    <3>3. a \in Nat /\ i \in Nat /\ s \in Int /\ (a + 1) + (i + 1) <= s /\ s <= torn + 2
      BY <2>8, <3>1, <3>2, OthersCounted
    <3> HIDE DEF a, i, s
    <3>4. a + i <= torn
      BY <2>7, <3>3
    <3>. QED BY <3>4 DEF a, i
  <2>11. \E h \in Heads : /\ head[h] = "served" /\ headKind[h] = "exact"
                          /\ \A i \in Heads \ {h} : head[i] # "served"
    BY <2>4 DEF WitnessCounts
  <2>. QED
    BY <2>1, <2>5, <2>8, <2>9, <2>10, <2>11 DEF PassIsEarned
<1>. QED
  BY <1>1, VerifySafe, PTL

\* However verify_local_hook ends, every process of the child's group and every
\* directory that is left was reported, but for a directory whose creation
\* failed; and only a panic of serve leaves workers, which fails the run.
THEOREM VerifyNothingOutlives == Spec => []NothingOutlives
<1>1. VerifyInv => NothingOutlives
  BY DEF VerifyInv, BrokerQuiet, PlaceOfBroker, PlaceOfChild, PlaceOfTheRest, NothingOutlives,
         Unwinding
<1>. QED
  BY <1>1, VerifySafe, PTL

\* "A late client must not change the log after the diagnostic summary is
\* made" (launcher.rs): nothing the evidence was read from changes after it,
\* but for the repository, by a descendant that left the child's group.
THEOREM VerifyEvidenceFrozen == Spec => EvidenceFrozen
<1> DEFINE Frozen == /\ UNCHANGED <<audit, tail, seen, exitOk>>
                     /\ dirty' # dirty => strays
<1>1. VerifyInv /\ [Next]_vars => [evidence # {} => Frozen]_vars
  <2> SUFFICES ASSUME VerifyInv, [Next]_vars, evidence # {}
               PROVE  Frozen
    OBVIOUS
  <2> USE DEF VerifyInv
  <2>1. /\ serve = "down" /\ child = "reaped" /\ kids = "none" /\ witness = "stopped"
        /\ pc \in {"retain", "cleanup", "unwind", "unwinding", "done"}
    BY DEF EvidenceHolds
  <2>2. CASE LauncherAny
    <3>1. exitOk' = exitOk
      BY <2>1, <2>2 DEF LauncherAny, LauncherStep, Begin, ConfirmStep, ConfirmPoll, ConfirmReceive,
         SetupStep, Recheck, CreateState, InitRepository, StageAuth, CreateSession, Create,
         StartBroker, ArmChild, Baseline, Spawn, Bind, Register, WaitStep, WaitInterrupt,
         WaitTimeout, TryWait, StopStep, KillAndReap, StopTree, Freeze, FreezeJoin, Abort, AbortJoin,
         StopAccepting, EvidenceStep, ProbeFinish, ReadEvidence, RetainDiagnostic, Verdict,
         AbortTemps, RemoveTemps, Unwind, Return, BeginFails, SetupFails, CreateStateFails,
         CreateSessionFails, TryWaitFails, StopTreeFails, Fail, Keep, To, childVars
    <3>. QED BY <2>2, <3>1, LauncherFrame DEF auditVars
  <2>3. CASE WitnessAny
    BY <2>1, <2>3, WitnessFrame DEF WitnessAny, Knock, Observe, WitnessFails, WitnessStops,
       brokerVars, auditVars, childVars
  <2>4. CASE WorkerAny
    <3>1. UNCHANGED auditVars
      BY <2>1, <2>4 DEF WorkerAny, ServeStep, Accept, SpawnPanics, WorkerStep, Attempt, Parse,
         Check, Refuse, Consume, Request, Allow, Respond, Emitted, RecordOrEnd, Worker,
         BrokerQuiet, WorkersIdle, Ended
    <3>. QED BY <2>4, <3>1, WorkerFrame DEF auditVars, childVars, witnessVars
  <2>5. CASE WorldAny
    BY <2>1, <2>5, WorldFrame DEF WorldAny, ChildWorks, ChildExits, CtrlC, TimePasses, InTree,
       brokerVars, auditVars, childVars, witnessVars
  <2>6. CASE UNCHANGED vars
    BY <2>6 DEF vars, brokerVars, auditVars, childVars, witnessVars
  <2>. QED
    BY <2>2, <2>3, <2>4, <2>5, <2>6, NextCases
<1>. QED
  BY <1>1, VerifySafe, PTL DEF Spec, EvidenceFrozen
=============================================================================
