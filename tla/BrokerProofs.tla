---------------------------- MODULE BrokerProofs ----------------------------
(***************************************************************************)
(* Proofs about Broker for every number of connections, processes and      *)
(* slots, every ledger limit, and every set of messages: its types; IInv,  *)
(* an inductive invariant, hence replay protection, the slot count, the    *)
(* audit chain and the backing of every allow, with one lemma per part of  *)
(* IInv and one case per action that can disturb it; that the broker       *)
(* implements OneShotApproval; and, since the launcher uses its broker as  *)
(* Broker's owner may, that all this holds of the one inside a session.    *)
(***************************************************************************)
EXTENDS Launcher, FiniteSetTheorems, TLAPS

\* The values the model leaves in place of a request are of the right type.
LEMMA PlaceholdersAreTyped == AnyPid \in Pids /\ AnyMessage \in Messages
<1>1. (\E p \in Pids : TRUE) /\ (\E m \in Messages : TRUE)
  BY BrokerAssumption
<1>. QED
  BY <1>1, Zenon DEF AnyPid, AnyMessage

\* Every message a client may send carries a hook input.
LEMMA MessagesAreTyped == \A m \in Messages : m \in Message /\ m.input \in HookInput
<1>. SUFFICES ASSUME NEW m \in Messages PROVE m \in Message /\ m.input \in HookInput
  OBVIOUS
<1>1. m \in Message
  BY BrokerAssumption
<1>. QED
  BY <1>1 DEF Message

LEMMA InitType == Init => TypeOK
<1>. SUFFICES ASSUME Init PROVE TypeOK
  OBVIOUS
<1>1. EmptyLedger \in [session : Sessions \cup {NoSession},
                       invocations : SUBSET Invocations, requests : SUBSET HookInput]
  BY DEF EmptyLedger
<1>2. proc \in [Pids -> Proc]
  BY BrokerAssumption DEF Init, Proc
<1>3. peer \in [Conns -> Pids] /\ msg \in [Conns -> Messages]
  BY PlaceholdersAreTyped DEF Init
<1>4. shutdown \in BOOLEAN /\ expected \in BOOLEAN /\ auditDir \in BOOLEAN
  BY DEF Init
<1>5. pc \in [Conns -> WorkerPcs] /\ servePc \in ServePcs /\ active \in Int
  BY DEF Init, ServePcs, WorkerPcs
<1>6. /\ peerStart \in [Conns -> 0 .. MaxStart]
      /\ reply \in [Conns -> {"none", "allow", "no_decision"}]
      /\ audit \in [Conns -> SUBSET AuditKinds]
      /\ client \in [Conns -> {"idle", "waiting", "approved", "declined"}]
  BY BrokerAssumption DEF Init
<1>7. workers \subseteq Conns /\ grants \subseteq Grants /\ ledger = EmptyLedger
      /\ child \in {"none", "running", "exited"}
  BY DEF Init
<1>. QED
  BY <1>1, <1>2, <1>3, <1>4, <1>5, <1>6, <1>7 DEF TypeOK

\* A consume that succeeds yields a well-typed ledger and grant.
LEMMA ConsumeType ==
  ASSUME TypeOK, NEW c \in Conns
  PROVE  LET i == msg[c].input
             v == <<peer[c], peerStart[c]>>
         IN  /\ v \in Invocations
             /\ i \in HookInput
             /\ [conn |-> c, input |-> i, invocation |-> v] \in Grants
             /\ Consumed(ledger, i, v) \in
                   [session : Sessions \cup {NoSession},
                    invocations : SUBSET Invocations, requests : SUBSET HookInput]
<1>1. /\ msg[c].input \in HookInput
      /\ <<peer[c], peerStart[c]>> \in Invocations
  BY MessagesAreTyped DEF TypeOK, Invocations
<1>. QED
  BY <1>1 DEF TypeOK, Consumed, Grants, HookInput

LEMMA WorkerType ==
  ASSUME TypeOK, NEW c \in Conns, WorkerStep(c)
  PROVE  TypeOK'
<1>. USE DEF TypeOK, WorkerPcs, Live, Unchecked, Checked, Granted, Goto,
             AppendRecord, AuditKinds,
             serveVars, workerVars, auditVars, clientVars, osVars, ledgerVars
<1>1. CASE WorkerAttempt(c) BY <1>1 DEF WorkerAttempt
<1>2. CASE WorkerRead(c) BY <1>2 DEF WorkerRead
<1>3. CASE WorkerCheckExpected(c) BY <1>3 DEF WorkerCheckExpected
<1>4. CASE WorkerCheckAncestry(c) BY <1>4 DEF WorkerCheckAncestry
<1>5. CASE WorkerDecide(c) BY <1>5 DEF WorkerDecide
<1>6. CASE WorkerRecheck(c) BY <1>6 DEF WorkerRecheck
<1>7. CASE WorkerIdentify(c) BY <1>7 DEF WorkerIdentify, Proc
<1>8. CASE WorkerConsume(c)
  <2>. DEFINE i == msg[c].input
              v == <<peer[c], peerStart[c]>>
              g == [conn |-> c, input |-> i, invocation |-> v]
  <2>1. /\ g \in Grants
        /\ Consumed(ledger, i, v) \in
              [session : Sessions \cup {NoSession},
               invocations : SUBSET Invocations, requests : SUBSET HookInput]
    BY ConsumeType
  <2>2. /\ ledger' \in {ledger, Consumed(ledger, i, v)}
        /\ grants' \in {grants, grants \cup {g}}
        /\ pc' = [pc EXCEPT ![c] = "allow"] \/ pc' = [pc EXCEPT ![c] = "refuse"]
        /\ UNCHANGED <<peerStart, reply, serveVars, auditVars, clientVars, osVars>>
    BY <1>8 DEF WorkerConsume
  <2>. HIDE DEF i, v, g
  <2>. QED BY <2>1, <2>2
<1>9. CASE WorkerAuditAllow(c) BY <1>9 DEF WorkerAuditAllow
<1>10. CASE WorkerWriteAllow(c) BY <1>10 DEF WorkerWriteAllow
<1>11. CASE WorkerAuditEmitted(c) BY <1>11 DEF WorkerAuditEmitted
<1>12. CASE WorkerRefuse(c) BY <1>12 DEF WorkerRefuse
<1>13. CASE WorkerRelease(c)
  BY <1>13, PlaceholdersAreTyped, BrokerAssumption DEF WorkerRelease
<1>. QED
  BY <1>1, <1>2, <1>3, <1>4, <1>5, <1>6, <1>7, <1>8, <1>9, <1>10, <1>11,
     <1>12, <1>13 DEF WorkerStep

LEMMA ServeType ==
  ASSUME TypeOK, ServeStep
  PROVE  TypeOK'
<1>. USE DEF TypeOK, WorkerPcs, Live, Unchecked, Checked, Granted, ServePcs,
             DropListener,
             serveVars, workerVars, auditVars, clientVars, osVars, ledgerVars
<1>1. CASE ServeRound BY <1>1 DEF ServeRound, Reaped
<1>2. CASE ServeStops BY <1>2 DEF ServeStops
<1>3. CASE ServeIdle BY <1>3 DEF ServeIdle
<1>4. CASE ServeAcceptError BY <1>4 DEF ServeAcceptError
<1>5. CASE ServeJoins BY <1>5 DEF ServeJoins
<1>6. CASE \E c \in Conns : ServeAccept(c) BY <1>6 DEF ServeAccept
<1>7. CASE \E c \in Conns : ServeSpawnPanic(c) BY <1>7 DEF ServeSpawnPanic
<1>. QED
  BY <1>1, <1>2, <1>3, <1>4, <1>5, <1>6, <1>7 DEF ServeStep, ServeWorks, ServeFails

LEMMA OutsideType ==
  ASSUME TypeOK, ProcessStep \/ OwnerStep \/ \E c \in Conns : ClientStep(c)
  PROVE  TypeOK'
<1>. USE BrokerAssumption
     DEF TypeOK, Proc, ServePcs, WorkerPcs,
         serveVars, workerVars, auditVars, clientVars, osVars, ledgerVars
<1>1. CASE ChildExits BY <1>1 DEF ChildExits
<1>2. CASE \E p \in Pids : Fork(p)
  <2>1. PICK p \in Pids, below \in BOOLEAN :
          /\ proc[p].start < MaxStart
          /\ proc' = [proc EXCEPT ![p] = [alive |-> TRUE, below |-> below,
                                          start |-> proc[p].start + 1]]
          /\ UNCHANGED <<serveVars, workerVars, auditVars, clientVars, child, ledgerVars>>
    BY <1>2, Zenon DEF Fork
  <2>. QED BY <2>1
<1>3. CASE \E p \in Pids : Exit(p) BY <1>3 DEF Exit
<1>4. CASE \E p \in Pids : Reparent(p) BY <1>4 DEF Reparent
<1>5. CASE SpawnChild BY <1>5 DEF SpawnChild
<1>6. CASE Start BY <1>6 DEF Start
<1>7. CASE SetCodexIdentity BY <1>7 DEF SetCodexIdentity
<1>8. CASE StopAccepting BY <1>8 DEF StopAccepting
<1>9. CASE Cleanup BY <1>9 DEF Cleanup, RemoveSession
<1>10. CASE \E c \in Conns : Connect(c) BY <1>10 DEF Connect
<1>11. CASE \E c \in Conns : ClientApproves(c) BY <1>11 DEF ClientApproves
<1>12. CASE \E c \in Conns : ClientDeclines(c) BY <1>12 DEF ClientDeclines
<1>. QED
  BY <1>1, <1>2, <1>3, <1>4, <1>5, <1>6, <1>7, <1>8, <1>9, <1>10, <1>11,
     <1>12 DEF ProcessStep, OwnerStep, ClientStep

\* No step of any thread, client or process takes a variable out of its type.
THEOREM TypeCorrect == SafeSpec => []TypeOK
<1>1. TypeOK /\ [Next]_bvars => TypeOK'
  <2>. SUFFICES ASSUME TypeOK, [Next]_bvars PROVE TypeOK'
    OBVIOUS
  <2>1. CASE UNCHANGED bvars
    BY <2>1 DEF TypeOK, bvars, serveVars, workerVars, auditVars, clientVars,
                osVars, ledgerVars
  <2>2. CASE Next
    BY <2>2, WorkerType, ServeType, OutsideType DEF Next
  <2>. QED BY <2>1, <2>2
<1>. QED BY InitType, <1>1, PTL DEF SafeSpec

-----------------------------------------------------------------------------
(* The connection slots.                                                   *)

\* LiveWorkers is finite: there are finitely many connections.
LEMMA LiveIsFinite == IsFiniteSet(LiveWorkers)
  BY FS_Subset, BrokerAssumption DEF LiveWorkers

\* A worker that starts is one more live worker, one that ends one less.
LEMMA LiveCount ==
  ASSUME TypeOK, NEW c \in Conns, NEW next \in WorkerPcs,
         pc' = [pc EXCEPT ![c] = next]
  PROVE  /\ pc[c] \notin Live /\ next \in Live =>
              /\ LiveWorkers' = LiveWorkers \cup {c}
              /\ Cardinality(LiveWorkers') = Cardinality(LiveWorkers) + 1
         /\ pc[c] \in Live /\ next \notin Live =>
              /\ LiveWorkers' = LiveWorkers \ {c}
              /\ Cardinality(LiveWorkers') = Cardinality(LiveWorkers) - 1
         /\ (pc[c] \in Live <=> next \in Live) => LiveWorkers' = LiveWorkers
<1>1. CASE pc[c] \notin Live /\ next \in Live
  <2>1. LiveWorkers' = LiveWorkers \cup {c} /\ c \notin LiveWorkers
    BY <1>1 DEF LiveWorkers, TypeOK
  <2>. QED BY <1>1, <2>1, LiveIsFinite, FS_AddElement
<1>2. CASE pc[c] \in Live /\ next \notin Live
  <2>1. LiveWorkers' = LiveWorkers \ {c} /\ c \in LiveWorkers
    BY <1>2 DEF LiveWorkers, TypeOK
  <2>. QED BY <1>2, <2>1, LiveIsFinite, FS_RemoveElement
<1>3. CASE pc[c] \in Live <=> next \in Live
  BY <1>3 DEF LiveWorkers, TypeOK
<1>. QED BY <1>1, <1>2, <1>3

\* A worker that is not at its end moves from a live step to a live step and
\* leaves the serve thread's state alone.
LEMMA WorkerStaysLive ==
  ASSUME TypeOK, NEW c \in Conns, WorkerStep(c), ~WorkerRelease(c)
  PROVE  /\ pc[c] \in Live
         /\ UNCHANGED serveVars
         /\ \E next \in Live : pc' = [pc EXCEPT ![c] = next]
<1>. USE DEF Live, Unchecked, Checked, Granted, Goto
<1>1. CASE WorkerAttempt(c) BY <1>1 DEF WorkerAttempt
<1>2. CASE WorkerRead(c) BY <1>2 DEF WorkerRead
<1>3. CASE WorkerCheckExpected(c) BY <1>3 DEF WorkerCheckExpected
<1>4. CASE WorkerCheckAncestry(c) BY <1>4 DEF WorkerCheckAncestry
<1>5. CASE WorkerDecide(c) BY <1>5 DEF WorkerDecide
<1>6. CASE WorkerRecheck(c) BY <1>6 DEF WorkerRecheck
<1>7. CASE WorkerIdentify(c) BY <1>7 DEF WorkerIdentify
<1>8. CASE WorkerConsume(c) BY <1>8 DEF WorkerConsume
<1>9. CASE WorkerAuditAllow(c) BY <1>9 DEF WorkerAuditAllow
<1>10. CASE WorkerWriteAllow(c) BY <1>10 DEF WorkerWriteAllow
<1>11. CASE WorkerAuditEmitted(c) BY <1>11 DEF WorkerAuditEmitted
<1>12. CASE WorkerRefuse(c) BY <1>12 DEF WorkerRefuse
<1>. QED
  BY <1>1, <1>2, <1>3, <1>4, <1>5, <1>6, <1>7, <1>8, <1>9, <1>10, <1>11,
     <1>12 DEF WorkerStep

\* Dropping the listener ends connections that have no worker.
LEMMA DropKeepsLive ==
  ASSUME TypeOK, NEW dropped \in SUBSET Conns, DropListener(dropped),
         \A c \in dropped : pc[c] \notin Live
  PROVE  /\ LiveWorkers' = LiveWorkers
         /\ \A c \in Conns : pc'[c] # "backlog"
  BY DEF TypeOK, DropListener, LiveWorkers, Live, Unchecked, Checked, Granted

Slots == SlotsMatchWorkers /\ HandlesCoverWorkers

LEMMA WorkerSlots ==
  ASSUME TypeOK, Slots, NEW c \in Conns, WorkerStep(c)
  PROVE  Slots'
<1>1. CASE WorkerRelease(c)
  <2>1. /\ pc[c] \in Live
        /\ pc' = [pc EXCEPT ![c] = "done"]
        /\ active' = active - 1
        /\ UNCHANGED <<servePc, workers>>
    BY <1>1 DEF WorkerRelease, Live
  <2>2. /\ LiveWorkers' = LiveWorkers \ {c}
        /\ Cardinality(LiveWorkers') = Cardinality(LiveWorkers) - 1
    <3>1. "done" \in WorkerPcs /\ "done" \notin Live
      BY DEF WorkerPcs, Live, Unchecked, Checked, Granted
    <3>. QED BY <2>1, <3>1, LiveCount
  <2>3. c \in LiveWorkers
    BY <2>1 DEF LiveWorkers
  <2>4. SlotsMatchWorkers'
    BY <2>1, <2>2, BrokerAssumption DEF Slots, SlotsMatchWorkers, TypeOK
  <2>5. HandlesCoverWorkers'
    BY <2>1, <2>2, <2>3 DEF Slots, HandlesCoverWorkers, TypeOK, Listening, Live,
       Unchecked, Checked, Granted
  <2>. QED BY <2>4, <2>5 DEF Slots
<1>2. CASE ~WorkerRelease(c)
  <2>1. PICK next \in Live : pc' = [pc EXCEPT ![c] = next]
    BY <1>2, WorkerStaysLive
  <2>2. pc[c] \in Live /\ UNCHANGED serveVars
    BY <1>2, WorkerStaysLive
  <2>3. LiveWorkers' = LiveWorkers
    BY <2>1, <2>2, LiveCount DEF WorkerPcs
  <2>4. c \in LiveWorkers
    BY <2>2 DEF LiveWorkers
  <2>5. SlotsMatchWorkers'
    BY <2>2, <2>3 DEF Slots, SlotsMatchWorkers, serveVars
  <2>6. HandlesCoverWorkers'
    BY <2>1, <2>2, <2>3, <2>4 DEF Slots, HandlesCoverWorkers, TypeOK, Listening,
       serveVars, Live, Unchecked, Checked, Granted
  <2>. QED BY <2>5, <2>6 DEF Slots
<1>. QED BY <1>1, <1>2

LEMMA ServeSlots ==
  ASSUME TypeOK, Slots, ServeStep
  PROVE  Slots'
<1>. USE DEF Slots, SlotsMatchWorkers, HandlesCoverWorkers, Listening
<1>1. CASE ServeRound
  <2>1. LiveWorkers' = LiveWorkers
    BY <1>1 DEF ServeRound, workerVars, LiveWorkers
  <2>2. servePc # "panicked" => LiveWorkers \subseteq Reaped
    BY DEF Reaped, LiveWorkers, Live, Unchecked, Checked, Granted
  <2>. QED BY <1>1, <2>1, <2>2 DEF ServeRound, workerVars, TypeOK
<1>2. CASE ServeStops
  <2>1. DropListener({}) BY <1>2 DEF ServeStops
  <2>2. LiveWorkers' = LiveWorkers /\ \A c \in Conns : pc'[c] # "backlog"
    BY <2>1, DropKeepsLive
  <2>. QED BY <1>2, <2>2 DEF ServeStops
<1>3. CASE ServeIdle BY <1>3 DEF ServeIdle, workerVars, LiveWorkers
<1>4. CASE ServeAcceptError
  <2>1. DropListener({}) BY <1>4 DEF ServeAcceptError
  <2>2. LiveWorkers' = LiveWorkers /\ \A c \in Conns : pc'[c] # "backlog"
    BY <2>1, DropKeepsLive
  <2>. QED BY <1>4, <2>2 DEF ServeAcceptError
<1>5. CASE ServeJoins
  <2>1. LiveWorkers = {}
    BY <1>5 DEF ServeJoins, LiveWorkers, Live, Unchecked, Checked, Granted
  <2>2. LiveWorkers' = LiveWorkers
    BY <1>5 DEF ServeJoins, workerVars, LiveWorkers
  <2>. QED BY <1>5, <2>1, <2>2 DEF ServeJoins, workerVars
<1>6. ASSUME NEW c \in Conns, ServeAccept(c) PROVE Slots'
  <2>1. pc[c] \notin Live /\ "attempt" \in Live /\ Live \subseteq WorkerPcs
    BY <1>6 DEF ServeAccept, WorkerPcs, Live, Unchecked, Checked, Granted
  <2>2. /\ LiveWorkers' = LiveWorkers \cup {c}
        /\ Cardinality(LiveWorkers') = Cardinality(LiveWorkers) + 1
    BY <1>6, <2>1, LiveCount DEF ServeAccept
  <2>. QED BY <1>6, <2>2, BrokerAssumption DEF ServeAccept, TypeOK
<1>7. ASSUME NEW c \in Conns, ServeSpawnPanic(c) PROVE Slots'
  <2>1. DropListener({c}) /\ pc[c] \notin Live
    BY <1>7 DEF ServeSpawnPanic, Live, Unchecked, Checked, Granted
  <2>2. \A d \in Conns : pc'[d] # "backlog"
    BY <2>1, DropKeepsLive
  <2>. QED BY <1>7, <2>2 DEF ServeSpawnPanic
<1>. QED
  BY <1>1, <1>2, <1>3, <1>4, <1>5, <1>6, <1>7 DEF ServeStep, ServeWorks, ServeFails

LEMMA OutsideSlots ==
  ASSUME TypeOK, Slots, ProcessStep \/ OwnerStep \/ \E c \in Conns : ClientStep(c)
  PROVE  Slots'
<1>. USE DEF Slots, SlotsMatchWorkers, HandlesCoverWorkers, Listening
<1>1. CASE UNCHANGED <<serveVars, pc>>
  BY <1>1 DEF serveVars, LiveWorkers
<1>2. CASE Start
  BY <1>2, BrokerAssumption DEF Start, workerVars, LiveWorkers, TypeOK
<1>3. CASE SetCodexIdentity BY <1>3 DEF SetCodexIdentity, workerVars, LiveWorkers
<1>4. CASE StopAccepting BY <1>4 DEF StopAccepting, workerVars, LiveWorkers
<1>5. ASSUME NEW c \in Conns, Connect(c) PROVE Slots'
  <2>1. LiveWorkers' = LiveWorkers
    <3>1. /\ pc[c] \notin Live /\ "backlog" \in WorkerPcs /\ "backlog" \notin Live
          /\ pc' = [pc EXCEPT ![c] = "backlog"]
      BY <1>5 DEF Connect, WorkerPcs, Live, Unchecked, Checked, Granted
    <3>. QED BY <3>1, LiveCount
  <2>. QED BY <1>5, <2>1 DEF Connect, serveVars, TypeOK
<1>. QED
  BY <1>1, <1>2, <1>3, <1>4, <1>5
  DEF ProcessStep, OwnerStep, ClientStep, ChildExits, Fork, Exit, Reparent,
      SpawnChild, Cleanup, RemoveSession, ClientApproves, ClientDeclines, workerVars

-----------------------------------------------------------------------------
(* The replay ledger.                                                      *)

LedgerPart == LedgerMatchesGrants /\ OneShot

\* Only the step that consumes touches the ledger and the grants.
LEMMA OnlyConsumeGrants ==
  ASSUME Next, \A c \in Conns : ~WorkerConsume(c)
  PROVE  UNCHANGED ledgerVars
<1>1. CASE ServeStep
  BY <1>1 DEF ServeStep, ServeWorks, ServeFails, ServeRound, ServeStops, ServeIdle, ServeAcceptError,
              ServeJoins, ServeAccept, ServeSpawnPanic
<1>2. CASE \E c \in Conns : WorkerStep(c)
  BY <1>2 DEF WorkerStep, WorkerAttempt, WorkerRead, WorkerCheckExpected,
              WorkerCheckAncestry, WorkerDecide, WorkerRecheck, WorkerIdentify,
              WorkerAuditAllow, WorkerWriteAllow, WorkerAuditEmitted,
              WorkerRefuse, WorkerRelease
<1>3. CASE \E c \in Conns : ClientStep(c)
  BY <1>3 DEF ClientStep, Connect, ClientApproves, ClientDeclines
<1>4. CASE ProcessStep
  BY <1>4 DEF ProcessStep, ChildExits, Fork, Exit, Reparent
<1>5. CASE OwnerStep
  BY <1>5 DEF OwnerStep, SpawnChild, Start, SetCodexIdentity, StopAccepting, Cleanup, RemoveSession
<1>. QED BY <1>1, <1>2, <1>3, <1>4, <1>5 DEF Next

\* A step that consumes grants something new in every respect, or nothing.
LEMMA ConsumeLedger ==
  ASSUME TypeOK, LedgerPart, WorkerHistory, NEW c \in Conns, WorkerConsume(c)
  PROVE  LedgerPart'
<1>. DEFINE i == msg[c].input
            v == <<peer[c], peerStart[c]>>
            g == [conn |-> c, input |-> i, invocation |-> v]
<1>1. CASE ~Consumable(ledger, i, v, Verification)
  <2>1. UNCHANGED ledgerVars BY <1>1 DEF WorkerConsume
  <2>. QED BY <2>1 DEF ledgerVars, LedgerPart, LedgerMatchesGrants, OneShot
<1>2. CASE Consumable(ledger, i, v, Verification)
  <2>1. ledger' = Consumed(ledger, i, v) /\ grants' = grants \cup {g}
    BY <1>2 DEF WorkerConsume
  <2>2. \A h \in grants : h.conn # c
    BY DEF WorkerConsume, WorkerHistory, History, HasGrant, Checked
  <2>3. g.conn = c /\ g.input = i /\ g.invocation = v
    OBVIOUS
  <2>. HIDE DEF i, v, g
  <2>4. g \notin grants /\ v \notin ledger.invocations /\ i \notin ledger.requests
    BY <1>2, <2>2, <2>3 DEF Consumable
  <2>5. /\ i.session # NoSession
        /\ ledger.session \in {NoSession, i.session}
        /\ Cardinality(ledger.invocations) < MaxInvocations
        /\ Verification => ledger.invocations = {}
    BY <1>2, Zenon DEF Consumable
  <2>6. /\ ledger'.session = i.session
        /\ ledger'.invocations = ledger.invocations \cup {v}
        /\ ledger'.requests = ledger.requests \cup {i}
    BY <2>1 DEF Consumed
  <2>7. \A h \in grants : h.input.session = i.session
    BY <2>5 DEF LedgerPart, LedgerMatchesGrants
  <2>8. /\ IsFiniteSet(grants') /\ IsFiniteSet(ledger'.invocations)
        /\ Cardinality(grants') = Cardinality(grants) + 1
        /\ Cardinality(ledger'.invocations) = Cardinality(ledger.invocations) + 1
        /\ Cardinality(grants) \in Nat
        /\ Cardinality(grants) = Cardinality(ledger.invocations)
    <3>1. /\ IsFiniteSet(grants) /\ IsFiniteSet(ledger.invocations)
          /\ Cardinality(grants) = Cardinality(ledger.invocations)
      BY DEF LedgerPart, LedgerMatchesGrants
    <3>2. IsFiniteSet(grants') /\ Cardinality(grants') = Cardinality(grants) + 1
      BY <2>1, <2>4, <3>1, FS_AddElement
    <3>3. /\ IsFiniteSet(ledger'.invocations)
          /\ Cardinality(ledger'.invocations) = Cardinality(ledger.invocations) + 1
      <4>1. LET more == ledger.invocations \cup {v} IN
            IsFiniteSet(more) /\ Cardinality(more) = Cardinality(ledger.invocations) + 1
        BY <2>4, <3>1, FS_AddElement
      <4>. QED BY <4>1, <2>6, Zenon
    <3>. QED BY <3>1, <3>2, <3>3, FS_CardinalityType
  <2>9. LedgerMatchesGrants'
    <3>0. /\ ledger.requests = {h.input : h \in grants}
          /\ ledger.invocations = {h.invocation : h \in grants}
      BY DEF LedgerPart, LedgerMatchesGrants
    <3>1. ledger'.requests = {h.input : h \in grants'}
      BY <2>1, <2>3, <2>6, <3>0, SMTT(20)
    <3>2. ledger'.invocations = {h.invocation : h \in grants'}
      BY <2>1, <2>3, <2>6, <3>0, SMTT(20)
    <3>3. ledger'.session # NoSession /\ grants' # {}
      BY <2>1, <2>5, <2>6
    <3>4. \A h \in grants' : h.input.session = ledger'.session
      BY <2>1, <2>3, <2>6, <2>7
    <3>. QED BY <2>8, <3>1, <3>2, <3>3, <3>4 DEF LedgerMatchesGrants
  <2>10. OneShot'
    <3>1. \A h \in grants : h.input # i /\ h.invocation # v
      BY <2>4 DEF LedgerPart, LedgerMatchesGrants
    <3>2. ASSUME NEW h \in grants', NEW k \in grants'
          PROVE  /\ h.input.session = k.input.session
                 /\ \/ h.conn = k.conn \/ h.input = k.input
                       \/ h.invocation = k.invocation
                    => h = k
      <4>1. CASE h \in grants /\ k \in grants
        BY <4>1 DEF LedgerPart, OneShot
      <4>2. CASE h = g \/ k = g
        BY <4>2, <2>1, <2>2, <2>3, <2>7, <3>1
      <4>. QED BY <4>1, <4>2, <2>1
    <3>3. Cardinality(grants') <= MaxInvocations
      BY <2>5, <2>8, LedgerAssumption
    <3>4. Verification => Cardinality(grants') <= 1
      <4>. SUFFICES ASSUME Verification PROVE Cardinality(grants') <= 1
        OBVIOUS
      <4>1. {h.invocation : h \in grants} = {}
        BY <2>5, Zenon DEF LedgerPart, LedgerMatchesGrants
      <4>3. grants = {} BY <4>1
      <4>2. Cardinality(grants) = 0 BY <4>3, FS_EmptySet
      <4>. QED BY <2>8, <4>2
    <3>. QED BY <3>2, <3>3, <3>4 DEF OneShot
  <2>. QED BY <2>9, <2>10 DEF LedgerPart
<1>. QED BY <1>1, <1>2

-----------------------------------------------------------------------------
(* Workers and their audit records.                                        *)

RecordPart == WorkerHistory /\ AllowIsBacked /\ AuditChain /\ IdentityFirst

\* The facts of one connection, as RecordPart states them.
Backed(c) ==
    reply[c] = "allow" \/ client[c] = "approved" =>
        HasGrant(c) /\ {"attempt", "invoked", "request", "allow"} \subseteq audit[c]
Chained(c) ==
    /\ "emitted" \in audit[c] => "allow" \in audit[c] /\ reply[c] = "allow"
    /\ "allow" \in audit[c] => "request" \in audit[c]
    /\ "request" \in audit[c] => "invoked" \in audit[c]
    /\ "invoked" \in audit[c] => "attempt" \in audit[c]
Facts(c) == History(c) /\ Backed(c) /\ Chained(c)

LEMMA RecordPartByConnection ==
  /\ RecordPart <=> (IdentityFirst /\ \A c \in Conns : Facts(c))
  /\ RecordPart' <=> (IdentityFirst' /\ \A c \in Conns : Facts(c)')
  BY DEF RecordPart, WorkerHistory, AllowIsBacked, AuditChain, Facts, Backed,
         Chained, HasGrant

\* Facts(c) reads nothing but these.
LEMMA FactsFrame ==
  ASSUME NEW c \in Conns, Facts(c), expected => expected',
         pc'[c] = pc[c], reply'[c] = reply[c], client'[c] = client[c],
         audit'[c] = audit[c], HasGrant(c)' <=> HasGrant(c)
  PROVE  Facts(c)'
  BY DEF Facts, History, Backed, Chained

\* A worker that does not consume: only its own facts are at stake.
LEMMA WorkerFacts ==
  ASSUME TypeOK, NEW c \in Conns, Facts(c), WorkerStep(c), ~WorkerConsume(c),
         HasGrant(c)' <=> HasGrant(c)
  PROVE  Facts(c)'
<1>. USE DEF TypeOK, Facts, History, Backed, Chained, Goto, AppendRecord,
             Unchecked, Checked, Granted,
             serveVars, workerVars, auditVars, clientVars
<1>1. CASE WorkerAttempt(c) BY <1>1 DEF WorkerAttempt
<1>2. CASE WorkerRead(c) BY <1>2 DEF WorkerRead
<1>3. CASE WorkerCheckExpected(c) BY <1>3 DEF WorkerCheckExpected
<1>4. CASE WorkerCheckAncestry(c) BY <1>4 DEF WorkerCheckAncestry
<1>5. CASE WorkerDecide(c) BY <1>5 DEF WorkerDecide
<1>6. CASE WorkerRecheck(c) BY <1>6 DEF WorkerRecheck
<1>7. CASE WorkerIdentify(c) BY <1>7 DEF WorkerIdentify
<1>9. CASE WorkerAuditAllow(c) BY <1>9 DEF WorkerAuditAllow
<1>10. CASE WorkerWriteAllow(c) BY <1>10 DEF WorkerWriteAllow
<1>11. CASE WorkerAuditEmitted(c) BY <1>11 DEF WorkerAuditEmitted
<1>12. CASE WorkerRefuse(c) BY <1>12 DEF WorkerRefuse
<1>13. CASE WorkerRelease(c) BY <1>13 DEF WorkerRelease
<1>. QED
  BY <1>1, <1>2, <1>3, <1>4, <1>5, <1>6, <1>7, <1>9, <1>10, <1>11,
     <1>12, <1>13 DEF WorkerStep

\* A worker's step changes nothing of another connection's.
LEMMA WorkerFrame ==
  ASSUME TypeOK, NEW c \in Conns, NEW d \in Conns \ {c}, WorkerStep(c)
  PROVE  /\ pc'[d] = pc[d] /\ reply'[d] = reply[d] /\ client'[d] = client[d]
         /\ audit'[d] = audit[d] /\ expected' = expected
<1>. USE DEF TypeOK, Goto, AppendRecord, serveVars, workerVars, auditVars, clientVars
<1>1. CASE WorkerAttempt(c) BY <1>1 DEF WorkerAttempt
<1>2. CASE WorkerRead(c) BY <1>2 DEF WorkerRead
<1>3. CASE WorkerCheckExpected(c) BY <1>3 DEF WorkerCheckExpected
<1>4. CASE WorkerCheckAncestry(c) BY <1>4 DEF WorkerCheckAncestry
<1>5. CASE WorkerDecide(c) BY <1>5 DEF WorkerDecide
<1>6. CASE WorkerRecheck(c) BY <1>6 DEF WorkerRecheck
<1>7. CASE WorkerIdentify(c) BY <1>7 DEF WorkerIdentify
<1>8. CASE WorkerConsume(c) BY <1>8 DEF WorkerConsume
<1>9. CASE WorkerAuditAllow(c) BY <1>9 DEF WorkerAuditAllow
<1>10. CASE WorkerWriteAllow(c) BY <1>10 DEF WorkerWriteAllow
<1>11. CASE WorkerAuditEmitted(c) BY <1>11 DEF WorkerAuditEmitted
<1>12. CASE WorkerRefuse(c) BY <1>12 DEF WorkerRefuse
<1>13. CASE WorkerRelease(c) BY <1>13 DEF WorkerRelease
<1>. QED
  BY <1>1, <1>2, <1>3, <1>4, <1>5, <1>6, <1>7, <1>8, <1>9, <1>10, <1>11,
     <1>12, <1>13 DEF WorkerStep

LEMMA WorkerRecords ==
  ASSUME TypeOK, RecordPart, Next, NEW c \in Conns, WorkerStep(c), ~WorkerConsume(c),
         UNCHANGED ledgerVars
  PROVE  RecordPart'
<1>1. \A d \in Conns : Facts(d) BY RecordPartByConnection
<1>2. \A d \in Conns : HasGrant(d)' <=> HasGrant(d) BY DEF HasGrant, ledgerVars
<1>3. Facts(c)' BY <1>1, <1>2, WorkerFacts
<1>4. ASSUME NEW d \in Conns \ {c} PROVE Facts(d)'
  BY <1>1, <1>2, WorkerFrame, FactsFrame
<1>5. expected' = expected
  BY DEF WorkerStep, WorkerAttempt, WorkerRead, WorkerCheckExpected,
         WorkerCheckAncestry, WorkerDecide, WorkerRecheck, WorkerIdentify,
         WorkerAuditAllow, WorkerWriteAllow, WorkerAuditEmitted, WorkerRefuse,
         WorkerRelease, serveVars
<1>6. IdentityFirst' BY <1>5 DEF RecordPart, IdentityFirst, ledgerVars
<1>. QED BY <1>3, <1>4, <1>6, RecordPartByConnection

\* A step that consumes gives its own connection a grant, and no other.
LEMMA ConsumeRecords ==
  ASSUME TypeOK, RecordPart, NEW c \in Conns, WorkerConsume(c)
  PROVE  RecordPart'
<1>. DEFINE i == msg[c].input
            v == <<peer[c], peerStart[c]>>
            g == [conn |-> c, input |-> i, invocation |-> v]
            ok == Consumable(ledger, i, v, Verification)
<1>1. /\ pc[c] = "consume"
      /\ IF ok THEN grants' = grants \cup {g} /\ pc' = [pc EXCEPT ![c] = "allow"]
               ELSE grants' = grants /\ pc' = [pc EXCEPT ![c] = "refuse"]
      /\ UNCHANGED <<serveVars, auditVars, clientVars, reply>>
  BY DEF WorkerConsume, Goto, ledgerVars
<1>2. g.conn = c OBVIOUS
<1>. HIDE DEF i, v, g, ok
<1>3. \A d \in Conns \ {c} : HasGrant(d)' <=> HasGrant(d)
  BY <1>1, <1>2 DEF HasGrant
<1>4. Facts(c) BY RecordPartByConnection
<1>5. Facts(c)'
  <2>1. CASE ok
    <3>1. HasGrant(c)' BY <1>1, <1>2, <2>1 DEF HasGrant
    <3>. QED
      BY <1>1, <1>4, <2>1, <3>1
      DEF TypeOK, Facts, History, Backed, Chained, Unchecked, Checked, Granted,
          serveVars, auditVars, clientVars
  <2>2. CASE ~ok
    <3>1. HasGrant(c)' <=> HasGrant(c) BY <1>1, <2>2 DEF HasGrant
    <3>. QED
      BY <1>1, <1>4, <2>2, <3>1
      DEF TypeOK, Facts, History, Backed, Chained, Unchecked, Checked, Granted,
          serveVars, auditVars, clientVars
  <2>. QED BY <2>1, <2>2
<1>6. ASSUME NEW d \in Conns \ {c} PROVE Facts(d)'
  <2>1. Facts(d) BY RecordPartByConnection
  <2>2. /\ pc'[d] = pc[d] /\ reply'[d] = reply[d] /\ client'[d] = client[d]
        /\ audit'[d] = audit[d] /\ expected' = expected
    BY <1>1 DEF TypeOK, serveVars, auditVars, clientVars
  <2>. QED BY <1>3, <2>1, <2>2, FactsFrame
<1>7. IdentityFirst'
  BY <1>1, <1>4 DEF Facts, History, Checked, IdentityFirst, serveVars
<1>. QED BY <1>5, <1>6, <1>7, RecordPartByConnection

LEMMA ServeRecords ==
  ASSUME TypeOK, RecordPart, ServeStep
  PROVE  RecordPart'
<1>1. \A c \in Conns : Facts(c) BY RecordPartByConnection
<1>2. UNCHANGED <<expected, reply, client, audit, ledgerVars>>
  BY DEF ServeStep, ServeWorks, ServeFails, ServeRound, ServeStops, ServeIdle, ServeAcceptError,
         ServeJoins, ServeAccept, ServeSpawnPanic, workerVars, clientVars, auditVars
<1>3. \A c \in Conns : HasGrant(c)' <=> HasGrant(c) BY <1>2 DEF HasGrant, ledgerVars
<1>4. \A c \in Conns : \/ pc'[c] = pc[c]
                       \/ pc[c] = "backlog" /\ pc'[c] \in {"attempt", "done"}
  BY DEF TypeOK, ServeStep, ServeWorks, ServeFails, ServeRound, ServeStops, ServeIdle, ServeAcceptError,
         ServeJoins, ServeAccept, ServeSpawnPanic, workerVars, DropListener
<1>5. ASSUME NEW c \in Conns PROVE Facts(c)'
  <2>1. CASE pc'[c] = pc[c] BY <1>1, <1>2, <1>3, <2>1, FactsFrame
  <2>2. CASE pc[c] = "backlog" /\ pc'[c] \in {"attempt", "done"}
    BY <1>1, <1>2, <1>3, <2>2
    DEF Facts, History, Backed, Chained, Unchecked, Checked, Granted
  <2>. QED BY <1>4, <2>1, <2>2
<1>6. IdentityFirst' BY <1>2 DEF RecordPart, IdentityFirst, ledgerVars
<1>. QED BY <1>5, <1>6, RecordPartByConnection

LEMMA OutsideRecords ==
  ASSUME TypeOK, RecordPart,
         ProcessStep \/ OwnerStep \/ \E c \in Conns : ClientStep(c)
  PROVE  RecordPart'
<1>1. \A c \in Conns : Facts(c) BY RecordPartByConnection
<1>2. UNCHANGED <<reply, audit, ledgerVars>> /\ (expected => expected')
  <2>1. UNCHANGED <<reply, audit, ledgerVars>>
    BY DEF ProcessStep, ChildExits, Fork, Exit, Reparent, OwnerStep, SpawnChild,
           Start, SetCodexIdentity, StopAccepting, Cleanup, RemoveSession, ClientStep, Connect,
           ClientApproves, ClientDeclines, workerVars, auditVars
  <2>2. CASE SetCodexIdentity BY <2>1, <2>2 DEF SetCodexIdentity
  <2>3. CASE ~SetCodexIdentity
    <3>1. UNCHANGED expected
      BY <2>3
      DEF ProcessStep, ChildExits, Fork, Exit, Reparent, OwnerStep, SpawnChild,
          Start, StopAccepting, Cleanup, RemoveSession, ClientStep, Connect, ClientApproves,
          ClientDeclines, serveVars
    <3>. QED BY <2>1, <3>1
  <2>. QED BY <2>2, <2>3
<1>3. \A c \in Conns : HasGrant(c)' <=> HasGrant(c) BY <1>2 DEF HasGrant, ledgerVars
<1>4. ASSUME NEW c \in Conns
      PROVE  \/ pc'[c] = pc[c] /\ client'[c] = client[c]
             \/ pc[c] = "idle" /\ pc'[c] = "backlog" /\ client'[c] = "waiting"
             \/ pc'[c] = pc[c] /\ reply[c] = "allow" /\ client'[c] = "approved"
             \/ pc'[c] = pc[c] /\ client[c] = "waiting" /\ client'[c] = "declined"
  <2>1. CASE \E d \in Conns : ClientStep(d)
    BY <2>1 DEF ClientStep, Connect, ClientApproves, ClientDeclines, workerVars, TypeOK
  <2>2. CASE ProcessStep \/ OwnerStep
    BY <2>2 DEF ProcessStep, ChildExits, Fork, Exit, Reparent, OwnerStep, SpawnChild,
       Start, SetCodexIdentity, StopAccepting, Cleanup, RemoveSession, workerVars,
       clientVars
  <2>. QED BY <2>1, <2>2
<1>5. ASSUME NEW c \in Conns PROVE Facts(c)'
  <2>1. CASE pc'[c] = pc[c] /\ client'[c] = client[c]
    BY <1>1, <1>2, <1>3, <2>1, FactsFrame
  <2>2. CASE pc[c] = "idle" /\ pc'[c] = "backlog" /\ client'[c] = "waiting"
    BY <1>1, <1>2, <1>3, <2>2
    DEF Facts, History, Backed, Chained, Unchecked, Checked, Granted
  <2>3. CASE pc'[c] = pc[c] /\ reply[c] = "allow" /\ client'[c] = "approved"
    BY <1>1, <1>2, <1>3, <2>3 DEF Facts, History, Backed, Chained
  <2>4. CASE pc'[c] = pc[c] /\ client[c] = "waiting" /\ client'[c] = "declined"
    BY <1>1, <1>2, <1>3, <2>4 DEF Facts, History, Backed, Chained
  <2>. QED BY <1>4, <2>1, <2>2, <2>3, <2>4
<1>6. IdentityFirst' BY <1>2 DEF RecordPart, IdentityFirst, ledgerVars
<1>. QED BY <1>5, <1>6, RecordPartByConnection

-----------------------------------------------------------------------------
(* IInv is inductive.                                                      *)

LEMMA InitIInv == Init => IInv
<1>. SUFFICES ASSUME Init PROVE IInv
  OBVIOUS
<1>1. TypeOK BY InitType
<1>2. LiveWorkers = {}
  BY DEF Init, LiveWorkers, Live, Unchecked, Checked, Granted
<1>3. Slots
  BY <1>2, FS_EmptySet, BrokerAssumption
  DEF Init, Slots, SlotsMatchWorkers, HandlesCoverWorkers, Listening
<1>4. LedgerPart
  <2>1. grants = {} /\ ledger = EmptyLedger BY DEF Init
  <2>2. IsFiniteSet({}) /\ Cardinality({}) = 0 BY FS_EmptySet
  <2>3. /\ ledger.invocations = {} /\ ledger.requests = {}
        /\ ledger.session = NoSession
    BY <2>1 DEF EmptyLedger
  <2>4. LedgerMatchesGrants BY <2>1, <2>2, <2>3 DEF LedgerMatchesGrants
  <2>5. OneShot BY <2>1, <2>2, LedgerAssumption DEF OneShot
  <2>. QED BY <2>4, <2>5 DEF LedgerPart
<1>5. RecordPart
  BY DEF Init, RecordPart, WorkerHistory, History, HasGrant, AllowIsBacked,
         AuditChain, IdentityFirst, Unchecked, Checked, Granted
<1>. QED BY <1>1, <1>3, <1>4, <1>5 DEF IInv, Slots, LedgerPart, RecordPart

LEMMA NextIInv == IInv /\ [Next]_bvars => IInv'
<1>. SUFFICES ASSUME IInv, [Next]_bvars PROVE IInv'
  OBVIOUS
<1>0. TypeOK /\ Slots /\ LedgerPart /\ RecordPart /\ WorkerHistory
  BY DEF IInv, Slots, LedgerPart, RecordPart
<1>1. CASE UNCHANGED bvars
  <2>1. TypeOK'
    BY <1>0, <1>1 DEF TypeOK, bvars, serveVars, workerVars, auditVars, clientVars,
                      osVars, ledgerVars
  <2>2. Slots'
    BY <1>0, <1>1 DEF Slots, SlotsMatchWorkers, HandlesCoverWorkers, LiveWorkers,
                      Listening, bvars, serveVars, workerVars
  <2>3. LedgerPart'
    BY <1>0, <1>1 DEF LedgerPart, LedgerMatchesGrants, OneShot, bvars, ledgerVars
  <2>4. RecordPart'
    BY <1>0, <1>1 DEF RecordPart, WorkerHistory, History, HasGrant, AllowIsBacked,
         AuditChain, IdentityFirst, bvars, serveVars, workerVars, auditVars,
         clientVars, ledgerVars
  <2>. QED BY <2>1, <2>2, <2>3, <2>4 DEF IInv, Slots, LedgerPart, RecordPart
<1>2. CASE Next
  <2>1. TypeOK' BY <1>0, <1>2, WorkerType, ServeType, OutsideType DEF Next
  <2>2. Slots' BY <1>0, <1>2, WorkerSlots, ServeSlots, OutsideSlots DEF Next
  <2>3. LedgerPart'
    <3>1. CASE \E c \in Conns : WorkerConsume(c) BY <1>0, <3>1, ConsumeLedger
    <3>2. CASE UNCHANGED ledgerVars
      BY <1>0, <3>2 DEF LedgerPart, LedgerMatchesGrants, OneShot, ledgerVars
    <3>. QED BY <1>2, <3>1, <3>2, OnlyConsumeGrants
  <2>4. RecordPart'
    <3>1. CASE \E c \in Conns : WorkerConsume(c) BY <1>0, <3>1, ConsumeRecords
    <3>2. CASE \A c \in Conns : ~WorkerConsume(c)
      <4>1. UNCHANGED ledgerVars BY <1>2, <3>2, OnlyConsumeGrants
      <4>2. CASE \E c \in Conns : WorkerStep(c)
        BY <1>0, <1>2, <3>2, <4>1, <4>2, WorkerRecords
      <4>. QED BY <1>0, <1>2, <4>2, ServeRecords, OutsideRecords DEF Next
    <3>. QED BY <3>1, <3>2
  <2>. QED BY <2>1, <2>2, <2>3, <2>4 DEF IInv, Slots, LedgerPart, RecordPart
<1>. QED BY <1>1, <1>2

\* The inductive invariant holds in every reachable state of every broker.
THEOREM Inductive == SafeSpec => []IInv
  BY InitIInv, NextIInv, PTL DEF SafeSpec

\* Replay protection (RequestLedger::consume under concurrent workers): no
\* request, hook invocation or connection is granted twice.
THEOREM ReplayProtection == SafeSpec => []OneShot
<1>1. IInv => OneShot BY DEF IInv
<1>. QED BY <1>1, Inductive, PTL

\* active_connections counts the live workers and never passes its limit.
THEOREM SlotAccounting == SafeSpec => []SlotsMatchWorkers
<1>1. IInv => SlotsMatchWorkers BY DEF IInv
<1>. QED BY <1>1, Inductive, PTL

\* Every allow a client saw or printed was consumed and audited first.
THEOREM AllowsAreBacked == SafeSpec => []AllowIsBacked
<1>1. IInv => AllowIsBacked BY DEF IInv
<1>. QED BY <1>1, Inductive, PTL

\* The audit records of every connection form a chain.
THEOREM AuditIsChained == SafeSpec => []AuditChain
<1>1. IInv => AuditChain BY DEF IInv
<1>. QED BY <1>1, Inductive, PTL

\* No request is granted before the child's identity is recorded.
THEOREM IdentityComesFirst == SafeSpec => []IdentityFirst
<1>1. IInv => IdentityFirst BY DEF IInv
<1>. QED BY <1>1, Inductive, PTL

\* A joined or panicked serve thread takes no further step.
LEMMA ServeEnded == ASSUME Next, Joined PROVE servePc' = servePc /\ ~ServeStep
<1>1. ~ServeStep /\ ~Start
  BY DEF Joined, Start, ServeStep, ServeWorks, ServeFails, ServeRound, ServeStops,
         ServeIdle, ServeAcceptError, ServeJoins, ServeAccept, ServeSpawnPanic
<1>2. ASSUME NEW c \in Conns, WorkerStep(c) PROVE servePc' = servePc
  BY <1>2 DEF WorkerStep, WorkerAttempt, WorkerRead, WorkerCheckExpected,
     WorkerCheckAncestry, WorkerDecide, WorkerRecheck, WorkerIdentify, WorkerConsume,
     WorkerAuditAllow, WorkerWriteAllow, WorkerAuditEmitted, WorkerRefuse,
     WorkerRelease, serveVars
<1>3. ASSUME NEW c \in Conns, ClientStep(c) PROVE servePc' = servePc
  BY <1>3 DEF ClientStep, Connect, ClientApproves, ClientDeclines, serveVars
<1>4. ProcessStep \/ (OwnerStep /\ ~Start) => servePc' = servePc
  BY DEF ProcessStep, ChildExits, Fork, Exit, Reparent, OwnerStep, SpawnChild,
     SetCodexIdentity, StopAccepting, Cleanup, RemoveSession, serveVars
<1>. QED BY <1>1, <1>2, <1>3, <1>4 DEF Next

\* After the join no worker is left to write anything.
LEMMA QuietStep ==
  ASSUME IInv, Next, servePc = "joined"
  PROVE  UNCHANGED <<audit, ledger, reply, active>>
<1>1. ~ServeStep BY ServeEnded DEF Joined
<1>2. ASSUME NEW c \in Conns PROVE ~WorkerStep(c)
  <2>1. pc[c] \notin Live BY DEF IInv, HandlesCoverWorkers, LiveWorkers
  <2>2. TypeOK BY DEF IInv
  <2>3. WorkerRelease(c) => pc[c] \in Live BY DEF WorkerRelease, Live
  <2>. QED BY <2>1, <2>2, <2>3, WorkerStaysLive
<1>3. ASSUME NEW c \in Conns, ClientStep(c)
      PROVE  UNCHANGED <<audit, ledger, reply, active>>
  BY <1>3 DEF ClientStep, Connect, ClientApproves, ClientDeclines, serveVars,
     workerVars, auditVars, ledgerVars
<1>4. ProcessStep \/ OwnerStep => UNCHANGED <<audit, ledger, reply, active>>
  BY DEF ProcessStep, ChildExits, Fork, Exit, Reparent, OwnerStep, SpawnChild, Start,
     SetCodexIdentity, StopAccepting, Cleanup, RemoveSession, serveVars, workerVars,
     auditVars, ledgerVars
<1>. QED BY <1>1, <1>2, <1>3, <1>4 DEF Next

\* Once shutdown has returned Ok, nothing writes to the audit, the ledger or a
\* client any more.
THEOREM JoinedStaysQuiet == SafeSpec => JoinedIsQuiet
<1>1. IInv /\ [Next]_bvars =>
        [servePc = "joined" => UNCHANGED <<audit, ledger, reply, active>>]_bvars
  BY QuietStep
<1>. QED BY <1>1, Inductive, PTL DEF SafeSpec, JoinedIsQuiet

\* A connection the stop flag caught before the second look: it is refused or
\* dropped, and nothing is granted to it.
Caught == Unchecked \cup {"idle", "backlog", "refuse", "release", "done"}
Stopped(c) == shutdown /\ pc[c] \in Caught /\ ~HasGrant(c)

\* Only StopAccepting writes the stop flag.
LEMMA StopFlagStays == ASSUME Next, shutdown PROVE shutdown'
<1>1. ServeStep => shutdown'
  BY DEF ServeStep, ServeWorks, ServeFails, ServeRound, ServeStops, ServeIdle,
         ServeAcceptError, ServeJoins, ServeAccept, ServeSpawnPanic
<1>2. ASSUME NEW c \in Conns, WorkerStep(c) PROVE shutdown'
  BY <1>2 DEF WorkerStep, WorkerAttempt, WorkerRead, WorkerCheckExpected,
     WorkerCheckAncestry, WorkerDecide, WorkerRecheck, WorkerIdentify, WorkerConsume,
     WorkerAuditAllow, WorkerWriteAllow, WorkerAuditEmitted, WorkerRefuse,
     WorkerRelease, serveVars
<1>3. ASSUME NEW c \in Conns, ClientStep(c) PROVE shutdown'
  BY <1>3 DEF ClientStep, Connect, ClientApproves, ClientDeclines, serveVars
<1>4. ProcessStep \/ OwnerStep => shutdown'
  BY DEF ProcessStep, ChildExits, Fork, Exit, Reparent, OwnerStep, SpawnChild, Start,
     SetCodexIdentity, StopAccepting, Cleanup, RemoveSession, serveVars
<1>. QED BY <1>1, <1>2, <1>3, <1>4 DEF Next

\* Past the stop flag the caught worker's own steps lead to a refusal.
LEMMA CaughtStep ==
  ASSUME TypeOK, NEW c \in Conns, WorkerStep(c), shutdown, pc[c] \in Caught
  PROVE  pc'[c] \in Caught /\ ~WorkerConsume(c)
<1>. USE DEF TypeOK, Goto, Caught, Unchecked
<1>1. CASE WorkerAttempt(c) BY <1>1 DEF WorkerAttempt, WorkerConsume
<1>2. CASE WorkerRead(c) BY <1>2 DEF WorkerRead, WorkerConsume
<1>3. CASE WorkerCheckExpected(c) BY <1>3 DEF WorkerCheckExpected, WorkerConsume
<1>4. CASE WorkerCheckAncestry(c) BY <1>4 DEF WorkerCheckAncestry, WorkerConsume
<1>5. CASE WorkerDecide(c) BY <1>5 DEF WorkerDecide, WorkerConsume
<1>6. CASE WorkerRefuse(c) BY <1>6 DEF WorkerRefuse, WorkerConsume
<1>7. CASE WorkerRelease(c) BY <1>7 DEF WorkerRelease, WorkerConsume
<1>8. /\ ~WorkerRecheck(c) /\ ~WorkerIdentify(c) /\ ~WorkerConsume(c)
      /\ ~WorkerAuditAllow(c) /\ ~WorkerWriteAllow(c) /\ ~WorkerAuditEmitted(c)
  BY DEF WorkerRecheck, WorkerIdentify, WorkerConsume, WorkerAuditAllow,
         WorkerWriteAllow, WorkerAuditEmitted
<1>. QED
  BY <1>1, <1>2, <1>3, <1>4, <1>5, <1>6, <1>7, <1>8 DEF WorkerStep

LEMMA StoppedStays ==
  ASSUME IInv, [Next]_bvars, NEW c \in Conns, Stopped(c)
  PROVE  Stopped(c)'
<1>1. TypeOK /\ shutdown /\ pc[c] \in Caught /\ ~HasGrant(c)
  BY DEF IInv, Stopped
<1>2. CASE UNCHANGED bvars
  BY <1>1, <1>2 DEF bvars, serveVars, workerVars, ledgerVars, Stopped, HasGrant
<1>3. CASE Next
  <2>1. shutdown'
    BY <1>1, <1>3, StopFlagStays
  <2>2. pc'[c] \in Caught
    <3>1. CASE ServeStep
      BY <1>1, <3>1 DEF ServeStep, ServeWorks, ServeFails, ServeRound, ServeStops, ServeIdle,
         ServeAcceptError, ServeJoins, ServeAccept, ServeSpawnPanic, DropListener, workerVars,
         TypeOK, Caught, Unchecked
    <3>2. ASSUME NEW d \in Conns, WorkerStep(d) PROVE pc'[c] \in Caught
      BY <1>1, <3>2, CaughtStep, WorkerFrame
    <3>3. ASSUME NEW d \in Conns, ClientStep(d) PROVE pc'[c] \in Caught
      BY <1>1, <3>3 DEF ClientStep, Connect, ClientApproves, ClientDeclines, workerVars,
         TypeOK, Caught
    <3>4. ProcessStep \/ OwnerStep => pc' = pc
      BY DEF ProcessStep, ChildExits, Fork, Exit, Reparent, OwnerStep, SpawnChild, Start,
         SetCodexIdentity, StopAccepting, Cleanup, RemoveSession, workerVars
    <3>. QED BY <1>1, <1>3, <3>1, <3>2, <3>3, <3>4 DEF Next
  <2>3. ~HasGrant(c)'
    <3>1. CASE \A d \in Conns : ~WorkerConsume(d)
      <4>1. UNCHANGED grants
        BY <1>3, <3>1, OnlyConsumeGrants DEF ledgerVars
      <4>. QED BY <1>1, <4>1 DEF HasGrant
    <3>2. ASSUME NEW d \in Conns, WorkerConsume(d) PROVE ~HasGrant(c)'
      <4>1. d # c
        BY <1>1, <3>2 DEF WorkerConsume, Caught, Unchecked
      <4>2. \A g \in grants' : g \in grants \/ g.conn = d
        BY <3>2 DEF WorkerConsume, ledgerVars
      <4>. QED BY <1>1, <4>1, <4>2 DEF HasGrant
    <3>. QED BY <3>1, <3>2
  <2>. QED BY <2>1, <2>2, <2>3 DEF Stopped
<1>. QED BY <1>2, <1>3

\* stop_accepting is final: what it catches before the second look at the
\* flag is never granted, however long the broker goes on.
THEOREM StoppedIsFinal == SafeSpec => StopIsFinal
<1>. SUFFICES ASSUME NEW c \in Conns
             PROVE  SafeSpec => [](shutdown /\ pc[c] \in Unchecked \cup {"idle", "backlog"}
                                     => [](\A g \in grants : g.conn # c))
  BY DEF StopIsFinal
<1>1. IInv /\ shutdown /\ pc[c] \in Unchecked \cup {"idle", "backlog"} => Stopped(c)
  BY DEF IInv, WorkerHistory, History, Stopped, Caught
<1>2. IInv /\ [Next]_bvars /\ Stopped(c) => Stopped(c)'
  BY StoppedStays
<1>3. Stopped(c) => \A g \in grants : g.conn # c
  BY DEF Stopped, HasGrant
<1>. QED BY <1>1, <1>2, <1>3, Inductive, PTL DEF SafeSpec

-----------------------------------------------------------------------------
(* The broker implements OneShotApproval: a successful consume is a Grant, *)
(* a client printing an allow is an Approve, every other step of a thread, *)
(* client, process or owner stutters.                                      *)

\* A successful consume is a Grant; a refused one changes nothing.
LEMMA ConsumeIsGrant ==
  ASSUME IInv, NEW c \in Conns, WorkerConsume(c)
  PROVE  [Promise!Next]_<<grants, Approved>>
<1>. DEFINE i == msg[c].input
            v == <<peer[c], peerStart[c]>>
            g == [conn |-> c, input |-> i, invocation |-> v]
<1>0. TypeOK /\ LedgerMatchesGrants /\ History(c)
  BY DEF IInv, WorkerHistory
<1>1. CASE ~Consumable(ledger, i, v, Verification)
  <2>1. UNCHANGED ledgerVars /\ UNCHANGED client
    BY <1>1 DEF WorkerConsume, clientVars
  <2>. QED BY <2>1 DEF ledgerVars, Approved
<1>2. CASE Consumable(ledger, i, v, Verification)
  <2>1. grants' = grants \cup {g} /\ UNCHANGED client
    BY <1>2 DEF WorkerConsume, clientVars
  <2>2. i \in HookInput /\ v \in Invocations
    BY <1>0, ConsumeType
  <2>3. \A h \in grants : h.conn # c
    BY <1>0 DEF WorkerConsume, History, HasGrant, Checked
  <2>4. client[c] # "approved"
    BY <1>0 DEF WorkerConsume, History
  <2>5. g.conn = c /\ g.input = i /\ g.invocation = v
    OBVIOUS
  <2>6. /\ v \notin ledger.invocations /\ i \notin ledger.requests
        /\ i.session # NoSession /\ ledger.session \in {NoSession, i.session}
        /\ Cardinality(ledger.invocations) < MaxInvocations
        /\ Verification => ledger.invocations = {}
    BY <1>2, Zenon DEF Consumable
  <2>7. grants' = grants \cup {[conn |-> c, input |-> i, invocation |-> v]}
    BY <2>1
  <2>. HIDE DEF i, v, g
  <2>8. Approved' = Approved
    BY <2>1, <2>4, <2>5 DEF Approved
  <2>9. Promise!Fresh(c, i, v)
    BY <1>0, <2>3, <2>6 DEF Promise!Fresh, LedgerMatchesGrants
  <2>10. \A h \in grants : h.input.session = i.session
    BY <1>0, <2>6 DEF LedgerMatchesGrants
  <2>11. Promise!Cardinality(grants) < MaxInvocations
    <3>1. Cardinality(grants) < MaxInvocations
      BY <1>0, <2>6 DEF LedgerMatchesGrants
    <3>2. Promise!Cardinality(grants) = Cardinality(grants)
      BY Zenon DEF Promise!Cardinality, Cardinality
    <3>. QED BY <3>1, <3>2
  <2>12. Verification => grants = {}
    <3>. SUFFICES ASSUME Verification PROVE grants = {}
      OBVIOUS
    <3>1. {h.invocation : h \in grants} = {}
      BY <1>0, <2>6, Zenon DEF LedgerMatchesGrants
    <3>. QED BY <3>1
  <2>13. Promise!Grant(c, i, v)
    BY <2>6, <2>7, <2>8, <2>9, <2>10, <2>11, <2>12 DEF Promise!Grant
  <2>14. grants' # grants
    BY <2>1, <2>3, <2>5
  <2>. QED BY <2>2, <2>13, <2>14 DEF Promise!Next
<1>. QED BY <1>1, <1>2

\* A client that prints an allow approves the one grant of its connection.
LEMMA ClientApprovesIsApprove ==
  ASSUME IInv, NEW c \in Conns, ClientApproves(c)
  PROVE  [Promise!Next]_<<grants, Approved>>
<1>0. TypeOK /\ AllowIsBacked /\ OneShot
  BY DEF IInv
<1>1. /\ client[c] = "waiting" /\ reply[c] = "allow"
      /\ client' = [client EXCEPT ![c] = "approved"]
      /\ UNCHANGED grants
  BY DEF ClientApproves, ledgerVars
<1>2. PICK g \in grants : g.conn = c
  BY <1>0, <1>1 DEF AllowIsBacked
<1>3. \A h \in grants : h.conn = c => h = g
  BY <1>0, <1>2 DEF OneShot
<1>4. \A h \in grants : h.conn \in Conns
  BY <1>0 DEF TypeOK, Grants
<1>5. Approved' = Approved \cup {g}
  BY <1>0, <1>1, <1>2, <1>3, <1>4 DEF Approved, TypeOK
<1>6. g \in grants \ Approved
  BY <1>1, <1>2 DEF Approved
<1>7. Promise!Approve(g)
  BY <1>1, <1>5, <1>6 DEF Promise!Approve
<1>. QED BY <1>2, <1>7 DEF Promise!Next

\* Every other step leaves the grants and the approvals alone.
LEMMA OtherStepsStutter ==
  ASSUME IInv, Next, \A c \in Conns : ~WorkerConsume(c) /\ ~ClientApproves(c)
  PROVE  UNCHANGED <<grants, Approved>>
<1>0. TypeOK /\ WorkerHistory
  BY DEF IInv
<1>1. UNCHANGED grants
  BY OnlyConsumeGrants DEF ledgerVars
<1>2. \A h \in grants : h.conn \in Conns
  BY <1>0 DEF TypeOK, Grants
<1>3. ASSUME NEW d \in Conns PROVE client'[d] = "approved" <=> client[d] = "approved"
  <2>1. CASE UNCHANGED client
    BY <2>1
  <2>2. ASSUME NEW c \in Conns, Connect(c) PROVE client'[d] = "approved" <=> client[d] = "approved"
    BY <1>0, <2>2 DEF Connect, WorkerHistory, History, TypeOK
  <2>3. ASSUME NEW c \in Conns, ClientDeclines(c) PROVE client'[d] = "approved" <=> client[d] = "approved"
    BY <1>0, <2>3 DEF ClientDeclines, TypeOK
  <2>4. CASE ServeStep
    BY <2>1, <2>4 DEF ServeStep, ServeWorks, ServeFails, ServeRound, ServeStops, ServeIdle, ServeAcceptError,
              ServeJoins, ServeAccept, ServeSpawnPanic, clientVars
  <2>5. CASE \E c \in Conns : WorkerStep(c)
    BY <2>1, <2>5 DEF WorkerStep, WorkerAttempt, WorkerRead, WorkerCheckExpected,
              WorkerCheckAncestry, WorkerDecide, WorkerRecheck, WorkerIdentify,
              WorkerAuditAllow, WorkerWriteAllow, WorkerAuditEmitted,
              WorkerRefuse, WorkerRelease, clientVars
  <2>6. CASE ProcessStep \/ OwnerStep
    BY <2>1, <2>6 DEF ProcessStep, ChildExits, Fork, Exit, Reparent, OwnerStep,
              SpawnChild, Start, SetCodexIdentity, StopAccepting, Cleanup, RemoveSession, clientVars
  <2>. QED BY <2>2, <2>3, <2>4, <2>5, <2>6 DEF Next, ClientStep
<1>. QED BY <1>1, <1>2, <1>3 DEF Approved

\* The broker implements one-shot approval, for every number of connections,
\* processes and slots and whatever the clients send.
THEOREM Refinement == SafeSpec => OneShotSpec
<1>1. Init => Promise!Init
  BY DEF Init, Promise!Init, Approved
<1>2. IInv /\ [Next]_bvars => [Promise!Next]_Promise!vars
  <2>. SUFFICES ASSUME IInv, [Next]_bvars PROVE [Promise!Next]_<<grants, Approved>>
    BY DEF Promise!vars
  <2>1. CASE UNCHANGED bvars
    BY <2>1 DEF bvars, clientVars, ledgerVars, Approved
  <2>2. CASE Next
    BY <2>2, ConsumeIsGrant, ClientApprovesIsApprove, OtherStepsStutter
  <2>. QED BY <2>1, <2>2
<1>. QED BY <1>1, <1>2, Inductive, PTL DEF SafeSpec, OneShotSpec, Promise!Spec
-----------------------------------------------------------------------------
(* The launcher.                                                           *)

\* Every step of a session is a step of the broker or leaves it alone.
LEMMA StepInside == ASSUME OwnerInOrder, LNext PROVE [Next]_bvars
<1>1. CASE ThreadStep \/ OutsideStep BY <1>1 DEF ThreadStep, OutsideStep, Next
<1>2. CASE Interrupt \/ WaitFails BY <1>2 DEF Interrupt, WaitFails
<1>3. CASE StartBroker BY <1>3 DEF StartBroker, Next, OwnerStep
<1>4. CASE ConfigureFails
  BY <1>4 DEF ConfigureFails, LGoto, OwnerInOrder, Cleanup, Next, OwnerStep
<1>5. CASE SpawnCodex BY <1>5 DEF SpawnCodex, Next, OwnerStep
<1>6. CASE BindFails BY <1>6 DEF BindFails, Next, ProcessStep
<1>7. CASE BindChild BY <1>7 DEF BindChild, Next, OwnerStep
<1>8. CASE WaitInterrupted \/ StopBroker
  BY <1>8 DEF WaitInterrupted, StopBroker, Next, OwnerStep
<1>9. CASE CleanupSession
  BY <1>9 DEF CleanupSession, LGoto, OwnerInOrder, Cleanup, Next, OwnerStep
<1>10. CASE \/ LaunchUnarmed \/ SpawnFails \/ VerifyChild \/ WaitExited
            \/ JoinBroker \/ RecordObservation
  BY <1>10 DEF LaunchUnarmed, SpawnFails, VerifyChild, WaitExited, JoinBroker,
     RecordObservation
<1>. QED
  BY <1>1, <1>2, <1>3, <1>4, <1>5, <1>6, <1>7, <1>8, <1>9, <1>10
  DEF LNext, LauncherStep

\* Steps of the threads and of the outside keep the main thread's promises.
LEMMA OthersInOrder ==
  ASSUME IInv, OwnerInOrder, ThreadStep \/ OutsideStep
  PROVE  OwnerInOrder'
<1>1. UNCHANGED lvars /\ Next BY DEF ThreadStep, OutsideStep, Next
<1>2. UNCHANGED <<shutdown, expected>> /\ (child = "none" => child' = "none")
  <2>1. ASSUME NEW c \in Conns, WorkerStep(c) \/ ClientStep(c)
        PROVE  UNCHANGED <<shutdown, expected, child>>
    BY <2>1 DEF WorkerStep, WorkerAttempt, WorkerRead, WorkerCheckExpected,
       WorkerCheckAncestry, WorkerDecide, WorkerRecheck, WorkerIdentify,
       WorkerConsume, WorkerAuditAllow, WorkerWriteAllow, WorkerAuditEmitted,
       WorkerRefuse, WorkerRelease, ClientStep, Connect, ClientApproves,
       ClientDeclines, serveVars, osVars
  <2>2. ServeStep => UNCHANGED <<shutdown, expected, child>>
    BY DEF ServeStep, ServeWorks, ServeFails, ServeRound, ServeStops, ServeIdle,
       ServeAcceptError, ServeJoins, ServeAccept, ServeSpawnPanic, osVars
  <2>3. ProcessStep => UNCHANGED <<shutdown, expected>> /\ (child = "none" => child' = "none")
    BY DEF ProcessStep, ChildExits, Fork, Exit, Reparent, serveVars
  <2>. QED BY <2>1, <2>2, <2>3 DEF ThreadStep, OutsideStep
<1>3. Joined => servePc' = servePc BY <1>1, ServeEnded
<1>4. servePc = "joined" => UNCHANGED audit BY <1>1, QuietStep
<1>. QED BY <1>1, <1>2, <1>3, <1>4 DEF OwnerInOrder, Joined, lvars

\* The main thread's own steps.
LEMMA LauncherInOrder ==
  ASSUME OwnerInOrder, LauncherStep \/ WaitFails \/ Interrupt
  PROVE  OwnerInOrder'
<1>. USE DEF OwnerInOrder, LGoto, Joined, serveVars, auditVars, osVars
<1>1. CASE LaunchUnarmed \/ SpawnFails \/ VerifyChild \/ WaitExited \/ WaitFails \/ Interrupt
  BY <1>1 DEF LaunchUnarmed, SpawnFails, VerifyChild, WaitExited, WaitFails,
     Interrupt, bvars
<1>2. CASE StartBroker BY <1>2 DEF StartBroker, Start
<1>3. CASE ConfigureFails BY <1>3 DEF ConfigureFails, RemoveSession
<1>4. CASE SpawnCodex BY <1>4 DEF SpawnCodex, SpawnChild
<1>5. CASE BindFails BY <1>5 DEF BindFails, ChildExits, bvars
<1>6. CASE BindChild BY <1>6 DEF BindChild, SetCodexIdentity
<1>7. CASE WaitInterrupted BY <1>7 DEF WaitInterrupted, StopAccepting, lvars
<1>8. CASE StopBroker BY <1>8 DEF StopBroker, StopAccepting
<1>9. CASE JoinBroker \/ RecordObservation
  BY <1>9 DEF JoinBroker, RecordObservation, bvars
<1>10. CASE CleanupSession BY <1>10 DEF CleanupSession, RemoveSession
<1>. QED
  BY <1>1, <1>2, <1>3, <1>4, <1>5, <1>6, <1>7, <1>8, <1>9, <1>10 DEF LauncherStep

\* The main thread does its work in order, and the broker in a session keeps
\* its invariant: the two are proved together, since each step of the session
\* is a step of the broker only while the main thread is in order.
THEOREM SessionInductive == LSafeSpec => [](IInv /\ OwnerInOrder)
<1>1. LInit => IInv /\ OwnerInOrder
  BY InitIInv DEF LInit, Init, OwnerInOrder
<1>2. IInv /\ OwnerInOrder /\ [LNext]_vars => (IInv /\ OwnerInOrder)'
  <2>. SUFFICES ASSUME IInv, OwnerInOrder, [LNext]_vars PROVE IInv' /\ OwnerInOrder'
    OBVIOUS
  <2>1. CASE LNext
    <3>1. IInv' BY <2>1, StepInside, NextIInv
    <3>2. OwnerInOrder' BY <2>1, OthersInOrder, LauncherInOrder DEF LNext
    <3>. QED BY <3>1, <3>2
  <2>2. CASE UNCHANGED vars
    <3>1. UNCHANGED bvars BY <2>2 DEF vars
    <3>2. IInv' BY <3>1, NextIInv
    <3>3. OwnerInOrder'
      BY <2>2 DEF vars, bvars, lvars, OwnerInOrder, Joined, serveVars, auditVars, osVars
    <3>. QED BY <3>2, <3>3
  <2>. QED BY <2>1, <2>2
<1>. QED BY <1>1, <1>2, PTL DEF LSafeSpec

\* The broker of a launcher session is a Broker: run calls its operations in an
\* order, and under conditions, that Broker's owner may.
THEOREM BrokerInsideSession == LSafeSpec => BrokerInside
<1>1. LInit => Init BY DEF LInit
<1>2. IInv /\ OwnerInOrder /\ [LNext]_vars => [Next]_bvars
  BY StepInside DEF vars
<1>. QED BY <1>1, <1>2, SessionInductive, PTL DEF LSafeSpec, BrokerInside, SafeSpec

\* The audit that run read is final: nothing is approved or recorded after it.
THEOREM ObservationStaysFinal == LSafeSpec => []ObservationIsFinal
<1>1. IInv /\ OwnerInOrder => ObservationIsFinal
  BY DEF IInv, AllowIsBacked, OwnerInOrder, ObservationIsFinal
<1>. QED BY <1>1, SessionInductive, PTL

\* run returns under no broker that granted something and still runs.
THEOREM NoBrokerLeftBehind == LSafeSpec => []ExitAfterJoin
<1>1. IInv /\ OwnerInOrder => ExitAfterJoin
  BY DEF IInv, IdentityFirst, OwnerInOrder, ExitAfterJoin
<1>. QED BY <1>1, SessionInductive, PTL

\* Nothing is granted before run is armed, or on a path that aborts.
THEOREM GrantsOnlyArmed == LSafeSpec => []ArmedBeforeGrant
<1>1. IInv /\ OwnerInOrder => ArmedBeforeGrant
  BY DEF IInv, IdentityFirst, OwnerInOrder, ArmedBeforeGrant
<1>. QED BY <1>1, SessionInductive, PTL
=============================================================================
