---------------------------- MODULE SessionAudit ----------------------------
(***************************************************************************)
(* The audit of one launcher session (audit.rs, broker/linux.rs,           *)
(* launcher.rs): the broker's workers append to one file while they answer *)
(* their clients, an append may fail, whole or torn, and the launcher      *)
(* reads the file once, after the workers were joined.                     *)
(***************************************************************************)
EXTENDS Outcome

CONSTANTS Conns,      \* the connections of the session
          MaxTorn     \* bound of the model: how many appends are cut short

\* The longest line has 85 bytes, MAX_AUDIT_BYTES room for 64 of each kind.
ASSUME AuditAssumption ==
    IsFiniteSet(Conns) /\ MaxTorn \in Nat /\ 5 * MaxCount <= MaxLines

VARIABLES log,        \* the lines of the audit, each as its reader takes it
          open,       \* does the last line lack its end?
          torn,       \* history: the appends that were cut short
          at,         \* what each worker does next; "closed" ended before and
                      \* "done" after its invocation was recorded
          answer,     \* what each client was sent
          session     \* "running", or what the launcher read

audit == <<log, open, torn>>
vars == <<audit, at, answer, session>>
Stages == {"waiting", "accepted", "framed", "requested",
           "allowing", "answered", "closed", "done"}

\* audit::initialize: the file exists before a worker can race to create it.
Init ==
    /\ log = <<>> /\ open = FALSE /\ torn = 0 /\ session = <<>>
    /\ at = [c \in Conns |-> "waiting"] /\ answer = [c \in Conns |-> "none"]

Write(text, whole) ==
    /\ log' = IF open THEN [log EXCEPT ![Len(log)] = Glued(@, text)] ELSE Append(log, text)
    /\ open' = ~whole

\* append_private: the line, nothing, or (a full disk) a part of it that the
\* next text is glued to.
Append1(record, ok) ==
    IF ok THEN Write(record, TRUE) /\ UNCHANGED torn
    ELSE \/ UNCHANGED audit
         \/ /\ torn < MaxTorn /\ torn' = torn + 1
            /\ \E part \in CutShort(record) : Write(part, FALSE)

\* Nothing depends on whether a refusal arrives; of an allow it is known.
Answer(c, decision) == answer' = [answer EXCEPT ![c] = decision]

Goto(c, from, to) ==
    /\ session = <<>> /\ at[c] = from /\ at' = [at EXCEPT ![c] = to]

\* handle_connection.  Without its first record a connection is dropped.
Accept(c) ==
    \E ok \in BOOLEAN :
        /\ Goto(c, "waiting", IF ok THEN "accepted" ELSE "closed")
        /\ Append1("attempt", ok)
        /\ UNCHANGED <<answer, session>>

\* A frame that is late, trailed or malformed; the late one gets no answer.
BadFrame(c) ==
    /\ Goto(c, "accepted", "closed")
    /\ Answer(c, "no_decision") \/ UNCHANGED answer
    /\ UNCHANGED <<audit, session>>

RecordStage(c, from, record, to, otherwise) ==
    \E ok \in BOOLEAN :
        /\ Goto(c, from, IF ok THEN to ELSE otherwise)
        /\ Append1(record, ok)
        /\ IF ok THEN UNCHANGED answer ELSE Answer(c, "no_decision")
        /\ UNCHANGED session

Invoke(c) == RecordStage(c, "accepted", "invoked", "framed", "closed")

\* verify_request says no, or the request is recorded; Broker.tla has its checks.
Deny(c) ==
    /\ Goto(c, "framed", "done") /\ Answer(c, "no_decision")
    /\ UNCHANGED <<audit, session>>

Request(c) == RecordStage(c, "framed", "request", "requested", "done")
Allow(c)   == RecordStage(c, "requested", "allow", "allowing", "done")

\* Mutant: the emission is recorded whether or not the answer was written.
RespondBlindly(c) ==
    /\ Answer(c, "allow") \/ Answer(c, "lost")
    /\ Goto(c, "allowing", "answered")
    /\ UNCHANGED <<audit, session>>

Respond(c) ==
    /\ \/ Answer(c, "allow") /\ Goto(c, "allowing", "answered")
       \/ Answer(c, "lost") /\ Goto(c, "allowing", "done")
    /\ UNCHANGED <<audit, session>>

Emitted(c) ==
    \E ok \in BOOLEAN :
        /\ Goto(c, "answered", "done") /\ Append1("emitted", ok)
        /\ UNCHANGED <<answer, session>>

\* record_session_observation, after Broker::shutdown joined the workers;
\* connections that were not accepted stay "waiting".
Read ==
    /\ session = <<>> /\ \A c \in Conns : at[c] \in {"waiting", "closed", "done"}
    /\ session' = <<ReadAudit(log)>>
    /\ UNCHANGED <<audit, at, answer>>

Finished == session # <<>> /\ UNCHANGED vars

WorkerStep(c) ==
    \/ Accept(c) \/ BadFrame(c) \/ Invoke(c) \/ Deny(c)
    \/ Request(c) \/ Allow(c) \/ Respond(c) \/ Emitted(c)

Next == (\E c \in Conns : WorkerStep(c)) \/ Read \/ Finished

Spec == Init /\ [][Next]_vars
-----------------------------------------------------------------------------
Observed == session # <<>> /\ session[1].error = "none"
Counts == session[1].counts
Answered(what) == {c \in Conns : answer[c] \in what}

\* What a session claims happened did: as many allows as it reports were
\* written to clients, and none is called a successful exchange, since the
\* hook's own output is never seen (read_audit, "allow is unconfirmed").
ClaimsHappened ==
    Observed =>
        /\ Counts["broker_allow_unconfirmed"] <= Cardinality(Answered({"allow"}))
        /\ AggregateHookOutcome(Counts) \in {"broker_allow_unconfirmed", "protocol_failure"}

Refusals == Answered({"no_decision", "lost"})

\* A client that was refused, or whose allow was lost, is hidden by those that
\* were allowed only at the price of a line cut short for its connection and
\* another for its invocation, if that was recorded: otherwise, however the
\* workers' lines interleave and whichever appends fail, the session is a
\* protocol failure or its audit is refused (read_audit, handle_connection).
\* And with no line cut short the audit within the limit is readable.
RefusalIsVisible ==
    /\ session # <<>>
    /\ Cardinality(Refusals) + Cardinality({c \in Refusals : at[c] = "done"}) > torn
    => /\ Observed => AggregateHookOutcome(Counts) = "protocol_failure"
       /\ torn = 0 /\ CountOf(log, "attempt") <= MaxCount => Observed
=============================================================================
