------------------------------- MODULE Outcome ------------------------------
(***************************************************************************)
(* update/outcome.rs: the fixed categories a session is reduced to, and    *)
(* the strict reader of the broker's audit.  A line is the record that     *)
(* read_audit takes it for; hashes and wording are left out.               *)
(***************************************************************************)
EXTENDS Integers, Sequences, FiniteSets

CONSTANTS MaxCount,   \* MAX_OUTCOME_COUNT
          MaxLines    \* the lines MAX_AUDIT_BYTES has room for

ASSUME OutcomeAssumption == MaxCount \in Nat \ {0} /\ MaxLines \in Nat

HookOutcomes == {"no_hook_invocation", "broker_allow_unconfirmed",
                 "successful_exchange", "compatibility_rejection",
                 "transport_failure", "protocol_failure"}
CommandOutcomes == {"succeeded", "failed", "unknown"}

\* The counted results, the most alarming first: the order the aggregate has.
Alarms == <<"protocol_failure", "transport_failure", "compatibility_rejection",
            "broker_allow_unconfirmed", "successful_exchange">>
Results == {Alarms[i] : i \in DOMAIN Alarms}
Fields == Results \cup {"entry", "validated_request", "allow", "no_decision",
                        "structured_emission", "stdout_error"}
NoCounts == [f \in Fields |-> 0]

ValidCounts(counts) == \A f \in Fields : counts[f] <= MaxCount

\* An entry without a result is a failure, not silence.
AggregateHookOutcome(counts) ==
    LET present == {i \in DOMAIN Alarms : counts[Alarms[i]] > 0}
    IN  IF present # {} THEN Alarms[CHOOSE i \in present : \A j \in present : i <= j]
        ELSE IF counts["entry"] = 0 THEN "no_hook_invocation"
        ELSE "protocol_failure"

MergeCommand(left, right) ==
    IF "failed" \in {left, right} THEN "failed"
    ELSE IF "unknown" \in {left, right} THEN "unknown" ELSE "succeeded"
-----------------------------------------------------------------------------
(* read_audit.                                                             *)

BrokerRecords == {"attempt", "invoked", "request", "allow", "emitted"}

\* The records with a tool hash; read_audit knows them by how they begin.
Hashed == BrokerRecords \ {"attempt"}

\* A line cut short is foreign ("torn"), or it begins well enough to be taken
\* for the whole record, or it is an invocation without its hash ("seed").
CutShort(record) == {"torn", record} \cup (IF record = "invoked" THEN {"seed"} ELSE {})

\* What a line without its end is taken for when a text is glued to it: one
\* that began well swallows the text, a seed may find the hash it lacks there.
Glued(line, text) ==
    IF line \in Hashed THEN line
    ELSE IF line = "seed" THEN (IF text \in Hashed THEN "invoked" ELSE "seed")
    ELSE "torn"

CountOf(log, record) == Cardinality({i \in DOMAIN log : log[i] = record})

\* The first line that ends the reading: a foreign one, or one too many.
Offending(log, i) ==
    \/ log[i] \notin BrokerRecords
    \/ CountOf(SubSeq(log, 1, i), log[i]) > MaxCount

LineError(log) ==
    LET bad == {i \in DOMAIN log : Offending(log, i)}
        first == CHOOSE i \in bad : \A j \in bad : i <= j
    IN  IF bad = {} THEN "none"
        ELSE IF log[first] \in BrokerRecords THEN "too_many" ELSE "malformed"

\* Every stage a worker records presupposes the one before.
Nested(log) ==
    /\ CountOf(log, "invoked") <= CountOf(log, "attempt")
    /\ CountOf(log, "request") <= CountOf(log, "invoked")
    /\ CountOf(log, "allow")   <= CountOf(log, "request")
    /\ CountOf(log, "emitted") <= CountOf(log, "allow")

\* Mutant: connections that got no allow are not counted.
UndecidedSilent(log) == 0

Undecided(log) == CountOf(log, "attempt") - CountOf(log, "emitted")

AuditCounts(log) ==
    [NoCounts EXCEPT
        !["entry"] = CountOf(log, "invoked"),
        !["validated_request"] = CountOf(log, "request"),
        !["allow"] = CountOf(log, "allow"),
        !["broker_allow_unconfirmed"] = CountOf(log, "emitted"),
        !["no_decision"] = Undecided(log),
        !["protocol_failure"] = IF Undecided(log) > 0 THEN 1 ELSE 0]

Refused(error) == [error |-> error, counts |-> NoCounts]

ReadAudit(log) ==
    IF Len(log) > MaxLines THEN Refused("too_many")
    ELSE IF log = <<>> THEN Refused("unavailable")
    ELSE IF LineError(log) # "none" THEN Refused(LineError(log))
    ELSE IF ~Nested(log) THEN Refused("malformed")
    ELSE [error |-> "none", counts |-> AuditCounts(log)]
=============================================================================
