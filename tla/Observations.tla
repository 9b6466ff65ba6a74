---------------------------- MODULE Observations ----------------------------
(***************************************************************************)
(* The observations one user accumulates: sessions of several versions,    *)
(* finishing in any order, are recorded one after the other.  The clock    *)
(* may stand still, go back or be unreadable (0).  StateStore.tla has the  *)
(* file, its lock and its crashes.                                         *)
(***************************************************************************)
EXTENDS ObservationList

CONSTANTS Ids,        \* identities, numbered in observation_order
          Times,      \* what the clock may say
          Sessions    \* the counts a session may have

\* What a session has is what read_audit or the accumulator returns: an entry
\* never stands without a result.
ASSUME ObservationsAssumption ==
    /\ Ids \subseteq Nat /\ Times \subseteq Nat
    /\ \A c \in Sessions : /\ c \in [Fields -> Nat]
                           /\ c["entry"] > 0 => \E f \in Results : c[f] > 0

VARIABLES observations,
          recorded,   \* history: the identities ever recorded
          worst       \* history: the worst outcome each identity had

observationVars == <<observations, recorded, worst>>

ObservationsInit ==
    observations = <<>> /\ recorded = {} /\ worst = [i \in Ids |-> 0]

\* The higher, the more alarming; the aggregate's order.
Severity(outcome) ==
    IF outcome = "no_hook_invocation" THEN 1
    ELSE Len(Alarms) + 2 - (CHOOSE i \in DOMAIN Alarms : Alarms[i] = outcome)

Record(id, counts, command) ==
    \E first, second \in Times :
        LET new  == FromSession(id, counts, command)
            next == Recorded(observations, new, first, second)
        IN  /\ next # {}
            /\ observations' \in next
            /\ recorded' = recorded \cup {id}
            /\ worst' = [worst EXCEPT ![id] = IF @ >= Severity(new.hook) THEN @
                                              ELSE Severity(new.hook)]

\* An invalid result is not stored.
RecordInvalid(id, counts) ==
    /\ \E first, second \in Times :
          Recorded(observations, FromSession(id, counts, "unknown"), first, second) = {}
    /\ UNCHANGED observationVars

ObservationsNext ==
    \E id \in Ids, counts \in Sessions :
        \/ \E command \in CommandOutcomes : Record(id, counts, command)
        \/ RecordInvalid(id, counts)

ObservationsSpec == ObservationsInit /\ [][ObservationsNext]_observationVars
-----------------------------------------------------------------------------
Kept == {observations[i].id : i \in DOMAIN observations}

\* An older version's session that finishes late never displaces a newer
\* version's observation: in every order of recording the list has the
\* greatest identities ever recorded, each once, in order.
NewestAreKept ==
    /\ \A i, j \in DOMAIN observations : i < j => observations[i].id < observations[j].id
    /\ Kept \subseteq recorded
    /\ \A id \in recorded \ Kept : \A k \in Kept : id < k
    /\ Cardinality(Kept) < MaxObservations => Kept = recorded

\* "Failures stay visible to the conservative aggregate": no number of later
\* sessions, and no saturated counter, makes an identity look better than the
\* worst session recorded for it.
FailuresStayVisible ==
    \A i \in DOMAIN observations : Severity(observations[i].hook) >= worst[observations[i].id]
=============================================================================
