--------------------------- MODULE ObservationList --------------------------
(***************************************************************************)
(* update/state.rs: the bounded list of compatibility observations, one    *)
(* per identity.  Identities are numbered in observation_order, which      *)
(* compares exactly the four fields same_identity does.                    *)
(***************************************************************************)
EXTENDS Outcome

CONSTANT MaxObservations      \* MAX_COMPATIBILITY_OBSERVATIONS

ASSUME ListAssumption == MaxObservations \in Nat \ {0}

CompatibilityObservation ==
    [id : Nat, time : Nat, counts : [Fields -> Nat],
     command : CommandOutcomes, hook : HookOutcomes]

\* from_session: the observation of a finished session, not dated yet.
FromSession(id, counts, command) ==
    [id |-> id, time |-> 0, counts |-> counts, command |-> command,
     hook |-> AggregateHookOutcome(counts)]

ValidObservation(o) ==
    /\ o.time # 0 /\ ValidCounts(o.counts)
    /\ o.hook = AggregateHookOutcome(o.counts)

ValidList(list) ==
    /\ Len(list) <= MaxObservations
    /\ \A i \in DOMAIN list : ValidObservation(list[i])

IndicesOf(list, id) == {i \in DOMAIN list : list[i].id = id}

\* Mutant: the new counts replace the old ones.
CombineReplaces(left, right) == right

\* Counts stay at the cap once they have reached it.
Combine(left, right) ==
    [f \in Fields |-> IF left[f] + right[f] > MaxCount THEN MaxCount
                                                     ELSE left[f] + right[f]]

MergeInto(old, new, now) ==
    LET counts == Combine(old.counts, new.counts)
    IN  [old EXCEPT !.counts = counts, !.hook = AggregateHookOutcome(counts),
                    !.command = MergeCommand(@, new.command), !.time = now]

\* sort_by(observation_order) is stable: the place an entry gets is the number
\* of those that come no later.
Rank(list, i) ==
    Cardinality({j \in DOMAIN list : \/ list[j].id < list[i].id
                                     \/ list[j].id = list[i].id /\ j <= i})
Sorted(list) ==
    [r \in DOMAIN list |-> list[CHOOSE i \in DOMAIN list : Rank(list, i) = r]]
Without(list, i) == SubSeq(list, 1, i - 1) \o SubSeq(list, i + 1, Len(list))

\* Mutant: the observation recorded last is always kept.
InsertAlways(list, new) ==
    IF Len(list) < MaxObservations THEN Sorted(Append(list, new))
    ELSE LET oldest == CHOOSE i \in DOMAIN list :
                         \A j \in DOMAIN list : list[i].id <= list[j].id
         IN  Sorted(Append(Without(list, oldest), new))

\* At the limit the smallest identity gives way, unless the new one is smaller.
Insert(list, new) ==
    IF Len(list) < MaxObservations THEN Sorted(Append(list, new))
    ELSE LET oldest == CHOOSE i \in DOMAIN list :
                         \A j \in DOMAIN list : list[i].id <= list[j].id
         IN  IF new.id <= list[oldest].id THEN list
             ELSE Sorted(Append(Without(list, oldest), new))

\* UpdateState::record_compatibility_observation.  The clock is read for an
\* observation without a date and again when it is stored; {} is Invalid.
Recorded(list, observation, first, second) ==
    LET dated  == IF observation.time = 0 THEN [observation EXCEPT !.time = first]
                                          ELSE observation
        same   == IndicesOf(list, dated.id)
        result == IF same # {}
                    THEN LET i == CHOOSE i \in same : \A j \in same : i <= j
                         IN  [list EXCEPT ![i] = MergeInto(@, dated, second)]
                    ELSE Insert(list, [dated EXCEPT !.time = second])
    IN  IF ValidObservation(dated) /\ ValidList(result) THEN {result} ELSE {}
=============================================================================
