------------------------------ MODULE MCOutcomes ----------------------------
(* What a session leaves behind: its audit, read once (SessionAudit), the  *)
(* observations sessions add up to (Observations), and the choice of an    *)
(* update (Selection).  They share no state, so a behavior exercises one   *)
(* of them and leaves the others where they start.  One connection more    *)
(* than the limit on records of a kind, three identities for two places,   *)
(* counts that saturate after two sessions, a clock that may be unreadable,*)
(* catalogs of two manifests.                                              *)
EXTENDS SessionAudit, Observations, Selection, TLC

VARIABLE part

OutcomesInit ==
    /\ part \in {"audit", "observations", "offer"}
    /\ Init /\ ObservationsInit /\ OfferInit
    /\ part # "offer" => input = CHOOSE in \in Inputs : TRUE
OutcomesNext ==
    /\ \/ part = "audit" /\ Next /\ UNCHANGED <<observationVars, offerVars>>
       \/ part = "observations" /\ ObservationsNext /\ UNCHANGED <<vars, offerVars>>
       \/ part = "offer" /\ OfferNext /\ UNCHANGED <<vars, observationVars>>
    /\ UNCHANGED part
OutcomesSpec ==
    OutcomesInit /\ [][OutcomesNext]_<<part, vars, observationVars, offerVars>>

Symmetric == Permutations(Conns)
-----------------------------------------------------------------------------
Failed == [NoCounts EXCEPT !["no_decision"] = 1, !["protocol_failure"] = 1]
Allowed == [NoCounts EXCEPT !["entry"] = 1, !["validated_request"] = 1,
                            !["allow"] = 1, !["broker_allow_unconfirmed"] = 1]
SessionCounts == {Failed, Allowed}

N(v) == [value |-> v, leadingZero |-> FALSE]
Z(v) == [value |-> v, leadingZero |-> TRUE]
Glibc(name, minor) ==
    [name |-> name, os |-> "linux", arch |-> "x86_64", libc |-> "glibc", format |-> "tar-gz",
     sound |-> TRUE, minimum |-> [prefix |-> "glibc", tokens |-> <<N(2), minor>>]]
Windows(name, half) ==
    [name |-> name, os |-> "windows", arch |-> "x86_64", libc |-> "none", format |-> "zip",
     sound |-> TRUE, minimum |-> [prefix |-> "windows", tokens |-> <<N(10), N(22), half>>]]
AssetLists ==
    {<<Glibc("a", N(31))>>, <<Glibc("a", N(9)), Glibc("b", N(31))>>,
     <<Glibc("a", N(31)), Glibc("b", N(31))>>, <<Glibc("a", N(9)), Glibc("b", Z(9))>>,
     <<Windows("w", N(2)), Glibc("a", N(9))>>, <<Windows("w", N(3))>>}

Hooked(codex, status, hook) ==
    [tuple |-> [codex |-> codex, os |-> "linux", arch |-> "x86_64", surface |-> "cli", hook |-> hook],
     status |-> status, sound |-> TRUE]
Rec(codex, status) == Hooked(codex, status, "known")
RecordLists ==
    {<<Rec(1, "reviewed")>>, <<Rec(1, "experimental")>>, <<Rec(1, "excluded"), Rec(2, "reviewed")>>,
     <<Rec(1, "reviewed"), Rec(1, "excluded")>>,
     <<Rec(1, "reviewed"), Hooked(1, "excluded", "other")>>}

SomeManifests ==
    {[sound |-> TRUE, schema |-> 1, version |-> v, assets |-> a, records |-> r] :
        v \in {<<0, 9, 0>>, <<0, 10, 0>>}, a \in AssetLists, r \in RecordLists}
SomeInputs ==
    {[os |-> o, arch |-> "x86_64", codex |-> 1, surface |-> "cli", mode |-> m,
      installed |-> v, runtime |-> r] :
        o \in {"linux", "windows"}, m \in {"automatic", "strict"},
        v \in {<<0, 2, 0>>, <<0, 9, 0>>},
        r \in {[kind |-> "linux", numbers |-> <<2, 31>>], [kind |-> "linux", numbers |-> <<2, 10>>],
               [kind |-> "windows", numbers |-> <<10, 22, 2>>],
               [kind |-> "windows", numbers |-> <<11, 21, 0>>],
               [kind |-> "unknown", numbers |-> <<>>]}}
=============================================================================
