---------------------------- MODULE MCStateStore ----------------------------
(* Two launchers that record observations of different versions, or of the *)
(* same, into a list with one place or two.                                *)
EXTENDS StateStore

Allowed == [NoCounts EXCEPT !["entry"] = 1, !["broker_allow_unconfirmed"] = 1]
Observation(id) == FromSession(id, Allowed, "unknown")
Observed == {Observation(1), Observation(2)}

Existing ==
    {[kind |-> "missing", list |-> <<>>],
     Present(<<[Observation(1) EXCEPT !.time = 1]>>)}
AnyFile == Existing \cup {Torn}
=============================================================================
