--------------------------- MODULE AtomicInstall ---------------------------
(***************************************************************************)
(* What scripts/install-linux.sh promises of the two links it manages, as  *)
(* if every operation were one indivisible step: the selected release and  *)
(* the one kept for rollback.                                              *)
(***************************************************************************)
CONSTANTS Digests, None

VARIABLES selected, retained

vars == <<selected, retained>>

Init == selected = None /\ retained = None

\* The release that was selected is retained.
Install(d) ==
    /\ d # selected
    /\ selected' = d
    /\ retained' = IF selected = None THEN None ELSE selected

Rollback ==
    /\ None \notin {selected, retained} /\ selected # retained
    /\ selected' = retained /\ retained' = selected

Uninstall == selected' = None /\ retained' = None

Next == (\E d \in Digests : Install(d)) \/ Rollback \/ Uninstall

Spec == Init /\ [][Next]_vars

=============================================================================
