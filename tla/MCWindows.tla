------------------------------ MODULE MCWindows -----------------------------
(* The two parts that are Windows' own, the pipe broker and the boundary   *)
(* around a child.  They share nothing, so a behavior exercises one of     *)
(* them and leaves the other where it starts.                              *)
EXTENDS PipeBroker, ChildTree

VARIABLE part

WindowsInit ==
    /\ part \in {"broker", "tree"} /\ PInit /\ Init
    /\ part = "broker" => platform = "windows"
WindowsNext ==
    /\ \/ part = "broker" /\ PNext /\ UNCHANGED vars
       \/ part = "tree" /\ Next /\ UNCHANGED pvars
    /\ UNCHANGED part
WindowsSpec == WindowsInit /\ [][WindowsNext]_<<part, pvars, vars>> /\ PFairness
=============================================================================
