---------------------------- MODULE MCVerifyHook ----------------------------
(* Two broker connections, two witness connections and one append that may *)
(* be cut short.  Each behavior looks into one part of what can go wrong   *)
(* around the launcher and leaves the others alone: the broker with both   *)
(* its connections, the process tree with what it does to the repository,  *)
(* the user's Ctrl-C and directories that cannot be removed, or the        *)
(* witness.  The clock, one connection and one witness request, and the    *)
(* failures of the launcher's other calls are there in each; the theorems  *)
(* of VerifyHookProofs are about all of it together.                       *)
EXTENDS VerifyHook

CONSTANTS FirstConn, FirstHead      \* the only ones in the other parts

VARIABLE part

PartInit == Init /\ part \in {"broker", "tree", "witness"}
PartNext ==
    /\ Next /\ UNCHANGED part
    /\ part # "broker" => /\ UNCHANGED torn /\ serve' # "panicked"
                          /\ \A c \in Conns \ {FirstConn} : conn'[c] = "idle"
    /\ part # "tree" => /\ ~dirty' /\ kids' = "none" /\ ~flag'
                        /\ pc \in {"cleanup", "temps"} => temps' = silent /\ UNCHANGED cleanupError
    /\ part # "witness" => /\ witness' # "failed"
                           /\ head'[FirstHead] # "idle" => headKind'[FirstHead] = "exact"
                           /\ \A h \in Heads \ {FirstHead} : head'[h] = "idle"
PartSpec == PartInit /\ [][PartNext]_<<part, vars>> /\ Fairness
=============================================================================
