------------------------- MODULE ObservationRegister ------------------------
(***************************************************************************)
(* What update/state.rs promises its callers: recording an observation is  *)
(* one atomic update of one list.  Ok means that the update happened; an   *)
(* error or a crash means that it happened or not, and never half of it.   *)
(* A power loss may undo what no caller was told, and nothing else.        *)
(***************************************************************************)
EXTENDS ObservationList

CONSTANTS Procs, Inputs, Clock

VARIABLES file,     \* [kind, list]
          durable,  \* what a power loss may leave of it
          call,     \* "idle", "pending", "applied", "ok", "error"
          input     \* the observation each call records

vars == <<file, durable, call, input>>
Present(list) == [kind |-> "present", list |-> list]

Init ==
    /\ file.kind \in {"missing", "present", "corrupt"} /\ ValidList(file.list)
    /\ durable = {file}
    /\ call = [p \in Procs |-> "idle"] /\ input \in [Procs -> Inputs]

Begin(p) ==
    /\ call[p] \in {"idle", "ok", "error"}
    /\ call' = [call EXCEPT ![p] = "pending"]
    /\ \E o \in Inputs : input' = [input EXCEPT ![p] = o]
    /\ UNCHANGED <<file, durable>>

Apply(p) ==
    /\ call[p] = "pending" /\ file.kind # "corrupt"
    /\ call' = [call EXCEPT ![p] = "applied"]
    /\ \E first, second \in Clock :
         \E list \in Recorded(file.list, input[p], first, second) :
            file' = Present(list)
    /\ durable' = durable \cup {file'}
    /\ UNCHANGED input

Return(p) ==
    /\ \/ call[p] = "applied" /\ call' = [call EXCEPT ![p] = "ok"] /\ durable' = {file}
       \/ /\ call[p] \in {"pending", "applied"} /\ call' = [call EXCEPT ![p] = "error"]
          /\ UNCHANGED durable
    /\ UNCHANGED <<file, input>>

PowerLoss ==
    /\ file' \in durable /\ durable' = {file'}
    /\ call' = [p \in Procs |-> IF call[p] \in {"pending", "applied"} THEN "error"
                                                                     ELSE call[p]]
    /\ UNCHANGED input

Next == PowerLoss \/ \E p \in Procs : Begin(p) \/ Apply(p) \/ Return(p)

Spec == Init /\ [][Next]_vars
=============================================================================
