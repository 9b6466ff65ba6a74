------------------------------ MODULE ChildTree -----------------------------
(***************************************************************************)
(* child_tree.rs: the boundary around a probe's or the verifier's child.   *)
(* On Unix it is a process group, which a descendant may leave; on Windows *)
(* a kill-on-close job, joined before the child's only thread may run.     *)
(* The owner spawns, polls, stops, reaps and closes in any legal order;    *)
(* every system call may fail.                                             *)
(***************************************************************************)
EXTENDS FiniteSets

CONSTANTS Main,     \* the spawned child
          Others    \* processes it or its descendants may start

Procs == {Main} \cup Others
Platforms == {"unix", "windows"}

VARIABLES platform,
          tree,     \* "none", "prepare", "open", "closed", "refused"
          proc,     \* "none", "suspended", "running", "zombie", "gone"
          member,   \* in the group or the job
          stopped,  \* the last stop returned Ok, and nothing was spawned since
          reaped    \* what stop_and_reap returned: "none", "ok", "error"

vars == <<platform, tree, proc, member, stopped, reaped>>
TreeStates == {"none", "prepare", "open", "closed", "refused"}
Alive(p) == proc[p] \in {"suspended", "running"}

Init ==
    /\ platform \in Platforms /\ tree = "none"
    /\ proc = [p \in Procs |-> "none"] /\ member = [p \in Procs |-> FALSE]
    /\ stopped = FALSE /\ reaped = "none"

\* Killing leaves the owner's child a zombie; others are reaped by the system.
Kill(who, table) ==
    [p \in Procs |-> IF p \notin who \/ table[p] \notin {"suspended", "running"}
                       THEN table[p]
                     ELSE IF p = Main THEN "zombie" ELSE "gone"]
Members == {p \in Procs : member[p]}
-----------------------------------------------------------------------------
\* process_group(0) takes effect in the child before it executes the program.
SpawnUnix ==
    /\ platform = "unix" /\ tree = "none"
    /\ tree' = "open"
    /\ proc' = [proc EXCEPT ![Main] = "running"]
    /\ member' = [member EXCEPT ![Main] = TRUE]
    /\ UNCHANGED <<platform, stopped, reaped>>

SpawnSuspended ==
    /\ platform = "windows" /\ tree = "none"
    /\ tree' = "prepare"
    /\ proc' = [proc EXCEPT ![Main] = "suspended"]
    /\ UNCHANGED <<platform, member, stopped, reaped>>

AssignToJob ==
    /\ tree = "prepare" /\ proc[Main] = "suspended" /\ ~member[Main]
    /\ member' = [member EXCEPT ![Main] = TRUE]
    /\ UNCHANGED <<platform, tree, proc, stopped, reaped>>

\* The snapshot has exactly one thread of the child, which still owns it.
InitialThread == proc[Main] = "suspended"

ResumeThread ==
    /\ tree = "prepare" /\ member[Main] /\ InitialThread
    /\ proc' = [proc EXCEPT ![Main] = "running"]
    /\ tree' = "open"
    /\ UNCHANGED <<platform, member, stopped, reaped>>

\* Assignment, the thread snapshot or the resume count fails: kill and reap,
\* each of which may fail too; dropping the job kills its members anyway.
PrepareFails ==
    /\ tree = "prepare" /\ tree' = "refused"
    /\ \E killed \in BOOLEAN :
        proc' = IF killed THEN [proc EXCEPT ![Main] = "gone"] ELSE Kill(Members, proc)
    /\ UNCHANGED <<platform, member, stopped, reaped>>
-----------------------------------------------------------------------------
\* Processes: a new one inherits the membership of the one that starts it.
Fork(p, q) ==
    /\ proc[p] = "running" /\ proc[q] = "none" /\ q # Main
    /\ proc' = [proc EXCEPT ![q] = "running"]
    /\ member' = [member EXCEPT ![q] = member[p]]
    /\ UNCHANGED <<platform, tree, stopped, reaped>>

\* setsid or setpgid; a job without the breakaway limit cannot be left.
LeaveGroup(p) ==
    /\ platform = "unix" /\ proc[p] = "running" /\ member[p]
    /\ member' = [member EXCEPT ![p] = FALSE]
    /\ UNCHANGED <<platform, tree, proc, stopped, reaped>>

Exit(p) ==
    /\ proc[p] = "running"
    /\ proc' = [proc EXCEPT ![p] = IF p = Main THEN "zombie" ELSE "gone"]
    /\ UNCHANGED <<platform, tree, member, stopped, reaped>>
-----------------------------------------------------------------------------
\* The owner's Child::try_wait while the tree is open.
Poll ==
    /\ tree = "open" /\ proc[Main] = "zombie"
    /\ proc' = [proc EXCEPT ![Main] = "gone"]
    /\ UNCHANGED <<platform, tree, member, stopped, reaped>>

\* Mutant: only the child is killed.
StopMain ==
    /\ tree = "open"
    /\ \/ stopped' = TRUE /\ proc' = Kill({Main}, proc)
       \/ stopped' = FALSE /\ UNCHANGED proc
    /\ UNCHANGED <<platform, tree, member, reaped>>

\* kill_process_group (a group that is gone is no error) or TerminateJobObject.
Stop ==
    /\ tree = "open"
    /\ \/ stopped' = TRUE /\ proc' = Kill(Members, proc)
       \/ stopped' = FALSE /\ UNCHANGED proc
    /\ UNCHANGED <<platform, tree, member, reaped>>

\* Both parts are attempted.  A kill that fails is an error only if the child
\* has still not exited; wait reaps it otherwise.
StopAndReap ==
    /\ tree = "open"
    /\ \E stop, kill, wait \in BOOLEAN :
        LET afterStop == IF stop THEN Kill(Members, proc) ELSE proc
            afterKill == IF kill THEN Kill({Main}, afterStop) ELSE afterStop
            exited    == afterKill[Main] \in {"zombie", "gone"}
        IN  /\ stopped' = stop
            /\ proc' = IF exited /\ wait THEN [afterKill EXCEPT ![Main] = "gone"]
                                       ELSE afterKill
            /\ reaped' = IF stop /\ exited /\ wait THEN "ok" ELSE "error"
    /\ UNCHANGED <<platform, tree, member>>

\* Dropping the tree: nothing on Unix, the job's members die on Windows.
Close ==
    /\ tree = "open" /\ tree' = "closed"
    /\ proc' = IF platform = "windows" THEN Kill(Members, proc) ELSE proc
    /\ UNCHANGED <<platform, member, stopped, reaped>>

Rest == tree \in {"closed", "refused"} /\ UNCHANGED vars

Next ==
    \/ SpawnUnix \/ SpawnSuspended \/ AssignToJob \/ ResumeThread \/ PrepareFails
    \/ \E p, q \in Procs : Fork(p, q)
    \/ \E p \in Procs : LeaveGroup(p) \/ Exit(p)
    \/ Poll \/ Stop \/ StopAndReap \/ Close \/ Rest

Spec == Init /\ [][Next]_vars
-----------------------------------------------------------------------------
CTypeOK ==
    /\ platform \in Platforms /\ tree \in TreeStates
    /\ proc \in [Procs -> {"none", "suspended", "running", "zombie", "gone"}]
    /\ member \in [Procs -> BOOLEAN] /\ stopped \in BOOLEAN
    /\ reaped \in {"none", "ok", "error"}

\* "This closes the spawn/assignment gap in which descendants could otherwise
\* escape": on Windows no process of the tree ever runs outside the job.
JobHoldsAll ==
    platform = "windows" => \A p \in Procs : proc[p] = "running" => member[p]

\* After a successful stop nothing runs in the boundary, however the stop
\* interleaved with forks; on Windows nothing of the tree runs at all.  After
\* stop_and_reap returned Ok no zombie is left either.
StopLeavesNone ==
    /\ stopped => \A p \in Procs : Alive(p) => ~member[p] /\ platform = "unix"
    /\ reaped = "ok" => proc[Main] = "gone" /\ \A p \in Procs : member[p] => ~Alive(p)

\* With JobHoldsAll, what makes StopLeavesNone inductive: nothing exists before
\* the spawn, and nothing is still suspended when a stop can happen.
SpawnInOrder ==
    /\ tree = "none" => \A p \in Procs : proc[p] = "none"
    /\ \A p \in Procs : proc[p] = "suspended" => p = Main /\ tree \in {"prepare", "refused"}
    /\ stopped \/ reaped = "ok" => tree \in {"open", "closed"}
=============================================================================
