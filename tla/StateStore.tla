----------------------------- MODULE StateStore -----------------------------
(***************************************************************************)
(* StateStore::record_compatibility_observation on Unix (update/state.rs): *)
(* launchers of one user read, update and replace one state file under a   *)
(* lease on a lock file.  A launcher may crash at any step, the machine    *)
(* may lose power, somebody may replace the lock file, a launcher may come *)
(* again with the process id of one that died, and every call may fail.    *)
(***************************************************************************)
EXTENDS ObservationList

CONSTANTS Procs,        \* launchers, by process id
          NoProc,
          Inputs,       \* the observations they record
          Clock,        \* what the clock may say; 0 when it is unreadable
          Files,        \* state files there may be to begin with
          MaxRuns,      \* launches in a behavior
          MaxReplaced,  \* replacements of the lock file
          MaxCrashes,   \* crashes and power losses
          PowerFails    \* may the machine lose power?

\* What load_at may find: nothing, a list that validates, or something else.
StateFile ==
    [kind : {"missing", "present", "corrupt"}, list : Seq(CompatibilityObservation)]

ASSUME StoreAssumption ==
    /\ Inputs \subseteq CompatibilityObservation /\ Clock \subseteq Nat
    /\ Files \subseteq StateFile /\ \A f \in Files : ValidList(f.list)
    /\ NoProc \notin Procs /\ {MaxRuns, MaxReplaced, MaxCrashes} \subseteq Nat
    /\ PowerFails \in BOOLEAN

VARIABLES pc, input, local,
          late,         \* the launchers whose 250 ms are over
          inode,        \* the lock file's; the number of its replacements
          handle,       \* the lock file each launcher has open
          holder,       \* who has the flock of each inode
          file, durable,\* the state file, and what a power loss may leave of it
          temp,         \* the temporary file of each process id
          runs, crashes

lockVars == <<late, inode, handle, holder>>
diskVars == <<file, durable, temp>>
vars == <<pc, input, local, lockVars, diskVars, runs, crashes>>

Inodes == 0 .. MaxReplaced
Over == {"idle", "ok", "error", "contended", "crashed"}
Steps == {"open", "waiting", "locked", "leased", "loaded", "merged"}
Saving == {"created", "written", "synced", "verified"}
Present(list) == [kind |-> "present", list |-> list]
Torn == [kind |-> "corrupt", list |-> <<>>]
Temps == {"none", "empty", "written", "synced"}

Init ==
    /\ pc = [p \in Procs |-> "idle"]
    /\ \E o \in Inputs : input = [p \in Procs |-> o]
    /\ local = [p \in Procs |-> <<>>]
    /\ late = {} /\ inode = 0 /\ handle = [p \in Procs |-> 0]
    /\ holder = [i \in Inodes |-> NoProc]
    /\ file \in Files /\ durable = {file} /\ temp = [p \in Procs |-> "none"]
    /\ runs = 0 /\ crashes = 0

Goto(p, from, to) == pc[p] = from /\ pc' = [pc EXCEPT ![p] = to]

\* Dropping the lease, or dying, closes the lock file.
Unlocked(p) == [i \in Inodes |-> IF holder[i] = p THEN NoProc ELSE holder[i]]

\* The return of an error: nothing was applied, nothing is left.
Bail(p, from) ==
    /\ Goto(p, from, "error") /\ holder' = Unlocked(p)
    /\ UNCHANGED <<input, local, late, inode, handle, diskVars, runs, crashes>>
-----------------------------------------------------------------------------
Start(p) ==
    /\ pc[p] \in Over /\ runs < MaxRuns
    /\ pc' = [pc EXCEPT ![p] = "open"] /\ runs' = runs + 1
    /\ \E o \in Inputs : input' = [input EXCEPT ![p] = o]
    /\ late' = late \ {p}
    /\ UNCHANGED <<local, inode, handle, holder, diskVars, crashes>>

\* CheckCoordinator::acquire: the parent is opened, the entry checked, the
\* lock file opened or created.
OpenLock(p) ==
    /\ Goto(p, "open", "waiting") /\ handle' = [handle EXCEPT ![p] = inode]
    /\ UNCHANGED <<input, local, late, inode, holder, diskVars, runs, crashes>>

\* Mutant: the lock is shared.
TryLockShared(p) ==
    /\ Goto(p, "waiting", "locked") /\ holder' = [holder EXCEPT ![handle[p]] = p]
    /\ UNCHANGED <<input, local, late, inode, handle, diskVars, runs, crashes>>

TryLock(p) ==
    /\ holder[handle[p]] = NoProc
    /\ Goto(p, "waiting", "locked") /\ holder' = [holder EXCEPT ![handle[p]] = p]
    /\ UNCHANGED <<input, local, late, inode, handle, diskVars, runs, crashes>>

\* Mutant: the deadline is not looked at.
ContendedNever(p) == FALSE /\ UNCHANGED vars

\* The lock is tried before the deadline is looked at.
Contended(p) ==
    /\ holder[handle[p]] # NoProc /\ p \in late
    /\ Goto(p, "waiting", "contended")
    /\ UNCHANGED <<input, local, lockVars, diskVars, runs, crashes>>

DeadlinePasses(p) ==
    /\ pc[p] = "waiting" /\ p \notin late /\ late' = late \cup {p}
    /\ UNCHANGED <<pc, input, local, inode, handle, holder, diskVars, runs, crashes>>

\* verify_lock_entry: the name still leads to the inode that is held.
HoldsEntry(p) == handle[p] = inode

Verified(p, from, to) ==
    /\ HoldsEntry(p) /\ Goto(p, from, to)
    /\ UNCHANGED <<input, local, lockVars, diskVars, runs, crashes>>

VerifyLease(p) ==
    \/ Verified(p, "locked", "leased")
    \/ ~HoldsEntry(p) /\ Bail(p, "locked")

\* load_at, through the lease's directory handle.
Load(p) ==
    \/ /\ file.kind # "corrupt" /\ Goto(p, "leased", "loaded")
       /\ local' = [local EXCEPT ![p] = file.list]
       /\ UNCHANGED <<input, lockVars, diskVars, runs, crashes>>
    \/ file.kind = "corrupt" /\ Bail(p, "leased")

Merge(p) ==
    \E first, second \in Clock :
        LET result == Recorded(local[p], input[p], first, second)
        IN  IF result = {} THEN Bail(p, "loaded")
            ELSE /\ Goto(p, "loaded", "merged")
                 /\ \E list \in result : local' = [local EXCEPT ![p] = list]
                 /\ UNCHANGED <<input, lockVars, diskVars, runs, crashes>>

\* save_with_lease and the beginning of save_at.  The name has the process id
\* and a counter: one that died may have left it, and O_EXCL fails.
CreateTemp(p) ==
    \/ /\ HoldsEntry(p) /\ temp[p] = "none"
       /\ Goto(p, "merged", "created") /\ temp' = [temp EXCEPT ![p] = "empty"]
       /\ UNCHANGED <<input, local, lockVars, file, durable, runs, crashes>>
    \/ /\ temp[p] # "none" /\ Verified(p, "merged", "cleanup")
    \/ ~HoldsEntry(p) /\ Bail(p, "merged")

Fill(p, from, to) ==
    /\ Goto(p, from, to) /\ temp' = [temp EXCEPT ![p] = to]
    /\ UNCHANGED <<input, local, lockVars, file, durable, runs, crashes>>

WriteTemp(p) == Fill(p, "created", "written")
SyncTemp(p)  == Fill(p, "written", "synced")

VerifyCommit(p) ==
    \/ Verified(p, "synced", "verified")
    \/ /\ ~HoldsEntry(p) /\ Goto(p, "synced", "cleanup")
       /\ UNCHANGED <<input, local, lockVars, diskVars, runs, crashes>>

\* Until the directory is synced a power loss may undo the rename, and a
\* file whose data was not synced may be torn.
Rename(p) ==
    /\ Goto(p, "verified", "renamed")
    /\ file' = Present(local[p])
    /\ durable' = durable \cup {IF temp[p] = "synced" THEN file' ELSE Torn}
    /\ temp' = [temp EXCEPT ![p] = "none"]
    /\ UNCHANGED <<input, local, lockVars, runs, crashes>>

\* Mutant: Ok is returned without the directory having been synced.
SyncDirSkipped(p) ==
    /\ Goto(p, "renamed", "ok") /\ holder' = Unlocked(p)
    /\ UNCHANGED <<input, local, late, inode, handle, file, durable, temp, runs, crashes>>

SyncDir(p) ==
    /\ Goto(p, "renamed", "ok") /\ durable' = {file} /\ holder' = Unlocked(p)
    /\ UNCHANGED <<input, local, late, inode, handle, file, temp, runs, crashes>>

\* Any error before the rename leads to the removal of the temporary file,
\* an error of the last sync finds none to remove.
LateFail(p) ==
    /\ pc[p] \in Saving /\ pc' = [pc EXCEPT ![p] = "cleanup"]
    /\ UNCHANGED <<input, local, lockVars, diskVars, runs, crashes>>

Cleanup(p) ==
    /\ Goto(p, "cleanup", "error") /\ holder' = Unlocked(p)
    /\ \E left \in {"none", temp[p]} : temp' = [temp EXCEPT ![p] = left]
    /\ UNCHANGED <<input, local, late, inode, handle, file, durable, runs, crashes>>

EarlyFail(p) == \E from \in Steps \cup {"renamed"} : Bail(p, from)
-----------------------------------------------------------------------------
\* The kernel releases the lock; the temporary file stays.
Crash(p) ==
    /\ pc[p] \notin Over /\ crashes < MaxCrashes
    /\ pc' = [pc EXCEPT ![p] = "crashed"] /\ holder' = Unlocked(p)
    /\ crashes' = crashes + 1
    /\ UNCHANGED <<input, local, late, inode, handle, diskVars, runs>>

PowerLoss ==
    /\ PowerFails /\ crashes < MaxCrashes /\ crashes' = crashes + 1
    /\ pc' = [p \in Procs |-> IF pc[p] \in Over THEN pc[p] ELSE "crashed"]
    /\ holder' = [i \in Inodes |-> NoProc]
    /\ file' \in durable /\ durable' = {file'}
    /\ UNCHANGED <<input, local, late, inode, handle, temp, runs>>

\* Somebody removes the lock file; the next opener creates another.
ReplaceLock ==
    /\ inode < MaxReplaced /\ inode' = inode + 1
    /\ UNCHANGED <<pc, input, local, late, handle, holder, diskVars, runs, crashes>>

Idle == (\A p \in Procs : pc[p] \in Over) /\ runs = MaxRuns /\ UNCHANGED vars

Step(p) ==
    \/ OpenLock(p) \/ TryLock(p) \/ Contended(p) \/ VerifyLease(p) \/ Load(p)
    \/ Merge(p) \/ CreateTemp(p) \/ WriteTemp(p) \/ SyncTemp(p)
    \/ VerifyCommit(p) \/ Rename(p) \/ SyncDir(p) \/ Cleanup(p)

Next ==
    \/ \E p \in Procs : \/ Start(p) \/ Step(p) \/ DeadlinePasses(p)
                        \/ LateFail(p) \/ EarlyFail(p) \/ Crash(p)
    \/ PowerLoss \/ ReplaceLock \/ Idle

Spec == Init /\ [][Next]_vars

\* A launcher that polls the lock is scheduled, and time passes.  Nothing is
\* asked of one that holds it: it may be stopped for ever.
FairSpec ==
    Spec /\ \A p \in Procs : WF_vars(TryLock(p) \/ Contended(p))
                             /\ WF_vars(DeadlinePasses(p))
-----------------------------------------------------------------------------
Reflects(list, o) ==
    \/ IndicesOf(list, o.id) # {}
    \/ Len(list) = MaxObservations /\ \A i \in DOMAIN list : o.id < list[i].id

\* What a launcher was told is recorded stays so, whatever happens to others
\* and to the machine, as long as nobody replaces the lock file.
AcknowledgedSurvives ==
    inode = 0 => \A p \in Procs, d \in durable :
        pc[p] = "ok" => d.kind = "present" /\ Reflects(d.list, input[p])

Call(p) ==
    CASE pc[p] = "idle" -> "idle"
      [] pc[p] = "ok" -> "ok"
      [] pc[p] \in {"error", "contended", "crashed"} -> "error"
      [] pc[p] = "renamed" -> "applied"
      [] OTHER -> "pending"

Register == INSTANCE ObservationRegister
    WITH call <- [p \in Procs |-> Call(p)]

\* Launchers that finish together lose no update, none is applied after its
\* launcher was told that it failed, no failure or power loss leaves a torn
\* file: until the lock file is replaced every step is one of the register's.
ImplementsRegister ==
    Register!Init /\ [][inode' = 0 => UNCHANGED Register!vars \/ Register!Next]_vars

\* A launcher's wait for the lease ends, even if its holder is stopped for ever
\* or the lease goes from hand to hand.
WaitsAreBounded == \A p \in Procs : pc[p] = "waiting" ~> pc[p] # "waiting"
=============================================================================
