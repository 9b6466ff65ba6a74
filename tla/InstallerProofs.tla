-------------------------- MODULE InstallerProofs --------------------------
(***************************************************************************)
(* Theorems about LinuxInstaller, for every set of releases: Consistent is *)
(* an inductive invariant, the safety properties follow from it, and the   *)
(* script implements AtomicInstall.                                        *)
(*                                                                         *)
(* Each action preserves Consistent.  An action that ends the invocation   *)
(* leaves the files to the next one (Ending); the other actions change one *)
(* file, and only the parts of Consistent about that file are in question. *)
(***************************************************************************)
EXTENDS LinuxInstaller, TLAPS

USE InstallerAssumption

\* The vocabulary of the actions.
USE DEF Go, Ends, Exits, TrapStage, FsExceptStage, fsVars, runVars, Insist,
        Sound, SoundPointer, Actions, Pointers, Logs, NoLog, IPcs, InstallPcs,
        RecoverPcs, RemovalPcs

\* The vocabulary of the invariant.
USE DEF FilesTyped, RunTyped, FilesAgree, PhasesAgree, ActingAgrees, InstallSteps, RecoverySteps,
        OutcomeAgrees, InstallLinks, RollbackLinks, LinksAreRunnable, Resting,
        Unoccupied, SuccessIsQuiet, RecoveryAccepts

LEMMA Typed == Consistent => ITypeOK
BY DEF Consistent

LEMMA EndsTyped ==
  ASSUME NEW how \in {"ok", "refused", "crashed", "stranded"}, Ends(how)
  PROVE  RunTyped'
<1>1. acting' \in BOOLEAN BY Zenon
<1>. QED BY <1>1

\* An invocation may end at any step without harm: what Consistent says of the
\* files does not depend on where the invocation was.
LEMMA Ending ==
  ASSUME Consistent,
         NEW how \in {"ok", "refused", "crashed", "stranded"}, Ends(how),
         UNCHANGED FsExceptStage,
         TrapStage \/ UNCHANGED stage,
         how = "ok" => Resting /\ ~stage',
         how = "stranded" => marker = "empty" \/ (marker = "none" /\ ~Unoccupied)
  PROVE  Consistent'
<1>0. stage' \in BOOLEAN /\ (stage' => stage)
  <2>1. stage \in BOOLEAN BY DEF Consistent, ITypeOK
  <2>2. CASE TrapStage BY <2>2, Zenon
  <2>3. CASE UNCHANGED stage BY <2>1, <2>3
  <2>. QED BY <2>2, <2>3
<1>1. ITypeOK'
  <2>1. FilesTyped' BY Typed, <1>0 DEF ITypeOK
  <2>. QED BY <2>1, EndsTyped, Zenon DEF ITypeOK
<1>2. FilesAgree' BY DEF Consistent
<1>3. PhasesAgree' BY <1>0 DEF Consistent
<1>4. ActingAgrees' /\ InstallSteps' /\ RecoverySteps' OBVIOUS
<1>5. OutcomeAgrees' BY DEF Consistent
<1>. QED BY <1>1, <1>2, <1>3, <1>4, <1>5 DEF Consistent

\* The directory is created and the arguments are read.
LEMMA InvokeConsistent == ASSUME Consistent, Invoke PROVE Consistent'
<1>1. CASE \E a \in Actions : NoDirectory(a)
  <2>1. ITypeOK' BY Typed, <1>1 DEF ITypeOK, NoDirectory
  <2>2. FilesAgree' /\ PhasesAgree' /\ ActingAgrees' /\ InstallSteps' /\ RecoverySteps'
    BY <1>1 DEF Consistent, NoDirectory
  <2>3. OutcomeAgrees' BY <1>1 DEF Consistent, NoDirectory
  <2>. QED BY <2>1, <2>2, <2>3 DEF Consistent
<1>2. CASE \E a \in Actions, d \in Digests : Begin(a, d)
  <2>1. PICK a \in Actions, d \in Digests : Begin(a, d) BY <1>2
  <2>2. ITypeOK' BY Typed, <2>1 DEF ITypeOK, Begin
  <2>3. FilesAgree' BY <2>1 DEF Consistent, Begin
  <2>4. PhasesAgree' /\ ActingAgrees' /\ InstallSteps' /\ RecoverySteps'
    BY <2>1 DEF Consistent, ITypeOK, Begin
  <2>5. OutcomeAgrees' BY <2>1 DEF Consistent, Begin
  <2>. QED BY <2>2, <2>3, <2>4, <2>5 DEF Consistent
<1>. QED BY <1>1, <1>2 DEF Invoke

\* check_marker: the invocation goes on only where an installation is owned or
\* there is none.
LEMMA CheckMarkerConsistent ==
  ASSUME Consistent, NEW from \in {"marker", "remark"}, CheckMarker(from)
  PROVE  Consistent'
<1>1. CASE marker = "owned" \/ (marker = "none" /\ Unoccupied /\ action # "install")
  <2>1. Go(from, "root") /\ UNCHANGED fsVars BY <1>1 DEF CheckMarker
  <2>2. ITypeOK' BY Typed, <2>1 DEF ITypeOK
  <2>3. FilesAgree' BY <2>1 DEF Consistent
  <2>4. PhasesAgree' BY <1>1, <2>1 DEF Consistent
  <2>5. ActingAgrees' /\ InstallSteps' /\ RecoverySteps'
    BY <2>1 DEF Consistent, CheckMarker
  <2>6. OutcomeAgrees' BY <1>1, <2>1 DEF Consistent
  <2>. QED BY <2>2, <2>3, <2>4, <2>5, <2>6 DEF Consistent
<1>2. CASE marker = "none" /\ Unoccupied /\ action = "install"
  <2>1. /\ Go(from, "write_marker") /\ marker' = "empty"
        /\ UNCHANGED <<dir, root, release, stage, current, previous, installLog,
                       rollbackLog, uninstallLog>>
    BY <1>2 DEF CheckMarker
  <2>2. ITypeOK' BY Typed, <2>1 DEF ITypeOK
  <2>3. FilesAgree' BY <1>2, <2>1 DEF Consistent
  <2>4. PhasesAgree' BY <2>1 DEF Consistent
  <2>5. ActingAgrees' /\ InstallSteps' /\ RecoverySteps' BY <2>1 DEF Consistent
  <2>6. OutcomeAgrees' BY <1>2, <2>1 DEF Consistent
  <2>. QED BY <2>2, <2>3, <2>4, <2>5, <2>6 DEF Consistent
<1>3. CASE marker = "empty" \/ (marker = "none" /\ ~Unoccupied)
  <2>1. Exits("stranded") BY <1>3 DEF CheckMarker
  <2>. QED BY <1>3, <2>1, Ending
<1>. QED BY <1>1, <1>2, <1>3 DEF CheckMarker

\* The steps from the marker to the end of the recovery.
LEMMA RecoveryConsistent == ASSUME Consistent, Recovery PROVE Consistent'
<1>1. CASE CheckMarker("marker") \/ CheckMarker("remark") BY <1>1, CheckMarkerConsistent
<1>2. CASE WriteMarker
  <2>1. ITypeOK' BY Typed, <1>2 DEF ITypeOK, WriteMarker
  <2>2. FilesAgree' BY <1>2 DEF Consistent, ITypeOK, WriteMarker
  <2>3. PhasesAgree' BY <1>2 DEF Consistent, ITypeOK, WriteMarker
  <2>4. ActingAgrees' /\ InstallSteps' /\ RecoverySteps'
    BY <1>2 DEF Consistent, ITypeOK, WriteMarker
  <2>5. OutcomeAgrees' BY <1>2 DEF Consistent, ITypeOK, WriteMarker
  <2>. QED BY <2>1, <2>2, <2>3, <2>4, <2>5 DEF Consistent
<1>3. CASE MakeRoot
  <2>1. ITypeOK' BY Typed, <1>3 DEF ITypeOK, MakeRoot
  <2>2. FilesAgree' BY <1>3 DEF Consistent, ITypeOK, MakeRoot
  <2>3. PhasesAgree' BY <1>3 DEF Consistent, ITypeOK, MakeRoot
  <2>4. ActingAgrees' /\ InstallSteps' /\ RecoverySteps'
    BY <1>3 DEF Consistent, ITypeOK, MakeRoot
  <2>5. OutcomeAgrees' BY <1>3 DEF Consistent, ITypeOK, MakeRoot
  <2>. QED BY <2>1, <2>2, <2>3, <2>4, <2>5 DEF Consistent
<1>4. CASE CleanupStages
  <2>1. ITypeOK'
    <3>1. stage' \in BOOLEAN BY <1>4, Zenon DEF CleanupStages
    <3>. QED BY Typed, <1>4, <3>1 DEF ITypeOK, CleanupStages
  <2>2. FilesAgree' BY <1>4 DEF Consistent, ITypeOK, CleanupStages
  <2>3. PhasesAgree' BY <1>4 DEF Consistent, ITypeOK, CleanupStages
  <2>4. ActingAgrees' /\ InstallSteps' /\ RecoverySteps'
    BY <1>4 DEF Consistent, ITypeOK, CleanupStages
  <2>5. OutcomeAgrees' BY <1>4 DEF Consistent, ITypeOK, CleanupStages
  <2>. QED BY <2>1, <2>2, <2>3, <2>4, <2>5 DEF Consistent
<1>5. CASE CheckJournals
  <2>0. /\ Go("journals", IF uninstallLog THEN "finish" ELSE "recover_install")
        /\ UNCHANGED fsVars
    BY <1>5 DEF Consistent, CheckJournals
  <2>1. ITypeOK' BY Typed, <2>0 DEF ITypeOK
  <2>2. FilesAgree' BY <2>0 DEF Consistent, ITypeOK
  <2>3. PhasesAgree' BY <2>0 DEF Consistent, ITypeOK
  <2>4. ActingAgrees' /\ InstallSteps' /\ RecoverySteps'
    BY <2>0 DEF Consistent, ITypeOK
  <2>5. OutcomeAgrees' BY <2>0 DEF Consistent, ITypeOK
  <2>. QED BY <2>1, <2>2, <2>3, <2>4, <2>5 DEF Consistent
<1>6. CASE RecoverInstall
  <2>0. /\ \/ installLog = NoLog /\ Go("recover_install", "recover_rollback")
           \/ /\ installLog # NoLog
              /\ Go("recover_install", IF installLog.from = None THEN "redo_current"
                                                                 ELSE "redo_previous")
        /\ UNCHANGED fsVars
    BY <1>6 DEF Consistent, RecoverInstall
  <2>1. ITypeOK' BY Typed, <2>0 DEF ITypeOK
  <2>2. FilesAgree' BY <2>0 DEF Consistent, ITypeOK
  <2>3. PhasesAgree' BY <2>0 DEF Consistent, ITypeOK
  <2>4. ActingAgrees' /\ InstallSteps' /\ RecoverySteps'
    BY <2>0 DEF Consistent, ITypeOK
  <2>5. OutcomeAgrees' BY <2>0 DEF Consistent, ITypeOK
  <2>. QED BY <2>1, <2>2, <2>3, <2>4, <2>5 DEF Consistent
<1>7. CASE RedoPrevious
  <2>1. ITypeOK' BY Typed, <1>7 DEF ITypeOK, RedoPrevious, SetPointer
  <2>2. FilesAgree' BY <1>7 DEF Consistent, ITypeOK, RedoPrevious, SetPointer
  <2>3. PhasesAgree' BY <1>7 DEF Consistent, ITypeOK, RedoPrevious, SetPointer
  <2>4. ActingAgrees' /\ InstallSteps' /\ RecoverySteps'
    BY <1>7 DEF Consistent, ITypeOK, RedoPrevious, SetPointer
  <2>5. OutcomeAgrees' BY <1>7 DEF Consistent, ITypeOK, RedoPrevious, SetPointer
  <2>. QED BY <2>1, <2>2, <2>3, <2>4, <2>5 DEF Consistent
<1>8. CASE RedoCurrent
  <2>1. ITypeOK' BY Typed, <1>8 DEF ITypeOK, RedoCurrent, SetPointer
  <2>2. FilesAgree' BY <1>8 DEF Consistent, ITypeOK, RedoCurrent, SetPointer
  <2>3. PhasesAgree' BY <1>8 DEF Consistent, ITypeOK, RedoCurrent, SetPointer
  <2>4. ActingAgrees' /\ InstallSteps' /\ RecoverySteps'
    BY <1>8 DEF Consistent, ITypeOK, RedoCurrent, SetPointer
  <2>5. OutcomeAgrees' BY <1>8 DEF Consistent, ITypeOK, RedoCurrent, SetPointer
  <2>. QED BY <2>1, <2>2, <2>3, <2>4, <2>5 DEF Consistent
<1>9. CASE EndRedo
  <2>1. ITypeOK' BY Typed, <1>9 DEF ITypeOK, EndRedo
  <2>2. FilesAgree' BY <1>9 DEF Consistent, ITypeOK, EndRedo
  <2>3. PhasesAgree' BY <1>9 DEF Consistent, ITypeOK, EndRedo
  <2>4. ActingAgrees' /\ InstallSteps' /\ RecoverySteps'
    BY <1>9 DEF Consistent, ITypeOK, EndRedo
  <2>5. OutcomeAgrees' BY <1>9 DEF Consistent, ITypeOK, EndRedo
  <2>. QED BY <2>1, <2>2, <2>3, <2>4, <2>5 DEF Consistent
<1>10. CASE RecoverRollback
  <2>0. /\ \/ rollbackLog = NoLog /\ Go("recover_rollback", "dispatch")
           \/ rollbackLog # NoLog /\ Go("recover_rollback", "swap_current")
        /\ UNCHANGED fsVars
    BY <1>10 DEF Consistent, RecoverRollback
  <2>1. ITypeOK' BY Typed, <2>0 DEF ITypeOK
  <2>2. FilesAgree' BY <2>0 DEF Consistent, ITypeOK
  <2>3. PhasesAgree' BY <2>0 DEF Consistent, ITypeOK
  <2>4. ActingAgrees' /\ InstallSteps' /\ RecoverySteps'
    BY <2>0 DEF Consistent, ITypeOK
  <2>5. OutcomeAgrees' BY <2>0 DEF Consistent, ITypeOK
  <2>. QED BY <2>1, <2>2, <2>3, <2>4, <2>5 DEF Consistent
<1>11. CASE SwapCurrent
  <2>1. ITypeOK' BY Typed, <1>11 DEF ITypeOK, SwapCurrent, SetPointer
  <2>2. FilesAgree' BY <1>11 DEF Consistent, ITypeOK, SwapCurrent, SetPointer
  <2>3. PhasesAgree' BY <1>11 DEF Consistent, ITypeOK, SwapCurrent, SetPointer
  <2>4. ActingAgrees' /\ InstallSteps' /\ RecoverySteps'
    BY <1>11 DEF Consistent, ITypeOK, SwapCurrent, SetPointer
  <2>5. OutcomeAgrees' BY <1>11 DEF Consistent, ITypeOK, SwapCurrent, SetPointer
  <2>. QED BY <2>1, <2>2, <2>3, <2>4, <2>5 DEF Consistent
<1>12. CASE SwapPrevious
  <2>1. ITypeOK' BY Typed, <1>12 DEF ITypeOK, SwapPrevious, SetPointer
  <2>2. FilesAgree' BY <1>12 DEF Consistent, ITypeOK, SwapPrevious, SetPointer
  <2>3. PhasesAgree' BY <1>12 DEF Consistent, ITypeOK, SwapPrevious, SetPointer
  <2>4. ActingAgrees' /\ InstallSteps' /\ RecoverySteps'
    BY <1>12 DEF Consistent, ITypeOK, SwapPrevious, SetPointer
  <2>5. OutcomeAgrees' BY <1>12 DEF Consistent, ITypeOK, SwapPrevious, SetPointer
  <2>. QED BY <2>1, <2>2, <2>3, <2>4, <2>5 DEF Consistent
<1>13. CASE EndSwap
  <2>1. ITypeOK'
    <3>1. FilesTyped' BY Typed, <1>13 DEF ITypeOK, EndSwap
    <3>2. CASE Ends("ok") BY <3>1, <3>2, EndsTyped, Zenon DEF ITypeOK
    <3>3. CASE Go("end_swap", "dispatch") BY Typed, <3>1, <3>3 DEF ITypeOK
    <3>. QED BY <1>13, <3>2, <3>3 DEF EndSwap
  <2>2. FilesAgree' BY <1>13 DEF Consistent, ITypeOK, EndSwap
  <2>3. PhasesAgree' BY <1>13 DEF Consistent, ITypeOK, EndSwap
  <2>4. ActingAgrees' /\ InstallSteps' /\ RecoverySteps'
    BY <1>13 DEF Consistent, ITypeOK, EndSwap
  <2>5. OutcomeAgrees' BY <1>13 DEF Consistent, ITypeOK, EndSwap
  <2>. QED BY <2>1, <2>2, <2>3, <2>4, <2>5 DEF Consistent
<1>. QED BY <1>1, <1>2, <1>3, <1>4, <1>5, <1>6, <1>7, <1>8, <1>9, <1>10, <1>11, <1>12, <1>13 DEF Recovery

\* finish_uninstall, from either of its callers.
LEMMA RemovalConsistent == ASSUME Consistent, Removal PROVE Consistent'
<1>1. CASE Finish
  <2>0. Go("finish", "rm_current") /\ UNCHANGED fsVars
    BY <1>1 DEF Consistent, Finish
  <2>1. ITypeOK' BY Typed, <2>0 DEF ITypeOK
  <2>2. FilesAgree' BY <2>0 DEF Consistent, ITypeOK
  <2>3. PhasesAgree' BY <2>0 DEF Consistent, ITypeOK
  <2>4. ActingAgrees' /\ InstallSteps' /\ RecoverySteps'
    BY <2>0 DEF Consistent, ITypeOK
  <2>5. OutcomeAgrees' BY <2>0 DEF Consistent, ITypeOK
  <2>. QED BY <2>1, <2>2, <2>3, <2>4, <2>5 DEF Consistent
<1>2. CASE RmCurrent
  <2>1. ITypeOK' BY Typed, <1>2 DEF ITypeOK, RmCurrent, SetPointer
  <2>2. FilesAgree' BY <1>2 DEF Consistent, ITypeOK, RmCurrent, SetPointer
  <2>3. PhasesAgree' BY <1>2 DEF Consistent, ITypeOK, RmCurrent, SetPointer
  <2>4. ActingAgrees' /\ InstallSteps' /\ RecoverySteps'
    BY <1>2 DEF Consistent, ITypeOK, RmCurrent, SetPointer
  <2>5. OutcomeAgrees' BY <1>2 DEF Consistent, ITypeOK, RmCurrent, SetPointer
  <2>. QED BY <2>1, <2>2, <2>3, <2>4, <2>5 DEF Consistent
<1>3. CASE RmPrevious
  <2>1. ITypeOK' BY Typed, <1>3 DEF ITypeOK, RmPrevious, SetPointer
  <2>2. FilesAgree' BY <1>3 DEF Consistent, ITypeOK, RmPrevious, SetPointer
  <2>3. PhasesAgree' BY <1>3 DEF Consistent, ITypeOK, RmPrevious, SetPointer
  <2>4. ActingAgrees' /\ InstallSteps' /\ RecoverySteps'
    BY <1>3 DEF Consistent, ITypeOK, RmPrevious, SetPointer
  <2>5. OutcomeAgrees' BY <1>3 DEF Consistent, ITypeOK, RmPrevious, SetPointer
  <2>. QED BY <2>1, <2>2, <2>3, <2>4, <2>5 DEF Consistent
<1>4. CASE RmReleases
  <2>1. ITypeOK' BY Typed, <1>4 DEF ITypeOK, RmReleases
  <2>2. FilesAgree' BY <1>4 DEF Consistent, ITypeOK, RmReleases
  <2>3. PhasesAgree' BY <1>4 DEF Consistent, ITypeOK, RmReleases
  <2>4. ActingAgrees' /\ InstallSteps' /\ RecoverySteps'
    BY <1>4 DEF Consistent, ITypeOK, RmReleases
  <2>5. OutcomeAgrees' BY <1>4 DEF Consistent, ITypeOK, RmReleases
  <2>. QED BY <2>1, <2>2, <2>3, <2>4, <2>5 DEF Consistent
<1>5. CASE RmRoot
  <2>0. root' \in BOOLEAN BY <1>5, Zenon DEF RmRoot
  <2>1. ITypeOK' BY Typed, <1>5, <2>0 DEF ITypeOK, RmRoot
  <2>2. FilesAgree' BY <1>5 DEF Consistent, ITypeOK, RmRoot
  <2>3. PhasesAgree' BY <1>5 DEF Consistent, ITypeOK, RmRoot
  <2>4. ActingAgrees' /\ InstallSteps' /\ RecoverySteps'
    BY <1>5 DEF Consistent, ITypeOK, RmRoot
  <2>5. OutcomeAgrees' BY <1>5 DEF Consistent, ITypeOK, RmRoot
  <2>. QED BY <2>1, <2>2, <2>3, <2>4, <2>5 DEF Consistent
<1>6. CASE RmMarker
  <2>1. ITypeOK' BY Typed, <1>6 DEF ITypeOK, RmMarker
  <2>2. FilesAgree' BY <1>6 DEF Consistent, ITypeOK, RmMarker
  <2>3. PhasesAgree' BY <1>6 DEF Consistent, ITypeOK, RmMarker
  <2>4. ActingAgrees' /\ InstallSteps' /\ RecoverySteps'
    BY <1>6 DEF Consistent, ITypeOK, RmMarker
  <2>5. OutcomeAgrees' BY <1>6 DEF Consistent, ITypeOK, RmMarker
  <2>. QED BY <2>1, <2>2, <2>3, <2>4, <2>5 DEF Consistent
<1>7. CASE EndUninstall
  <2>0. uninstallLog' \in BOOLEAN BY <1>7, Zenon DEF EndUninstall
  <2>1. ITypeOK'
    <3>0. FilesTyped' BY Typed, <1>7, <2>0 DEF ITypeOK, EndUninstall
    <3>1. CASE Ends("ok") \/ Ends("refused") BY <3>0, <3>1, EndsTyped, Zenon DEF ITypeOK
    <3>2. CASE Go("end_uninstall", "remark") BY Typed, <3>0, <3>2 DEF ITypeOK
    <3>. QED BY <1>7, <3>1, <3>2 DEF EndUninstall
  <2>2. FilesAgree' BY <1>7 DEF Consistent, ITypeOK, EndUninstall
  <2>3. PhasesAgree' BY <1>7 DEF Consistent, ITypeOK, EndUninstall
  <2>4. ActingAgrees' /\ InstallSteps' /\ RecoverySteps'
    BY <1>7 DEF Consistent, ITypeOK, EndUninstall
  <2>5. OutcomeAgrees' BY <1>7 DEF Consistent, ITypeOK, EndUninstall
  <2>. QED BY <2>1, <2>2, <2>3, <2>4, <2>5 DEF Consistent
<1>. QED BY <1>1, <1>2, <1>3, <1>4, <1>5, <1>6, <1>7 DEF Removal

\* The action itself, once recovery has left no journal.
LEMMA DispatchConsistent == ASSUME Consistent, Dispatch PROVE Consistent'
<1>1. ipc = "dispatch" /\ Resting /\ ~stage /\ ~acting BY DEF Consistent, Dispatch
<1>2. \/ ShowStatus \/ Reinstall \/ StartInstall
      \/ RefuseRollback \/ StartRollback \/ StartUninstall
  BY DEF Consistent, Dispatch
<1>3. CASE ShowStatus BY <1>1, <1>3, Ending DEF ShowStatus
<1>4. CASE Reinstall BY <1>1, <1>4, Ending DEF Reinstall
<1>5. CASE RefuseRollback BY <1>5, Ending DEF RefuseRollback
<1>6. CASE StartInstall
  <2>1. ITypeOK' BY Typed, <1>1, <1>6 DEF ITypeOK, StartInstall
  <2>2. FilesAgree' BY <1>1, <1>6 DEF Consistent, ITypeOK, StartInstall
  <2>3. PhasesAgree' BY <1>1, <1>6 DEF Consistent, ITypeOK, StartInstall
  <2>4. ActingAgrees' /\ InstallSteps' /\ RecoverySteps'
    BY <1>1, <1>6 DEF Consistent, ITypeOK, StartInstall
  <2>5. OutcomeAgrees' BY <1>1, <1>6 DEF Consistent, ITypeOK, StartInstall
  <2>. QED BY <2>1, <2>2, <2>3, <2>4, <2>5 DEF Consistent
<1>7. CASE StartRollback
  <2>1. ITypeOK' BY Typed, <1>1, <1>7 DEF ITypeOK, StartRollback
  <2>2. FilesAgree' BY <1>1, <1>7 DEF Consistent, ITypeOK, StartRollback
  <2>3. PhasesAgree' BY <1>1, <1>7 DEF Consistent, ITypeOK, StartRollback
  <2>4. ActingAgrees' /\ InstallSteps' /\ RecoverySteps'
    BY <1>1, <1>7 DEF Consistent, ITypeOK, StartRollback
  <2>5. OutcomeAgrees' BY <1>1, <1>7 DEF Consistent, ITypeOK, StartRollback
  <2>. QED BY <2>1, <2>2, <2>3, <2>4, <2>5 DEF Consistent
<1>8. CASE StartUninstall
  <2>0. /\ action = "uninstall" /\ ipc' = "finish" /\ acting' = TRUE
        /\ old' = current /\ prior' = previous /\ uninstallLog' = TRUE
        /\ UNCHANGED <<dir, marker, root, release, stage, current, previous,
                       installLog, rollbackLog, action, expected, outcome>>
    BY <1>1, <1>8 DEF Consistent, StartUninstall
  <2>1. ITypeOK' BY Typed, <2>0 DEF ITypeOK
  <2>2. FilesAgree' BY <1>1, <2>0 DEF Consistent, ITypeOK
  <2>3. PhasesAgree' BY <1>1, <2>0 DEF Consistent, ITypeOK
  <2>4. ActingAgrees' /\ InstallSteps' /\ RecoverySteps'
    BY <1>1, <2>0 DEF Consistent, ITypeOK
  <2>5. OutcomeAgrees' BY <1>1, <2>0 DEF Consistent, ITypeOK
  <2>. QED BY <2>1, <2>2, <2>3, <2>4, <2>5 DEF Consistent
<1>. QED BY <1>2, <1>3, <1>4, <1>5, <1>6, <1>7, <1>8

\* The steps of an install after its stage was created.
LEMMA OperationConsistent == ASSUME Consistent, Operation PROVE Consistent'
<1>1. CASE Dispatch BY <1>1, DispatchConsistent
<1>2. CASE VerifyStage
  <2>1. CASE Exits("refused") BY <2>1, Ending
  <2>2. CASE Go("verify", "publish") /\ UNCHANGED fsVars
    <3>1. ITypeOK' BY Typed, <2>2 DEF ITypeOK
    <3>2. FilesAgree' /\ PhasesAgree' BY <2>2 DEF Consistent
    <3>3. ActingAgrees' /\ InstallSteps' /\ RecoverySteps' BY <2>2 DEF Consistent
    <3>4. OutcomeAgrees' BY <2>2 DEF Consistent
    <3>. QED BY <3>1, <3>2, <3>3, <3>4 DEF Consistent
  <2>. QED BY <1>2, <2>1, <2>2 DEF VerifyStage
<1>3. CASE Publish
  <2>1. /\ expected \in Digests /\ acting /\ root /\ marker = "owned"
        /\ release[expected] # "none" => Sound(expected)
    BY <1>3 DEF Consistent, ITypeOK, Publish
  <2>2. /\ Go("publish", "commit")
        /\ release' = [release EXCEPT ![expected] = "complete"]
        /\ stage' = FALSE \/ stage' = stage
        /\ UNCHANGED <<dir, marker, root, current, previous, installLog,
                       rollbackLog, uninstallLog>>
    <3>1. CASE release[expected] = "none" BY <1>3, <3>1 DEF Publish
    <3>2. CASE release[expected] # "none"
      <4>1. Go("publish", "commit") /\ UNCHANGED fsVars BY <1>3, <2>1, <3>2 DEF Publish
      <4>2. release = [release EXCEPT ![expected] = "complete"]
        BY <2>1, <3>2 DEF Consistent, ITypeOK
      <4>. QED BY <4>1, <4>2
    <3>. QED BY <3>1, <3>2
  <2>3. stage' \in BOOLEAN /\ (stage' => stage)
    <3>1. stage \in BOOLEAN BY DEF Consistent, ITypeOK
    <3>2. CASE stage' = FALSE BY <3>2, Zenon
    <3>3. CASE stage' = stage BY <3>1, <3>3
    <3>. QED BY <2>2, <3>2, <3>3
  <2>4. ITypeOK' BY Typed, <2>1, <2>2, <2>3 DEF ITypeOK
  <2>5. \A d \in Digests : Sound(d) => release'[d] = "complete"
    BY <2>2 DEF Consistent, ITypeOK
  <2>6. FilesAgree' BY <2>1, <2>2, <2>5 DEF Consistent, ITypeOK
  <2>7. PhasesAgree' BY <2>1, <2>2, <2>3 DEF Consistent
  <2>8. ActingAgrees' /\ RecoverySteps' BY <2>1, <2>2 DEF Consistent
  <2>9. InstallSteps' BY <2>1, <2>2 DEF Consistent, ITypeOK
  <2>10. OutcomeAgrees' BY <2>1, <2>2 DEF Consistent
  <2>. QED BY <2>4, <2>6, <2>7, <2>8, <2>9, <2>10 DEF Consistent
<1>4. CASE CommitInstall
  <2>1. ITypeOK' BY <1>4 DEF Consistent, ITypeOK, CommitInstall
  <2>2. FilesAgree' BY <1>4 DEF Consistent, ITypeOK, CommitInstall
  <2>3. PhasesAgree' BY <1>4 DEF Consistent, ITypeOK, CommitInstall
  <2>4. ActingAgrees' /\ InstallSteps' /\ RecoverySteps'
    BY <1>4 DEF Consistent, ITypeOK, CommitInstall
  <2>5. OutcomeAgrees' BY <1>4 DEF Consistent, ITypeOK, CommitInstall
  <2>. QED BY <2>1, <2>2, <2>3, <2>4, <2>5 DEF Consistent
<1>5. CASE KeepOld
  <2>1. ITypeOK' BY Typed, <1>5 DEF ITypeOK, KeepOld, SetPointer
  <2>2. FilesAgree' BY <1>5 DEF Consistent, ITypeOK, KeepOld, SetPointer
  <2>3. PhasesAgree' BY <1>5 DEF Consistent, ITypeOK, KeepOld, SetPointer
  <2>4. ActingAgrees' /\ InstallSteps' /\ RecoverySteps'
    BY <1>5 DEF Consistent, ITypeOK, KeepOld, SetPointer
  <2>5. OutcomeAgrees' BY <1>5 DEF Consistent, ITypeOK, KeepOld, SetPointer
  <2>. QED BY <2>1, <2>2, <2>3, <2>4, <2>5 DEF Consistent
<1>6. CASE SelectNew
  <2>1. ITypeOK' BY Typed, <1>6 DEF ITypeOK, SelectNew, SetPointer
  <2>2. FilesAgree' BY <1>6 DEF Consistent, ITypeOK, SelectNew, SetPointer
  <2>3. PhasesAgree' BY <1>6 DEF Consistent, ITypeOK, SelectNew, SetPointer
  <2>4. ActingAgrees' /\ InstallSteps' /\ RecoverySteps'
    BY <1>6 DEF Consistent, ITypeOK, SelectNew, SetPointer
  <2>5. OutcomeAgrees' BY <1>6 DEF Consistent, ITypeOK, SelectNew, SetPointer
  <2>. QED BY <2>1, <2>2, <2>3, <2>4, <2>5 DEF Consistent
<1>7. CASE EndInstall
  <2>1. ITypeOK' BY Typed, <1>7 DEF ITypeOK, EndInstall
  <2>2. FilesAgree' BY <1>7 DEF Consistent, ITypeOK, EndInstall
  <2>3. PhasesAgree' BY <1>7 DEF Consistent, ITypeOK, EndInstall
  <2>4. ActingAgrees' /\ InstallSteps' /\ RecoverySteps'
    BY <1>7 DEF Consistent, ITypeOK, EndInstall
  <2>5. OutcomeAgrees' BY <1>7 DEF Consistent, ITypeOK, EndInstall
  <2>. QED BY <2>1, <2>2, <2>3, <2>4, <2>5 DEF Consistent
<1>. QED BY <1>1, <1>2, <1>3, <1>4, <1>5, <1>6, <1>7 DEF Operation

\* Every kind of step.
LEMMA StepConsistent == ASSUME Consistent, [INext]_ivars PROVE Consistent'
<1>1. CASE Crash BY <1>1, Ending DEF Crash
<1>2. CASE UNCHANGED ivars
  <2>1. ITypeOK' BY Typed, <1>2 DEF ITypeOK, ivars
  <2>2. FilesAgree' /\ PhasesAgree' BY <1>2 DEF Consistent, ivars
  <2>3. ActingAgrees' /\ InstallSteps' /\ RecoverySteps' BY <1>2 DEF Consistent, ivars
  <2>4. OutcomeAgrees' BY <1>2 DEF Consistent, ivars
  <2>. QED BY <2>1, <2>2, <2>3, <2>4 DEF Consistent
<1>. QED
  BY <1>1, <1>2, InvokeConsistent, RecoveryConsistent, OperationConsistent,
     RemovalConsistent
  DEF INext

LEMMA InitConsistent == IInit => Consistent
<1>. SUFFICES ASSUME IInit PROVE Consistent OBVIOUS
<1>1. ITypeOK BY DEF IInit, ITypeOK
<1>2. FilesAgree /\ PhasesAgree BY DEF IInit
<1>3. ActingAgrees /\ InstallSteps /\ RecoverySteps /\ OutcomeAgrees BY DEF IInit
<1>. QED BY <1>1, <1>2, <1>3 DEF Consistent

-----------------------------------------------------------------------------
\* Whatever the operations and wherever they are killed, journals, links,
\* releases and marker stay consistent with each other and with the step the
\* script is at.
THEOREM InstallerInductive == ISpec => []Consistent
<1>1. IInit => Consistent BY InitConsistent
<1>2. Consistent /\ [INext]_ivars => Consistent' BY StepConsistent
<1>. QED BY <1>1, <1>2, PTL DEF ISpec

\* The two links always lead to complete releases, even between the two
\* renames of an operation and after a kill.
THEOREM InstalledIsRunnable == ISpec => []LinksAreRunnable
<1>1. Consistent => LinksAreRunnable BY DEF Consistent
<1>. QED BY <1>1, InstallerInductive, PTL

\* No test of the recovery ever turns away what an interruption left.
THEOREM RecoverySucceeds == ISpec => []RecoveryAccepts
<1>1. Consistent => RecoveryAccepts BY DEF Consistent
<1>. QED BY <1>1, InstallerInductive, PTL

\* An invocation turned away by check_marker finds no link and no release.
THEOREM StrandedIsEmpty == ISpec => []StrandedHoldsNothing
<1>1. Consistent => StrandedHoldsNothing BY DEF Consistent, ITypeOK, StrandedHoldsNothing
<1>. QED BY <1>1, InstallerInductive, PTL

-----------------------------------------------------------------------------
\* What AtomicInstall sees.
Pair == <<Selected, Retained>>

\* A step that changes neither links nor journals is not seen.
LEMMA Unseen ==
  ASSUME UNCHANGED <<current, previous, installLog, rollbackLog, uninstallLog>>
  PROVE  UNCHANGED Pair
BY DEF Pair, Selected, Retained

\* The journal's rename is the operation; the links follow unseen, and when
\* the journal goes they say what it said.
LEMMA StepAtomic ==
  ASSUME Consistent, [INext]_ivars
  PROVE  Atomic!Next \/ UNCHANGED Pair
<1>1. CASE UNCHANGED ivars BY <1>1, Unseen DEF ivars
<1>2. CASE Crash BY <1>2, Unseen DEF Crash
<1>3. CASE Invoke BY <1>3, Unseen DEF Invoke, NoDirectory, Begin
<1>4. CASE Recovery
  <2>1. CASE \/ CheckMarker("marker") \/ CheckMarker("remark") \/ WriteMarker
             \/ MakeRoot \/ CleanupStages \/ CheckJournals
             \/ RecoverInstall \/ RecoverRollback
    BY <2>1, Unseen DEF CheckMarker, WriteMarker, MakeRoot, CleanupStages,
       CheckJournals, RecoverInstall, RecoverRollback
  <2>2. CASE RedoPrevious \/ RedoCurrent
    BY <2>2 DEF Consistent, RedoPrevious, RedoCurrent, SetPointer, Pair, Selected, Retained
  <2>3. CASE EndRedo
    BY <2>3 DEF Consistent, ITypeOK, EndRedo, Pair, Selected, Retained
  <2>4. CASE SwapCurrent \/ SwapPrevious
    BY <2>4 DEF Consistent, SwapCurrent, SwapPrevious, SetPointer, Pair, Selected, Retained
  <2>5. CASE EndSwap
    BY <2>5 DEF Consistent, ITypeOK, EndSwap, Pair, Selected, Retained
  <2>. QED BY <1>4, <2>1, <2>2, <2>3, <2>4, <2>5 DEF Recovery
<1>5. CASE Operation
  <2>1. CASE Dispatch
    <3>1. ipc = "dispatch" /\ Resting BY <2>1 DEF Consistent, Dispatch
    <3>2. CASE StartRollback
      <4>1. Atomic!Rollback
        BY <3>1, <3>2 DEF Consistent, ITypeOK, StartRollback, Selected, Retained, Atomic!Rollback
      <4>. QED BY <4>1 DEF Atomic!Next
    <3>3. CASE StartUninstall
      <4>1. Atomic!Uninstall \/ UNCHANGED Pair
        BY <3>1, <3>3, Unseen DEF StartUninstall, Selected, Retained, Atomic!Uninstall
      <4>. QED BY <4>1 DEF Atomic!Next
    <3>4. CASE UNCHANGED <<current, previous, installLog, rollbackLog, uninstallLog>>
      BY <3>4, Unseen
    <3>. QED
      BY <2>1, <3>2, <3>3, <3>4 DEF Dispatch, ShowStatus, Reinstall, StartInstall, RefuseRollback
  <2>2. CASE VerifyStage \/ Publish BY <2>2, Unseen DEF VerifyStage, Publish
  <2>3. CASE CommitInstall
    <3>1. expected \in Digests /\ Atomic!Install(expected)
      BY <2>3 DEF Consistent, ITypeOK, CommitInstall, Selected, Retained, Atomic!Install
    <3>. QED BY <3>1 DEF Atomic!Next
  <2>4. CASE KeepOld \/ SelectNew
    BY <2>4 DEF Consistent, ITypeOK, KeepOld, SelectNew, SetPointer, Pair, Selected, Retained
  <2>5. CASE EndInstall
    BY <2>5 DEF Consistent, ITypeOK, EndInstall, Pair, Selected, Retained
  <2>. QED BY <1>5, <2>1, <2>2, <2>3, <2>4, <2>5 DEF Operation
<1>6. CASE Removal
  <2>1. CASE Finish \/ RmReleases \/ RmRoot \/ RmMarker
    BY <2>1, Unseen DEF Finish, RmReleases, RmRoot, RmMarker
  <2>2. CASE RmCurrent \/ RmPrevious
    BY <2>2 DEF Consistent, RmCurrent, RmPrevious, SetPointer, Pair, Selected, Retained
  <2>3. CASE EndUninstall
    BY <2>3 DEF Consistent, EndUninstall, Pair, Selected, Retained
  <2>. QED BY <1>6, <2>1, <2>2, <2>3 DEF Removal
<1>. QED BY <1>1, <1>2, <1>3, <1>4, <1>5, <1>6 DEF INext

\* The script implements AtomicInstall for every set of releases: an operation
\* that is killed has happened or has not, and recovery never undoes it.
THEOREM InstallIsAtomic == ISpec => AtomicSpec
<1>1. IInit => Atomic!Init BY DEF IInit, Atomic!Init, Selected, Retained
<1>2. Consistent /\ [INext]_ivars => [Atomic!Next]_Pair BY StepAtomic
<1>. QED
  BY <1>1, <1>2, InstallerInductive, PTL DEF ISpec, AtomicSpec, Atomic!Spec, Atomic!vars, Pair

\* An invocation that reports success has done what was asked of it.
LEMMA StepDelivers ==
  ASSUME Consistent, [INext]_ivars,
         ipc # "idle", ipc' = "idle", outcome' = "ok"
  PROVE  /\ action = "install" => current' = expected
         /\ action = "rollback" => current' = prior /\ previous' = old
         /\ action = "uninstall" =>
               /\ Unoccupied' /\ marker' = "none"
               /\ \A d \in Digests : release'[d] = "none"
<1>1. \/ Dispatch \/ EndSwap \/ EndInstall \/ EndUninstall
  <2>1. ~Crash /\ ~Invoke BY DEF Crash, Invoke, NoDirectory, Begin
  <2>2. Recovery => EndSwap
    BY DEF Consistent, Recovery, CheckMarker, WriteMarker, MakeRoot, CleanupStages,
       CheckJournals, RecoverInstall, RedoPrevious, RedoCurrent, EndRedo,
       RecoverRollback, SwapCurrent, SwapPrevious, SetPointer
  <2>3. Operation => Dispatch \/ EndInstall
    BY DEF Consistent, Operation, VerifyStage, Publish, CommitInstall, KeepOld,
       SelectNew, SetPointer
  <2>4. Removal => EndUninstall
    BY DEF Consistent, Removal, Finish, RmCurrent, RmPrevious, RmReleases, RmRoot,
       RmMarker, SetPointer
  <2>. QED BY <2>1, <2>2, <2>3, <2>4 DEF INext, ivars
<1>2. CASE Dispatch
  BY <1>2 DEF Consistent, Dispatch, ShowStatus, Reinstall, StartInstall,
     RefuseRollback, StartRollback, StartUninstall
<1>3. CASE EndSwap BY <1>3 DEF Consistent, ITypeOK, EndSwap
<1>4. CASE EndInstall BY <1>4 DEF Consistent, EndInstall
<1>5. CASE EndUninstall BY <1>5 DEF Consistent, EndUninstall
<1>. QED BY <1>1, <1>2, <1>3, <1>4, <1>5

\* A successful install selected the release, a successful rollback swapped the
\* links it found after recovery, a successful uninstall left nothing.
THEOREM SuccessIsReal == ISpec => SuccessDelivers
<1>1. Consistent /\ [INext]_ivars =>
        [ipc # "idle" /\ ipc' = "idle" /\ outcome' = "ok" =>
          /\ action = "install" => current' = expected
          /\ action = "rollback" => current' = prior /\ previous' = old
          /\ action = "uninstall" =>
                /\ Unoccupied' /\ marker' = "none"
                /\ \A d \in Digests : release'[d] = "none"]_ivars
  BY StepDelivers
<1>. QED BY <1>1, InstallerInductive, PTL DEF ISpec, SuccessDelivers

=============================================================================
