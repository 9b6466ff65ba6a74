--------------------------- MODULE LinuxInstaller ---------------------------
(***************************************************************************)
(* scripts/install-linux.sh: install, rollback, status and uninstall of    *)
(* digest-addressed releases behind two symbolic links, with a journal per *)
(* operation.  The whole script runs under an exclusive flock, so there is *)
(* one invocation at a time; the difficulty is that an invocation may end  *)
(* between any two changes of the file system, and that the next one,      *)
(* which may be a different operation, must finish what it finds.          *)
(*                                                                         *)
(* A step makes at most one change to the file system; the tests before    *)
(* the change are part of it.  Renames are atomic.  Not modelled: what     *)
(* other programs do to the directory, the loss of unsynced data, and the  *)
(* temporary links and journals a crash leaves under names of their own.   *)
(***************************************************************************)
CONSTANTS Digests, None

ASSUME InstallerAssumption == None \notin Digests

VARIABLES
    \* the file system under the install directory
    dir,        \* does the directory exist?
    marker,     \* "none", "empty" (created, not yet written), "owned"
    root,       \* the release directory exists
    release,    \* per digest: "none", "complete", or "hollow" (file removed)
    stage,      \* a .stage.* directory exists
    current, previous,   \* the links: a digest or None
    installLog,    \* install_journal: None or [to, from]
    rollbackLog,   \* journal: None or [to, from]
    uninstallLog,  \* uninstall_journal exists
    \* the invocation that holds the lock
    ipc,        \* where it is
    action, expected,   \* its arguments
    old, prior,         \* what it read from the links
    acting,     \* has it passed recovery?
    outcome     \* how the last invocation ended

fsVars  == <<dir, marker, root, release, stage, current, previous,
             installLog, rollbackLog, uninstallLog>>
runVars == <<action, expected, old, prior, acting>>
ivars   == <<fsVars, ipc, runVars, outcome>>

Actions == {"install", "rollback", "status", "uninstall"}
Pointers == Digests \cup {None}
Logs == [to : Digests, from : Pointers]
NoLog == [to |-> None, from |-> None]

\* pc values: recovery, the four operations, and the parts they share.
InstallPcs == {"verify", "publish", "commit", "keep_old", "select_new",
               "end_install"}
RecoverPcs == {"recover_install", "redo_previous", "redo_current", "end_redo",
               "recover_rollback", "swap_current", "swap_previous", "end_swap"}
RemovalPcs == {"finish", "rm_current", "rm_previous", "rm_releases", "rm_root",
               "rm_marker", "end_uninstall"}
IPcs == {"idle", "marker", "write_marker", "root", "stages", "journals",
         "remark", "dispatch"} \cup InstallPcs \cup RecoverPcs \cup RemovalPcs

IInit ==
    /\ dir = FALSE /\ marker = "none" /\ root = FALSE
    /\ release = [d \in Digests |-> "none"]
    /\ stage = FALSE /\ current = None /\ previous = None
    /\ installLog = NoLog /\ rollbackLog = NoLog /\ uninstallLog = FALSE
    /\ ipc = "idle" /\ action = "status" /\ expected = None
    /\ old = None /\ prior = None /\ acting = FALSE /\ outcome = "ok"

-----------------------------------------------------------------------------
\* Move to a step with the arguments and what was read unchanged.
Go(from, to) ==
    /\ ipc = from /\ ipc' = to
    /\ UNCHANGED <<runVars, outcome>>

\* The invocation ends; its variables are gone.
Ends(how) ==
    /\ ipc' = "idle" /\ outcome' = how
    /\ action' = "status" /\ expected' = None
    /\ old' = None /\ prior' = None /\ acting' = FALSE

\* The EXIT trap of an install that has created its stage.
TrapStage ==
    stage' = (stage /\ ~(acting /\ action = "install"))

FsExceptStage == <<dir, marker, root, release, current, previous, installLog,
                   rollbackLog, uninstallLog>>

\* die, or the end of the script: the trap runs.
Exits(how) ==
    /\ Ends(how)
    /\ TrapStage
    /\ UNCHANGED FsExceptStage

\* A test that no interruption should make fail; the script dies if it does.
Insist(test, step) == IF test THEN step ELSE Exits("failed")

\* assert_release, and pointer_digest of a link that may be absent.
Sound(d) == release[d] = "complete"
SoundPointer(p) == p = None \/ Sound(p)

-----------------------------------------------------------------------------
(* From the arguments to the journals.                                     *)

\* Without the directory only install goes on.
NoDirectory(a) ==
    /\ ipc = "idle" /\ ~dir /\ a # "install"
    /\ outcome' = IF a = "rollback" THEN "refused" ELSE "ok"
    /\ UNCHANGED <<fsVars, ipc, runVars>>

\* ensure_directory_chain, then the lock.  An artifact whose digest is not the
\* expected one never gets here.
Begin(a, d) ==
    /\ ipc = "idle" /\ (dir \/ a = "install")
    /\ ipc' = "marker" /\ dir' = TRUE
    /\ action' = a /\ expected' = IF a = "install" THEN d ELSE None
    /\ UNCHANGED <<marker, root, release, stage, current, previous, installLog,
                   rollbackLog, uninstallLog, old, prior, acting, outcome>>

Unoccupied ==
    /\ current = None /\ previous = None /\ ~root
    /\ installLog = NoLog /\ rollbackLog = NoLog /\ ~uninstallLog

\* check_marker, before recovery (from = "marker") and after an interrupted
\* uninstall was finished (from = "remark"; the steps up to recover_install
\* that follow then only make the release directory).
CheckMarker(from) ==
    /\ ipc = from
    /\ \/ /\ marker = "owned"
          /\ Go(from, "root") /\ UNCHANGED fsVars
       \/ /\ marker = "none" /\ Unoccupied /\ action # "install"
          /\ Go(from, "root") /\ UNCHANGED fsVars
       \/ /\ marker = "none" /\ Unoccupied /\ action = "install"
          /\ Go(from, "write_marker") /\ marker' = "empty"
          /\ UNCHANGED <<dir, root, release, stage, current, previous, installLog,
                         rollbackLog, uninstallLog>>
       \/ /\ marker = "empty" \/ (marker = "none" /\ ~Unoccupied)
          /\ Exits("stranded")

\* The redirection created the file; printf fills it.
WriteMarker ==
    /\ Go("write_marker", "root")
    /\ marker' = "owned"
    /\ UNCHANGED <<dir, root, release, stage, current, previous, installLog,
                   rollbackLog, uninstallLog>>

MakeRoot ==
    /\ Go("root", "stages")
    /\ root' = (root \/ action = "install")
    /\ UNCHANGED <<dir, marker, release, stage, current, previous, installLog,
                   rollbackLog, uninstallLog>>

CleanupStages ==
    /\ Go("stages", "journals")
    /\ stage' = FALSE
    /\ UNCHANGED FsExceptStage

\* An interrupted uninstall is finished before anything else; at most one
\* journal may exist.
CheckJournals ==
    /\ ipc = "journals"
    /\ Insist(IF uninstallLog THEN installLog = NoLog /\ rollbackLog = NoLog
                              ELSE NoLog \in {installLog, rollbackLog},
              /\ Go("journals", IF uninstallLog THEN "finish" ELSE "recover_install")
              /\ UNCHANGED fsVars)

-----------------------------------------------------------------------------
(* recover_install and recover_rollback.                                   *)

SetPointer(from, to, link, digest) ==
    /\ Go(from, to)
    /\ IF link = "current" THEN current' = digest /\ UNCHANGED previous
                           ELSE previous' = digest /\ UNCHANGED current
    /\ UNCHANGED <<dir, marker, root, release, stage, installLog, rollbackLog,
                   uninstallLog>>

\* Mutant: the link may not have been changed yet.
InstallLinksUnmoved ==
    /\ Sound(installLog.to) /\ SoundPointer(current) /\ SoundPointer(previous)
    /\ current = installLog.from

\* The links an interrupted install may have left.
InstallLinks ==
    /\ Sound(installLog.to) /\ SoundPointer(current) /\ SoundPointer(previous)
    /\ IF installLog.from = None
       THEN previous = None /\ current \in {None, installLog.to}
       ELSE /\ Sound(installLog.from)
            /\ current \in {installLog.to, installLog.from}
            /\ current = installLog.to => previous = installLog.from

RecoverInstall ==
    /\ ipc = "recover_install"
    /\ \/ /\ installLog = NoLog
          /\ Go("recover_install", "recover_rollback") /\ UNCHANGED fsVars
       \/ /\ installLog # NoLog
          /\ Insist(InstallLinks,
                /\ Go("recover_install", IF installLog.from = None THEN "redo_current"
                                                                   ELSE "redo_previous")
                /\ UNCHANGED fsVars)

RedoPrevious ==
    SetPointer("redo_previous", "redo_current", "previous", installLog.from)

RedoCurrent == SetPointer("redo_current", "end_redo", "current", installLog.to)

EndRedo ==
    /\ Go("end_redo", "recover_rollback")
    /\ installLog' = NoLog
    /\ UNCHANGED <<dir, marker, root, release, stage, current, previous,
                   rollbackLog, uninstallLog>>

\* The links an interrupted rollback may have left.
RollbackLinks ==
    LET to == rollbackLog.to from == rollbackLog.from IN
    /\ Sound(to) /\ Sound(from) /\ SoundPointer(current) /\ SoundPointer(previous)
    /\ \/ current = from /\ previous = to
       \/ current = to /\ previous \in {to, from}

RecoverRollback ==
    /\ ipc = "recover_rollback"
    /\ \/ /\ rollbackLog = NoLog
          /\ Go("recover_rollback", "dispatch") /\ UNCHANGED fsVars
       \/ /\ rollbackLog # NoLog
          /\ Insist(RollbackLinks, Go("recover_rollback", "swap_current") /\ UNCHANGED fsVars)

SwapCurrent == SetPointer("swap_current", "swap_previous", "current", rollbackLog.to)

SwapPrevious == SetPointer("swap_previous", "end_swap", "previous", rollbackLog.from)

\* recover_rollback returns to the recovery phase or to the rollback itself.
EndSwap ==
    /\ ipc = "end_swap"
    /\ rollbackLog' = NoLog
    /\ IF acting THEN Ends("ok") ELSE Go("end_swap", "dispatch")
    /\ UNCHANGED <<dir, marker, root, release, stage, current, previous,
                   installLog, uninstallLog>>

-----------------------------------------------------------------------------
(* The four operations.                                                    *)

ShowStatus == action = "status" /\ Exits("ok")

\* Mutant: a release on disk counts as installed.
ReinstallUnselected ==
    /\ action = "install" /\ release[expected] = "complete"
    /\ \E how \in {"ok", "refused"} : Exits(how)

\* Already installed: manifest and health are checked again.
Reinstall ==
    /\ action = "install" /\ current = expected
    /\ \E how \in {"ok", "refused"} : Exits(how)

\* mktemp -d for the stage; the trap is armed from here on.
StartInstall ==
    /\ action = "install" /\ current # expected
    /\ ipc' = "verify" /\ acting' = TRUE /\ old' = current /\ prior' = previous
    /\ stage' = TRUE
    /\ UNCHANGED <<FsExceptStage, action, expected, outcome>>

RefuseRollback ==
    /\ action = "rollback"
    /\ None \in {current, previous} \/ current = previous
    /\ Exits("refused")

StartRollback ==
    /\ action = "rollback"
    /\ None \notin {current, previous} /\ current # previous
    /\ ipc' = "recover_rollback" /\ acting' = TRUE
    /\ old' = current /\ prior' = previous
    /\ rollbackLog' = [to |-> previous, from |-> current]
    /\ UNCHANGED <<dir, marker, root, release, stage, current, previous,
                   installLog, uninstallLog, action, expected, outcome>>

\* validate_release_tree no, then the journal.
StartUninstall ==
    /\ action = "uninstall"
    /\ Insist(root => ~stage /\ \A d \in Digests : release[d] # "hollow",
          /\ ipc' = "finish" /\ acting' = TRUE
          /\ old' = current /\ prior' = previous
          /\ uninstallLog' = TRUE
          /\ UNCHANGED <<dir, marker, root, release, stage, current, previous,
                         installLog, rollbackLog, action, expected, outcome>>)

\* pointer_digest of both links, then the action.
Dispatch ==
    /\ ipc = "dispatch"
    /\ Insist(SoundPointer(current) /\ SoundPointer(previous),
              \/ ShowStatus \/ Reinstall \/ StartInstall
              \/ RefuseRollback \/ StartRollback \/ StartUninstall)

\* Copy, digest, manifest and health check of the staged executable.
VerifyStage ==
    /\ ipc = "verify"
    /\ \/ Go("verify", "publish") /\ UNCHANGED fsVars
       \/ Exits("refused")

\* The stage becomes the release, unless the release is there already.
Publish ==
    /\ ipc = "publish"
    /\ \/ /\ release[expected] = "none"
          /\ Go("publish", "commit")
          /\ release' = [release EXCEPT ![expected] = "complete"]
          /\ stage' = FALSE
          /\ UNCHANGED <<dir, marker, root, current, previous, installLog,
                         rollbackLog, uninstallLog>>
       \/ /\ release[expected] # "none"
          /\ Insist(Sound(expected), Go("publish", "commit") /\ UNCHANGED fsVars)

\* The journal is renamed into place: from here on the install will happen.
CommitInstall ==
    /\ Go("commit", IF old = None THEN "select_new" ELSE "keep_old")
    /\ installLog' = [to |-> expected, from |-> old]
    /\ UNCHANGED <<dir, marker, root, release, stage, current, previous,
                   rollbackLog, uninstallLog>>

\* Mutant: the release before the old one is retained.
KeepPrior == SetPointer("keep_old", "select_new", "previous", prior)

KeepOld == SetPointer("keep_old", "select_new", "previous", old)

SelectNew == SetPointer("select_new", "end_install", "current", expected)

EndInstall ==
    /\ ipc = "end_install"
    /\ Ends("ok")
    /\ installLog' = NoLog
    /\ TrapStage
    /\ UNCHANGED <<dir, marker, root, release, current, previous, rollbackLog,
                   uninstallLog>>

-----------------------------------------------------------------------------
(* finish_uninstall.                                                       *)

\* Mutant: the releases go before the links.
FinishReleasesFirst ==
    /\ ipc = "finish"
    /\ Insist(root => ~stage, Go("finish", "rm_releases") /\ UNCHANGED fsVars)

\* validate_release_tree yes accepts hollow releases; a stage is not one.
Finish ==
    /\ ipc = "finish"
    /\ Insist(root => ~stage, Go("finish", "rm_current") /\ UNCHANGED fsVars)

RmCurrent == SetPointer("rm_current", "rm_previous", "current", None)

RmPrevious == SetPointer("rm_previous", "rm_releases", "previous", None)

\* Per release: remove the file, then its directory.
RmReleases ==
    /\ ipc = "rm_releases"
    /\ \/ \E d \in Digests :
             /\ release[d] # "none"
             /\ Go("rm_releases", "rm_releases")
             /\ release' = [release EXCEPT
                              ![d] = IF @ = "complete" THEN "hollow" ELSE "none"]
       \/ /\ \A d \in Digests : release[d] = "none"
          /\ Go("rm_releases", "rm_root") /\ UNCHANGED release
    /\ UNCHANGED <<dir, marker, root, stage, current, previous, installLog,
                   rollbackLog, uninstallLog>>

RmRoot ==
    /\ Go("rm_root", "rm_marker")
    /\ root' = FALSE
    /\ UNCHANGED <<dir, marker, release, stage, current, previous, installLog,
                   rollbackLog, uninstallLog>>

RmMarker ==
    /\ Go("rm_marker", "end_uninstall")
    /\ marker' = "none"
    /\ UNCHANGED <<dir, root, release, stage, current, previous, installLog,
                   rollbackLog, uninstallLog>>

\* The journal goes last; an install that found it starts afresh.
EndUninstall ==
    /\ ipc = "end_uninstall"
    /\ uninstallLog' = FALSE
    /\ \/ acting /\ Ends("ok")
       \/ ~acting /\ action \in {"status", "uninstall"} /\ Ends("ok")
       \/ ~acting /\ action = "rollback" /\ Ends("refused")
       \/ ~acting /\ action = "install" /\ Go("end_uninstall", "remark")
    /\ UNCHANGED <<dir, marker, root, release, stage, current, previous,
                   installLog, rollbackLog>>

-----------------------------------------------------------------------------
\* The invocation is killed, or a command fails and set -e ends it; only the
\* second runs the trap.
Crash ==
    /\ ipc # "idle"
    /\ Ends("crashed")
    /\ TrapStage \/ UNCHANGED stage
    /\ UNCHANGED FsExceptStage

Invoke ==
    \E a \in Actions : NoDirectory(a) \/ \E d \in Digests : Begin(a, d)

Recovery ==
    \/ CheckMarker("marker") \/ CheckMarker("remark") \/ WriteMarker \/ MakeRoot
    \/ CleanupStages \/ CheckJournals
    \/ RecoverInstall \/ RedoPrevious \/ RedoCurrent \/ EndRedo
    \/ RecoverRollback \/ SwapCurrent \/ SwapPrevious \/ EndSwap

Operation ==
    \/ Dispatch \/ VerifyStage \/ Publish \/ CommitInstall \/ KeepOld
    \/ SelectNew \/ EndInstall

Removal ==
    \/ Finish \/ RmCurrent \/ RmPrevious \/ RmReleases \/ RmRoot \/ RmMarker
    \/ EndUninstall

INext == Invoke \/ Recovery \/ Operation \/ Removal \/ Crash

ISpec == IInit /\ [][INext]_ivars

-----------------------------------------------------------------------------
(* Properties.                                                             *)

\* Every variable has its type: the files, and the invocation's own state.
FilesTyped ==
    /\ dir \in BOOLEAN /\ root \in BOOLEAN /\ stage \in BOOLEAN
    /\ marker \in {"none", "empty", "owned"}
    /\ release \in [Digests -> {"none", "complete", "hollow"}]
    /\ current \in Pointers /\ previous \in Pointers
    /\ installLog \in Logs \cup {NoLog} /\ rollbackLog \in Logs \cup {NoLog}
    /\ uninstallLog \in BOOLEAN
RunTyped ==
    /\ ipc \in IPcs /\ action \in Actions /\ expected \in Pointers
    /\ old \in Pointers /\ prior \in Pointers /\ acting \in BOOLEAN
    /\ outcome \in {"ok", "refused", "crashed", "failed", "stranded"}
ITypeOK == FilesTyped /\ RunTyped

\* Whatever the moment an invocation is killed, the command a user runs and
\* the one kept for rollback are links to complete, verified releases.
LinksAreRunnable == SoundPointer(current) /\ SoundPointer(previous)

\* Recovery accepts every state an interruption can leave: none of the tests
\* on journals, links and releases ever ends an invocation.
RecoveryAccepts == outcome # "failed"

\* A successful invocation leaves no journal and no stage behind, its own or
\* an interrupted one's.
SuccessIsQuiet ==
    ipc = "idle" /\ outcome = "ok" =>
        ~stage /\ ~uninstallLog /\ installLog = NoLog /\ rollbackLog = NoLog

\* A successful install has selected the requested release, a successful
\* rollback has swapped the links it found after recovery, a successful
\* uninstall has left nothing, whatever it had to finish first.
SuccessDelivers ==
    [][ipc # "idle" /\ ipc' = "idle" /\ outcome' = "ok" =>
          /\ action = "install" => current' = expected
          /\ action = "rollback" => current' = prior /\ previous' = old
          /\ action = "uninstall" =>
                /\ Unoccupied' /\ marker' = "none"
                /\ \A d \in Digests : release'[d] = "none"]_ivars

\* The journals make the operations atomic: with the journal's rename as the
\* moment an operation happens, every behaviour, crashes included, is one of
\* AtomicInstall.
Selected == IF uninstallLog THEN None
            ELSE IF installLog # NoLog THEN installLog.to
            ELSE IF rollbackLog # NoLog THEN rollbackLog.to ELSE current
Retained == IF uninstallLog THEN None
            ELSE IF installLog # NoLog THEN installLog.from
            ELSE IF rollbackLog # NoLog THEN rollbackLog.from ELSE previous
Atomic == INSTANCE AtomicInstall WITH selected <- Selected, retained <- Retained
AtomicSpec == Atomic!Spec

\* check_marker turns an invocation away when the marker is missing or
\* unreadable; this never happens while a release is still installed.
StrandedHoldsNothing ==
    outcome = "stranded" =>
        /\ current = None /\ previous = None
        /\ \A d \in Digests : release[d] = "none"

\* README.md:35 says that "install, rollback and uninstall journals finish
\* interrupted pointer changes on the next invocation": no invocation is turned
\* away by check_marker while an interrupted one's journal exists.
JournalsAreFinished ==
    outcome = "stranded" =>
        ~uninstallLog /\ installLog = NoLog /\ rollbackLog = NoLog

-----------------------------------------------------------------------------
(* The inductive invariant behind the properties above, in named parts.    *)

Resting == ~uninstallLog /\ installLog = NoLog /\ rollbackLog = NoLog

\* What holds of the files alone, so that it survives a crash: at most one
\* journal, links that the journal explains, complete releases behind every
\* link, and nothing managed without the marker.
FilesAgree ==
    /\ uninstallLog => installLog = NoLog /\ rollbackLog = NoLog
    /\ NoLog \in {installLog, rollbackLog}
    /\ Resting /\ current = None => previous = None
    /\ installLog # NoLog => InstallLinks /\ installLog.to # installLog.from
    /\ rollbackLog # NoLog => rollbackLog.from # None /\ RollbackLinks
    /\ LinksAreRunnable
    /\ ~uninstallLog => \A d \in Digests : release[d] # "hollow"
    /\ ~root => \A d \in Digests : release[d] = "none"
    /\ marker # "owned" => ~root /\ installLog = NoLog /\ rollbackLog = NoLog

\* Which journals exist, and which directories, at each step.
PhasesAgree ==
    /\ stage => ipc \in {"idle", "marker", "write_marker", "root", "stages"}
                          \cup InstallPcs
    /\ ~dir => ipc = "idle" /\ Resting /\ ~stage
    /\ ipc \in RecoverPcs \cup InstallPcs \cup {"dispatch"} => ~uninstallLog
    /\ ipc \in RemovalPcs => uninstallLog
    /\ ipc \in {"recover_rollback", "swap_current", "swap_previous", "end_swap",
                "dispatch", "verify", "publish", "commit"} => installLog = NoLog
    /\ ipc \in InstallPcs \cup {"dispatch"} => rollbackLog = NoLog
    /\ ipc # "idle" /\ action = "install" => expected \in Digests
    /\ ipc \in RecoverPcs \cup InstallPcs \cup {"root", "stages", "journals", "dispatch"}
          /\ action = "install" => marker = "owned" /\ (root \/ ipc = "root")

\* An operation past recovery is the one that was asked for.
ActingAgrees ==
    acting => \/ action = "install" /\ ipc \in InstallPcs
              \/ action = "uninstall" /\ ipc \in RemovalPcs
              \/ /\ action = "rollback"
                 /\ ipc \in {"recover_rollback", "swap_current", "swap_previous",
                             "end_swap"}
                 /\ rollbackLog = [to |-> prior, from |-> old]
                 /\ rollbackLog # NoLog

\* The steps of an install, from what it read to the links it leaves.
InstallSteps ==
    /\ ipc \in InstallPcs => acting /\ expected # old
    /\ ipc \in {"verify", "publish", "commit"} => old = current
    /\ ipc = "commit" => Sound(expected)
    /\ ipc \in {"keep_old", "select_new", "end_install"} =>
          installLog = [to |-> expected, from |-> old]
    /\ ipc \in {"select_new", "end_install"} => previous = old
    /\ ipc = "end_install" => current = expected

\* The steps that finish a journal.
RecoverySteps ==
    /\ ipc \in {"redo_previous", "redo_current", "end_redo"} => installLog # NoLog
    /\ ipc \in {"redo_current", "end_redo"} => previous = installLog.from
    /\ ipc = "end_redo" => current = installLog.to
    /\ ipc \in {"swap_current", "swap_previous", "end_swap"} => rollbackLog # NoLog
    /\ ipc \in {"swap_previous", "end_swap"} => current = rollbackLog.to
    /\ ipc = "end_swap" => previous = rollbackLog.from
    /\ ipc \in {"rm_previous", "rm_releases", "rm_root", "rm_marker", "end_uninstall"} =>
          current = None
    /\ ipc \in {"rm_releases", "rm_root", "rm_marker", "end_uninstall"} =>
          previous = None
    /\ ipc \in {"rm_root", "rm_marker", "end_uninstall"} =>
          \A d \in Digests : release[d] = "none"
    /\ ipc \in {"rm_marker", "end_uninstall"} => ~root
    /\ ipc = "end_uninstall" => marker = "none"

\* How the last invocation ended.
OutcomeAgrees ==
    /\ RecoveryAccepts
    /\ SuccessIsQuiet
    /\ outcome = "stranded" =>
          /\ ipc \in {"idle", "marker"}
          /\ marker = "empty" \/ (marker = "none" /\ ~Unoccupied)

Consistent ==
    /\ ITypeOK
    /\ FilesAgree /\ PhasesAgree /\ ActingAgrees
    /\ InstallSteps /\ RecoverySteps /\ OutcomeAgrees

=============================================================================
