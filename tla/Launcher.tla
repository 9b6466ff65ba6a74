------------------------------ MODULE Launcher ------------------------------
(***************************************************************************)
(* launcher::run: one armed session from the admission checks to the exit  *)
(* status, composed with the broker it owns.  The launcher's main thread   *)
(* drives Broker's owner operations in program order; the serve thread,    *)
(* the workers, the clients and the processes run beside it.  When the     *)
(* launcher process exits its threads end with it.                         *)
(***************************************************************************)
EXTENDS Broker

CONSTANT NotRead   \* the audit has not been read yet

VARIABLES
    lpc,          \* where the main thread is
    interrupted,  \* the flag of register_interrupt_flag
    observed      \* the audit record_session_observation read, or NotRead

lvars == <<lpc, interrupted, observed>>
vars == <<bvars, lvars>>

LauncherPcs == {"inspect", "arm", "bind", "identity", "wait", "stop", "join",
                "observe", "abort", "abort_join", "cleanup", "exit"}

LInit ==
    /\ Init
    /\ lpc = "inspect" /\ interrupted = FALSE /\ observed = NotRead

LGoto(from, to) ==
    /\ lpc = from
    /\ lpc' = to

-----------------------------------------------------------------------------
\* Codex not admitted, incapable, unhealthy or changed: it runs disarmed and
\* unbound; or an error before there is a broker ends the run.
LaunchUnarmed ==
    /\ LGoto("inspect", "exit")
    /\ UNCHANGED <<bvars, interrupted, observed>>

StartBroker ==
    /\ LGoto("inspect", "arm")
    /\ Start
    /\ UNCHANGED <<interrupted, observed>>

\* configure_child returns early: the session is dropped, the broker is not
\* shut down and its thread lives until the process ends.
ConfigureFails ==
    /\ LGoto("arm", "exit")
    /\ RemoveSession
    /\ UNCHANGED <<interrupted, observed>>

\* Arming or spawning fails: shut the broker down, then clean up.
SpawnFails ==
    /\ LGoto("arm", "abort")
    /\ UNCHANGED <<bvars, interrupted, observed>>

SpawnCodex ==
    /\ LGoto("arm", "bind")
    /\ SpawnChild
    /\ UNCHANGED <<interrupted, observed>>

\* Registering the interrupt flag, reading the identity, verifying the
\* executable or recording the identity fails: kill the child and reap it.
BindFails ==
    /\ lpc \in {"bind", "identity"} /\ lpc' = "abort"
    /\ IF child = "running" THEN ChildExits ELSE UNCHANGED bvars
    /\ UNCHANGED <<interrupted, observed>>

\* current_process_identity and verify_process succeed on a running child.
VerifyChild ==
    /\ LGoto("bind", "identity")
    /\ child = "running"
    /\ UNCHANGED <<bvars, interrupted, observed>>

BindChild ==
    /\ LGoto("identity", "wait")
    /\ SetCodexIdentity
    /\ UNCHANGED <<interrupted, observed>>

\* Ctrl-C reaches the launcher, any number of times, once the flag exists.
Interrupt ==
    /\ lpc \notin {"inspect", "arm", "bind", "exit"}
    /\ interrupted' = TRUE
    /\ UNCHANGED <<bvars, lpc, observed>>

-----------------------------------------------------------------------------
(* wait_for_bound_child, without a verification tree.                      *)

\* Mutant: the loop ignores the flag.
WaitIgnoresInterrupt == lpc = "wait" /\ UNCHANGED vars

\* The loop sees the flag: stop granting, keep waiting for the child.
WaitInterrupted ==
    /\ lpc = "wait" /\ interrupted /\ ~shutdown
    /\ StopAccepting
    /\ UNCHANGED lvars

\* try_wait reports the exit.
WaitExited ==
    /\ LGoto("wait", "stop")
    /\ child = "exited"
    /\ UNCHANGED <<bvars, interrupted, observed>>

\* try_wait fails; the child may still run.
WaitFails ==
    /\ LGoto("wait", "stop")
    /\ UNCHANGED <<bvars, interrupted, observed>>

\* Mutant: the join without the stop flag.
StopBrokerNoFlag ==
    /\ LGoto("stop", "join") \/ LGoto("abort", "abort_join")
    /\ UNCHANGED <<bvars, interrupted, observed>>

\* Broker::shutdown: the flag, then the join.
StopBroker ==
    /\ LGoto("stop", "join") \/ LGoto("abort", "abort_join")
    /\ StopAccepting
    /\ UNCHANGED <<interrupted, observed>>

\* Mutant: shutdown does not wait for the serve thread.
JoinBrokerEarly ==
    /\ LGoto("join", "observe") \/ LGoto("abort_join", "cleanup")
    /\ UNCHANGED <<bvars, interrupted, observed>>

JoinBroker ==
    /\ LGoto("join", "observe") \/ LGoto("abort_join", "cleanup")
    /\ Joined
    /\ UNCHANGED <<bvars, interrupted, observed>>

\* record_session_observation reads the whole audit.
RecordObservation ==
    /\ LGoto("observe", "cleanup")
    /\ observed' = audit
    /\ UNCHANGED <<bvars, interrupted>>

CleanupSession ==
    /\ LGoto("cleanup", "exit")
    /\ RemoveSession
    /\ UNCHANGED <<interrupted, observed>>

-----------------------------------------------------------------------------
LauncherStep ==
    \/ LaunchUnarmed \/ StartBroker \/ ConfigureFails \/ SpawnFails
    \/ SpawnCodex \/ BindFails \/ VerifyChild \/ BindChild
    \/ WaitInterrupted \/ WaitExited
    \/ StopBroker \/ JoinBroker \/ RecordObservation \/ CleanupSession

\* The broker's threads run while the launcher's process exists.
ThreadStep ==
    /\ lpc # "exit"
    /\ ServeStep \/ \E c \in Conns : WorkerStep(c)
    /\ UNCHANGED lvars

OutsideStep ==
    /\ ProcessStep \/ \E c \in Conns : ClientStep(c)
    /\ UNCHANGED lvars

LNext == LauncherStep \/ WaitFails \/ Interrupt \/ ThreadStep \/ OutsideStep

\* The main thread runs (try_wait is polled every 25 ms) and so do the
\* broker's threads; nothing is asked of Codex, the clients or WaitFails.
LFairness ==
    /\ WF_vars(LauncherStep)
    /\ WF_vars(lpc # "exit" /\ ServeWorks /\ UNCHANGED lvars)
    /\ \A c \in Conns :
          WF_vars(lpc # "exit" /\ WorkerStep(c) /\ UNCHANGED lvars)

LSafeSpec == LInit /\ [][LNext]_vars
LSpec == LSafeSpec /\ LFairness

-----------------------------------------------------------------------------
(* Properties.                                                             *)

LTypeOK ==
    /\ TypeOK
    /\ lpc \in LauncherPcs
    /\ interrupted \in BOOLEAN
    /\ observed \in [Conns -> SUBSET AuditKinds] \cup {NotRead}

\* The launcher uses its broker as Broker's owner may: what holds of every
\* Broker behaviour holds of the broker in a launcher session.
BrokerInside == SafeSpec

\* The outcome written to the local state is final: when the broker was joined
\* without error, nothing was approved or recorded after the audit was read.
ObservationIsFinal ==
    observed # NotRead /\ servePc # "panicked" =>
        /\ observed = audit
        /\ \A c \in Conns : client[c] = "approved" => "allow" \in observed[c]

\* The launcher never exits under a broker that granted something and still
\* runs, whichever error path it left by.
ExitAfterJoin == lpc = "exit" => Joined \/ grants = {}

\* No request is granted before run prints ARMED or on a path that aborts.
ArmedBeforeGrant ==
    grants # {} => lpc \notin {"inspect", "arm", "bind", "identity", "abort", "abort_join"}

\* When Codex exits, the session ends: broker stopped, audit read, exit.
LauncherExits == (child = "exited") ~> (lpc = "exit")

\* After Ctrl-C approvals stop even while Codex keeps running.
InterruptStops == (interrupted /\ lpc = "wait") ~> shutdown

-----------------------------------------------------------------------------
\* What the main thread has done by the time it is at a step; with Broker's
\* IInv it is the inductive invariant behind the properties above.
OwnerInOrder ==
    /\ lpc \in {"inspect", "arm"} => child = "none"
    /\ lpc \in {"join", "abort_join", "observe", "cleanup"} => shutdown
    /\ lpc \in {"observe", "cleanup"} => Joined
    /\ expected => lpc \in {"wait", "stop", "join", "observe", "cleanup", "exit"}
    /\ lpc = "exit" => Joined \/ ~expected
    /\ observed # NotRead => lpc \in {"cleanup", "exit"} /\ Joined
    /\ observed # NotRead /\ servePc # "panicked" => observed = audit

=============================================================================
