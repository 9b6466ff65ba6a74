----------------------------- MODULE PipeBroker -----------------------------
(***************************************************************************)
(* The decision broker on Windows (broker/windows.rs): one named pipe with *)
(* a limited number of instances, the serve thread that creates and waits  *)
(* on them, and a worker thread for each connected instance.  What differs *)
(* from Linux is modelled in full: who owns a pipe handle, that closing a  *)
(* handle frees its value for the next one, that a disconnect throws away  *)
(* what the client has not read, and that every wait looks at the stop     *)
(* flag.  Of the system: an instance lasts until both ends are closed, and *)
(* MaxActive limits the instances as well as the workers.                  *)
(***************************************************************************)
EXTENDS Naturals, FiniteSets

CONSTANTS Clients,    \* hook processes, each of which connects once
          Requests,   \* requests that the decision engine allows
          MaxActive,  \* MAX_ACTIVE_CONNECTIONS, also nMaxInstances
          Nobody      \* the client end of an instance nobody is connected to

\* A frame that does not arrive; one that has bytes after it or does not parse; a
\* request that is refused (secret, user, ancestry, admission, decision); a good one.
Frames == {"stalled", "malformed", "refused"} \cup Requests
Handles == 1 .. MaxActive

ASSUME PipeAssumption ==
    /\ IsFiniteSet(Clients) /\ Nobody \notin Clients /\ MaxActive \in Nat \ {0}
    /\ Requests \cap {"stalled", "malformed", "refused"} = {}

VARIABLES
    servePc, shutdown, expected, active, workers,
    pipe,      \* pipe_handle of the serve thread
    open,      \* the pipe handles of this process that are open
    far,       \* the client at the other end of an open handle, or Nobody
    pc,        \* where the worker of a client is
    handle,    \* the pipe handle the worker was given
    frame,     \* what the client sends
    client,    \* "idle", "connected", "approved", "declined"
    reply,     \* the answer in the client's pipe buffer
    cut,       \* clients whose pipe the server has broken
    granted    \* the requests the ledger consumed, and from whom

kernelVars == <<open, far, reply, cut>>
serveVars  == <<servePc, shutdown, expected, active, workers, pipe>>
workerVars == <<pc, handle, granted>>
clientVars == <<frame, client>>
pvars == <<serveVars, kernelVars, workerVars, clientVars>>

Working == {"read", "verify", "consume", "record", "write",
            "refuse", "turn_away", "disconnect", "close", "release"}

PInit ==
    /\ servePc = "off" /\ shutdown = FALSE /\ expected = FALSE /\ active = 0
    /\ workers = {} /\ pipe = 1 /\ open = {} /\ far = [h \in Handles |-> Nobody]
    /\ pc = [c \in Clients |-> "idle"] /\ handle = [c \in Clients |-> 1]
    /\ frame = [c \in Clients |-> "stalled"] /\ client = [c \in Clients |-> "idle"]
    /\ reply = [c \in Clients |-> "none"] /\ cut = {} /\ granted = {}

\* An instance exists while its server handle or its client's is open.
Instances ==
    Cardinality({h \in open : far[h] = Nobody \/ client[far[h]] # "connected"})
      + Cardinality({c \in Clients : client[c] = "connected"})

\* CreateNamedPipeW: any handle value that is not in use.
CreateServerPipe ==
    /\ Instances < MaxActive
    /\ \E h \in Handles \ open :
        /\ open' = open \cup {h} /\ pipe' = h
        /\ far' = [far EXCEPT ![h] = Nobody]
    /\ UNCHANGED <<reply, cut>>

\* CloseHandle: nothing happens when the value is not in use.
CloseHandle(h) ==
    /\ open' = open \ {h} /\ far' = [far EXCEPT ![h] = Nobody]
    /\ cut' = cut \cup {c \in Clients : h \in open /\ far[h] = c /\ reply[c] = "none"}
    /\ UNCHANGED reply

-----------------------------------------------------------------------------
(* The owner: start, set_codex_identity, stop_accepting and shutdown.      *)

Start ==
    /\ servePc = "off"
    /\ CreateServerPipe
    /\ servePc' = "check"
    /\ UNCHANGED <<shutdown, expected, active, workers, workerVars, clientVars>>

\* The thread cannot build its security descriptor: the pipe is closed again.
StartUnsecured ==
    /\ servePc = "off"
    /\ servePc' = "joined"
    /\ UNCHANGED <<shutdown, expected, active, workers, pipe, kernelVars, workerVars,
                   clientVars>>

SetCodexIdentity ==
    /\ servePc # "off" /\ ~expected
    /\ expected' = TRUE
    /\ UNCHANGED <<servePc, shutdown, active, workers, pipe, kernelVars, workerVars,
                   clientVars>>

StopAccepting ==
    /\ servePc # "off" /\ ~shutdown
    /\ shutdown' = TRUE
    /\ UNCHANGED <<servePc, expected, active, workers, pipe, kernelVars, workerVars,
                   clientVars>>

-----------------------------------------------------------------------------
(* The serve thread.                                                       *)

\* The loop is left for good, and pipe_handle is closed.
LeaveLoop == servePc' = "drain" /\ CloseHandle(pipe) /\ UNCHANGED pipe

\* Finished workers are dropped from the list; at the limit serve sleeps.
ServeRound ==
    /\ servePc = "check" /\ ~shutdown
    /\ workers' = {c \in workers : pc[c] # "done"}
    /\ servePc' = IF active >= MaxActive THEN "check" ELSE "listen"
    /\ UNCHANGED <<shutdown, expected, active, pipe, kernelVars, workerVars, clientVars>>

\* wait_for_connection returns a client.  fetch_add cannot find the limit
\* reached: only this thread raises the count, and it has just looked.
ServeAccept(c) ==
    /\ servePc = "listen" /\ pipe \in open /\ far[pipe] = c
    /\ active' = active + 1
    /\ workers' = workers \cup {c}
    /\ handle' = [handle EXCEPT ![c] = pipe]
    /\ pc' = [pc EXCEPT ![c] = "read"]
    /\ servePc' = "create"
    /\ UNCHANGED <<shutdown, expected, pipe, kernelVars, granted, clientVars>>

\* thread::spawn panics: the handle is leaked, the live workers are detached.
ServeSpawnPanic(c) ==
    /\ servePc = "listen" /\ pipe \in open /\ far[pipe] = c
    /\ active' = active + 1
    /\ workers' = {} /\ servePc' = "panicked"
    /\ UNCHANGED <<shutdown, expected, pipe, kernelVars, workerVars, clientVars>>

\* The next instance for the next client.
ServeCreate ==
    /\ servePc = "create"
    /\ CreateServerPipe
    /\ servePc' = "check"
    /\ UNCHANGED <<shutdown, expected, active, workers, workerVars, clientVars>>

\* Mutant: after a failure serve goes on with the handle it still has.
ServeCreateRetries ==
    /\ servePc = "create"
    /\ servePc' = "check"
    /\ UNCHANGED <<shutdown, expected, active, workers, pipe, kernelVars, workerVars,
                   clientVars>>

\* Every instance is taken, or the call fails: pipe_handle still has the value
\* that was given to the worker, and the loop is left with it.
ServeCreateFails ==
    /\ servePc = "create"
    /\ LeaveLoop
    /\ UNCHANGED <<shutdown, expected, active, workers, workerVars, clientVars>>

\* Mutant: the stop flag is not looked at while waiting.
ServeStopsBetween ==
    /\ servePc = "check" /\ shutdown
    /\ LeaveLoop
    /\ UNCHANGED <<shutdown, expected, active, workers, workerVars, clientVars>>

\* The stop flag, seen by the loop or while waiting; the wait is cancelled.
ServeStops ==
    /\ servePc \in {"check", "listen"} /\ shutdown
    /\ LeaveLoop
    /\ UNCHANGED <<shutdown, expected, active, workers, workerVars, clientVars>>

\* ConnectNamedPipe or the wait fails, for one when the client has gone again.
ServeWaitFails ==
    /\ servePc = "listen"
    /\ LeaveLoop
    /\ UNCHANGED <<shutdown, expected, active, workers, workerVars, clientVars>>

ServeJoins ==
    /\ servePc = "drain"
    /\ \A c \in workers : pc[c] = "done"
    /\ servePc' = "joined" /\ workers' = {}
    /\ UNCHANGED <<shutdown, expected, active, pipe, kernelVars, workerVars, clientVars>>

-----------------------------------------------------------------------------
(* A worker: handle_connection and the verify_request it calls.            *)

\* The client that I/O on the worker's handle reaches, if there is any.
Reached(c) ==
    {d \in Clients : handle[c] \in open /\ far[handle[c]] = d
                       /\ client[d] = "connected" /\ d \notin cut}

Goto(c, from, to) ==
    /\ pc[c] = from
    /\ pc' = [pc EXCEPT ![c] = to]
    /\ UNCHANGED <<serveVars, handle, clientVars>>

\* write_response_until.  It fails at the deadline, once the stop flag is seen
\* while it waits, and when the pipe is broken.
WriteResponse(c, decision) ==
    \E d \in Reached(c) : reply' = [reply EXCEPT ![d] = decision]

\* The client's process id and the attempt record; one frame, nothing behind it,
\* parsed and recorded as an invocation.
WorkerRead(c) ==
    /\ \/ Goto(c, "read", "close")
       \/ /\ frame[c] # "stalled" /\ c \in Reached(c)
          /\ Goto(c, "read", "turn_away")
       \/ /\ frame[c] \in Requests \cup {"refused"} /\ c \in Reached(c)
          /\ Goto(c, "read", "verify")
    /\ UNCHANGED <<kernelVars, granted>>

\* verify_request up to the second look at the stop flag.
WorkerVerify(c) ==
    /\ \/ Goto(c, "verify", "refuse")
       \/ /\ expected /\ ~shutdown /\ frame[c] \in Requests
          /\ Goto(c, "verify", "consume")
    /\ UNCHANGED <<kernelVars, granted>>

\* Mutant: what is consumed is not looked up.
WorkerConsumeAgain(c) ==
    /\ Goto(c, "consume", "record")
    /\ granted' = granted \cup {<<c, frame[c]>>}
    /\ UNCHANGED kernelVars

\* The ledger's mutex: a request is granted once.
WorkerConsume(c) ==
    /\ IF \E g \in granted : g[2] = frame[c]
         THEN Goto(c, "consume", "refuse") /\ UNCHANGED granted
         ELSE Goto(c, "consume", "record") /\ granted' = granted \cup {<<c, frame[c]>>}
    /\ UNCHANGED kernelVars

\* The request and the allow record; without both the client is turned away.
WorkerRecord(c) ==
    /\ Goto(c, "record", "write") \/ Goto(c, "record", "turn_away")
    /\ UNCHANGED <<kernelVars, granted>>

\* The emitted record that follows a good write is not needed here.
WorkerWrite(c) ==
    /\ Goto(c, "write", "disconnect")
    /\ WriteResponse(c, "allow") \/ UNCHANGED reply
    /\ UNCHANGED <<open, far, cut, granted>>

\* A refusal before the decision only closes the pipe; one after it disconnects.
WorkerRefuse(c) ==
    /\ Goto(c, "refuse", "disconnect") \/ Goto(c, "turn_away", "close")
    /\ WriteResponse(c, "no_decision") \/ UNCHANGED reply
    /\ UNCHANGED <<open, far, cut, granted>>

\* DisconnectNamedPipe: unread data is lost.
WorkerDisconnect(c) ==
    /\ Goto(c, "disconnect", "close")
    /\ reply' = [d \in Clients |-> IF d \in Reached(c) THEN "none" ELSE reply[d]]
    /\ cut' = cut \cup Reached(c)
    /\ UNCHANGED <<open, far, granted>>

WorkerClose(c) ==
    /\ Goto(c, "close", "release")
    /\ CloseHandle(handle[c])
    /\ UNCHANGED granted

WorkerRelease(c) ==
    /\ pc[c] = "release"
    /\ pc' = [pc EXCEPT ![c] = "done"]
    /\ handle' = [handle EXCEPT ![c] = 1]
    /\ frame' = [frame EXCEPT ![c] = "stalled"]
    /\ active' = active - 1
    /\ UNCHANGED <<servePc, shutdown, expected, workers, pipe, kernelVars, granted,
                   client>>

-----------------------------------------------------------------------------
(* A client: broker::request.                                              *)

\* connect_client finds the instance that waits, and the frame is written.
ClientConnects(c) ==
    /\ client[c] = "idle"
    /\ \E h \in open, f \in Frames :
        /\ far[h] = Nobody
        /\ far' = [far EXCEPT ![h] = c]
        /\ frame' = [frame EXCEPT ![c] = f]
    /\ client' = [client EXCEPT ![c] = "connected"]
    /\ UNCHANGED <<open, reply, cut, serveVars, workerVars>>

\* The pipe is busy until the deadline, or there is none.
ClientFindsNone(c) ==
    /\ client[c] = "idle" /\ servePc # "off"
    /\ client' = [client EXCEPT ![c] = "declined"]
    /\ UNCHANGED <<frame, kernelVars, serveVars, workerVars>>

\* The response is read and parsed, and the client closes its end.
ClientReads(c) ==
    /\ client[c] = "connected" /\ reply[c] # "none"
    /\ client' = [client EXCEPT ![c] = IF reply[c] = "allow" THEN "approved"
                                                             ELSE "declined"]
    /\ reply' = [reply EXCEPT ![c] = "none"] /\ cut' = cut \ {c}
    /\ UNCHANGED <<frame, open, far, serveVars, workerVars>>

\* The deadline, a broken pipe, trailing or malformed data, or a killed hook.
ClientFails(c) ==
    /\ client[c] = "connected"
    /\ client' = [client EXCEPT ![c] = "declined"]
    /\ reply' = [reply EXCEPT ![c] = "none"] /\ cut' = cut \ {c}
    /\ UNCHANGED <<frame, open, far, serveVars, workerVars>>

-----------------------------------------------------------------------------
ServeWorks ==
    \/ ServeRound \/ ServeStops \/ ServeCreate \/ ServeJoins
    \/ \E c \in Clients : ServeAccept(c)

WorkerStep(c) ==
    \/ WorkerRead(c) \/ WorkerVerify(c) \/ WorkerConsume(c)
    \/ WorkerRecord(c) \/ WorkerWrite(c) \/ WorkerRefuse(c)
    \/ WorkerDisconnect(c) \/ WorkerClose(c) \/ WorkerRelease(c)

PNext ==
    \/ Start \/ StartUnsecured \/ SetCodexIdentity \/ StopAccepting
    \/ ServeWorks \/ ServeCreateFails \/ ServeWaitFails
    \/ \E c \in Clients :
        \/ ServeSpawnPanic(c) \/ WorkerStep(c)
        \/ ClientConnects(c) \/ ClientFindsNone(c) \/ ClientReads(c) \/ ClientFails(c)

\* The threads of the launcher run.  Nothing is asked of the clients, and
\* CreateNamedPipeW returns one way or the other.
PFairness ==
    /\ WF_pvars(ServeWorks \/ ServeCreateFails)
    /\ \A c \in Clients : WF_pvars(WorkerStep(c))

PSpec == PInit /\ [][PNext]_pvars /\ PFairness

-----------------------------------------------------------------------------
\* A client that reads an allow is one whose own request was granted, and no
\* request was granted to two clients, although serve may close the pipe of a
\* live worker and handle values are used again.
AnswersMatch ==
    /\ \A c \in Clients :
        client[c] = "approved" \/ reply[c] = "allow" => \E g \in granted : g[1] = c
    /\ \A g, h \in granted : g[2] = h[2] => g = h

\* When shutdown returns, no pipe handle is left open and every slot is free.
NothingLeftOpen == servePc = "joined" => open = {} /\ active = 0

\* Whatever the clients do, a stopped broker's serve thread ends: every wait
\* looks at the stop flag.
StopEndsService == shutdown ~> servePc \in {"joined", "panicked"}

\* "HANDLE values are kernel-owned tokens safe to move between threads when
\* lifetimes are bounded by the spawning broker worker": from the moment it is
\* spawned until it closes it, a worker's pipe is open.
WorkerOwnsPipe ==
    \A c \in Clients : pc[c] \in Working \ {"release"} => handle[c] \in open
=============================================================================
