---------------------------- MODULE WindowsProofs ----------------------------
(***************************************************************************)
(* The Windows broker for any number of clients, requests and instances,   *)
(* and the boundary around a child for any number of descendants.          *)
(*                                                                         *)
(* Serve may close the pipe of a live worker, and handle values are used   *)
(* again; the argument is that it never does the one and then the other.   *)
(***************************************************************************)
EXTENDS PipeBroker, ChildTree, FiniteSetTheorems, TLAPS

PipeTypeOK ==
    /\ servePc \in {"off", "check", "listen", "create", "drain", "joined", "panicked"}
    /\ shutdown \in BOOLEAN /\ expected \in BOOLEAN /\ active \in Nat
    /\ workers \in SUBSET Clients /\ pipe \in Handles /\ open \in SUBSET Handles
    /\ far \in [Handles -> Clients \cup {Nobody}]
    /\ pc \in [Clients -> {"idle", "done"} \cup Working]
    /\ handle \in [Clients -> Handles] /\ frame \in [Clients -> Frames]
    /\ client \in [Clients -> {"idle", "connected", "approved", "declined"}]
    /\ reply \in [Clients -> {"none", "allow", "no_decision"}]
    /\ cut \in SUBSET Clients /\ granted \in SUBSET (Clients \X Requests)

\* A worker between its start and its close of the pipe.
Live(c) == pc[c] \in Working \ {"release"}
Held(h) == \E c \in Clients : Live(c) /\ handle[c] = h

\* Who is at the other end.  A client has connected before it has a worker,
\* and one whose connection serve still holds has none yet.
FarEnds ==
    /\ \A h \in open : \A c \in Clients : far[h] = c => client[c] # "idle"
    /\ \A c \in Clients : pc[c] # "idle" => client[c] # "idle"
    /\ servePc \in {"check", "listen"} =>
         \A c \in Clients : far[pipe] = c => pc[c] = "idle"

\* A worker's pipe, while it is open, leads to the worker's own client; until
\* serve leaves its loop it is open, and serve's own pipe is another.
OwnPipe ==
    /\ \A c \in Clients : Live(c) /\ handle[c] \in open => far[handle[c]] = c
    /\ servePc \in {"check", "listen", "create"} =>
         \A c \in Clients : Live(c) => handle[c] \in open
    /\ servePc \in {"check", "listen"} =>
         pipe \in open /\ \A c \in Clients : Live(c) => handle[c] # pipe

\* Every open handle has an owner, and every slot in use a worker that serve
\* will join; the worker that could not be spawned keeps its slot.
Accounted ==
    /\ servePc = "off" => open = {} /\ \A c \in Clients : pc[c] = "idle"
    /\ servePc \in {"check", "listen"} => \A h \in open : h = pipe \/ Held(h)
    /\ servePc \in {"create", "drain", "joined"} => \A h \in open : Held(h)
    /\ servePc = "joined" => \A c \in Clients : pc[c] \notin Working

Slots ==
    /\ active = Cardinality({c \in Clients : pc[c] \in Working})
                  + (IF servePc = "panicked" THEN 1 ELSE 0)
    /\ servePc # "panicked" => \A c \in Clients : pc[c] \in Working => c \in workers

\* A worker past the ledger has its client's grant.
Earned ==
    /\ \A c \in Clients :
         pc[c] \in {"record", "write"} \/ reply[c] = "allow" \/ client[c] = "approved"
           => \E g \in granted : g[1] = c
    /\ \A c \in Clients : pc[c] \in {"consume", "record", "write"} => frame[c] \in Requests
    /\ \A g, h \in granted : g[2] = h[2] => g = h

PipeInv == PipeTypeOK /\ FarEnds /\ OwnPipe /\ Accounted /\ Slots /\ Earned
-----------------------------------------------------------------------------
(* Workers.                                                                *)

Mid == Working \ {"release"}

\* A worker that only moves on disturbs nobody's pipe and keeps its slot.
LEMMA WorkerMoves ==
  ASSUME PipeInv, NEW c \in Clients, pc[c] \in Mid, NEW to \in Mid,
         pc' = [pc EXCEPT ![c] = to],
         UNCHANGED <<serveVars, handle, clientVars, open, far>>
  PROVE  FarEnds' /\ OwnPipe' /\ Accounted' /\ Slots' /\ pc' \in [Clients -> {"idle", "done"} \cup Working]
<1> USE DEF PipeInv, PipeTypeOK, serveVars, clientVars
<1>1. \A d \in Clients : /\ (pc'[d] \in Working) = (pc[d] \in Working)
                         /\ (pc'[d] = "idle") = (pc[d] = "idle")
                         /\ (pc'[d] \in Mid) = (pc[d] \in Mid)
  BY DEF Mid, Working
<1>2. pc' \in [Clients -> {"idle", "done"} \cup Working]
  BY DEF Mid
<1>3. FarEnds'
  BY <1>1 DEF FarEnds
<1>4. OwnPipe' /\ Accounted'
  BY <1>1 DEF OwnPipe, Accounted, Live, Held, Mid
<1>5. {d \in Clients : pc'[d] \in Working} = {d \in Clients : pc[d] \in Working}
  BY <1>1
<1>6. Slots'
  BY <1>1, <1>5 DEF Slots
<1>. QED
  BY <1>2, <1>3, <1>4, <1>6

\* What a worker writes reaches its own client or nobody.
LEMMA ReachesOwn ==
  ASSUME PipeInv, NEW c \in Clients, pc[c] \in Mid
  PROVE  Reached(c) \subseteq {c}
  BY DEF PipeInv, OwnPipe, Live, Reached, Mid

LEMMA WorkerReadVerify ==
  ASSUME PipeInv, NEW c \in Clients, WorkerRead(c) \/ WorkerVerify(c)
  PROVE  PipeInv'
<1>1. /\ pc[c] \in {"read", "verify"}
      /\ \E to \in {"close", "turn_away", "verify", "refuse", "consume"} :
           pc' = [pc EXCEPT ![c] = to] /\ (to = "consume" => frame[c] \in Requests)
      /\ UNCHANGED <<serveVars, handle, clientVars, kernelVars, granted>>
  BY DEF WorkerRead, WorkerVerify, Goto
<1>2. PICK to \in {"close", "turn_away", "verify", "refuse", "consume"} :
           pc' = [pc EXCEPT ![c] = to] /\ (to = "consume" => frame[c] \in Requests)
  BY <1>1
<1>3. /\ FarEnds' /\ OwnPipe' /\ Accounted' /\ Slots'
      /\ pc' \in [Clients -> {"idle", "done"} \cup Working]
  BY <1>1, <1>2, WorkerMoves DEF Mid, Working, kernelVars
<1>4. PipeTypeOK'
  BY <1>1, <1>3 DEF PipeInv, PipeTypeOK, serveVars, clientVars, kernelVars
<1>5. Earned'
  BY <1>1, <1>2 DEF PipeInv, PipeTypeOK, Earned, clientVars, kernelVars
<1>. QED
  BY <1>3, <1>4, <1>5 DEF PipeInv

\* The ledger: a request is consumed for one client.
LEMMA WorkerConsumes ==
  ASSUME PipeInv, NEW c \in Clients, WorkerConsume(c)
  PROVE  PipeInv'
<1>0. UNCHANGED <<serveVars, handle, clientVars, kernelVars>> /\ pc[c] = "consume"
  BY DEF WorkerConsume, Goto
<1>1. CASE \E g \in granted : g[2] = frame[c]
  <2>1. pc' = [pc EXCEPT ![c] = "refuse"] /\ UNCHANGED granted
    BY <1>1 DEF WorkerConsume, Goto
  <2>2. /\ FarEnds' /\ OwnPipe' /\ Accounted' /\ Slots'
        /\ pc' \in [Clients -> {"idle", "done"} \cup Working]
    BY <1>0, <2>1, WorkerMoves DEF Mid, Working, kernelVars
  <2>3. PipeTypeOK' /\ Earned'
    BY <1>0, <2>1, <2>2 DEF PipeInv, PipeTypeOK, Earned, serveVars, clientVars, kernelVars
  <2>. QED
    BY <2>2, <2>3 DEF PipeInv
<1>2. CASE ~\E g \in granted : g[2] = frame[c]
  <2>1. pc' = [pc EXCEPT ![c] = "record"] /\ granted' = granted \cup {<<c, frame[c]>>}
    BY <1>2 DEF WorkerConsume, Goto
  <2>2. /\ FarEnds' /\ OwnPipe' /\ Accounted' /\ Slots'
        /\ pc' \in [Clients -> {"idle", "done"} \cup Working]
    BY <1>0, <2>1, WorkerMoves DEF Mid, Working, kernelVars
  <2>3. frame[c] \in Requests
    BY <1>0 DEF PipeInv, Earned
  <2>4. PipeTypeOK'
    BY <1>0, <2>1, <2>2, <2>3 DEF PipeInv, PipeTypeOK, serveVars, clientVars, kernelVars
  <2>5. \A d \in Clients :
         pc'[d] \in {"record", "write"} \/ reply'[d] = "allow" \/ client'[d] = "approved"
           => \E g \in granted' : g[1] = d
    <3> SUFFICES ASSUME NEW d \in Clients, 
                   pc'[d] \in {"record", "write"} \/ reply'[d] = "allow" \/ client'[d] = "approved"
                 PROVE  \E g \in granted' : g[1] = d
      OBVIOUS
    <3>1. CASE d = c
      <4>1. <<c, frame[c]>> \in granted' /\ <<c, frame[c]>>[1] = c
        BY <2>1
      <4>. QED
        BY <3>1, <4>1
    <3>2. CASE d # c
      BY <1>0, <2>1, <3>2 DEF PipeInv, PipeTypeOK, Earned, clientVars, kernelVars
    <3>. QED
      BY <3>1, <3>2
  <2>6. Earned'
    <3>1. \A d \in Clients : pc'[d] \in {"consume", "record", "write"} => frame'[d] \in Requests
      BY <1>0, <2>1 DEF PipeInv, PipeTypeOK, Earned, clientVars
    <3>2. \A g, h \in granted' : g[2] = h[2] => g = h
      <4>1. \A g \in granted' : g \in granted \/ g = <<c, frame[c]>>
        BY <2>1
      <4>2. <<c, frame[c]>>[2] = frame[c]
        OBVIOUS
      <4>. QED
        BY <1>2, <4>1, <4>2 DEF PipeInv, Earned
    <3>. QED
      BY <2>5, <3>1, <3>2 DEF Earned
  <2>. QED
    BY <2>2, <2>4, <2>6 DEF PipeInv
<1>. QED
  BY <1>1, <1>2

\* The records, the answer and the disconnect.
LEMMA WorkerAnswers ==
  ASSUME PipeInv, NEW c \in Clients,
         WorkerRecord(c) \/ WorkerWrite(c) \/ WorkerRefuse(c) \/ WorkerDisconnect(c)
  PROVE  PipeInv'
<1>1. /\ pc[c] \in {"record", "write", "refuse", "turn_away", "disconnect"}
      /\ \E to \in {"write", "turn_away", "disconnect", "close"} :
           pc' = [pc EXCEPT ![c] = to] /\ (to = "write" => pc[c] = "record")
      /\ UNCHANGED <<serveVars, handle, clientVars, open, far, granted>>
  BY DEF WorkerRecord, WorkerWrite, WorkerRefuse, WorkerDisconnect, Goto, kernelVars
<1>2. PICK to \in {"write", "turn_away", "disconnect", "close"} :
           pc' = [pc EXCEPT ![c] = to] /\ (to = "write" => pc[c] = "record")
  BY <1>1
<1>3. /\ FarEnds' /\ OwnPipe' /\ Accounted' /\ Slots'
      /\ pc' \in [Clients -> {"idle", "done"} \cup Working]
  BY <1>1, <1>2, WorkerMoves DEF Mid, Working
<1>4. Reached(c) \subseteq {c}
  BY <1>1, ReachesOwn DEF Mid, Working
<1>5. /\ cut' \in SUBSET Clients /\ reply' \in [Clients -> {"none", "allow", "no_decision"}]
      /\ \A d \in Clients : reply'[d] = "allow" => reply[d] = "allow" \/ (d = c /\ pc[c] = "write")
  <2> USE DEF PipeInv, PipeTypeOK
  <2>1. CASE WorkerRecord(c)
    BY <2>1 DEF WorkerRecord, kernelVars
  <2>2. CASE WorkerWrite(c)
    BY <1>4, <2>2 DEF WorkerWrite, WriteResponse, Goto
  <2>3. CASE WorkerRefuse(c)
    BY <1>4, <2>3 DEF WorkerRefuse, WriteResponse
  <2>4. CASE WorkerDisconnect(c)
    BY <1>4, <2>4 DEF WorkerDisconnect
  <2>. QED
    BY <2>1, <2>2, <2>3, <2>4
<1>6. PipeTypeOK'
  BY <1>1, <1>3, <1>5 DEF PipeInv, PipeTypeOK, serveVars, clientVars
<1>7. Earned'
  BY <1>1, <1>2, <1>5 DEF PipeInv, PipeTypeOK, Earned, clientVars
<1>. QED
  BY <1>3, <1>6, <1>7 DEF PipeInv

\* Closing the pipe: the handle is the worker's alone, or closed already.
LEMMA WorkerCloses ==
  ASSUME PipeInv, NEW c \in Clients, WorkerClose(c)
  PROVE  PipeInv'
<1> USE DEF PipeInv, PipeTypeOK
<1>1. /\ pc[c] = "close" /\ pc' = [pc EXCEPT ![c] = "release"]
      /\ UNCHANGED <<serveVars, handle, clientVars, reply, granted>>
      /\ open' = open \ {handle[c]} /\ far' = [far EXCEPT ![handle[c]] = Nobody]
      /\ cut' \in SUBSET Clients
  BY DEF WorkerClose, Goto, CloseHandle
<1>2. PipeTypeOK'
  BY <1>1 DEF serveVars, clientVars, Working
<1>3. \A d \in Clients : Live(d)' <=> Live(d) /\ d # c
  BY <1>1 DEF Live, Working
<1>4. Live(c)
  BY <1>1 DEF Live, Working
<1>5. FarEnds'
  <2>1. servePc \in {"check", "listen"} => far'[pipe] = far[pipe]
    BY <1>1, <1>4 DEF OwnPipe
  <2>. QED
    BY <1>1, <2>1 DEF FarEnds, serveVars, clientVars
<1>6. OwnPipe'
  <2>1. \A d \in Clients : Live(d) /\ d # c /\ handle[d] \in open /\ handle[c] \in open
          => handle[d] # handle[c]
    BY <1>4 DEF OwnPipe
  <2>2. \A d \in Clients : Live(d)' /\ handle'[d] \in open' => far'[handle'[d]] = d
    BY <1>1, <1>3 DEF OwnPipe
  <2>3. servePc' \in {"check", "listen", "create"} =>
          \A d \in Clients : Live(d)' => handle'[d] \in open'
    BY <1>1, <1>3, <1>4, <2>1 DEF OwnPipe, serveVars
  <2>4. servePc' \in {"check", "listen"} =>
          pipe' \in open' /\ \A d \in Clients : Live(d)' => handle'[d] # pipe'
    BY <1>1, <1>3, <1>4 DEF OwnPipe, serveVars
  <2>. QED
    BY <2>2, <2>3, <2>4 DEF OwnPipe
<1>7. Accounted'
  <2>1. \A h \in open' : Held(h) => Held(h)'
    BY <1>1, <1>3 DEF Held
  <2>. QED
    BY <1>1, <2>1 DEF Accounted, serveVars, Working
<1>8. Slots'
  <2>1. \A d \in Clients : pc'[d] \in Working <=> pc[d] \in Working
    BY <1>1 DEF Working
  <2>2. {d \in Clients : pc'[d] \in Working} = {d \in Clients : pc[d] \in Working}
    BY <2>1
  <2>. QED
    BY <1>1, <2>1, <2>2 DEF Slots, serveVars
<1>9. Earned'
  BY <1>1 DEF Earned, clientVars
<1>. QED
  BY <1>2, <1>5, <1>6, <1>7, <1>8, <1>9

\* The set of working clients when one starts or ends.
LEMMA OneMore ==
  ASSUME NEW S, NEW T, NEW c, IsFiniteSet(S), c \notin S, T = S \cup {c}
  PROVE  IsFiniteSet(T) /\ Cardinality(T) = Cardinality(S) + 1 /\ Cardinality(S) \in Nat
  BY FS_AddElement, FS_CardinalityType
LEMMA OneLess ==
  ASSUME NEW S, NEW T, NEW c, IsFiniteSet(S), c \in S, T = S \ {c}
  PROVE  /\ Cardinality(T) = Cardinality(S) - 1
         /\ Cardinality(T) \in Nat /\ Cardinality(S) \in Nat
  BY FS_RemoveElement, FS_CardinalityType

\* A worker's slot is given back once, by the worker that took it.
LEMMA WorkerReleases ==
  ASSUME PipeInv, NEW c \in Clients, WorkerRelease(c)
  PROVE  PipeInv'
<1> USE DEF PipeInv, PipeTypeOK
<1>1. /\ pc[c] = "release" /\ pc' = [pc EXCEPT ![c] = "done"]
      /\ handle' = [handle EXCEPT ![c] = 1] /\ frame' = [frame EXCEPT ![c] = "stalled"]
      /\ active' = active - 1
      /\ UNCHANGED <<servePc, shutdown, expected, workers, pipe, kernelVars, granted, client>>
  BY DEF WorkerRelease
<1>2. /\ pc' \in [Clients -> {"idle", "done"} \cup Working]
      /\ handle' \in [Clients -> Handles] /\ frame' \in [Clients -> Frames]
  BY <1>1, PipeAssumption DEF Handles, Frames
<1>3. \A d \in Clients : (Live(d)' <=> Live(d)) /\ (Live(d) => handle'[d] = handle[d])
  BY <1>1 DEF Live, Working
<1>4. FarEnds' /\ OwnPipe'
  BY <1>1, <1>3 DEF FarEnds, OwnPipe, kernelVars
<1>5. Accounted'
  <2>1. \A h \in open : Held(h) => Held(h)'
    BY <1>3 DEF Held
  <2>. QED
    BY <1>1, <2>1 DEF Accounted, kernelVars, Working
<1>6. Slots' /\ active' \in Nat
  <2> DEFINE S == {d \in Clients : pc[d] \in Working}
  <2> DEFINE T == {d \in Clients : pc'[d] \in Working}
  <2>1. T = S \ {c} /\ c \in S
    BY <1>1 DEF Working
  <2>2. IsFiniteSet(S)
    BY PipeAssumption, FS_Subset, S \subseteq Clients
  <2>3. /\ Cardinality(T) = Cardinality(S) - 1
        /\ Cardinality(T) \in Nat /\ Cardinality(S) \in Nat
    <3> HIDE DEF S, T
    <3>. QED
      BY <2>1, <2>2, OneLess
  <2>4. \A d \in Clients : pc'[d] \in Working => pc[d] \in Working
    BY <1>1
  <2>5. active = Cardinality(S) + (IF servePc = "panicked" THEN 1 ELSE 0)
    BY DEF Slots
  <2>6. active' = Cardinality(T) + (IF servePc = "panicked" THEN 1 ELSE 0)
    <3> HIDE DEF S, T
    <3>. QED
      BY <1>1, <2>3, <2>5
  <2>7. active' \in Nat
    <3> HIDE DEF S, T
    <3>. QED
      BY <2>3, <2>6
  <2>. QED
    BY <1>1, <2>4, <2>6, <2>7 DEF Slots
<1>7. Earned'
  BY <1>1 DEF Earned, kernelVars
<1>8. PipeTypeOK'
  BY <1>1, <1>2, <1>6 DEF kernelVars
<1>. QED
  BY <1>4, <1>5, <1>6, <1>7, <1>8
-----------------------------------------------------------------------------
(* The serve thread and its owner.                                         *)

\* A new instance takes a handle value that no live worker has.
LEMMA ServeCreates ==
  ASSUME PipeInv, servePc \in {"off", "create"}, CreateServerPipe, servePc' = "check",
         UNCHANGED <<shutdown, expected, active, workers, workerVars, clientVars>>
  PROVE  PipeInv'
<1> USE DEF PipeInv, PipeTypeOK, workerVars, clientVars
<1>1. PICK h \in Handles \ open :
        /\ open' = open \cup {h} /\ pipe' = h
        /\ far' = [far EXCEPT ![h] = Nobody] /\ UNCHANGED <<reply, cut>>
  BY DEF CreateServerPipe
<1>2. PipeTypeOK'
  BY <1>1
<1>3. \A d \in Clients : Live(d)' <=> Live(d)
  BY DEF Live
<1>4. \A d \in Clients : Live(d) => handle[d] \in open
  BY DEF OwnPipe, Accounted, Live, Working
<1>5. FarEnds'
  BY <1>1, PipeAssumption DEF FarEnds
<1>6. OwnPipe'
  BY <1>1, <1>3, <1>4 DEF OwnPipe
<1>7. Accounted'
  BY <1>1, <1>3 DEF Accounted, Held
<1>8. Slots' /\ Earned'
  BY <1>1 DEF Slots, Earned
<1>. QED
  BY <1>2, <1>5, <1>6, <1>7, <1>8

\* Leaving the loop: pipe_handle is closed, whosever it is, and none is made
\* afterwards.
LEMMA ServeLeaves ==
  ASSUME PipeInv, servePc \in {"check", "listen", "create"}, LeaveLoop,
         UNCHANGED <<shutdown, expected, active, workers, workerVars, clientVars>>
  PROVE  PipeInv'
<1> USE DEF PipeInv, PipeTypeOK, workerVars, clientVars
<1>1. /\ servePc' = "drain" /\ open' = open \ {pipe} /\ far' = [far EXCEPT ![pipe] = Nobody]
      /\ cut' \in SUBSET Clients /\ UNCHANGED <<reply, pipe>>
  BY DEF LeaveLoop, CloseHandle
<1>2. PipeTypeOK'
  BY <1>1
<1>3. \A d \in Clients : Live(d)' <=> Live(d)
  BY DEF Live
<1>4. FarEnds' /\ OwnPipe'
  BY <1>1, <1>3 DEF FarEnds, OwnPipe
<1>5. Accounted'
  BY <1>1, <1>3 DEF Accounted, Held
<1>6. Slots' /\ Earned'
  BY <1>1 DEF Slots, Earned
<1>. QED
  BY <1>2, <1>4, <1>5, <1>6

\* A connected instance is given to its client's worker.
LEMMA ServeAccepts ==
  ASSUME PipeInv, NEW c \in Clients, ServeAccept(c)
  PROVE  PipeInv'
<1> USE DEF PipeInv, PipeTypeOK
<1>1. /\ servePc = "listen" /\ pipe \in open /\ far[pipe] = c /\ active' = active + 1
      /\ workers' = workers \cup {c} /\ handle' = [handle EXCEPT ![c] = pipe]
      /\ pc' = [pc EXCEPT ![c] = "read"] /\ servePc' = "create"
      /\ UNCHANGED <<shutdown, expected, pipe, kernelVars, granted, clientVars>>
  BY DEF ServeAccept
<1>2. pc[c] = "idle"
  BY <1>1 DEF FarEnds
<1>3. PipeTypeOK'
  BY <1>1 DEF kernelVars, clientVars, Working
<1>4. \A d \in Clients : /\ Live(d)' <=> Live(d) \/ d = c
                         /\ d # c => handle'[d] = handle[d]
  BY <1>1, <1>2 DEF Live, Working
<1>5. FarEnds'
  <2>1. client[c] # "idle"
    BY <1>1 DEF FarEnds
  <2>. QED
    BY <1>1, <2>1 DEF FarEnds, clientVars, kernelVars
<1>6. OwnPipe'
  BY <1>1, <1>4 DEF OwnPipe, kernelVars
<1>7. Accounted'
  <2>1. \A h \in open : h = pipe \/ Held(h) => Held(h)'
    BY <1>1, <1>2, <1>4 DEF Held, Live, Working
  <2>. QED
    BY <1>1, <2>1 DEF Accounted, kernelVars
<1>8. Slots'
  <2> DEFINE S == {d \in Clients : pc[d] \in Working}
  <2> DEFINE T == {d \in Clients : pc'[d] \in Working}
  <2>1. T = S \cup {c} /\ c \notin S
    BY <1>1, <1>2 DEF Working
  <2>2. IsFiniteSet(S)
    BY PipeAssumption, FS_Subset, S \subseteq Clients
  <2>3. Cardinality(T) = Cardinality(S) + 1 /\ Cardinality(S) \in Nat
    <3> HIDE DEF S, T
    <3>. QED
      BY <2>1, <2>2, OneMore
  <2>4. \A d \in Clients : pc'[d] \in Working => d = c \/ pc[d] \in Working
    BY <1>1
  <2>. QED
    BY <1>1, <2>3, <2>4 DEF Slots
<1>9. Earned'
  BY <1>1 DEF Earned, kernelVars, clientVars
<1>. QED
  BY <1>3, <1>5, <1>6, <1>7, <1>8, <1>9

\* The rest of serve and of its owner touches no handle.
LEMMA ServeRest ==
  ASSUME PipeInv,
         \/ StartUnsecured \/ SetCodexIdentity \/ StopAccepting \/ ServeRound \/ ServeJoins
         \/ \E c \in Clients : ServeSpawnPanic(c)
  PROVE  PipeInv'
<1> USE DEF PipeInv, PipeTypeOK
<1>0. UNCHANGED <<kernelVars, workerVars, clientVars, pipe>>
  BY DEF StartUnsecured, SetCodexIdentity, StopAccepting, ServeRound, ServeJoins, ServeSpawnPanic
<1>1. \A d \in Clients : Live(d)' <=> Live(d)
  BY <1>0 DEF Live, workerVars
<1>2. Earned' /\ UNCHANGED <<open, far, reply, cut, pc, handle, granted, frame, client>>
  BY <1>0 DEF Earned, kernelVars, workerVars, clientVars
<1>3. CASE StartUnsecured
  BY <1>1, <1>2, <1>3 DEF StartUnsecured, FarEnds, OwnPipe, Accounted, Slots, Held, Working
<1>4. CASE SetCodexIdentity \/ StopAccepting
  <2>1. UNCHANGED <<servePc, active, workers>> /\ shutdown' \in BOOLEAN /\ expected' \in BOOLEAN
    BY <1>4 DEF SetCodexIdentity, StopAccepting
  <2>. QED
    BY <1>0, <1>1, <1>2, <2>1 DEF FarEnds, OwnPipe, Accounted, Slots, Held
<1>5. CASE ServeRound
  <2>1. /\ servePc = "check" /\ servePc' \in {"check", "listen"}
        /\ workers' = {c \in workers : pc[c] # "done"} /\ UNCHANGED <<active, shutdown, expected>>
    BY <1>5 DEF ServeRound
  <2>. QED
    BY <1>0, <1>1, <1>2, <2>1 DEF FarEnds, OwnPipe, Accounted, Slots, Held, Working
<1>6. CASE ServeJoins
  <2>1. \A c \in Clients : pc[c] \notin Working
    BY <1>6 DEF ServeJoins, Slots, Working
  <2>. QED
    BY <1>0, <1>1, <1>2, <1>6, <2>1 DEF ServeJoins, FarEnds, OwnPipe, Accounted, Slots, Held
<1>7. CASE \E c \in Clients : ServeSpawnPanic(c)
  <2>1. /\ servePc = "listen" /\ servePc' = "panicked" /\ active' = active + 1 /\ workers' = {}
        /\ UNCHANGED <<shutdown, expected>>
    BY <1>7 DEF ServeSpawnPanic
  <2>3. Slots'
    <3>1. Cardinality({c \in Clients : pc[c] \in Working}) \in Nat
      BY PipeAssumption, FS_Subset, FS_CardinalityType,
         {c \in Clients : pc[c] \in Working} \subseteq Clients
    <3>. QED
      BY <1>2, <2>1, <3>1 DEF Slots
  <2>. QED
    BY <1>0, <1>1, <1>2, <2>1, <2>3 DEF FarEnds, OwnPipe, Accounted, Held
<1>. QED
  BY <1>3, <1>4, <1>5, <1>6, <1>7
-----------------------------------------------------------------------------
(* The clients.                                                            *)

\* A client connects to the instance nobody is connected to: serve's, or one
\* that a panicked serve has left.
LEMMA ClientConnecting ==
  ASSUME PipeInv, NEW c \in Clients, ClientConnects(c)
  PROVE  PipeInv'
<1> USE DEF PipeInv, PipeTypeOK
<1>1. PICK h \in open, f \in Frames :
        /\ far[h] = Nobody /\ far' = [far EXCEPT ![h] = c] /\ frame' = [frame EXCEPT ![c] = f]
        /\ client[c] = "idle" /\ client' = [client EXCEPT ![c] = "connected"]
        /\ UNCHANGED <<open, reply, cut, serveVars, workerVars>>
  BY DEF ClientConnects
<1>2. PipeTypeOK'
  BY <1>1 DEF serveVars, workerVars
<1>3. pc[c] = "idle"
  BY <1>1 DEF FarEnds
<1>4. \A d \in Clients : Live(d)' <=> Live(d)
  BY <1>1 DEF Live, workerVars
<1>5. FarEnds'
  BY <1>1, <1>3 DEF FarEnds, serveVars, workerVars
<1>6. OwnPipe'
  <2>1. \A d \in Clients : Live(d) => handle[d] # h
    BY <1>1, PipeAssumption DEF OwnPipe
  <2>. QED
    BY <1>1, <1>4, <2>1 DEF OwnPipe, serveVars, workerVars
<1>7. Accounted'
  BY <1>1, <1>4 DEF Accounted, Held, serveVars, workerVars
<1>8. Slots'
  BY <1>1 DEF Slots, serveVars, workerVars
<1>9. Earned'
  BY <1>1, <1>3 DEF Earned, workerVars
<1>. QED
  BY <1>2, <1>5, <1>6, <1>7, <1>8, <1>9

\* A client finds no pipe, reads its answer or gives up.
LEMMA ClientEnding ==
  ASSUME PipeInv, NEW c \in Clients, ClientFindsNone(c) \/ ClientReads(c) \/ ClientFails(c)
  PROVE  PipeInv'
<1> USE DEF PipeInv, PipeTypeOK
<1>1. /\ \E s \in {"approved", "declined"} :
           /\ client' = [client EXCEPT ![c] = s]
           /\ s = "approved" => reply[c] = "allow"
      /\ UNCHANGED <<frame, open, far, serveVars, workerVars>>
      /\ cut' \in SUBSET Clients /\ reply' \in [Clients -> {"none", "allow", "no_decision"}]
      /\ \A d \in Clients : reply'[d] = "allow" => reply[d] = "allow"
  <2>1. CASE ClientFindsNone(c)
    BY <2>1 DEF ClientFindsNone, kernelVars
  <2>2. CASE ClientReads(c)
    BY <2>2 DEF ClientReads
  <2>3. CASE ClientFails(c)
    BY <2>3 DEF ClientFails
  <2>. QED
    BY <2>1, <2>2, <2>3
<1>2. PipeTypeOK'
  <2>1. client' \in [Clients -> {"idle", "connected", "approved", "declined"}]
    BY <1>1
  <2>. QED
    BY <1>1, <2>1 DEF serveVars, workerVars
<1>3. \A d \in Clients : Live(d)' <=> Live(d)
  BY <1>1 DEF Live, workerVars
<1>4. FarEnds' /\ OwnPipe'
  BY <1>1, <1>3 DEF FarEnds, OwnPipe, serveVars, workerVars
<1>5. Accounted' /\ Slots'
  BY <1>1, <1>3 DEF Accounted, Held, Slots, serveVars, workerVars
<1>6. Earned'
  BY <1>1 DEF Earned, workerVars
<1>. QED
  BY <1>2, <1>4, <1>5, <1>6
-----------------------------------------------------------------------------
(* The theorems.                                                           *)

LEMMA PipeInit ==
  ASSUME PInit
  PROVE  PipeInv
<1>1. PipeTypeOK
  <2>1. 1 \in Handles
    BY PipeAssumption DEF Handles
  <2>. QED
    BY <2>1 DEF PInit, PipeTypeOK, Frames
<1>2. FarEnds /\ OwnPipe /\ Accounted /\ Earned
  BY DEF PInit, FarEnds, OwnPipe, Accounted, Earned, Live, Working
<1>3. {c \in Clients : pc[c] \in Working} = {}
  BY DEF PInit, Working
<1>4. Slots
  BY <1>3, FS_EmptySet DEF PInit, Slots, Working
<1>. QED
  BY <1>1, <1>2, <1>4 DEF PipeInv

LEMMA PipeNext ==
  ASSUME PipeInv, [PNext]_pvars
  PROVE  PipeInv'
<1>1. CASE Start \/ ServeCreate
  BY <1>1, ServeCreates DEF Start, ServeCreate
<1>2. CASE ServeStops \/ ServeCreateFails \/ ServeWaitFails
  BY <1>2, ServeLeaves DEF ServeStops, ServeCreateFails, ServeWaitFails
<1>3. ASSUME NEW c \in Clients, WorkerStep(c)
      PROVE  PipeInv'
  BY <1>3, WorkerReadVerify, WorkerConsumes, WorkerAnswers, WorkerCloses, WorkerReleases
     DEF WorkerStep
<1>4. CASE UNCHANGED pvars
  BY <1>4 DEF pvars, serveVars, kernelVars, workerVars, clientVars, PipeInv, PipeTypeOK,
     FarEnds, OwnPipe, Accounted, Slots, Earned, Live, Held
<1>. QED
  BY <1>1, <1>2, <1>3, <1>4, ServeAccepts, ServeRest, ClientConnecting, ClientEnding
     DEF PNext, ServeWorks

\* The inductive invariant of the Windows broker.
THEOREM PipeSafe == PSpec => []PipeInv
<1>1. PInit => PipeInv
  BY PipeInit
<1>2. PipeInv /\ [PNext]_pvars => PipeInv'
  BY PipeNext
<1>. QED
  BY <1>1, <1>2, PTL DEF PSpec

\* handle_connection answers its own client: whatever handle values are closed
\* under a worker and used again, an allow is read only by a client whose own
\* request the ledger consumed, and the ledger consumes a request once.
THEOREM PipeAnswersMatch == PSpec => []AnswersMatch
<1>1. PipeInv => AnswersMatch
  BY DEF PipeInv, Earned, AnswersMatch
<1>. QED
  BY <1>1, PipeSafe, PTL

\* When shutdown has joined the serve thread no pipe handle is open and every
\* slot is free, by whichever exit serve left its loop.
THEOREM PipeNothingLeftOpen == PSpec => []NothingLeftOpen
<1>1. PipeInv => NothingLeftOpen
  <2> SUFFICES ASSUME PipeInv, servePc = "joined"
               PROVE  open = {} /\ active = 0
    BY DEF NothingLeftOpen
  <2>1. \A c \in Clients : pc[c] \notin Working
    BY DEF PipeInv, Accounted
  <2>2. open = {}
    BY <2>1 DEF PipeInv, Accounted, Held, Live
  <2>3. {c \in Clients : pc[c] \in Working} = {}
    BY <2>1
  <2>. QED
    BY <2>2, <2>3, FS_EmptySet DEF PipeInv, Slots
<1>. QED
  BY <1>1, PipeSafe, PTL

\* What is left of "HANDLE values are kernel-owned tokens safe to move between
\* threads": until serve leaves its loop a worker's pipe is open.
OwnedWhileServing == servePc \in {"check", "listen", "create"} => WorkerOwnsPipe

\* Only the loop's exit can close a pipe under its worker: before it, serve
\* closes none and reuses no value of a live worker's handle.
THEOREM PipeOwnedWhileServing == PSpec => []OwnedWhileServing
<1>1. PipeInv => OwnedWhileServing
  BY DEF PipeInv, OwnPipe, OwnedWhileServing, WorkerOwnsPipe, Live
<1>. QED
  BY <1>1, PipeSafe, PTL
-----------------------------------------------------------------------------
(* The boundary around a child: StopLeavesNone.                            *)

TreeInv == CTypeOK /\ SpawnInOrder /\ JobHoldsAll /\ StopLeavesNone

\* What a kill leaves: the same processes, none of the killed ones alive.
LEMMA KillLeaves ==
  ASSUME CTypeOK, NEW who \in SUBSET Procs
  PROVE  /\ Kill(who, proc) \in [Procs -> {"none", "suspended", "running", "zombie", "gone"}]
         /\ \A p \in Procs : /\ p \in who => Kill(who, proc)[p] \notin {"suspended", "running"}
                             /\ p \notin who => Kill(who, proc)[p] = proc[p]
                             /\ Kill(who, proc)[p] \in {"suspended", "running"}
                                  => Kill(who, proc)[p] = proc[p]
                             /\ proc[p] = "gone" => Kill(who, proc)[p] = "gone"
                             /\ proc[p] = "none" => Kill(who, proc)[p] = "none"
  BY DEF CTypeOK, Kill

\* The type invariant and what may be running hold initially.
LEMMA TreeInit == Init => TreeInv
  BY DEF Init, TreeInv, CTypeOK, SpawnInOrder, JobHoldsAll, StopLeavesNone, Procs,
         TreeStates, Alive

\* Every step of the owner, of the system and of the tree's processes keeps it.
LEMMA TreeStep == TreeInv /\ [Next]_vars => TreeInv'
  <1> SUFFICES ASSUME TreeInv, [Next]_vars PROVE TreeInv'
    OBVIOUS
  <1> USE DEF TreeInv, CTypeOK, SpawnInOrder, JobHoldsAll, StopLeavesNone, TreeStates,
             Platforms, Alive
  <1> Main \in Procs
    BY DEF Procs
  <1>1. CASE SpawnUnix
    BY <1>1 DEF SpawnUnix
  <1>2. CASE SpawnSuspended
    BY <1>2 DEF SpawnSuspended
  <1>3. CASE AssignToJob
    BY <1>3 DEF AssignToJob
  <1>4. CASE ResumeThread
    BY <1>4 DEF ResumeThread, InitialThread
  <1>5. CASE PrepareFails
    <2>1. Members \in SUBSET Procs
      BY DEF Members
    <2>2. QED
      BY <1>5, <2>1, KillLeaves DEF PrepareFails, Members
  <1>6. ASSUME NEW p \in Procs, NEW q \in Procs, Fork(p, q) PROVE TreeInv'
    BY <1>6 DEF Fork
  <1>7. ASSUME NEW p \in Procs, LeaveGroup(p) PROVE TreeInv'
    BY <1>7 DEF LeaveGroup
  <1>8. ASSUME NEW p \in Procs, Exit(p) PROVE TreeInv'
    BY <1>8 DEF Exit
  <1>9. CASE Poll
    BY <1>9 DEF Poll
  <1>10. CASE Stop
    <2>1. Members \in SUBSET Procs
      BY DEF Members
    <2>2. CASE stopped' = TRUE /\ proc' = Kill(Members, proc)
      <3>1. /\ proc' \in [Procs -> {"none", "suspended", "running", "zombie", "gone"}]
            /\ \A p \in Procs : /\ member[p] => proc'[p] \notin {"suspended", "running"}
                                /\ proc'[p] \in {"suspended", "running"} => proc'[p] = proc[p]
                                /\ proc[p] = "gone" => proc'[p] = "gone"
        BY <2>1, <2>2, KillLeaves DEF Members
      <3>2. QED
        BY <1>10, <2>2, <3>1 DEF Stop
    <2>3. CASE stopped' = FALSE /\ UNCHANGED proc
      BY <1>10, <2>3 DEF Stop
    <2>4. QED
      BY <1>10, <2>2, <2>3 DEF Stop
  <1>11. CASE StopAndReap
    <2>1. PICK stop, kill, wait \in BOOLEAN :
            LET afterStop == IF stop THEN Kill(Members, proc) ELSE proc
                afterKill == IF kill THEN Kill({Main}, afterStop) ELSE afterStop
                exited    == afterKill[Main] \in {"zombie", "gone"}
            IN  /\ stopped' = stop
                /\ proc' = IF exited /\ wait THEN [afterKill EXCEPT ![Main] = "gone"]
                                           ELSE afterKill
                /\ reaped' = IF stop /\ exited /\ wait THEN "ok" ELSE "error"
      BY <1>11 DEF StopAndReap
    <2> DEFINE afterStop == IF stop THEN Kill(Members, proc) ELSE proc
               afterKill == IF kill THEN Kill({Main}, afterStop) ELSE afterStop
               exited    == afterKill[Main] \in {"zombie", "gone"}
    <2>2. /\ afterStop \in [Procs -> {"none", "suspended", "running", "zombie", "gone"}]
          /\ \A p \in Procs : /\ stop /\ member[p] => afterStop[p] \notin {"suspended", "running"}
                              /\ afterStop[p] \in {"suspended", "running"} => afterStop[p] = proc[p]
      <3>1. Members \in SUBSET Procs
        BY DEF Members
      <3>2. QED
        BY <3>1, KillLeaves DEF Members
    <2>3. /\ afterKill \in [Procs -> {"none", "suspended", "running", "zombie", "gone"}]
          /\ \A p \in Procs : afterKill[p] \in {"suspended", "running"} => afterKill[p] = afterStop[p]
      BY <2>2 DEF Kill
    <2>4. /\ proc' \in [Procs -> {"none", "suspended", "running", "zombie", "gone"}]
          /\ \A p \in Procs : proc'[p] \in {"suspended", "running"} => proc'[p] = afterKill[p]
          /\ reaped' = "ok" => proc'[Main] = "gone" /\ stopped'
          /\ reaped' \in {"ok", "error"} /\ stopped' = stop
      <3> HIDE DEF afterKill
      <3>1. CASE exited /\ wait
        BY <2>1, <2>3, <3>1 DEF afterKill
      <3>2. CASE ~(exited /\ wait)
        BY <2>1, <2>3, <3>2 DEF afterKill
      <3>3. QED
        BY <3>1, <3>2
    <2>5. UNCHANGED <<platform, tree, member>> /\ tree = "open"
      BY <1>11 DEF StopAndReap
    <2> HIDE DEF afterStop, afterKill, exited
    <2>6. \A p \in Procs : proc'[p] \in {"suspended", "running"} =>
             proc'[p] = proc[p] /\ (stop => ~member[p])
      BY <2>2, <2>3, <2>4
    <2>7. QED
      BY <2>4, <2>5, <2>6
  <1>12. CASE Close
    <2>1. Members \in SUBSET Procs
      BY DEF Members
    <2>2. QED
      BY <1>12, <2>1, KillLeaves DEF Close, Members
  <1>13. CASE Rest
    BY <1>13 DEF Rest, vars
  <1>14. CASE UNCHANGED vars
    BY <1>14 DEF vars
  <1>15. QED
    BY <1>1, <1>2, <1>3, <1>4, <1>5, <1>6, <1>7, <1>8, <1>9, <1>10, <1>11, <1>12,
       <1>13, <1>14 DEF Next

\* Whatever the tree's processes do, and whichever system calls fail, a stop
\* that reports success left none of them running in the boundary.
THEOREM StopIsComplete == Spec => []StopLeavesNone
  <1>1. TreeInv => StopLeavesNone
    BY DEF TreeInv
  <1>2. QED
    BY <1>1, TreeInit, TreeStep, PTL DEF Spec

\* On Windows no descendant escapes between the spawn and the assignment to
\* the job.
THEOREM NoneEscapesTheJob == Spec => []JobHoldsAll
  <1>1. TreeInv => JobHoldsAll
    BY DEF TreeInv
  <1>2. QED
    BY <1>1, TreeInit, TreeStep, PTL DEF Spec
=============================================================================
