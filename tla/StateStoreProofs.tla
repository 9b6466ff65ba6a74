-------------------------- MODULE StateStoreProofs --------------------------
(***************************************************************************)
(* Proofs about StateStore: what a launcher was told is recorded stays so, *)
(* and the protocol implements one atomic register, for every number of    *)
(* launchers, every limit on the list and every bound.                     *)
(***************************************************************************)
EXTENDS StateStore, ObservationListProofs

\* Whatever was reflected by one list is reflected by the other.
Keeps(list, after) ==
    \A o \in CompatibilityObservation : Reflects(list, o) => Reflects(after, o)

LEMMA ReflectsIs ==
    ASSUME NEW list, NEW o
    PROVE  Reflects(list, o) <=>
             \/ \E i \in DOMAIN list : list[i].id = o.id
             \/ Len(list) = MaxObservations /\ \A i \in DOMAIN list : o.id < list[i].id
<1>1. IndicesOf(list, o.id) # {} <=> \E i \in DOMAIN list : list[i].id = o.id
  BY DEF IndicesOf
<1> QED BY <1>1 DEF Reflects

\* A new identity is in the list, or too old for it; at the limit the entry
\* that gives way is older than all that stay.
LEMMA InsertReflects ==
    ASSUME NEW list \in Lists, NEW new \in CompatibilityObservation,
           IndicesOf(list, new.id) = {}, Len(Insert(list, new)) <= MaxObservations
    PROVE  /\ Insert(list, new) \in Lists
           /\ Reflects(Insert(list, new), new) /\ Keeps(list, Insert(list, new))
<1> DEFINE after == Insert(list, new)
<1>1. /\ Len(list) \in Nat /\ DOMAIN list = 1 .. Len(list)
      /\ \A i \in DOMAIN list : list[i].id \in Nat /\ list[i].id # new.id
  BY ListElement DEF IndicesOf
<1>2. /\ new.id \in Nat /\ MaxObservations \in Nat \ {0}
      /\ \A o \in CompatibilityObservation : o.id \in Nat
  BY ListAssumption DEF CompatibilityObservation
<1>3. CASE Len(list) < MaxObservations
  <2>1. after = Sorted(Append(list, new))
    BY <1>3 DEF Insert
  <2>2. /\ after \in Lists /\ \E r \in DOMAIN after : after[r] = new
        /\ \A i \in DOMAIN list : \E r \in DOMAIN after : after[r] = list[i]
    <3> HIDE DEF after
    <3>1. LET s == Sorted(Append(list, new))
          IN  /\ s \in Lists /\ \E r \in DOMAIN s : s[r] = new
              /\ \A i \in DOMAIN list : \E r \in DOMAIN s : s[r] = list[i]
      BY PushSorted
    <3> QED BY <2>1, <3>1
  <2>3. Reflects(after, new)
    BY <2>2, ReflectsIs
  <2>4. ASSUME NEW o \in CompatibilityObservation, Reflects(list, o)
        PROVE  Reflects(after, o)
    <3>1. PICK i \in DOMAIN list : list[i].id = o.id
      BY <1>1, <1>2, <1>3, <2>4, ReflectsIs
    <3> QED BY <2>2, <3>1, ReflectsIs
  <2> QED BY <2>2, <2>3, <2>4 DEF Keeps
<1>4. CASE ~(Len(list) < MaxObservations)
  <2> DEFINE oldest == CHOOSE i \in DOMAIN list :
                         \A j \in DOMAIN list : list[i].id <= list[j].id
  <2>1. oldest \in DOMAIN list /\ \A j \in DOMAIN list : list[oldest].id <= list[j].id
    <3>1. Len(list) # 0
      BY <1>1, <1>2, <1>4
    <3> QED BY <3>1, OldestExists
  <2>2. after = IF new.id <= list[oldest].id THEN list
                ELSE Sorted(Append(Without(list, oldest), new))
    BY <1>4 DEF Insert
  <2> HIDE DEF oldest
  <2>3. CASE new.id <= list[oldest].id
    <3>1. after = list
      BY <2>2, <2>3
    <3>2. Len(list) = MaxObservations
      <4>1. Len(list) <= MaxObservations
        BY <3>1
      <4>2. Len(list) \in Nat /\ MaxObservations \in Nat
        BY <1>1, <1>2
      <4> QED BY <1>4, <4>1, <4>2
    <3>3. \A i \in DOMAIN list : new.id < list[i].id
      BY <1>1, <1>2, <2>1, <2>3
    <3> QED BY <3>1, <3>2, <3>3, ReflectsIs DEF Keeps
  <2>4. CASE ~(new.id <= list[oldest].id)
    <3> DEFINE w == Without(list, oldest)
    <3>1. /\ w \in Lists /\ Len(w) = Len(list) - 1
          /\ \A m \in DOMAIN w : \E k \in DOMAIN list \ {oldest} : w[m] = list[k]
          /\ \A k \in DOMAIN list \ {oldest} : \E m \in DOMAIN w : w[m] = list[k]
      BY <2>1, WithoutOne
    <3>2. after = Sorted(Append(w, new))
      BY <2>2, <2>4
    <3> HIDE DEF w, after
    <3>3. /\ after \in Lists /\ Len(after) = Len(w) + 1
          /\ \A r \in DOMAIN after : after[r] = new \/ \E m \in DOMAIN w : after[r] = w[m]
          /\ \E r \in DOMAIN after : after[r] = new
          /\ \A m \in DOMAIN w : \E r \in DOMAIN after : after[r] = w[m]
      <4>1. LET s == Sorted(Append(w, new))
            IN  /\ s \in Lists /\ Len(s) = Len(w) + 1
                /\ \A r \in DOMAIN s : s[r] = new \/ \E m \in DOMAIN w : s[r] = w[m]
                /\ \E r \in DOMAIN s : s[r] = new
                /\ \A m \in DOMAIN w : \E r \in DOMAIN s : s[r] = w[m]
        BY <3>1, PushSorted
      <4> QED BY <3>2, <4>1
    <3>4. /\ \A r \in DOMAIN after :
               after[r] = new \/ \E k \in DOMAIN list \ {oldest} : after[r] = list[k]
          /\ \A k \in DOMAIN list \ {oldest} : \E r \in DOMAIN after : after[r] = list[k]
      <4>1. ASSUME NEW r \in DOMAIN after, after[r] # new
            PROVE  \E k \in DOMAIN list \ {oldest} : after[r] = list[k]
        <5>1. PICK m \in DOMAIN w : after[r] = w[m]
          BY <3>3, <4>1
        <5> QED BY <3>1, <5>1
      <4>2. ASSUME NEW k \in DOMAIN list \ {oldest}
            PROVE  \E r \in DOMAIN after : after[r] = list[k]
        <5>1. PICK m \in DOMAIN w : w[m] = list[k]
          BY <3>1
        <5> QED BY <3>3, <5>1
      <4> QED BY <4>1, <4>2
    <3>5. Len(after) = MaxObservations
      <4>1. Len(after) <= MaxObservations
        BY DEF after
      <4>2. Len(list) \in Nat /\ MaxObservations \in Nat /\ Len(after) = (Len(list) - 1) + 1
        BY <1>1, <1>2, <3>1, <3>3
      <4> QED BY <1>4, <4>1, <4>2
    <3>6. Reflects(after, new)
      BY <3>3, ReflectsIs
    <3>7. ASSUME NEW o \in CompatibilityObservation, Reflects(list, o)
          PROVE  Reflects(after, o)
      <4>1. ASSUME NEW k \in DOMAIN list, list[k].id = o.id, k # oldest
            PROVE  Reflects(after, o)
        BY <3>4, <4>1, ReflectsIs
      <4>2. ASSUME \A k \in DOMAIN list \ {oldest} : o.id < list[k].id, o.id <= list[oldest].id
            PROVE  Reflects(after, o)
        <5>1. o.id < new.id
          BY <1>1, <1>2, <2>1, <2>4, <4>2
        <5>2. \A r \in DOMAIN after : o.id < after[r].id
          BY <3>4, <4>2, <5>1
        <5> QED BY <3>5, <5>2, ReflectsIs
      <4>3. CASE \E k \in DOMAIN list : list[k].id = o.id
        <5>1. CASE \E k \in DOMAIN list \ {oldest} : list[k].id = o.id
          BY <4>1, <5>1
        <5>2. CASE ~ \E k \in DOMAIN list \ {oldest} : list[k].id = o.id
          <6>1. list[oldest].id = o.id
            BY <4>3, <5>2
          <6>2. \A k \in DOMAIN list \ {oldest} : o.id < list[k].id
            BY <1>1, <1>2, <2>1, <5>2, <6>1
          <6> QED BY <1>1, <2>1, <4>2, <6>1, <6>2
        <5> QED BY <5>1, <5>2
      <4>4. CASE ~ \E k \in DOMAIN list : list[k].id = o.id
        <5>1. \A k \in DOMAIN list : o.id < list[k].id
          BY <3>7, <4>4, ReflectsIs
        <5> QED BY <1>1, <1>2, <2>1, <4>2, <5>1
      <4> QED BY <4>3, <4>4
    <3> QED BY <3>3, <3>6, <3>7 DEF Keeps, after
  <2> QED BY <2>3, <2>4
<1> QED BY <1>3, <1>4

\* UpdateState::record_compatibility_observation: the result is a valid list
\* that reflects the observation and all that was reflected before.
LEMMA RecordedReflects ==
    ASSUME NEW list \in Lists, NEW o \in CompatibilityObservation,
           NEW first \in Nat, NEW second \in Nat,
           NEW after \in Recorded(list, o, first, second)
    PROVE  /\ after \in Lists /\ ValidList(after)
           /\ Reflects(after, o) /\ Keeps(list, after)
<1> DEFINE dated == IF o.time = 0 THEN [o EXCEPT !.time = first] ELSE o
           same == IndicesOf(list, dated.id)
           i == CHOOSE i \in same : \A j \in same : i <= j
           merged == [list EXCEPT ![i] = MergeInto(@, dated, second)]
           new == [dated EXCEPT !.time = second]
<1>1. dated \in CompatibilityObservation /\ dated.id = o.id
  BY DEF CompatibilityObservation
<1>2. new \in CompatibilityObservation /\ new.id = o.id
  BY <1>1 DEF CompatibilityObservation
<1>3. ValidList(after) /\ after = IF same # {} THEN merged ELSE Insert(list, new)
  BY DEF Recorded
<1> HIDE DEF dated, new, i
<1>4. CASE same # {}
  <2>1. after = [m \in DOMAIN list |->
                   IF m = i THEN MergeInto(list[i], dated, second) ELSE list[m]]
    BY <1>3, <1>4
  <2>2. \A m \in DOMAIN list : after[m] \in CompatibilityObservation /\ after[m].id = list[m].id
    <3> SUFFICES ASSUME NEW m \in DOMAIN list
                 PROVE  after[m] \in CompatibilityObservation /\ after[m].id = list[m].id
      OBVIOUS
    <3>1. list[m] \in CompatibilityObservation
      BY ListElement
    <3>2. /\ MergeInto(list[m], dated, second) \in CompatibilityObservation
          /\ MergeInto(list[m], dated, second).id = list[m].id
      BY <1>1, <3>1, MergedEntry
    <3>3. after[m] = IF m = i THEN MergeInto(list[m], dated, second) ELSE list[m]
      BY <2>1
    <3> QED BY <3>1, <3>2, <3>3
  <2>3. DOMAIN after = DOMAIN list /\ after \in Lists /\ Len(after) = Len(list)
    <3>1. Len(list) \in Nat /\ DOMAIN list = 1 .. Len(list)
      BY ListElement
    <3>2. after \in [1 .. Len(list) -> CompatibilityObservation]
      BY <2>1, <2>2, <3>1
    <3> QED BY <3>1, <3>2 DEF Lists
  <2>4. Reflects(after, o)
    <3>1. PICK k \in DOMAIN list : list[k].id = o.id
      BY <1>1, <1>4 DEF IndicesOf
    <3> QED BY <2>2, <2>3, <3>1, ReflectsIs
  <2>5. Keeps(list, after)
    <3> SUFFICES ASSUME NEW x \in CompatibilityObservation, Reflects(list, x)
                 PROVE  Reflects(after, x)
      BY DEF Keeps
    <3> QED BY <2>2, <2>3, ReflectsIs
  <2> QED BY <1>3, <2>3, <2>4, <2>5
<1>5. CASE same = {}
  <2>1. after = Insert(list, new) /\ IndicesOf(list, new.id) = {}
    BY <1>1, <1>2, <1>3, <1>5
  <2>2. Len(Insert(list, new)) <= MaxObservations
    BY <1>3, <2>1 DEF ValidList
  <2>3. after \in Lists /\ Reflects(after, new) /\ Keeps(list, after)
    BY <1>2, <2>1, <2>2, InsertReflects
  <2>4. Reflects(after, o)
    BY <1>2, <2>3, ReflectsIs
  <2> QED BY <1>3, <2>3, <2>4
<1> QED BY <1>4, <1>5
-----------------------------------------------------------------------------
(* The inductive invariant.                                                *)

Pcs == Over \cup Steps \cup Saving \cup {"renamed", "cleanup"}
Changed == {"merged", "created", "written", "synced", "verified"}
Owning == {"locked", "leased", "loaded", "renamed", "cleanup"} \cup Changed

Updates(list, o, after) ==
    \E first, second \in Clock : after \in Recorded(list, o, first, second)

StoreTypeOK ==
    /\ pc \in [Procs -> Pcs] /\ input \in [Procs -> Inputs]
    /\ local \in [Procs -> Seq(CompatibilityObservation)]
    /\ inode \in Inodes /\ handle \in [Procs -> Inodes]
    /\ holder \in [Inodes -> Procs \cup {NoProc}]
    /\ file \in StateFile /\ durable \subseteq StateFile
    /\ temp \in [Procs -> Temps]

\* Until the lock file is replaced one launcher at most is past the lock.
LeaseHeld ==
    inode = 0 => \A p \in Procs :
        handle[p] = 0 /\ (pc[p] \in Owning => holder[0] = p)

\* What the holder works on is what the file holds, and what it is about to
\* commit is a legal update of that, written and synced.
WorkIsCurrent ==
    inode = 0 => \A p \in Procs :
        /\ pc[p] = "loaded" => file.kind # "corrupt" /\ local[p] = file.list
        /\ pc[p] \in Changed => /\ file.kind # "corrupt"
                                /\ Updates(file.list, input[p], local[p])
        /\ pc[p] = "renamed" => file.kind = "present" /\ Reflects(file.list, input[p])

SyncedBeforeRename ==
    \A p \in Procs : pc[p] \in {"synced", "verified"} => temp[p] = "synced"

StoreInv ==
    /\ StoreTypeOK /\ file \in durable /\ SyncedBeforeRename
    /\ LeaseHeld /\ WorkIsCurrent /\ AcknowledgedSurvives

LEMMA StoreInvInit == Init => StoreInv
<1> SUFFICES ASSUME Init PROVE StoreInv
  OBVIOUS
<1>1. 0 \in Inodes
  BY StoreAssumption DEF Inodes
<1>2. <<>> \in Seq(CompatibilityObservation)
  OBVIOUS
<1>3. StoreTypeOK
  <2>1. pc \in [Procs -> Pcs] /\ temp \in [Procs -> Temps]
    BY DEF Init, Pcs, Over, Temps
  <2>2. input \in [Procs -> Inputs] /\ local \in [Procs -> Seq(CompatibilityObservation)]
    BY <1>2 DEF Init
  <2>3. /\ inode \in Inodes /\ handle \in [Procs -> Inodes]
        /\ holder \in [Inodes -> Procs \cup {NoProc}]
    BY <1>1 DEF Init
  <2>4. file \in StateFile /\ durable \subseteq StateFile
    BY StoreAssumption DEF Init
  <2> QED BY <2>1, <2>2, <2>3, <2>4 DEF StoreTypeOK
<1>4. \A p \in Procs : pc[p] = "idle" /\ handle[p] = 0
  BY DEF Init
<1>5. file \in durable
  BY DEF Init
<1> QED BY <1>3, <1>4, <1>5
        DEF StoreInv, SyncedBeforeRename, LeaseHeld, WorkIsCurrent, AcknowledgedSurvives,
            Owning, Changed

\* What the invariant says of a launcher that goes on: the lease is its own,
\* so no other launcher is past the lock.
LEMMA OneOwner ==
    ASSUME StoreInv, inode = 0, NEW p \in Procs, NEW q \in Procs,
           pc[p] \in Owning, pc[q] \in Owning
    PROVE  p = q
BY DEF StoreInv, LeaseHeld

\* A step of launcher p that leaves the file as it is: it goes to a place
\* that presupposes nothing it does not have.
LEMMA QuietStep ==
    ASSUME StoreInv, NEW p \in Procs, NEW to \in Pcs,
           pc' = [pc EXCEPT ![p] = to],
           to \notin {"ok", "loaded", "renamed"},
           to \in Changed => pc[p] \in Changed,
           to \in Owning => pc[p] \in Owning,
           holder' = holder \/ (to \notin Owning /\ holder' = Unlocked(p)),
           temp' = temp \/ \E t \in Temps : temp' = [temp EXCEPT ![p] = t],
           to \in {"synced", "verified"} => temp'[p] = "synced",
           UNCHANGED <<input, local, inode, handle, file, durable>>
    PROVE  StoreInv'
<1> USE DEF StoreInv
<1>1. StoreTypeOK'
  <2>1. pc' \in [Procs -> Pcs] /\ temp' \in [Procs -> Temps]
    BY DEF StoreTypeOK
  <2>2. holder' \in [Inodes -> Procs \cup {NoProc}]
    BY DEF StoreTypeOK, Unlocked
  <2> QED BY <2>1, <2>2 DEF StoreTypeOK
<1>2. (file \in durable)' /\ SyncedBeforeRename'
  BY DEF SyncedBeforeRename, StoreTypeOK
<1>3. LeaseHeld'
  <2> SUFFICES ASSUME inode = 0, NEW q \in Procs
               PROVE  handle[q] = 0 /\ (pc'[q] \in Owning => holder'[0] = q)
    BY DEF LeaseHeld
  <2>1. handle[q] = 0 /\ (pc[q] \in Owning => holder[0] = q)
    BY DEF LeaseHeld
  <2>2. ASSUME pc'[q] \in Owning PROVE holder'[0] = q
    <3>1. pc[q] \in Owning
      BY <2>2 DEF StoreTypeOK
    <3>2. CASE holder' = holder
      BY <2>1, <3>1, <3>2
    <3>3. CASE to \notin Owning /\ holder' = Unlocked(p)
      <4>1. q # p
        BY <2>2, <3>3 DEF StoreTypeOK
      <4>2. 0 \in Inodes
        BY DEF StoreTypeOK
      <4> QED BY <2>1, <3>1, <3>3, <4>1, <4>2 DEF Unlocked
    <3> QED BY <3>2, <3>3
  <2> QED BY <2>1, <2>2
<1>4. WorkIsCurrent'
  <2> SUFFICES ASSUME inode = 0, NEW q \in Procs
               PROVE  /\ pc'[q] = "loaded" => file.kind # "corrupt" /\ local[q] = file.list
                      /\ pc'[q] \in Changed => /\ file.kind # "corrupt"
                                               /\ Updates(file.list, input[q], local[q])
                      /\ pc'[q] = "renamed" => file.kind = "present" /\ Reflects(file.list, input[q])
    BY DEF WorkIsCurrent
  <2>1. /\ pc[q] = "loaded" => file.kind # "corrupt" /\ local[q] = file.list
        /\ pc[q] \in Changed => /\ file.kind # "corrupt"
                                /\ Updates(file.list, input[q], local[q])
        /\ pc[q] = "renamed" => file.kind = "present" /\ Reflects(file.list, input[q])
    BY DEF WorkIsCurrent
  <2>2. CASE q = p
    <3>1. pc'[q] = to
      BY <2>2 DEF StoreTypeOK
    <3> QED BY <2>1, <2>2, <3>1
  <2>3. CASE q # p
    <3>1. pc'[q] = pc[q]
      BY <2>3 DEF StoreTypeOK
    <3> QED BY <2>1, <3>1
  <2> QED BY <2>2, <2>3
<1>5. AcknowledgedSurvives'
  <2>1. \A q \in Procs : pc'[q] = "ok" => pc[q] = "ok"
    BY DEF StoreTypeOK
  <2> QED BY <2>1 DEF AcknowledgedSurvives
<1> QED BY <1>1, <1>2, <1>3, <1>4, <1>5

\* The steps that QuietStep is about.
LEMMA BailKeeps ==
    ASSUME StoreInv, NEW p \in Procs, NEW from, Bail(p, from)
    PROVE  StoreInv'
<1>1. /\ pc' = [pc EXCEPT ![p] = "error"] /\ holder' = Unlocked(p)
      /\ UNCHANGED <<input, local, inode, handle, file, durable, temp>>
  BY DEF Bail, Goto, diskVars
<1>2. /\ "error" \in Pcs /\ "error" \notin Owning /\ "error" \notin Changed
      /\ "error" \notin {"ok", "loaded", "renamed"} /\ "error" \notin {"synced", "verified"}
  BY DEF Pcs, Over, Owning, Changed
<1> QED BY <1>1, <1>2, QuietStep

LEMMA VerifiedKeeps ==
    ASSUME StoreInv, NEW p \in Procs, NEW from \in {"locked", "synced", "merged"},
           NEW to \in {"leased", "verified", "cleanup"}, Verified(p, from, to),
           to = "verified" => from = "synced"
    PROVE  StoreInv'
<1>1. /\ pc[p] = from /\ pc' = [pc EXCEPT ![p] = to]
      /\ UNCHANGED <<input, local, inode, handle, holder, file, durable, temp>>
  BY DEF Verified, Goto, diskVars, lockVars
<1>2. /\ to \in Pcs /\ to \notin {"ok", "loaded", "renamed"}
      /\ to \in Owning /\ from \in Owning /\ (to \in Changed => from \in Changed)
  BY DEF Pcs, Steps, Saving, Owning, Changed
<1>3. to \in {"synced", "verified"} => temp'[p] = "synced"
  BY <1>1 DEF StoreInv, SyncedBeforeRename
<1> QED BY <1>1, <1>2, <1>3, QuietStep

LEMMA ContendedKeeps ==
    ASSUME StoreInv, NEW p \in Procs, Contended(p)
    PROVE  StoreInv'
<1>1. /\ pc' = [pc EXCEPT ![p] = "contended"]
      /\ UNCHANGED <<input, local, inode, handle, holder, file, durable, temp>>
  BY DEF Contended, Goto, diskVars, lockVars
<1>2. /\ "contended" \in Pcs /\ "contended" \notin Owning /\ "contended" \notin Changed
      /\ "contended" \notin {"ok", "loaded", "renamed"} /\ "contended" \notin {"synced", "verified"}
  BY DEF Pcs, Over, Owning, Changed
<1> QED BY <1>1, <1>2, QuietStep

LEMMA CrashKeeps ==
    ASSUME StoreInv, NEW p \in Procs, Crash(p)
    PROVE  StoreInv'
<1>1. /\ pc' = [pc EXCEPT ![p] = "crashed"] /\ holder' = Unlocked(p)
      /\ UNCHANGED <<input, local, inode, handle, file, durable, temp>>
  BY DEF Crash, diskVars
<1>2. /\ "crashed" \in Pcs /\ "crashed" \notin Owning /\ "crashed" \notin Changed
      /\ "crashed" \notin {"ok", "loaded", "renamed"} /\ "crashed" \notin {"synced", "verified"}
  BY DEF Pcs, Over, Owning, Changed
<1> QED BY <1>1, <1>2, QuietStep

\* save_at up to the rename: the temporary file is this launcher's own.
LEMMA SavingKeeps ==
    ASSUME StoreInv, NEW p \in Procs,
           CreateTemp(p) \/ WriteTemp(p) \/ SyncTemp(p) \/ VerifyCommit(p) \/ LateFail(p)
             \/ Cleanup(p)
    PROVE  StoreInv'
<1>0. /\ {"created", "written", "synced", "cleanup", "error"} \subseteq Pcs
      /\ {"merged", "created", "written", "synced", "cleanup"} \cup Saving \subseteq Owning
      /\ {"merged", "created", "written", "synced"} \subseteq Changed
      /\ "cleanup" \notin Changed /\ "error" \notin Changed /\ "error" \notin Owning
      /\ {"none", "empty", "written", "synced"} \subseteq Temps
  BY DEF Pcs, Over, Steps, Saving, Owning, Changed, Temps
<1>1. CASE CreateTemp(p)
  <2>1. CASE /\ HoldsEntry(p) /\ temp[p] = "none"
             /\ Goto(p, "merged", "created") /\ temp' = [temp EXCEPT ![p] = "empty"]
             /\ UNCHANGED <<input, local, lockVars, file, durable, runs, crashes>>
    <3>1. /\ pc[p] = "merged" /\ pc' = [pc EXCEPT ![p] = "created"]
          /\ UNCHANGED <<input, local, inode, handle, holder, file, durable>>
      BY <2>1 DEF Goto, lockVars
    <3>2. \E t \in Temps : temp' = [temp EXCEPT ![p] = t]
      BY <1>0, <2>1
    <3> QED BY <1>0, <3>1, <3>2, QuietStep
  <2>2. CASE temp[p] # "none" /\ Verified(p, "merged", "cleanup")
    BY <2>2, VerifiedKeeps
  <2>3. CASE ~HoldsEntry(p) /\ Bail(p, "merged")
    BY <2>3, BailKeeps
  <2> QED BY <1>1, <2>1, <2>2, <2>3 DEF CreateTemp
<1>2. CASE WriteTemp(p)
  <2>1. /\ pc[p] = "created" /\ pc' = [pc EXCEPT ![p] = "written"]
        /\ temp' = [temp EXCEPT ![p] = "written"]
        /\ UNCHANGED <<input, local, inode, handle, holder, file, durable>>
    BY <1>2 DEF WriteTemp, Fill, Goto, lockVars
  <2>2. \E t \in Temps : temp' = [temp EXCEPT ![p] = t]
    BY <1>0, <2>1
  <2> QED BY <1>0, <2>1, <2>2, QuietStep
<1>3. CASE SyncTemp(p)
  <2>1. /\ pc[p] = "written" /\ pc' = [pc EXCEPT ![p] = "synced"]
        /\ temp' = [temp EXCEPT ![p] = "synced"]
        /\ UNCHANGED <<input, local, inode, handle, holder, file, durable>>
    BY <1>3 DEF SyncTemp, Fill, Goto, lockVars
  <2>2. (\E t \in Temps : temp' = [temp EXCEPT ![p] = t]) /\ temp'[p] = "synced"
    BY <1>0, <2>1 DEF StoreInv, StoreTypeOK
  <2> QED BY <1>0, <2>1, <2>2, QuietStep
<1>4. CASE VerifyCommit(p)
  <2>1. CASE Verified(p, "synced", "verified")
    BY <2>1, VerifiedKeeps
  <2>2. CASE /\ ~HoldsEntry(p) /\ Goto(p, "synced", "cleanup")
             /\ UNCHANGED <<input, local, lockVars, diskVars, runs, crashes>>
    <3>1. /\ pc[p] = "synced" /\ pc' = [pc EXCEPT ![p] = "cleanup"]
          /\ UNCHANGED <<input, local, inode, handle, holder, file, durable, temp>>
      BY <2>2 DEF Goto, lockVars, diskVars
    <3> QED BY <1>0, <3>1, QuietStep
  <2> QED BY <1>4, <2>1, <2>2 DEF VerifyCommit
<1>5. CASE LateFail(p)
  <2>1. /\ pc[p] \in Saving /\ pc' = [pc EXCEPT ![p] = "cleanup"]
        /\ UNCHANGED <<input, local, inode, handle, holder, file, durable, temp>>
    BY <1>5 DEF LateFail, lockVars, diskVars
  <2> QED BY <1>0, <2>1, QuietStep
<1>6. CASE Cleanup(p)
  <2>1. /\ pc' = [pc EXCEPT ![p] = "error"] /\ holder' = Unlocked(p)
        /\ UNCHANGED <<input, local, inode, handle, file, durable>>
    BY <1>6 DEF Cleanup, Goto
  <2>2. \E t \in Temps : temp' = [temp EXCEPT ![p] = t]
    BY <1>0, <1>6 DEF Cleanup, StoreInv, StoreTypeOK
  <2> QED BY <1>0, <2>1, <2>2, QuietStep
<1> QED BY <1>1, <1>2, <1>3, <1>4, <1>5, <1>6

\* A launcher that starts, or opens the lock file, has nothing yet.
LEMMA StartKeeps ==
    ASSUME StoreInv, NEW p \in Procs, Start(p) \/ OpenLock(p)
    PROVE  StoreInv'
<1> USE DEF StoreInv
<1>1. PICK to \in {"open", "waiting"} : pc' = [pc EXCEPT ![p] = to]
  BY DEF Start, OpenLock, Goto
<1>2. UNCHANGED <<local, inode, holder, file, durable, temp>>
  BY DEF Start, OpenLock, diskVars
<1>3. input' \in [Procs -> Inputs] /\ \A q \in Procs \ {p} : input'[q] = input[q]
  BY DEF Start, OpenLock, StoreTypeOK
<1>4. handle' \in [Procs -> Inodes] /\ (inode = 0 => \A q \in Procs : handle'[q] = 0)
  BY DEF Start, OpenLock, StoreTypeOK, LeaseHeld
<1>5. /\ to \in Pcs /\ to \notin Owning \cup Changed \cup {"ok", "loaded", "renamed"}
      /\ to \notin {"synced", "verified"}
  BY DEF Pcs, Steps, Owning, Changed
<1>6. pc' \in [Procs -> Pcs] /\ \A q \in Procs : pc'[q] = IF q = p THEN to ELSE pc[q]
  BY <1>1, <1>5 DEF StoreTypeOK
<1>7. StoreTypeOK' /\ (file \in durable)'
  BY <1>2, <1>3, <1>4, <1>6 DEF StoreTypeOK
<1>8. SyncedBeforeRename' /\ LeaseHeld'
  BY <1>2, <1>4, <1>5, <1>6 DEF SyncedBeforeRename, LeaseHeld
<1>9. WorkIsCurrent' /\ AcknowledgedSurvives'
  BY <1>2, <1>3, <1>5, <1>6 DEF WorkIsCurrent, AcknowledgedSurvives
<1> QED BY <1>7, <1>8, <1>9

\* The lock is taken when nobody has it, so nobody else is past it.
LEMMA TryLockKeeps ==
    ASSUME StoreInv, NEW p \in Procs, TryLock(p)
    PROVE  StoreInv'
<1> USE DEF StoreInv
<1>1. /\ holder[handle[p]] = NoProc /\ pc' = [pc EXCEPT ![p] = "locked"]
      /\ holder' = [holder EXCEPT ![handle[p]] = p]
      /\ UNCHANGED <<input, local, inode, handle, file, durable, temp>>
  BY DEF TryLock, Goto, diskVars
<1>2. /\ "locked" \in Pcs /\ "locked" \notin Changed \cup {"ok", "loaded", "renamed"}
      /\ "locked" \notin {"synced", "verified"}
  BY DEF Pcs, Steps, Changed
<1>3. pc' \in [Procs -> Pcs] /\ \A q \in Procs : pc'[q] = IF q = p THEN "locked" ELSE pc[q]
  BY <1>1, <1>2 DEF StoreTypeOK
<1>4. holder' \in [Inodes -> Procs \cup {NoProc}]
  BY <1>1 DEF StoreTypeOK
<1>5. StoreTypeOK' /\ (file \in durable)'
  BY <1>1, <1>3, <1>4 DEF StoreTypeOK
<1>6. SyncedBeforeRename' /\ WorkIsCurrent' /\ AcknowledgedSurvives'
  BY <1>1, <1>2, <1>3 DEF SyncedBeforeRename, WorkIsCurrent, AcknowledgedSurvives
<1>7. LeaseHeld'
  <2> SUFFICES ASSUME inode = 0, NEW q \in Procs
               PROVE  handle[q] = 0 /\ (pc'[q] \in Owning => holder'[0] = q)
    BY <1>1 DEF LeaseHeld
  <2>1. handle[p] = 0 /\ handle[q] = 0 /\ (pc[q] \in Owning => holder[0] = q)
    BY DEF LeaseHeld
  <2>2. NoProc \notin Procs /\ 0 \in Inodes
    BY StoreAssumption DEF StoreTypeOK
  <2>3. holder'[0] = p /\ pc[q] \notin Owning
    BY <1>1, <2>1, <2>2 DEF StoreTypeOK
  <2> QED BY <1>3, <2>1, <2>3
<1> QED BY <1>5, <1>6, <1>7

\* load_at and the merge, in the launcher's own memory.
LEMMA LoadMergeKeeps ==
    ASSUME StoreInv, NEW p \in Procs, Load(p) \/ Merge(p)
    PROVE  StoreInv'
<1> USE DEF StoreInv
<1>1. ASSUME NEW from, Bail(p, from) PROVE StoreInv'
  BY <1>1, BailKeeps
<1>2. ASSUME NEW to \in {"loaded", "merged"}, pc[p] \in Owning, pc' = [pc EXCEPT ![p] = to],
             NEW list \in Seq(CompatibilityObservation), local' = [local EXCEPT ![p] = list],
             UNCHANGED <<input, inode, handle, holder, file, durable, temp>>,
             to = "loaded" => file.kind # "corrupt" /\ list = file.list,
             inode = 0 /\ to = "merged" =>
                file.kind # "corrupt" /\ Updates(file.list, input[p], list)
      PROVE  StoreInv'
  <2>1. /\ to \in Pcs /\ to \notin {"ok", "renamed", "synced", "verified"}
        /\ "loaded" \notin Changed /\ to \in Owning
    BY DEF Pcs, Steps, Changed, Owning
  <2>2. /\ pc' \in [Procs -> Pcs] /\ local' \in [Procs -> Seq(CompatibilityObservation)]
        /\ \A q \in Procs : /\ pc'[q] = IF q = p THEN to ELSE pc[q]
                            /\ local'[q] = IF q = p THEN list ELSE local[q]
    BY <1>2, <2>1 DEF StoreTypeOK
  <2>3. StoreTypeOK' /\ (file \in durable)'
    BY <1>2, <2>2 DEF StoreTypeOK
  <2>4. SyncedBeforeRename' /\ LeaseHeld' /\ AcknowledgedSurvives'
    BY <1>2, <2>1, <2>2 DEF SyncedBeforeRename, LeaseHeld, AcknowledgedSurvives
  <2>5. WorkIsCurrent'
    BY <1>2, <2>1, <2>2 DEF WorkIsCurrent
  <2> QED BY <2>3, <2>4, <2>5
<1>3. CASE Load(p)
  <2>1. CASE /\ file.kind # "corrupt" /\ Goto(p, "leased", "loaded")
             /\ local' = [local EXCEPT ![p] = file.list]
             /\ UNCHANGED <<input, lockVars, diskVars, runs, crashes>>
    <3>1. file.list \in Seq(CompatibilityObservation)
      BY DEF StoreTypeOK, StateFile
    <3>2. pc[p] = "leased" /\ "leased" \in Owning /\ pc' = [pc EXCEPT ![p] = "loaded"]
      BY <2>1 DEF Goto, Owning
    <3>3. UNCHANGED <<input, inode, handle, holder, file, durable, temp>>
      BY <2>1 DEF lockVars, diskVars
    <3> QED BY <1>2, <2>1, <3>1, <3>2, <3>3
  <2>2. CASE file.kind = "corrupt" /\ Bail(p, "leased")
    BY <1>1, <2>2
  <2> QED BY <1>3, <2>1, <2>2 DEF Load
<1>4. CASE Merge(p)
  <2>1. PICK first \in Clock, second \in Clock :
          LET result == Recorded(local[p], input[p], first, second)
          IN  IF result = {} THEN Bail(p, "loaded")
              ELSE /\ Goto(p, "loaded", "merged")
                   /\ \E list \in result : local' = [local EXCEPT ![p] = list]
                   /\ UNCHANGED <<input, lockVars, diskVars, runs, crashes>>
    BY <1>4 DEF Merge
  <2>2. CASE Recorded(local[p], input[p], first, second) = {}
    BY <1>1, <2>1, <2>2
  <2>3. CASE Recorded(local[p], input[p], first, second) # {}
    <3>1. /\ pc[p] = "loaded" /\ pc' = [pc EXCEPT ![p] = "merged"]
          /\ UNCHANGED <<input, inode, handle, holder, file, durable, temp>>
      BY <2>1, <2>3 DEF Goto, lockVars, diskVars
    <3>2. PICK list \in Recorded(local[p], input[p], first, second) :
                local' = [local EXCEPT ![p] = list]
      BY <2>1, <2>3
    <3>3. list \in Seq(CompatibilityObservation)
      <4>1. local[p] \in Lists /\ input[p] \in CompatibilityObservation
        BY StoreAssumption DEF StoreTypeOK, Lists
      <4>2. first \in Nat /\ second \in Nat
        BY StoreAssumption
      <4> QED BY <4>1, <4>2, RecordedReflects DEF Lists
    <3>4. inode = 0 => file.kind # "corrupt" /\ Updates(file.list, input[p], list)
      BY <3>1 DEF WorkIsCurrent, Updates
    <3>5. pc[p] \in Owning
      BY <3>1 DEF Owning
    <3> QED BY <1>2, <3>1, <3>2, <3>3, <3>4, <3>5
  <2> QED BY <2>2, <2>3
<1> QED BY <1>3, <1>4

\* The rename puts a legal update of what the file holds in its place.
LEMMA RenameKeeps ==
    ASSUME StoreInv, NEW p \in Procs, Rename(p)
    PROVE  StoreInv'
<1> USE DEF StoreInv
<1>1. /\ pc[p] = "verified" /\ pc' = [pc EXCEPT ![p] = "renamed"]
      /\ file' = Present(local[p])
      /\ durable' = durable \cup {IF temp[p] = "synced" THEN file' ELSE Torn}
      /\ temp' = [temp EXCEPT ![p] = "none"]
      /\ UNCHANGED <<input, local, inode, handle, holder>>
  BY DEF Rename, Goto, lockVars
<1>2. durable' = durable \cup {file'}
  BY <1>1 DEF SyncedBeforeRename
<1>3. /\ file' \in StateFile /\ file'.kind = "present" /\ file'.list = local[p]
  BY <1>1 DEF StoreTypeOK, StateFile, Present
<1>4. /\ "renamed" \in Pcs /\ "none" \in Temps
      /\ "renamed" \notin Changed \cup {"ok", "loaded", "synced", "verified"}
      /\ "renamed" \in Owning /\ "verified" \in Owning \cap Changed /\ Changed \subseteq Owning
      /\ "loaded" \in Owning
  BY DEF Pcs, Temps, Changed, Owning
<1>5. /\ pc' \in [Procs -> Pcs] /\ temp' \in [Procs -> Temps]
      /\ \A q \in Procs : /\ pc'[q] = IF q = p THEN "renamed" ELSE pc[q]
                          /\ temp'[q] = IF q = p THEN "none" ELSE temp[q]
  BY <1>1, <1>4 DEF StoreTypeOK
<1>6. StoreTypeOK' /\ (file \in durable)'
  BY <1>1, <1>2, <1>3, <1>5 DEF StoreTypeOK
<1>7. SyncedBeforeRename' /\ LeaseHeld'
  BY <1>1, <1>4, <1>5 DEF SyncedBeforeRename, LeaseHeld
<1>8. ASSUME inode = 0
      PROVE  Reflects(local[p], input[p]) /\ Keeps(file.list, local[p])
  <2>1. Updates(file.list, input[p], local[p])
    BY <1>1, <1>4, <1>8 DEF WorkIsCurrent
  <2>2. PICK first, second \in Clock : local[p] \in Recorded(file.list, input[p], first, second)
    BY <2>1 DEF Updates
  <2>3. file.list \in Lists /\ input[p] \in CompatibilityObservation
    BY StoreAssumption DEF StoreTypeOK, StateFile, Lists
  <2>4. first \in Nat /\ second \in Nat
    BY StoreAssumption
  <2> QED BY <2>2, <2>3, <2>4, RecordedReflects
<1>9. WorkIsCurrent'
  <2> SUFFICES ASSUME inode = 0, NEW q \in Procs
               PROVE  /\ pc'[q] = "loaded" => file'.kind # "corrupt" /\ local[q] = file'.list
                      /\ pc'[q] \in Changed => /\ file'.kind # "corrupt"
                                               /\ Updates(file'.list, input[q], local[q])
                      /\ pc'[q] = "renamed" => /\ file'.kind = "present"
                                               /\ Reflects(file'.list, input[q])
    BY <1>1 DEF WorkIsCurrent
  <2>1. CASE q = p
    BY <1>3, <1>4, <1>5, <1>8, <2>1
  <2>2. CASE q # p
    <3>1. pc[q] \notin Owning
      BY <1>1, <1>4, <2>2, OneOwner
    <3> QED BY <1>4, <1>5, <2>2, <3>1
  <2> QED BY <2>1, <2>2
<1>10. AcknowledgedSurvives'
  <2> SUFFICES ASSUME inode = 0, NEW q \in Procs, NEW d \in durable', pc'[q] = "ok"
               PROVE  d.kind = "present" /\ Reflects(d.list, input[q])
    BY <1>1 DEF AcknowledgedSurvives
  <2>1. pc[q] = "ok"
    BY <1>4, <1>5
  <2>2. CASE d \in durable
    BY <2>1, <2>2 DEF AcknowledgedSurvives
  <2>3. CASE d = file'
    <3>1. Reflects(file.list, input[q]) /\ input[q] \in CompatibilityObservation
      BY <2>1, StoreAssumption DEF AcknowledgedSurvives, StoreTypeOK
    <3>2. Reflects(local[p], input[q])
      BY <1>8, <3>1 DEF Keeps
    <3> QED BY <1>3, <2>3, <3>2
  <2> QED BY <1>2, <2>2, <2>3
<1> QED BY <1>6, <1>7, <1>9, <1>10

\* Ok is said of what only this launcher can have changed since.
LEMMA SyncDirKeeps ==
    ASSUME StoreInv, NEW p \in Procs, SyncDir(p)
    PROVE  StoreInv'
<1> USE DEF StoreInv
<1>1. /\ pc[p] = "renamed" /\ pc' = [pc EXCEPT ![p] = "ok"]
      /\ durable' = {file} /\ holder' = Unlocked(p)
      /\ UNCHANGED <<input, local, inode, handle, file, temp>>
  BY DEF SyncDir, Goto
<1>2. /\ "ok" \in Pcs /\ "ok" \notin Changed \cup Owning \cup {"loaded", "renamed"}
      /\ "ok" \notin {"synced", "verified"} /\ "renamed" \in Owning
  BY DEF Pcs, Over, Changed, Owning
<1>3. pc' \in [Procs -> Pcs] /\ \A q \in Procs : pc'[q] = IF q = p THEN "ok" ELSE pc[q]
  BY <1>1, <1>2 DEF StoreTypeOK
<1>4. holder' \in [Inodes -> Procs \cup {NoProc}]
  BY <1>1 DEF StoreTypeOK, Unlocked
<1>5. StoreTypeOK' /\ (file \in durable)'
  BY <1>1, <1>3, <1>4 DEF StoreTypeOK
<1>6. SyncedBeforeRename' /\ WorkIsCurrent'
  BY <1>1, <1>2, <1>3 DEF SyncedBeforeRename, WorkIsCurrent
<1>7. LeaseHeld'
  <2> SUFFICES ASSUME inode = 0, NEW q \in Procs
               PROVE  handle[q] = 0 /\ (pc'[q] \in Owning => holder'[0] = q)
    BY <1>1 DEF LeaseHeld
  <2>1. handle[q] = 0
    BY DEF LeaseHeld
  <2>2. ASSUME pc'[q] \in Owning PROVE FALSE
    <3>1. q # p /\ pc[q] \in Owning
      BY <1>2, <1>3, <2>2
    <3> QED BY <1>1, <1>2, <3>1, OneOwner
  <2> QED BY <2>1, <2>2
<1>8. AcknowledgedSurvives'
  <2> SUFFICES ASSUME inode = 0, NEW q \in Procs, pc'[q] = "ok"
               PROVE  file.kind = "present" /\ Reflects(file.list, input[q])
    BY <1>1 DEF AcknowledgedSurvives
  <2>1. CASE q = p
    BY <1>1, <2>1 DEF WorkIsCurrent
  <2>2. CASE q # p
    BY <1>3, <2>2 DEF AcknowledgedSurvives
  <2> QED BY <2>1, <2>2
<1> QED BY <1>5, <1>6, <1>7, <1>8

\* A power loss leaves nobody in the middle, and one of what it may leave.
LEMMA PowerLossKeeps ==
    ASSUME StoreInv, PowerLoss
    PROVE  StoreInv'
<1> USE DEF StoreInv
<1>1. /\ pc' = [p \in Procs |-> IF pc[p] \in Over THEN pc[p] ELSE "crashed"]
      /\ holder' = [i \in Inodes |-> NoProc]
      /\ file' \in durable /\ durable' = {file'}
      /\ UNCHANGED <<input, local, inode, handle, temp>>
  BY DEF PowerLoss
<1>2. /\ Over \subseteq Pcs /\ "crashed" \in Over
      /\ Over \cap (Owning \cup Changed \cup {"loaded", "renamed", "synced", "verified"}) = {}
  BY DEF Over, Pcs, Owning, Changed
<1>3. \A p \in Procs : pc'[p] \in Over /\ (pc'[p] = "ok" => pc[p] = "ok")
  BY <1>1, <1>2
<1>4. pc' \in [Procs -> Pcs] /\ holder' \in [Inodes -> Procs \cup {NoProc}]
  BY <1>1, <1>2 DEF StoreTypeOK
<1>5. StoreTypeOK' /\ (file \in durable)'
  BY <1>1, <1>4 DEF StoreTypeOK
<1>6. SyncedBeforeRename' /\ LeaseHeld' /\ WorkIsCurrent'
  BY <1>1, <1>2, <1>3 DEF SyncedBeforeRename, LeaseHeld, WorkIsCurrent
<1>7. AcknowledgedSurvives'
  BY <1>1, <1>3 DEF AcknowledgedSurvives
<1> QED BY <1>5, <1>6, <1>7

\* The deadline of one launcher, the replacement of the lock file, after
\* which nothing is promised, and a step of something else.
LEMMA OtherKeeps ==
    ASSUME StoreInv, ReplaceLock \/ UNCHANGED vars \/ \E p \in Procs : DeadlinePasses(p)
    PROVE  StoreInv'
<1> USE DEF StoreInv
<1>1. CASE ReplaceLock
  <2>1. /\ inode' = inode + 1 /\ inode' \in Inodes /\ inode' # 0
        /\ UNCHANGED <<pc, input, local, handle, holder, file, durable, temp>>
    BY <1>1, StoreAssumption DEF ReplaceLock, diskVars, StoreTypeOK, Inodes
  <2>2. StoreTypeOK' /\ (file \in durable)' /\ SyncedBeforeRename'
    BY <2>1 DEF StoreTypeOK, SyncedBeforeRename
  <2> QED BY <2>1, <2>2 DEF LeaseHeld, WorkIsCurrent, AcknowledgedSurvives
<1>2. ASSUME UNCHANGED <<pc, input, local, inode, handle, holder, file, durable, temp>>
      PROVE  StoreInv'
  BY <1>2 DEF StoreTypeOK, SyncedBeforeRename, LeaseHeld, WorkIsCurrent, AcknowledgedSurvives
<1>3. CASE UNCHANGED vars \/ \E p \in Procs : DeadlinePasses(p)
  BY <1>2, <1>3 DEF vars, lockVars, diskVars, DeadlinePasses
<1> QED BY <1>1, <1>3

\* Every step of every launcher, and of what happens to them, keeps the
\* invariant.
THEOREM StoreSafe == Spec => []StoreInv
<1>1. StoreInv /\ [Next]_vars => StoreInv'
  <2> SUFFICES ASSUME StoreInv, [Next]_vars PROVE StoreInv'
    OBVIOUS
  <2>1. ASSUME NEW p \in Procs, Step(p) PROVE StoreInv'
    <3>1. CASE OpenLock(p)
      BY <3>1, StartKeeps
    <3>2. CASE TryLock(p)
      BY <3>2, TryLockKeeps
    <3>3. CASE Contended(p)
      BY <3>3, ContendedKeeps
    <3>4. CASE VerifyLease(p)
      <4>1. CASE Verified(p, "locked", "leased")
        BY <4>1, VerifiedKeeps
      <4>2. CASE ~HoldsEntry(p) /\ Bail(p, "locked")
        BY <4>2, BailKeeps
      <4> QED BY <3>4, <4>1, <4>2 DEF VerifyLease
    <3>5. CASE Load(p) \/ Merge(p)
      BY <3>5, LoadMergeKeeps
    <3>6. CASE \/ CreateTemp(p) \/ WriteTemp(p) \/ SyncTemp(p) \/ VerifyCommit(p)
               \/ Cleanup(p)
      BY <3>6, SavingKeeps
    <3>7. CASE Rename(p)
      BY <3>7, RenameKeeps
    <3>8. CASE SyncDir(p)
      BY <3>8, SyncDirKeeps
    <3> QED BY <2>1, <3>1, <3>2, <3>3, <3>4, <3>5, <3>6, <3>7, <3>8 DEF Step
  <2>2. ASSUME NEW p \in Procs, EarlyFail(p) PROVE StoreInv'
    BY <2>2, BailKeeps DEF EarlyFail
  <2>3. ASSUME NEW p \in Procs, Start(p) \/ LateFail(p) \/ Crash(p) PROVE StoreInv'
    BY <2>3, StartKeeps, SavingKeeps, CrashKeeps
  <2>4. ASSUME Idle PROVE UNCHANGED vars
    BY <2>4 DEF Idle
  <2> QED BY <2>1, <2>2, <2>3, <2>4, PowerLossKeeps, OtherKeeps DEF Next
<1> QED BY <1>1, StoreInvInit, PTL DEF Spec

\* What a launcher was told is recorded is in every list a power loss may
\* leave, or is older than all that fill it, whatever the other launchers do
\* and wherever they die, until somebody replaces the lock file.
THEOREM RecordedStaysRecorded == Spec => []AcknowledgedSurvives
<1>1. StoreInv => AcknowledgedSurvives
  BY DEF StoreInv
<1> QED BY <1>1, StoreSafe, PTL
-----------------------------------------------------------------------------
(* The refinement of ObservationRegister.                                  *)

\* The register's definitions are the list's.
LEMMA SameList ==
    /\ \A list : Register!ValidList(list) <=> ValidList(list)
    /\ \A list, o, first, second :
         Register!Recorded(list, o, first, second) = Recorded(list, o, first, second)
<1>1. Register!Fields = Fields /\ Register!Alarms = Alarms
  BY DEF Register!Fields, Fields, Register!Results, Results, Register!Alarms, Alarms
<1>2. \A counts : Register!AggregateHookOutcome(counts) = AggregateHookOutcome(counts)
  BY <1>1 DEF Register!AggregateHookOutcome, AggregateHookOutcome
<1>3. \A o : Register!ValidObservation(o) <=> ValidObservation(o)
  BY <1>1, <1>2 DEF Register!ValidObservation, ValidObservation, Register!ValidCounts, ValidCounts
<1>4. \A list : Register!ValidList(list) <=> ValidList(list)
  BY <1>3 DEF Register!ValidList, ValidList
<1>5. \A old, new, now : Register!MergeInto(old, new, now) = MergeInto(old, new, now)
  <2>1. \A left, right : Register!Combine(left, right) = Combine(left, right)
    BY <1>1 DEF Register!Combine, Combine
  <2>2. \A left, right : Register!MergeCommand(left, right) = MergeCommand(left, right)
    BY DEF Register!MergeCommand, MergeCommand
  <2> QED BY <1>2, <2>1, <2>2 DEF Register!MergeInto, MergeInto
<1>6. \A list, new : Register!Insert(list, new) = Insert(list, new)
  <2>1. \A list : Register!Sorted(list) = Sorted(list)
    <3> SUFFICES ASSUME NEW list PROVE Register!Sorted(list) = Sorted(list)
      OBVIOUS
    <3>1. \A i : Register!Rank(list, i) = Rank(list, i)
      BY DEF Register!Rank, Rank, Register!Cardinality, Cardinality
    <3> DEFINE theirs(r) == CHOOSE i \in DOMAIN list : Register!Rank(list, i) = r
               ours(r) == CHOOSE i \in DOMAIN list : Rank(list, i) = r
    <3>2. \A r : theirs(r) = ours(r)
      BY <3>1
    <3>3. /\ Register!Sorted(list) = [r \in DOMAIN list |-> list[theirs(r)]]
          /\ Sorted(list) = [r \in DOMAIN list |-> list[ours(r)]]
      BY DEF Register!Sorted, Sorted
    <3> HIDE DEF theirs, ours
    <3> QED BY <3>2, <3>3
  <2>2. \A list, i : Register!Without(list, i) = Without(list, i)
    BY DEF Register!Without, Without
  <2> QED BY <2>1, <2>2 DEF Register!Insert, Insert
<1>7. ASSUME NEW list, NEW o, NEW first, NEW second
      PROVE  Register!Recorded(list, o, first, second) = Recorded(list, o, first, second)
  BY <1>3, <1>4, <1>5, <1>6 DEF Register!Recorded, Recorded, Register!IndicesOf, IndicesOf
<1> QED BY <1>4, <1>7

\* The state of a call, of the place its launcher is at.
CallAt(place) ==
    CASE place = "idle" -> "idle"
      [] place = "ok" -> "ok"
      [] place \in {"error", "contended", "crashed"} -> "error"
      [] place = "renamed" -> "applied"
      [] OTHER -> "pending"

Calls == [p \in Procs |-> CallAt(pc[p])]
PendingAt == Steps \cup Saving \cup {"cleanup"}

LEMMA CallAtIs ==
    /\ CallAt("idle") = "idle" /\ CallAt("ok") = "ok" /\ CallAt("renamed") = "applied"
    /\ \A place \in {"error", "contended", "crashed"} : CallAt(place) = "error"
    /\ \A place \in PendingAt : CallAt(place) = "pending"
BY DEF CallAt, PendingAt, Steps, Saving

LEMMA CallsAre ==
    /\ [p \in Procs |-> Call(p)] = Calls
    /\ [p \in Procs |-> Call(p)]' = Calls'
BY DEF Calls, CallAt, Call

\* A step of launcher p changes the state of no other call.
LEMMA CallMoves ==
    ASSUME StoreTypeOK, NEW p \in Procs, NEW to, pc' = [pc EXCEPT ![p] = to]
    PROVE  Calls' = [Calls EXCEPT ![p] = CallAt(to)] /\ Calls[p] = CallAt(pc[p])
<1>1. \A q \in Procs : pc'[q] = IF q = p THEN to ELSE pc[q]
  BY DEF StoreTypeOK
<1>2. Calls' = [q \in Procs |-> IF q = p THEN CallAt(to) ELSE CallAt(pc[q])]
  BY <1>1 DEF Calls
<1>3. /\ Calls = [q \in Procs |-> CallAt(pc[q])] /\ Calls[p] = CallAt(pc[p])
  BY DEF Calls
<1> HIDE DEF Calls
<1> QED BY <1>2, <1>3

LEMMA CallStays ==
    ASSUME StoreTypeOK, NEW p \in Procs, NEW to \in PendingAt, pc[p] \in PendingAt,
           pc' = [pc EXCEPT ![p] = to]
    PROVE  Calls' = Calls
<1>1. \A q \in Procs : pc'[q] = IF q = p THEN to ELSE pc[q]
  BY DEF StoreTypeOK
<1>2. CallAt(to) = CallAt(pc[p])
  BY CallAtIs
<1> QED BY <1>1, <1>2 DEF Calls

RegisterStep ==
    \/ UNCHANGED <<file, durable, Calls, input>>
    \/ /\ file' \in durable /\ durable' = {file'} /\ UNCHANGED input
       /\ Calls' = [p \in Procs |-> IF Calls[p] \in {"pending", "applied"} THEN "error"
                                                                          ELSE Calls[p]]
    \/ \E p \in Procs :
        \/ /\ Calls[p] \in {"idle", "ok", "error"} /\ Calls' = [Calls EXCEPT ![p] = "pending"]
           /\ \E o \in Inputs : input' = [input EXCEPT ![p] = o]
           /\ UNCHANGED <<file, durable>>
        \/ /\ Calls[p] = "pending" /\ file.kind # "corrupt"
           /\ Calls' = [Calls EXCEPT ![p] = "applied"]
           /\ \E list : Updates(file.list, input[p], list) /\ file' = Present(list)
           /\ durable' = durable \cup {file'} /\ UNCHANGED input
        \/ /\ Calls[p] = "applied" /\ Calls' = [Calls EXCEPT ![p] = "ok"]
           /\ durable' = {file} /\ UNCHANGED <<file, input>>
        \/ /\ Calls[p] \in {"pending", "applied"} /\ Calls' = [Calls EXCEPT ![p] = "error"]
           /\ UNCHANGED <<file, durable, input>>

\* RegisterStep is the register's step, its definitions expanded.
LEMMA RegisterStepIs ==
    ASSUME RegisterStep
    PROVE  UNCHANGED Register!vars \/ Register!Next
<1> DEFINE call == [p \in Procs |-> Call(p)]
<1>0. call = Calls /\ call' = Calls'
  BY CallsAre
<1> HIDE DEF call
<1>1. CASE UNCHANGED <<file, durable, Calls, input>>
  BY <1>0, <1>1 DEF Register!vars, call
<1>2. CASE /\ file' \in durable /\ durable' = {file'} /\ UNCHANGED input
           /\ Calls' = [p \in Procs |-> IF Calls[p] \in {"pending", "applied"} THEN "error"
                                                                              ELSE Calls[p]]
  <2>1. Register!PowerLoss
    BY <1>0, <1>2 DEF Register!PowerLoss, call
  <2> QED BY <2>1 DEF Register!Next
<1>3. ASSUME NEW p \in Procs,
             Calls[p] \in {"idle", "ok", "error"}, Calls' = [Calls EXCEPT ![p] = "pending"],
             \E o \in Inputs : input' = [input EXCEPT ![p] = o],
             UNCHANGED <<file, durable>>
      PROVE  Register!Next
  <2>1. Register!Begin(p)
    BY <1>0, <1>3 DEF Register!Begin, call
  <2> QED BY <2>1 DEF Register!Next
<1>4. ASSUME NEW p \in Procs,
             Calls[p] = "pending", file.kind # "corrupt",
             Calls' = [Calls EXCEPT ![p] = "applied"],
             NEW list, Updates(file.list, input[p], list), file' = Present(list),
             durable' = durable \cup {file'}, UNCHANGED input
      PROVE  Register!Next
  <2>1. PICK first, second \in Clock : list \in Recorded(file.list, input[p], first, second)
    BY <1>4 DEF Updates
  <2>2. list \in Register!Recorded(file.list, input[p], first, second)
    BY <2>1, SameList
  <2>3. file' = Register!Present(list)
    BY <1>4 DEF Present, Register!Present
  <2>4. Register!Apply(p)
    BY <1>0, <1>4, <2>2, <2>3 DEF Register!Apply, call
  <2> QED BY <2>4 DEF Register!Next
<1>5. ASSUME NEW p \in Procs,
             \/ /\ Calls[p] = "applied" /\ Calls' = [Calls EXCEPT ![p] = "ok"]
                /\ durable' = {file} /\ UNCHANGED <<file, input>>
             \/ /\ Calls[p] \in {"pending", "applied"} /\ Calls' = [Calls EXCEPT ![p] = "error"]
                /\ UNCHANGED <<file, durable, input>>
      PROVE  Register!Next
  <2>1. Register!Return(p)
    BY <1>0, <1>5 DEF Register!Return, call
  <2> QED BY <2>1 DEF Register!Next
<1> QED BY <1>1, <1>2, <1>3, <1>4, <1>5 DEF RegisterStep

\* A launcher that returns an error or dies has applied its update or not.
LEMMA ErrorRefines ==
    ASSUME StoreTypeOK, NEW p \in Procs, pc[p] \in PendingAt \cup {"renamed"},
           NEW to \in {"error", "contended", "crashed"}, pc' = [pc EXCEPT ![p] = to],
           UNCHANGED <<file, durable, input>>
    PROVE  RegisterStep
<1>1. Calls' = [Calls EXCEPT ![p] = "error"] /\ Calls[p] \in {"pending", "applied"}
  <2> HIDE DEF Calls
  <2>1. Calls' = [Calls EXCEPT ![p] = CallAt(to)] /\ Calls[p] = CallAt(pc[p])
    BY CallMoves
  <2>2. CallAt(to) = "error" /\ CallAt(pc[p]) \in {"pending", "applied"}
    BY CallAtIs
  <2> QED BY <2>1, <2>2
<1> HIDE DEF Calls
<1> QED BY <1>1 DEF RegisterStep

\* The steps before the rename, and the waiting, are not the register's.
LEMMA InnerRefines ==
    ASSUME StoreTypeOK, NEW p \in Procs, NEW to \in PendingAt, pc[p] \in PendingAt,
           pc' = [pc EXCEPT ![p] = to], UNCHANGED <<file, durable, input>>
    PROVE  RegisterStep
<1>1. Calls' = Calls
  BY CallStays
<1> HIDE DEF Calls
<1> QED BY <1>1 DEF RegisterStep

LEMMA BailRefines ==
    ASSUME StoreTypeOK, NEW p \in Procs, NEW from \in Steps \cup {"renamed"}, Bail(p, from)
    PROVE  RegisterStep
<1>1. /\ pc[p] = from /\ pc' = [pc EXCEPT ![p] = "error"]
      /\ UNCHANGED <<file, durable, input>>
  BY DEF Bail, Goto, diskVars
<1>2. from \in PendingAt \cup {"renamed"}
  BY DEF PendingAt
<1> QED BY <1>1, <1>2, ErrorRefines

\* Every step of a launcher is the register's, or none, as long as the lock
\* file is the one it locked.
LEMMA StepRefines ==
    ASSUME StoreInv, inode = 0, NEW p \in Procs, Step(p)
    PROVE  RegisterStep
<1>0. StoreTypeOK
  BY DEF StoreInv
<1>1. Steps \cup Saving \cup {"cleanup"} \subseteq PendingAt
  BY DEF PendingAt
<1>2. CASE OpenLock(p)
  <2>1. /\ pc[p] = "open" /\ pc' = [pc EXCEPT ![p] = "waiting"]
        /\ UNCHANGED <<file, durable, input>>
    BY <1>2 DEF OpenLock, Goto, diskVars
  <2>2. {"open", "waiting"} \subseteq PendingAt
    BY DEF PendingAt, Steps
  <2> QED BY <1>0, <2>1, <2>2, InnerRefines
<1>3. CASE TryLock(p)
  <2>1. /\ pc[p] = "waiting" /\ pc' = [pc EXCEPT ![p] = "locked"]
        /\ UNCHANGED <<file, durable, input>>
    BY <1>3 DEF TryLock, Goto, diskVars
  <2>2. {"waiting", "locked"} \subseteq PendingAt
    BY DEF PendingAt, Steps
  <2> QED BY <1>0, <2>1, <2>2, InnerRefines
<1>4. CASE Contended(p)
  <2>1. /\ pc[p] = "waiting" /\ pc' = [pc EXCEPT ![p] = "contended"]
        /\ UNCHANGED <<file, durable, input>>
    BY <1>4 DEF Contended, Goto, diskVars
  <2>2. "waiting" \in PendingAt
    BY DEF PendingAt, Steps
  <2> QED BY <1>0, <2>1, <2>2, ErrorRefines
<1>5. ASSUME NEW from \in Steps \cup Saving, NEW to \in Steps \cup Saving \cup {"cleanup"},
             Verified(p, from, to)
      PROVE  RegisterStep
  <2>1. /\ pc[p] = from /\ pc' = [pc EXCEPT ![p] = to]
        /\ UNCHANGED <<file, durable, input>>
    BY <1>5 DEF Verified, Goto, diskVars
  <2> QED BY <1>0, <1>1, <2>1, InnerRefines
<1>6. ASSUME NEW from \in Steps, Bail(p, from) PROVE RegisterStep
  BY <1>0, <1>6, BailRefines
<1>7. /\ {"locked", "leased", "loaded", "merged"} \subseteq Steps
      /\ {"created", "written", "synced", "verified"} \subseteq Saving
  BY DEF Steps, Saving
<1>8. CASE VerifyLease(p)
  BY <1>5, <1>6, <1>7, <1>8 DEF VerifyLease
<1>9. CASE Load(p)
  <2>1. CASE /\ file.kind # "corrupt" /\ Goto(p, "leased", "loaded")
             /\ local' = [local EXCEPT ![p] = file.list]
             /\ UNCHANGED <<input, lockVars, diskVars, runs, crashes>>
    <3>1. /\ pc[p] = "leased" /\ pc' = [pc EXCEPT ![p] = "loaded"]
          /\ UNCHANGED <<file, durable, input>>
      BY <2>1 DEF Goto, diskVars
    <3> QED BY <1>0, <1>1, <1>7, <3>1, InnerRefines
  <2> QED BY <1>6, <1>7, <1>9, <2>1 DEF Load
<1>10. CASE Merge(p)
  <2>1. PICK first, second \in Clock :
          LET result == Recorded(local[p], input[p], first, second)
          IN  IF result = {} THEN Bail(p, "loaded")
              ELSE /\ Goto(p, "loaded", "merged")
                   /\ \E list \in result : local' = [local EXCEPT ![p] = list]
                   /\ UNCHANGED <<input, lockVars, diskVars, runs, crashes>>
    BY <1>10 DEF Merge
  <2>2. CASE Bail(p, "loaded")
    BY <1>6, <1>7, <2>2
  <2>3. CASE /\ Goto(p, "loaded", "merged")
             /\ UNCHANGED <<input, lockVars, diskVars, runs, crashes>>
    <3>1. /\ pc[p] = "loaded" /\ pc' = [pc EXCEPT ![p] = "merged"]
          /\ UNCHANGED <<file, durable, input>>
      BY <2>3 DEF Goto, diskVars
    <3> QED BY <1>0, <1>1, <1>7, <3>1, InnerRefines
  <2> QED BY <2>1, <2>2, <2>3
<1>11. CASE CreateTemp(p)
  <2>1. CASE /\ HoldsEntry(p) /\ temp[p] = "none"
             /\ Goto(p, "merged", "created") /\ temp' = [temp EXCEPT ![p] = "empty"]
             /\ UNCHANGED <<input, local, lockVars, file, durable, runs, crashes>>
    <3>1. /\ pc[p] = "merged" /\ pc' = [pc EXCEPT ![p] = "created"]
          /\ UNCHANGED <<file, durable, input>>
      BY <2>1 DEF Goto
    <3> QED BY <1>0, <1>1, <1>7, <3>1, InnerRefines
  <2> QED BY <1>5, <1>6, <1>7, <1>11, <2>1 DEF CreateTemp
<1>12. CASE WriteTemp(p) \/ SyncTemp(p)
  <2>1. PICK from \in {"created", "written"}, to \in {"written", "synced"} :
          /\ pc[p] = from /\ pc' = [pc EXCEPT ![p] = to]
          /\ UNCHANGED <<file, durable, input>>
    BY <1>12 DEF WriteTemp, SyncTemp, Fill, Goto
  <2> QED BY <1>0, <1>1, <1>7, <2>1, InnerRefines
<1>13. CASE VerifyCommit(p)
  <2>1. CASE /\ ~HoldsEntry(p) /\ Goto(p, "synced", "cleanup")
             /\ UNCHANGED <<input, local, lockVars, diskVars, runs, crashes>>
    <3>1. /\ pc[p] = "synced" /\ pc' = [pc EXCEPT ![p] = "cleanup"]
          /\ UNCHANGED <<file, durable, input>>
      BY <2>1 DEF Goto, diskVars
    <3> QED BY <1>0, <1>1, <1>7, <3>1, InnerRefines
  <2> QED BY <1>5, <1>7, <1>13, <2>1 DEF VerifyCommit
<1>14. CASE Rename(p)
  <2>1. /\ pc[p] = "verified" /\ pc' = [pc EXCEPT ![p] = "renamed"]
        /\ file' = Present(local[p])
        /\ durable' = durable \cup {IF temp[p] = "synced" THEN file' ELSE Torn}
        /\ UNCHANGED input
    BY <1>14 DEF Rename, Goto
  <2>2. durable' = durable \cup {file'}
    BY <2>1 DEF StoreInv, SyncedBeforeRename
  <2>3. file.kind # "corrupt" /\ Updates(file.list, input[p], local[p])
    BY <2>1 DEF StoreInv, WorkIsCurrent, Changed
  <2>4. Calls' = [Calls EXCEPT ![p] = "applied"] /\ Calls[p] = "pending"
    <3> HIDE DEF Calls
    <3>1. Calls' = [Calls EXCEPT ![p] = CallAt("renamed")] /\ Calls[p] = CallAt(pc[p])
      BY <1>0, <2>1, CallMoves
    <3>2. CallAt("renamed") = "applied" /\ CallAt(pc[p]) = "pending"
      BY <1>1, <1>7, <2>1, CallAtIs
    <3> QED BY <3>1, <3>2
  <2> HIDE DEF Calls
  <2> QED BY <2>1, <2>2, <2>3, <2>4 DEF RegisterStep
<1>15. CASE SyncDir(p)
  <2>1. /\ pc[p] = "renamed" /\ pc' = [pc EXCEPT ![p] = "ok"]
        /\ durable' = {file} /\ UNCHANGED <<file, input>>
    BY <1>15 DEF SyncDir, Goto
  <2>2. Calls' = [Calls EXCEPT ![p] = "ok"] /\ Calls[p] = "applied"
    <3> HIDE DEF Calls
    <3>1. Calls' = [Calls EXCEPT ![p] = CallAt("ok")] /\ Calls[p] = CallAt(pc[p])
      BY <1>0, <2>1, CallMoves
    <3>2. CallAt("ok") = "ok" /\ CallAt(pc[p]) = "applied"
      BY <2>1, CallAtIs
    <3> QED BY <3>1, <3>2
  <2> HIDE DEF Calls
  <2> QED BY <2>1, <2>2 DEF RegisterStep
<1>16. CASE Cleanup(p)
  <2>1. /\ pc[p] = "cleanup" /\ pc' = [pc EXCEPT ![p] = "error"]
        /\ UNCHANGED <<file, durable, input>>
    BY <1>16 DEF Cleanup, Goto
  <2> QED BY <1>0, <1>1, <2>1, ErrorRefines
<1> QED BY <1>2, <1>3, <1>4, <1>8, <1>9, <1>10, <1>11, <1>12, <1>13, <1>14, <1>15, <1>16
        DEF Step

\* Only ReplaceLock replaces the lock file.
LEMMA StepKeepsLock ==
    ASSUME NEW p \in Procs, Step(p) PROVE inode' = inode
<1>1. ASSUME NEW from, Bail(p, from) PROVE inode' = inode
  BY <1>1 DEF Bail
<1>2. CASE OpenLock(p) \/ TryLock(p) \/ Contended(p) \/ VerifyLease(p) \/ Load(p)
  BY <1>1, <1>2 DEF OpenLock, TryLock, Contended, VerifyLease, Verified, Load, lockVars
<1>3. CASE Merge(p)
  BY <1>1, <1>3 DEF Merge, lockVars
<1>4. CASE CreateTemp(p) \/ WriteTemp(p) \/ SyncTemp(p) \/ VerifyCommit(p)
  BY <1>1, <1>4 DEF CreateTemp, WriteTemp, SyncTemp, Fill, VerifyCommit, Verified, lockVars
<1>5. CASE Rename(p) \/ SyncDir(p) \/ Cleanup(p)
  BY <1>5 DEF Rename, SyncDir, Cleanup, lockVars
<1> QED BY <1>2, <1>3, <1>4, <1>5 DEF Step

LEMMA NextRefines ==
    ASSUME StoreInv, [Next]_vars, inode' = 0
    PROVE  RegisterStep
<1>0. StoreTypeOK
  BY DEF StoreInv
<1>1. ASSUME NEW p \in Procs, Step(p) PROVE RegisterStep
  <2>1. inode = 0
    BY <1>1, StepKeepsLock
  <2> QED BY <1>1, <2>1, StepRefines
<1>2. ASSUME NEW p \in Procs, Start(p) PROVE RegisterStep
  <2>1. /\ pc[p] \in Over /\ pc' = [pc EXCEPT ![p] = "open"]
        /\ \E o \in Inputs : input' = [input EXCEPT ![p] = o]
        /\ UNCHANGED <<file, durable>>
    BY <1>2 DEF Start, diskVars
  <2>2. CallAt("open") = "pending" /\ CallAt(pc[p]) \in {"idle", "ok", "error"}
    BY <2>1, CallAtIs DEF Over, PendingAt, Steps
  <2>3. Calls' = [Calls EXCEPT ![p] = "pending"] /\ Calls[p] \in {"idle", "ok", "error"}
    <3> HIDE DEF Calls
    <3>1. Calls' = [Calls EXCEPT ![p] = CallAt("open")] /\ Calls[p] = CallAt(pc[p])
      BY <1>0, <2>1, CallMoves
    <3> QED BY <2>2, <3>1
  <2> HIDE DEF Calls
  <2> QED BY <2>1, <2>3 DEF RegisterStep
<1>3. ASSUME NEW p \in Procs, EarlyFail(p) PROVE RegisterStep
  BY <1>0, <1>3, BailRefines DEF EarlyFail
<1>4. ASSUME NEW p \in Procs, LateFail(p) PROVE RegisterStep
  <2>1. /\ pc[p] \in PendingAt /\ "cleanup" \in PendingAt /\ pc' = [pc EXCEPT ![p] = "cleanup"]
        /\ UNCHANGED <<file, durable, input>>
    BY <1>4 DEF LateFail, PendingAt, diskVars
  <2> QED BY <1>0, <2>1, InnerRefines
<1>5. ASSUME NEW p \in Procs, Crash(p) PROVE RegisterStep
  <2>1. /\ pc[p] \notin Over /\ pc' = [pc EXCEPT ![p] = "crashed"]
        /\ UNCHANGED <<file, durable, input>>
    BY <1>5 DEF Crash, diskVars
  <2>2. pc[p] \in PendingAt \cup {"renamed"}
    BY <1>0, <2>1 DEF StoreTypeOK, Pcs, PendingAt
  <2> QED BY <1>0, <2>1, <2>2, ErrorRefines
<1>6. ASSUME PowerLoss PROVE RegisterStep
  <2>1. /\ pc' = [p \in Procs |-> IF pc[p] \in Over THEN pc[p] ELSE "crashed"]
        /\ file' \in durable /\ durable' = {file'} /\ UNCHANGED input
    BY <1>6 DEF PowerLoss
  <2>2. ASSUME NEW p \in Procs
        PROVE  CallAt(pc'[p]) = IF CallAt(pc[p]) \in {"pending", "applied"} THEN "error"
                                                                           ELSE CallAt(pc[p])
    <3>1. CASE pc[p] \in Over
      <4>1. pc'[p] = pc[p]
        BY <2>1, <3>1
      <4>2. CallAt(pc[p]) \in {"idle", "ok", "error"}
        BY <3>1, CallAtIs DEF Over
      <4> QED BY <4>1, <4>2
    <3>2. CASE pc[p] \notin Over
      <4>1. pc'[p] = "crashed"
        BY <2>1, <3>2
      <4>2. pc[p] \in PendingAt \cup {"renamed"}
        BY <1>0, <3>2 DEF StoreTypeOK, Pcs, PendingAt
      <4> QED BY <4>1, <4>2, CallAtIs
    <3> QED BY <3>1, <3>2
  <2>3. Calls' = [p \in Procs |-> IF Calls[p] \in {"pending", "applied"} THEN "error"
                                                                        ELSE Calls[p]]
    BY <2>2 DEF Calls
  <2> HIDE DEF Calls
  <2> QED BY <2>1, <2>3 DEF RegisterStep
<1>7. ASSUME ReplaceLock PROVE FALSE
  BY <1>0, <1>7 DEF ReplaceLock, StoreTypeOK, Inodes
<1>8. ASSUME UNCHANGED <<pc, file, durable, input>> PROVE RegisterStep
  <2>1. Calls' = Calls
    BY <1>8 DEF Calls
  <2> HIDE DEF Calls
  <2> QED BY <1>8, <2>1 DEF RegisterStep
<1>9. ASSUME Idle \/ UNCHANGED vars \/ \E p \in Procs : DeadlinePasses(p)
      PROVE  RegisterStep
  BY <1>8, <1>9 DEF Idle, vars, diskVars, DeadlinePasses
<1> QED BY <1>1, <1>2, <1>3, <1>4, <1>5, <1>6, <1>7, <1>9 DEF Next

\* Recording an observation is one atomic update of one list: no update is
\* lost, none is applied after an error was returned, nothing half-written is
\* seen or left, until somebody replaces the lock file.
THEOREM StoreIsRegister == Spec => ImplementsRegister
<1>1. Init => Register!Init
  <2> SUFFICES ASSUME Init PROVE Register!Init
    OBVIOUS
  <2>1. file \in StateFile /\ Register!ValidList(file.list)
    BY StoreAssumption, SameList DEF Init
  <2>2. file.kind \in {"missing", "present", "corrupt"} /\ durable = {file}
    BY <2>1 DEF StateFile, Init
  <2>3. [p \in Procs |-> Call(p)] = [p \in Procs |-> "idle"]
    <3>1. \A p \in Procs : CallAt(pc[p]) = "idle"
      BY CallAtIs DEF Init
    <3>2. Calls = [p \in Procs |-> "idle"]
      BY <3>1 DEF Calls
    <3> QED BY <3>2, CallsAre
  <2>4. input \in [Procs -> Inputs]
    BY DEF Init
  <2> QED BY <2>1, <2>2, <2>3, <2>4 DEF Register!Init
<1>2. StoreInv /\ [Next]_vars
        => [inode' = 0 => UNCHANGED Register!vars \/ Register!Next]_vars
  BY NextRefines, RegisterStepIs
<1> QED BY <1>1, <1>2, StoreSafe, PTL DEF Spec, ImplementsRegister
=============================================================================
