--------------------------- MODULE AdmissionProofs ---------------------------
(***************************************************************************)
(* Admission for every set of files, contents, certificates and requests,  *)
(* and any number of changes on disk while the launcher works.  A file     *)
(* that still has the stamp it was bound with has not been touched since,  *)
(* so the files that are compared one after the other were all on disk at  *)
(* the instant the comparison began.                                       *)
(***************************************************************************)
EXTENDS Admission, FiniteSetTheorems, TLAPS

File == [content : Contents \cup {NoFile}, stamp : Nat]

\* The launcher's places: the bundle is read, bound, and admitted.
Reading  == {"resolve", "inspect", "executable", "launch", "package", "list", "files"}
Checking == {"recheck", "stamps"}
Admitted == {"capability", "probe", "version", "start", "verify", "bind"}
Deciding == {"armed", "decide", "allow"}
Ended    == {"unarmed", "exit"}
VerifierPlaces == {"resolve", "start"} \cup Deciding

\* The files a recheck compares.
Compared == names \cup (IF kind = "native" THEN {"codex"}
                        ELSE {"codex", "codex.js", "package.json"})

ATypeOK ==
    /\ disk \in [Paths -> File] /\ bound \in [Paths -> File] /\ changes \in Nat
    /\ kind \in {"native", "npm-bin"} /\ mode \in {"run", "verify"}
    /\ pc \in Reading \cup Checking \cup {"admit"} \cup Admitted \cup Deciding \cup Ended
    /\ pc \in Checking => site \in Sites
    /\ mode = "verify" => pc \in VerifierPlaces
    /\ names \in SUBSET Bundled
    /\ answer \in {"none", "declined", "allowed"}

\* Every change has a stamp of its own; a path without a file has none.
StampsAreNew ==
    \A p \in Paths :
        /\ disk[p].stamp <= changes /\ bound[p].stamp <= changes
        /\ disk[p].content # NoFile => disk[p].stamp > 0

\* What has been bound at each place.
IsBound(p) == bound[p].stamp > 0
BoundSoFar ==
    mode = "run" /\ pc \notin Ended \cup {"resolve", "inspect", "executable"} =>
        /\ IsBound("codex")
        /\ kind = "npm-bin" /\ pc # "launch" => IsBound("codex.js")
        /\ kind = "npm-bin" /\ pc \notin {"launch", "package"} =>
             IsBound("package.json") /\ package = bound["package.json"].content
        /\ pc = "files" =>
             todo \subseteq names \ {"codex"} /\ \A p \in names \ {"codex"} : p \in todo \/ IsBound(p)
        /\ pc \notin {"launch", "package", "list", "files"} => \A p \in names : IsBound(p)

\* The open handle and the running image against what was bound.
Inode(f) == f.stamp = bound["codex"].stamp => f.content = bound["codex"].content
ImageIsBound ==
    /\ handle \in File /\ image \in File /\ handle.stamp <= changes
    /\ pc \in {"resolve", "inspect", "executable"} => image = Absent
    /\ Inode(handle) /\ Inode(image)
    /\ mode = "run" /\ (pc \in {"bind"} \cup Deciding \/ (pc \in Checking /\ site \in {"before", "after"})) =>
         image.stamp = bound["codex"].stamp

\* The certificate that was found still covers what was recorded.
CertificateHolds ==
    mode = "run" /\ (pc \in Admitted \cup Deciding \/ (pc \in Checking /\ site # "discover")) =>
        Admits(Target)

\* The instant a recheck began at.
AtInstant(p) == instant[p] = bound[p].content
SameNames == instant # <<>> /\ {q \in Bundled : instant[q] # NoFile} = names
Whole == SameNames /\ \A p \in Compared : AtInstant(p)
Rechecking ==
    pc = "stamps" =>
        /\ SameNames /\ todo \subseteq Compared
        /\ \A p \in Compared : p \notin todo \/ disk[p] = bound[p] => AtInstant(p)
Rechecked ==
    mode = "run" /\ (pc \in {"admit", "decide", "allow"} \cup Admitted \/ answer = "allowed") => Whole

\* The request under decision.
IsProbe(fs) ==
    \E i \in DOMAIN fs : fs[i] = [key |-> "tool_input", value |->
                                    Object(<<[key |-> "command", value |-> Text(Probe)]>>)]
RequestRead ==
    /\ answer = "allowed" => pc = "armed"
    /\ pc \in {"decide", "allow"} \/ (pc \in Checking /\ site \in {"before", "after"})
         \/ answer = "allowed" =>
           request \in Requests /\ Parse(request)
    /\ pc = "allow" \/ (pc \in Checking /\ site = "after") \/ answer = "allowed" =>
           SupportedInput(Value(request.fields, "tool_input"))
    /\ mode = "verify" /\ (pc = "allow" \/ answer = "allowed") => IsProbe(request.fields)

AdmissionInv ==
    /\ ATypeOK /\ StampsAreNew /\ BoundSoFar /\ ImageIsBound /\ CertificateHolds
    /\ Rechecking /\ Rechecked /\ RequestRead
-----------------------------------------------------------------------------
(* Files.                                                                  *)

LEMMA PathFacts ==
  /\ "codex" \in Bundled /\ "codex-package.json" \in Bundled /\ Bundled \subseteq Paths
  /\ "codex.js" \in Paths \ Bundled /\ "package.json" \in Paths \ Bundled
  BY AdmissionAssumption DEF Bundled, Paths

LEMMA FirstIsOne ==
  ASSUME NEW S, S # {}
  PROVE  First(S) \in S
  BY DEF First

LEMMA AbsentIsFile == Absent \in File /\ Absent.stamp = 0 /\ Absent.content = NoFile
  BY DEF Absent, File

\* The certificate's target is made of what was recorded.
LEMMA SameTarget ==
  ASSUME UNCHANGED <<userVars, boundVars>>
  PROVE  /\ Admits(Target)' <=> Admits(Target)
         /\ Compared' = Compared
<1>1. Target' = Target
  BY DEF Target, userVars, boundVars
<1>. QED
  BY <1>1 DEF Admits, Compared, userVars, boundVars
-----------------------------------------------------------------------------
(* The rest of the machine.                                                *)

\* One file is new, or gone.
LEMMA ChangeStep ==
  ASSUME AdmissionInv, NEW p \in Paths, NEW f \in File, Change(p, f),
         \/ f = Absent
         \/ f.stamp = changes + 1
  PROVE  ATypeOK' /\ StampsAreNew' /\ BoundSoFar' /\ CertificateHolds' /\ Rechecking' /\ Rechecked' /\ RequestRead'
<1> USE DEF AdmissionInv
<1>1. /\ changes' = changes + 1 /\ disk' = [disk EXCEPT ![p] = f]
      /\ UNCHANGED <<host, userVars, pc, site, boundVars, todo, image, request, answer, instant>>
      /\ mode = "run" /\ pc \notin Ended
  BY DEF Change, Looking, Ended
<1>2. ATypeOK'
  BY <1>1 DEF ATypeOK, userVars, boundVars
<1>3. StampsAreNew'
  BY <1>1, AbsentIsFile DEF StampsAreNew, ATypeOK, File, boundVars
<1>4. BoundSoFar'
  BY <1>1 DEF BoundSoFar, IsBound, userVars, boundVars
<1>5. CertificateHolds'
  BY <1>1, SameTarget DEF CertificateHolds, userVars
<1>6. Rechecked' /\ RequestRead'
  BY <1>1, SameTarget DEF Rechecked, Whole, SameNames, AtInstant, RequestRead, userVars, boundVars
<1>7. Rechecking'
  <2> SUFFICES ASSUME pc = "stamps" PROVE Rechecking'
    BY <1>1 DEF Rechecking
  <2>1. SameNames' /\ todo' \subseteq Compared'
    BY <1>1, SameTarget DEF Rechecking, SameNames, boundVars
  <2>2. ASSUME NEW q \in Compared
        PROVE  q \in todo /\ disk'[q] = bound[q] => disk[q] = bound[q]
    <3>1. q \in Paths /\ IsBound(q)
      BY <1>1, PathFacts DEF BoundSoFar, Compared, ATypeOK, Ended
    <3>2. f # bound[q]
      BY <3>1, AbsentIsFile DEF IsBound, StampsAreNew, ATypeOK, File
    <3>. QED
      BY <1>1, <3>1, <3>2 DEF ATypeOK
  <2>. QED
    BY <1>1, <2>1, <2>2, SameTarget DEF Rechecking, AtInstant, boundVars
<1>. QED
  BY <1>2, <1>3, <1>4, <1>5, <1>6, <1>7

\* The handle sees what is written into its inode, under a new stamp.
LEMMA WorldStep ==
  ASSUME AdmissionInv, World
  PROVE  AdmissionInv'
<1>1. ASSUME NEW p \in Paths, Remove(p)
      PROVE  AdmissionInv'
  <2>1. Change(p, Absent) /\ UNCHANGED handle
    BY <1>1 DEF Remove
  <2>2. ImageIsBound'
    BY <2>1 DEF Change, AdmissionInv, ATypeOK, File, ImageIsBound, Inode, userVars, boundVars
  <2>. QED
    BY <2>1, <2>2, ChangeStep, AbsentIsFile DEF AdmissionInv
<1>2. ASSUME NEW p \in Paths, NEW c \in Contents, Replace(p, c) \/ Rewrite(p, c)
      PROVE  AdmissionInv'
  <2> DEFINE f == [content |-> c, stamp |-> changes + 1]
  <2>1. f \in File /\ f.stamp = changes + 1
    BY DEF AdmissionInv, ATypeOK, File
  <2>2. Change(p, f) /\ (UNCHANGED handle \/ handle' = disk'[p])
    BY <1>2 DEF Replace, Rewrite
  <2>3. changes' = changes + 1 /\ disk'[p] = f
    BY <2>2 DEF Change, AdmissionInv, ATypeOK
  <2> HIDE DEF f
  <2>4. ImageIsBound'
    <3>1. UNCHANGED <<pc, site, mode, image, bound>>
      BY <2>2 DEF Change, userVars, boundVars
    <3>2. bound["codex"].stamp <= changes /\ bound["codex"].stamp \in Nat /\ changes \in Nat
      BY PathFacts DEF AdmissionInv, StampsAreNew, ATypeOK, File
    <3>3. handle' \in File /\ handle'.stamp <= changes' /\ Inode(handle)'
      <4>1. CASE UNCHANGED handle
        BY <2>3, <3>1, <3>2, <4>1 DEF AdmissionInv, ImageIsBound, Inode, File
      <4>2. CASE handle' = disk'[p]
        BY <2>1, <2>3, <3>1, <3>2, <4>2 DEF Inode
      <4>. QED
        BY <2>2, <4>1, <4>2
    <3>. QED
      BY <3>1, <3>3 DEF AdmissionInv, ImageIsBound, Inode
  <2>. QED
    BY <2>1, <2>2, <2>4, ChangeStep DEF AdmissionInv
<1>3. CASE HostChanges
  <2>1. /\ changes' = changes + 1
        /\ UNCHANGED <<disk, handle, userVars, pc, site, boundVars, todo, image, request, answer, instant>>
    BY <1>3 DEF HostChanges
  <2> USE DEF AdmissionInv, userVars, boundVars
  <2>2. ATypeOK' /\ StampsAreNew' /\ BoundSoFar' /\ ImageIsBound'
    BY <2>1 DEF ATypeOK, StampsAreNew, File, BoundSoFar, IsBound, ImageIsBound, Inode
  <2>3. CertificateHolds'
    BY <2>1, SameTarget DEF CertificateHolds
  <2>4. Rechecking' /\ Rechecked' /\ RequestRead'
    BY <2>1, SameTarget DEF Rechecking, Rechecked, Whole, SameNames, AtInstant, RequestRead
  <2>. QED
    BY <2>2, <2>3, <2>4
<1>. QED
  BY <1>1, <1>2, <1>3 DEF World
-----------------------------------------------------------------------------
(* Reading the bundle.                                                     *)

\* A path that names a file is bound with a stamp.
LEMMA BindStep ==
  ASSUME AdmissionInv, NEW p \in Paths, Exists(p), Bind(p), UNCHANGED <<disk, changes>>
  PROVE  /\ bound' \in [Paths -> File] /\ StampsAreNew'
         /\ \A q \in Paths : IsBound(q)' <=> IsBound(q) \/ q = p
         /\ \A q \in Paths : q # p => bound'[q] = bound[q]
         /\ bound'[p] = disk[p]
<1> USE DEF AdmissionInv, ATypeOK
<1>1. bound' = [bound EXCEPT ![p] = disk[p]] /\ disk[p].stamp > 0
  BY DEF Bind, Exists, StampsAreNew
<1>. QED
  BY <1>1 DEF StampsAreNew, IsBound

\* Leaving for an unarmed Codex.
LEMMA UnarmedStep ==
  ASSUME AdmissionInv, mode = "run", pc \in Reading \cup {"admit"} \cup Admitted, pc' = "unarmed",
         UNCHANGED <<diskVars, userVars, image, request, answer, site, boundVars, todo, instant>>
  PROVE  AdmissionInv'
<1>1. answer # "allowed"
  BY DEF AdmissionInv, RequestRead, Reading, Admitted
<1> USE <1>1 DEF AdmissionInv, diskVars, userVars, boundVars
<1>2. ATypeOK' /\ StampsAreNew'
  BY DEF ATypeOK, StampsAreNew, Ended, Checking
<1>3. BoundSoFar' /\ CertificateHolds' /\ Rechecking' /\ Rechecked' /\ RequestRead'
  BY DEF BoundSoFar, CertificateHolds, Rechecking, Rechecked, RequestRead, Ended, Admitted,
         Deciding, Checking
<1>4. ImageIsBound'
  BY DEF ImageIsBound, Inode, Deciding, Checking
<1>. QED
  BY <1>2, <1>3, <1>4

\* A step between two places of the reading asks only for what it adds.
ReadingStep == Resolve \/ Inspect \/ OpenExecutable \/ OpenLaunch \/ OpenPackage \/ ListFiles \/ OpenFile

LEMMA ReadingFrame ==
  ASSUME ReadingStep, AdmissionInv
  PROVE  /\ pc \in Reading /\ pc' \in Reading \cup {"start"}
         /\ mode = "run" => pc' # "start"
         /\ UNCHANGED <<disk, host, changes, userVars, image, request, answer, site, instant>>
         /\ answer # "allowed"
<1>1. /\ pc \in Reading /\ pc' \in Reading \cup {"start"}
      /\ mode = "run" => pc' # "start"
      /\ UNCHANGED <<disk, host, changes, userVars, image, request, answer, site, instant>>
  BY DEF ReadingStep, Resolve, Inspect, OpenExecutable, OpenLaunch, OpenPackage, ListFiles,
         OpenFile, Goto, Rest, diskVars, Reading
<1>2. answer # "allowed"
  BY <1>1 DEF AdmissionInv, RequestRead, Reading
<1>. QED
  BY <1>1, <1>2

\* Nothing is admitted, compared or decided while the bundle is read.
LEMMA ReadingLater ==
  ASSUME ReadingStep, AdmissionInv
  PROVE  CertificateHolds' /\ Rechecking' /\ Rechecked' /\ RequestRead'
<1>1. mode = "run" => pc' \in Reading
  BY ReadingFrame
<1>2. mode = "verify" => pc' \in Reading \cup {"start"}
  BY ReadingFrame
<1>3. pc' # "stamps" /\ pc' \notin Deciding \cup Checking
  BY ReadingFrame DEF Reading, Deciding, Checking
<1>. QED
  BY <1>1, <1>2, <1>3, ReadingFrame
     DEF CertificateHolds, Rechecking, Rechecked, RequestRead, Reading, Admitted, Deciding,
         Checking, userVars

LEMMA ReadingInv ==
  ASSUME ReadingStep, AdmissionInv
  PROVE  AdmissionInv'
<1>0. /\ pc' \in Reading \cup {"start"} /\ pc' \notin Checking \cup Deciding \cup {"bind"}
      /\ UNCHANGED <<kind, mode, answer, changes, disk, image>>
      /\ pc \in Reading
  BY ReadingFrame DEF Reading, Checking, Deciding, userVars
<1>1. CASE Resolve
  <2>1. /\ pc = "resolve" /\ pc' = (IF mode = "verify" THEN "start" ELSE "inspect")
        /\ UNCHANGED <<bound, names, handle, image>>
    BY <1>1 DEF Resolve, Goto, Rest, diskVars
  <2>2. ATypeOK'
    BY <1>0, <2>1 DEF AdmissionInv, ATypeOK, VerifierPlaces, Admitted, Deciding, Checking, Reading
  <2>3. StampsAreNew' /\ BoundSoFar' /\ ImageIsBound'
    BY <1>0, <2>1 DEF AdmissionInv, ATypeOK, StampsAreNew, BoundSoFar, ImageIsBound, Inode,
       Deciding, Checking
  <2>. QED
    BY <2>2, <2>3, ReadingLater DEF AdmissionInv
<1>2. CASE ~Resolve
  <2>0. mode = "run" /\ pc' # "start"
    <3>1. pc # "resolve"
      BY <1>2 DEF ReadingStep, Inspect, OpenExecutable, OpenLaunch, OpenPackage, ListFiles,
         OpenFile, Goto
    <3>. QED
      BY <1>0, <3>1, ReadingFrame DEF AdmissionInv, ATypeOK, VerifierPlaces, Reading, Deciding
  <2> USE <2>0
  <2>1. ATypeOK' <=> bound' \in [Paths -> File] /\ names' \in SUBSET Bundled
    BY <1>0 DEF AdmissionInv, ATypeOK, Checking
  <2>2. CASE Inspect
    <3>1. pc' = "executable" /\ UNCHANGED <<bound, names, handle>> /\ pc = "inspect"
      BY <2>2 DEF Inspect, Goto, Rest, diskVars
    <3>2. StampsAreNew' /\ BoundSoFar' /\ ImageIsBound' /\ ATypeOK'
      BY <1>0, <2>1, <3>1 DEF AdmissionInv, ATypeOK, StampsAreNew, BoundSoFar, ImageIsBound, Inode,
         Deciding, Checking
    <3>. QED
      BY <3>2, ReadingLater DEF AdmissionInv
  <2>3. CASE OpenExecutable
    <3>1. /\ pc = "executable" /\ pc' = "launch" /\ Exists("codex") /\ Bind("codex")
          /\ handle' = disk["codex"] /\ UNCHANGED names
      BY <2>3 DEF OpenExecutable, Goto
    <3>2. /\ bound' \in [Paths -> File] /\ StampsAreNew' /\ IsBound("codex")'
          /\ bound'["codex"] = disk["codex"]
      BY <1>0, <3>1, BindStep, PathFacts
    <3>3. ATypeOK' /\ BoundSoFar'
      BY <2>1, <3>1, <3>2 DEF AdmissionInv, ATypeOK, BoundSoFar
    <3>4. ImageIsBound'
      <4>1. image = Absent
        BY <3>1 DEF AdmissionInv, ImageIsBound
      <4>2. disk["codex"] \in File /\ disk["codex"].stamp <= changes
        BY PathFacts DEF AdmissionInv, ATypeOK, StampsAreNew
      <4>3. bound'["codex"].stamp > 0 /\ bound'["codex"].stamp \in Nat
        BY <3>2, <4>2 DEF IsBound, File
      <4>4. image'.stamp = 0 /\ image' \in File
        BY <1>0, <4>1, AbsentIsFile
      <4>. QED
        BY <1>0, <3>1, <3>2, <4>2, <4>3, <4>4 DEF ImageIsBound, Inode, Deciding, Checking
    <3>. QED
      BY <3>2, <3>3, <3>4, ReadingLater DEF AdmissionInv
  <2>4. CASE OpenLaunch \/ OpenPackage \/ OpenFile
    <3>1. UNCHANGED <<handle, names>> /\ pc \in {"launch", "package", "files"} /\ pc' \in {"package", "list", "files"}
      BY <2>4 DEF OpenLaunch, OpenPackage, OpenFile, Goto, Rest, diskVars
    <3>2. \/ UNCHANGED bound
          \/ \E p \in Paths \ {"codex"} : Exists(p) /\ Bind(p)
      <4>1. CASE OpenLaunch
        BY <4>1, PathFacts DEF OpenLaunch
      <4>2. CASE OpenPackage
        BY <4>2, PathFacts DEF OpenPackage
      <4>3. CASE OpenFile
        <5>1. First(todo) \in todo /\ todo \subseteq names \ {"codex"}
          BY <4>3, FirstIsOne DEF OpenFile, AdmissionInv, BoundSoFar, Ended
        <5>. QED
          BY <4>3, <5>1, PathFacts DEF OpenFile, AdmissionInv, ATypeOK
      <4>. QED
        BY <2>4, <4>1, <4>2, <4>3
    <3>3. bound' \in [Paths -> File] /\ StampsAreNew' /\ bound'["codex"] = bound["codex"]
      <4>1. CASE UNCHANGED bound
        BY <1>0, <4>1 DEF AdmissionInv, ATypeOK, StampsAreNew
      <4>2. ASSUME NEW p \in Paths \ {"codex"}, Exists(p), Bind(p)
            PROVE  bound' \in [Paths -> File] /\ StampsAreNew' /\ bound'["codex"] = bound["codex"]
        BY <1>0, <4>2, BindStep, PathFacts
      <4>. QED
        BY <3>2, <4>1, <4>2
    <3>4. ATypeOK' /\ ImageIsBound'
      BY <1>0, <2>1, <3>1, <3>3 DEF AdmissionInv, ATypeOK, ImageIsBound, Inode, Deciding, Checking
    <3>5. BoundSoFar'
      <4>0. IsBound("codex")' /\ IsBound("codex")
        BY <3>1, <3>3 DEF AdmissionInv, BoundSoFar, IsBound, Ended
      <4>1. CASE OpenLaunch
        <5>1. CASE kind = "npm-bin"
          <6>1. pc' = "package" /\ Exists("codex.js") /\ Bind("codex.js")
            BY <4>1, <5>1 DEF OpenLaunch, Goto
          <6>2. IsBound("codex.js")'
            BY <1>0, <6>1, BindStep, PathFacts
          <6>. QED
            BY <1>0, <4>0, <6>1, <6>2 DEF BoundSoFar
        <5>2. CASE kind # "npm-bin"
          <6>1. pc' = "list"
            BY <4>1, <5>2 DEF OpenLaunch, Goto
          <6>. QED
            BY <1>0, <4>0, <5>2, <6>1 DEF BoundSoFar
        <5>. QED
          BY <5>1, <5>2
      <4>2. CASE OpenPackage
        <5>1. /\ pc = "package" /\ pc' = "list" /\ Exists("package.json") /\ Bind("package.json")
              /\ package' = disk["package.json"].content
          BY <4>2 DEF OpenPackage, Goto
        <5>2. /\ IsBound("package.json")' /\ bound'["package.json"] = disk["package.json"]
              /\ IsBound("codex.js")' <=> IsBound("codex.js")
          BY <1>0, <5>1, BindStep, PathFacts
        <5>. QED
          BY <1>0, <4>0, <5>1, <5>2 DEF AdmissionInv, BoundSoFar, Ended
      <4>3. CASE OpenFile
        <5>1. /\ pc = "files" /\ pc' = "files" /\ todo # {} /\ Exists(First(todo))
              /\ Bind(First(todo)) /\ todo' = todo \ {First(todo)} /\ UNCHANGED package
          BY <4>3 DEF OpenFile
        <5>2. First(todo) \in todo /\ todo \subseteq names \ {"codex"} /\ names \subseteq Bundled
          BY <5>1, FirstIsOne DEF AdmissionInv, BoundSoFar, Ended, ATypeOK
        <5>3. First(todo) \in Paths \ {"codex.js", "package.json"}
          BY <5>2, PathFacts
        <5>4. /\ \A q \in Paths : IsBound(q)' <=> IsBound(q) \/ q = First(todo)
              /\ bound'["package.json"] = bound["package.json"]
          BY <1>0, <5>1, <5>3, BindStep, PathFacts
        <5>5. \A q \in names : q \in Paths
          BY <5>2, PathFacts
        <5>6. \A q \in names \ {"codex"} : q \in todo' \/ IsBound(q)'
          BY <5>1, <5>4, <5>5 DEF AdmissionInv, BoundSoFar, Ended
        <5>. QED
          BY <1>0, <3>1, <4>0, <5>1, <5>2, <5>4, <5>6, PathFacts DEF AdmissionInv, BoundSoFar, Ended
      <4>. QED
        BY <2>4, <4>1, <4>2, <4>3
    <3>. QED
      BY <3>3, <3>4, <3>5, ReadingLater DEF AdmissionInv
  <2>5. CASE ListFiles
    <3>1. /\ pc = "list" /\ pc' = "files" /\ names' = Listed /\ todo' = Listed \ {"codex"}
          /\ UNCHANGED <<bound, package, handle>>
      BY <2>5 DEF ListFiles, Goto, Rest, diskVars
    <3>2. names' \in SUBSET Bundled
      BY <3>1 DEF Listed
    <3>3. ATypeOK' /\ StampsAreNew' /\ ImageIsBound'
      BY <1>0, <2>1, <3>1, <3>2 DEF AdmissionInv, ATypeOK, StampsAreNew, ImageIsBound, Inode,
         Deciding, Checking
    <3>4. BoundSoFar'
      BY <1>0, <3>1 DEF AdmissionInv, BoundSoFar, IsBound, Ended
    <3>. QED
      BY <3>3, <3>4, ReadingLater DEF AdmissionInv
  <2>. QED
    BY <1>2, <2>2, <2>3, <2>4, <2>5 DEF ReadingStep
<1>. QED
  BY <1>1, <1>2
-----------------------------------------------------------------------------
(* From the bundle to the armed child.                                     *)

LaunchMoves ==
    \/ InspectFails \/ OpenFails \/ Bound \/ Admit \/ Capability \/ Health \/ CheckVersion
    \/ Spawn \/ VerifyChild \/ Arm \/ ArmVerifier

\* A recheck begins; those after the admission keep the certificate.
LEMMA CallStep ==
  ASSUME AdmissionInv, mode = "run",
         \/ pc = "files" /\ todo = {} /\ site' = "discover"
         \/ pc \in {"capability", "probe", "version", "verify"}
            /\ site' \in {"health", "healthy", "launching", "child"},
         pc' = "recheck",
         UNCHANGED <<diskVars, userVars, boundVars, todo, image, request, answer, instant>>
  PROVE  AdmissionInv'
<1>1. answer # "allowed"
  BY DEF AdmissionInv, RequestRead
<1> USE <1>1 DEF AdmissionInv, diskVars, userVars, boundVars
<1>2. ATypeOK' /\ StampsAreNew'
  BY DEF ATypeOK, StampsAreNew, Sites, Checking
<1>3. BoundSoFar'
  BY DEF BoundSoFar, IsBound, Ended
<1>4. ImageIsBound'
  BY DEF ImageIsBound, Inode, Deciding, Checking
<1>5. CertificateHolds'
  BY SameTarget DEF CertificateHolds, Admitted, Deciding, Checking
<1>6. Rechecking' /\ Rechecked' /\ RequestRead'
  BY DEF Rechecking, Rechecked, RequestRead, Admitted, Checking
<1>. QED
  BY <1>2, <1>3, <1>4, <1>5, <1>6

\* Steps that start no recheck: the admission, the spawn, the arming.
LEMMA MoveStep ==
  ASSUME AdmissionInv,
         \/ pc = "admit" /\ pc' = "capability" /\ Admits(Target) /\ mode = "run" /\ UNCHANGED image
         \/ pc = "start" /\ pc' = "verify" /\ mode = "run" /\ image' = handle
         \/ pc = "bind" /\ pc' = "armed" /\ mode = "run" /\ UNCHANGED image
         \/ pc = "start" /\ pc' = "armed" /\ mode = "verify" /\ UNCHANGED image,
         UNCHANGED <<diskVars, userVars, site, boundVars, todo, request, answer, instant>>
  PROVE  AdmissionInv'
<1>1. answer # "allowed"
  BY DEF AdmissionInv, RequestRead
<1> USE <1>1 DEF AdmissionInv, diskVars, userVars, boundVars
<1>2. ATypeOK' /\ StampsAreNew'
  BY DEF ATypeOK, StampsAreNew, Admitted, Deciding, VerifierPlaces, Checking
<1>3. BoundSoFar'
  BY DEF BoundSoFar, IsBound, Ended
<1>4. ImageIsBound'
  BY DEF ImageIsBound, Inode, Deciding, Checking
<1>5. CertificateHolds'
  BY SameTarget DEF CertificateHolds, Admitted, Deciding, Checking
<1>6. Rechecking' /\ RequestRead'
  BY DEF Rechecking, RequestRead, Checking
<1>7. Rechecked'
  BY SameTarget DEF Rechecked, Whole, SameNames, AtInstant, Admitted
<1>. QED
  BY <1>2, <1>3, <1>4, <1>5, <1>6, <1>7

LEMMA LaunchMoveStep ==
  ASSUME AdmissionInv, LaunchMoves
  PROVE  AdmissionInv'
<1>0. pc \notin VerifierPlaces => mode = "run"
  BY DEF AdmissionInv, ATypeOK
<1> USE DEF VerifierPlaces, Deciding
<1>1. CASE InspectFails \/ OpenFails
  <2>1. /\ pc \in Reading /\ pc \notin VerifierPlaces /\ pc' = "unarmed"
        /\ UNCHANGED <<diskVars, userVars, image, request, answer, site, boundVars, todo, instant>>
    BY <1>1 DEF InspectFails, OpenFails, Unarmed, Goto, Rest, Reading
  <2>. QED
    BY <1>0, <2>1, UnarmedStep
<1>2. CASE Bound
  <2>1. /\ pc = "files" /\ todo = {} /\ site' = "discover" /\ pc' = "recheck"
        /\ UNCHANGED <<diskVars, userVars, boundVars, todo, image, request, answer, instant>>
    BY <1>2 DEF Bound, Call, Goto
  <2>. QED
    BY <1>0, <2>1, CallStep
<1>3. CASE Admit
  <2>1. /\ pc = "admit" /\ ((Admits(Target) /\ pc' = "capability") \/ pc' = "unarmed")
        /\ UNCHANGED <<diskVars, userVars, image, request, answer, site, boundVars, todo, instant>>
    BY <1>3 DEF Admit, Unarmed, Goto, Rest
  <2>2. CASE pc' = "unarmed"
    BY <1>0, <2>1, <2>2, UnarmedStep
  <2>3. CASE pc' # "unarmed"
    BY <1>0, <2>1, <2>3, MoveStep
  <2>. QED
    BY <2>2, <2>3
<1>4. CASE Capability \/ Health \/ CheckVersion \/ VerifyChild
  <2>1. /\ pc \in {"capability", "probe", "version", "verify"}
        /\ UNCHANGED <<diskVars, userVars, image, request, answer, boundVars, todo, instant>>
        /\ \/ pc' = "unarmed" /\ UNCHANGED site
           \/ pc' = "recheck" /\ site' \in {"health", "healthy", "launching", "child"}
    BY <1>4 DEF Capability, Health, CheckVersion, VerifyChild, Unarmed, Call, Goto, Rest
  <2>2. CASE pc' = "unarmed" /\ UNCHANGED site
    BY <1>0, <2>1, <2>2, UnarmedStep DEF Admitted
  <2>3. CASE pc' = "recheck" /\ site' \in {"health", "healthy", "launching", "child"}
    BY <1>0, <2>1, <2>3, CallStep
  <2>. QED
    BY <2>1, <2>2, <2>3
<1>5. CASE Spawn
  BY <1>5, MoveStep DEF Spawn, Goto
<1>6. CASE Arm \/ ArmVerifier
  BY <1>6, MoveStep DEF Arm, ArmVerifier, Goto, Rest
<1>. QED
  BY <1>1, <1>2, <1>3, <1>4, <1>5, <1>6 DEF LaunchMoves
-----------------------------------------------------------------------------
(* The recheck.                                                            *)

\* The comparison begins: what is on disk now is the instant.
LEMMA LocationStep ==
  ASSUME AdmissionInv, RecheckLocation
  PROVE  AdmissionInv'
<1>1. /\ pc = "recheck" /\ pc' = "stamps" /\ Unmoved /\ todo' = Compared
      /\ instant' = [p \in Paths |-> disk[p].content]
      /\ UNCHANGED <<diskVars, userVars, image, request, answer, site, boundVars>>
  BY DEF RecheckLocation, Goto, Rest, Compared
<1>2. answer # "allowed" /\ mode = "run"
  BY <1>1 DEF AdmissionInv, RequestRead, ATypeOK, VerifierPlaces, Deciding
<1> USE <1>1, <1>2 DEF AdmissionInv, diskVars, userVars, boundVars
<1>3. ATypeOK' /\ StampsAreNew'
  BY DEF ATypeOK, StampsAreNew, Checking
<1>4. BoundSoFar' /\ ImageIsBound' /\ RequestRead' /\ Rechecked'
  BY DEF BoundSoFar, IsBound, Ended, ImageIsBound, Inode, Deciding, Checking, RequestRead,
         Rechecked, Admitted
<1>5. CertificateHolds'
  BY SameTarget DEF CertificateHolds, Admitted, Deciding, Checking
<1>6. SameNames'
  <2>1. "codex" \in DOMAIN instant'
    BY PathFacts
  <2>2. instant' # <<>>
    BY <2>1
  <2>3. {q \in Bundled : instant'[q] # NoFile} = Listed
    BY PathFacts DEF Listed, Exists
  <2>. QED
    BY <2>2, <2>3 DEF SameNames, Unmoved
<1>7. Rechecking'
  <2>1. \A p \in Compared : p \in Paths
    BY PathFacts DEF Compared, ATypeOK
  <2>. QED
    BY <1>6, <2>1, SameTarget DEF Rechecking, AtInstant
<1>. QED
  BY <1>3, <1>4, <1>5, <1>7

\* A file that has its stamp was that file at the instant.
LEMMA FileStep ==
  ASSUME AdmissionInv, RecheckFile
  PROVE  AdmissionInv'
<1>1. /\ pc = "stamps" /\ pc' = pc /\ todo # {} /\ disk[First(todo)] = bound[First(todo)]
      /\ todo' = todo \ {First(todo)}
      /\ UNCHANGED <<diskVars, userVars, image, request, answer, site, boundVars, instant>>
  BY DEF RecheckFile, Rest, Unchanged
<1>2. answer # "allowed" /\ mode = "run" /\ First(todo) \in todo
  BY <1>1, FirstIsOne DEF AdmissionInv, RequestRead, ATypeOK, VerifierPlaces, Deciding
<1> USE <1>1, <1>2 DEF AdmissionInv, diskVars, userVars, boundVars
<1>3. ATypeOK' /\ StampsAreNew'
  BY DEF ATypeOK, StampsAreNew, Checking
<1>4. BoundSoFar' /\ ImageIsBound' /\ RequestRead' /\ Rechecked'
  BY DEF BoundSoFar, IsBound, Ended, ImageIsBound, Inode, Deciding, Checking, RequestRead,
         Rechecked, Admitted
<1>5. CertificateHolds'
  BY SameTarget DEF CertificateHolds, Admitted, Deciding, Checking
<1>6. Rechecking'
  BY SameTarget DEF Rechecking, SameNames, AtInstant
<1>. QED
  BY <1>3, <1>4, <1>5, <1>6

LEMMA SiteFacts ==
  /\ \A s \in Sites :
       /\ OnSuccess[s] \in {"admit", "probe", "version", "start", "bind", "decide", "allow"}
       /\ OnSuccess[s] = "admit" <=> s = "discover"
       /\ OnSuccess[s] = "bind" <=> s = "child"
       /\ OnSuccess[s] = "decide" <=> s = "before"
       /\ OnSuccess[s] = "allow" <=> s = "after"
       /\ OnFailure[s] \in {"unarmed", "exit", "armed"}
       /\ OnFailure[s] = "armed" <=> s \in {"before", "after"}
  BY DEF Sites, OnSuccess, OnFailure

\* Every file was looked at: the package was whole at the instant.
LEMMA DoneStep ==
  ASSUME AdmissionInv, RecheckDone
  PROVE  AdmissionInv'
<1>1. /\ pc = "stamps" /\ todo = {} /\ RunsBound /\ pc' = OnSuccess[site] /\ site \in Sites
      /\ UNCHANGED <<diskVars, userVars, image, request, answer, site, boundVars, todo, instant>>
  BY DEF RecheckDone, Rest, AdmissionInv, ATypeOK, Checking
<1>2. answer # "allowed" /\ mode = "run"
  BY <1>1 DEF AdmissionInv, RequestRead, ATypeOK, VerifierPlaces, Deciding
<1>3. /\ pc' \in {"admit", "probe", "version", "start", "bind", "decide", "allow"}
      /\ pc' = "admit" <=> site = "discover"
      /\ pc' = "bind" <=> site = "child"
      /\ pc' = "decide" <=> site = "before"
      /\ pc' = "allow" <=> site = "after"
  BY <1>1, SiteFacts
<1> USE <1>1, <1>2, <1>3 DEF AdmissionInv, diskVars, userVars, boundVars
<1>4. ATypeOK' /\ StampsAreNew'
  BY DEF ATypeOK, StampsAreNew, Checking, Admitted, Deciding
<1>5. BoundSoFar'
  BY DEF BoundSoFar, IsBound, Ended
<1>6. ImageIsBound'
  BY DEF ImageIsBound, Inode, Deciding, Checking, RunsBound
<1>7. CertificateHolds'
  BY SameTarget DEF CertificateHolds, Admitted, Deciding, Checking
<1>8. Rechecking' /\ RequestRead'
  BY DEF Rechecking, RequestRead, Checking
<1>9. Rechecked'
  BY SameTarget DEF Rechecked, Rechecking, Whole, SameNames, AtInstant
<1>. QED
  BY <1>4, <1>5, <1>6, <1>7, <1>8, <1>9

LEMMA FailsStep ==
  ASSUME AdmissionInv, RecheckFails
  PROVE  AdmissionInv'
<1>1. /\ pc \in Checking /\ pc' = OnFailure[site] /\ site \in Sites
      /\ answer' = (IF site \in {"before", "after"} THEN "declined" ELSE answer)
      /\ UNCHANGED <<diskVars, userVars, image, request, site, boundVars, instant>>
  BY DEF RecheckFails, Rest, AdmissionInv, ATypeOK, Checking
<1>2. answer # "allowed" /\ mode = "run" /\ answer' # "allowed"
  BY <1>1 DEF AdmissionInv, RequestRead, ATypeOK, VerifierPlaces, Deciding, Checking
<1>3. /\ pc' \in {"unarmed", "exit", "armed"} /\ (pc' = "armed" <=> site \in {"before", "after"})
  BY <1>1, SiteFacts
<1> USE <1>1, <1>2, <1>3 DEF AdmissionInv, diskVars, userVars, boundVars
<1>4. ATypeOK' /\ StampsAreNew'
  BY DEF ATypeOK, StampsAreNew, Checking, Deciding, Ended
<1>5. BoundSoFar'
  BY DEF BoundSoFar, IsBound, Ended, Checking
<1>6. ImageIsBound'
  BY DEF ImageIsBound, Inode, Deciding, Checking
<1>7. CertificateHolds'
  BY SameTarget DEF CertificateHolds, Admitted, Deciding, Checking
<1>8. Rechecking' /\ RequestRead' /\ Rechecked'
  BY DEF Rechecking, RequestRead, Rechecked, Checking, Admitted
<1>. QED
  BY <1>4, <1>5, <1>6, <1>7, <1>8
-----------------------------------------------------------------------------
(* What a request that was parsed and decided on says.                     *)

\* The field a parsed document names is one of its fields.
LEMMA ParsedField ==
  ASSUME NEW doc \in Document, Parse(doc), NEW k \in Required \cup {"transcript_path"}
  PROVE  /\ Field(doc.fields, k) \in DOMAIN doc.fields
         /\ doc.fields[Field(doc.fields, k)].key = k
<1>1. \E i \in DOMAIN doc.fields : doc.fields[i].key = k
  BY DEF Parse, Keys
<1>. QED
  BY <1>1 DEF Field

\* A member of a document is its key and its value.
LEMMA MemberParts ==
  ASSUME NEW T, NEW m \in [key : STRING, value : T]
  PROVE  m = [key |-> m.key, value |-> m.value] /\ m.value \in T
  OBVIOUS

LEMMA SeqElement ==
  ASSUME NEW S, NEW seq \in Seq(S), NEW i \in DOMAIN seq
  PROVE  seq[i] \in S
  OBVIOUS

LEMMA DocumentFields ==
  ASSUME NEW doc \in Document, NEW i \in DOMAIN doc.fields
  PROVE  doc.fields[i] \in [key : STRING, value : JsonValue]
<1>1. doc.fields \in Seq([key : STRING, value : JsonValue])
  BY DEF Document
<1>. QED
  BY <1>1, SeqElement

\* Under a verification the decision allows the probe and nothing else.
LEMMA ProbeOnly ==
  ASSUME NEW doc \in Document, Parse(doc), mode = "verify", Decide(doc.fields, Context)
  PROVE  IsProbe(doc.fields)
<1> DEFINE i == Field(doc.fields, "tool_input")
           v == doc.fields[i].value
<1>1. i \in DOMAIN doc.fields /\ doc.fields[i].key = "tool_input"
  BY ParsedField DEF Required
<1>2. v.type = "object" /\ v.fields = <<[key |-> "command", value |-> Text(Probe)]>>
  BY DEF Decide, Context, ExactCommand, Value, Probe
<1>3. /\ doc.fields[i] = [key |-> "tool_input", value |-> v] /\ v \in JsonValue
  BY <1>1, DocumentFields, MemberParts
<1>4. v \in [type : {"object"}, text : {""}, fields : Seq(Member)]
  BY <1>2, <1>3 DEF JsonValue, Scalar
<1>5. v = [type |-> "object", text |-> "", fields |-> v.fields]
  BY <1>4
<1>6. v = Object(<<[key |-> "command", value |-> Text(Probe)]>>)
  BY <1>2, <1>5 DEF Object
<1>. QED
  BY <1>1, <1>3, <1>6 DEF IsProbe

LEMMA DecidedInput ==
  ASSUME NEW fs, Decide(fs, Context)
  PROVE  SupportedInput(Value(fs, "tool_input"))
  BY DEF Decide

LEMMA RequestsAreDocuments == Requests \subseteq Document
  BY AdmissionAssumption
-----------------------------------------------------------------------------
(* The requests.                                                           *)

LEMMA RequestStepInv ==
  ASSUME AdmissionInv, RequestStep
  PROVE  AdmissionInv'
<1>0. /\ UNCHANGED <<diskVars, userVars, boundVars, todo, image>>
      /\ pc \in Deciding /\ pc' \in Deciding \cup {"recheck"}
      /\ pc' = "recheck" => mode = "run" /\ site' \in {"before", "after"}
  BY DEF RequestStep, Receive, DecideRequest, Allow, Goto, Deciding
<1>1. answer' \in {"none", "declined", "allowed"}
  BY DEF RequestStep, Receive, DecideRequest, Allow, AdmissionInv, ATypeOK
<1> USE DEF AdmissionInv
<1>2. ATypeOK' /\ StampsAreNew'
  BY <1>0, <1>1 DEF ATypeOK, StampsAreNew, Checking, Deciding, VerifierPlaces, Sites, diskVars,
     userVars, boundVars
<1>3. BoundSoFar'
  BY <1>0 DEF BoundSoFar, IsBound, Ended, Deciding, userVars, boundVars
<1>4. ImageIsBound'
  BY <1>0 DEF ImageIsBound, Inode, Deciding, Checking, diskVars, userVars, boundVars
<1>5. CertificateHolds'
  BY <1>0, SameTarget DEF CertificateHolds, Admitted, Deciding, Checking, userVars
<1>6. Rechecking'
  BY <1>0 DEF Rechecking, Deciding
<1>7. Rechecked' /\ RequestRead'
  <2>1. ASSUME NEW doc \in Requests, Receive(doc)
        PROVE  Rechecked' /\ RequestRead'
    <3>1. /\ request' = doc /\ answer' # "allowed" /\ pc = "armed"
          /\ \/ Parse(doc) /\ mode = "run" /\ pc' = "recheck" /\ site' = "before"
             \/ Parse(doc) /\ mode = "verify" /\ pc' = "decide"
             \/ pc' = "armed"
      BY <2>1 DEF Receive, ATypeOK
    <3>. QED
      BY <1>0, <3>1 DEF Rechecked, RequestRead, Admitted, Checking, userVars
  <2>2. CASE DecideRequest
    <3>0. request \in Document /\ Parse(request) /\ request \in Requests /\ answer # "allowed"
      BY <2>2, RequestsAreDocuments DEF DecideRequest, RequestRead
    <3>1. CASE Decide(request.fields, Context)
      <4>1. /\ UNCHANGED <<answer, request>>
            /\ \/ mode = "run" /\ pc' = "recheck" /\ site' = "after"
               \/ mode = "verify" /\ pc' = "allow"
        BY <2>2, <3>1 DEF DecideRequest, ATypeOK
      <4>2. mode = "verify" => IsProbe(request.fields)
        BY <3>0, <3>1, ProbeOnly
      <4>3. SupportedInput(Value(request.fields, "tool_input"))
        BY <3>1, DecidedInput
      <4>. QED
        BY <1>0, <3>0, <4>1, <4>2, <4>3 DEF Rechecked, RequestRead, Admitted, Checking, userVars
    <3>2. CASE ~Decide(request.fields, Context)
      <4>1. pc' = "armed" /\ answer' = "declined"
        BY <2>2, <3>2 DEF DecideRequest
      <4>. QED
        BY <4>1 DEF Rechecked, RequestRead, Admitted, Checking
    <3>. QED
      BY <3>1, <3>2
  <2>3. CASE Allow
    <3>1. /\ pc = "allow" /\ pc' = "armed" /\ answer' = "allowed"
          /\ UNCHANGED <<request, instant, site>>
      BY <2>3 DEF Allow, Goto
    <3>2. RequestRead'
      BY <1>0, <3>1 DEF RequestRead, Checking, userVars
    <3>3. Rechecked'
      BY <1>0, <3>1, SameTarget DEF Rechecked, Whole, SameNames, AtInstant, userVars, boundVars
    <3>. QED
      BY <3>2, <3>3
  <2>. QED
    BY <2>1, <2>2, <2>3 DEF RequestStep
<1>. QED
  BY <1>2, <1>3, <1>4, <1>5, <1>6, <1>7
-----------------------------------------------------------------------------
(* The theorems.                                                           *)

LEMMA AdmissionInit ==
  ASSUME Init
  PROVE  AdmissionInv
<1>1. disk \in [Paths -> File] /\ \A p \in Paths : disk[p] = Absent \/ disk[p].stamp = 1
  <2>1. PICK c \in Contents, without \in SUBSET Helpers :
         disk = [p \in Paths |->
                   IF p \in without \/ (kind = "native" /\ p \notin Bundled)
                   THEN Absent ELSE [content |-> c, stamp |-> 1]]
    BY DEF Init
  <2>2. [content |-> c, stamp |-> 1] \in File
    BY DEF File
  <2>. QED
    BY <2>1, <2>2, AbsentIsFile
<1>2. /\ bound = [p \in Paths |-> Absent] /\ changes = 1 /\ pc = "resolve" /\ names = {}
      /\ kind \in {"native", "npm-bin"} /\ mode \in {"run", "verify"} /\ answer = "none"
      /\ handle = Absent /\ image = Absent
  BY DEF Init
<1>3. ATypeOK
  BY <1>1, <1>2, AbsentIsFile DEF ATypeOK, Reading, Checking, VerifierPlaces
<1>4. StampsAreNew
  BY <1>1, <1>2, AbsentIsFile DEF StampsAreNew
<1>5. ImageIsBound
  BY <1>2, AbsentIsFile, PathFacts DEF ImageIsBound, Inode, Deciding, Checking
<1>6. BoundSoFar /\ CertificateHolds /\ Rechecking /\ Rechecked /\ RequestRead
  BY <1>2 DEF BoundSoFar, CertificateHolds, Rechecking, Rechecked, RequestRead, Admitted,
     Deciding, Checking
<1>. QED
  BY <1>3, <1>4, <1>5, <1>6 DEF AdmissionInv

LEMMA AdmissionNext ==
  ASSUME AdmissionInv, [Next]_vars
  PROVE  AdmissionInv'
<1>1. CASE LaunchStep
  BY <1>1, ReadingInv, LaunchMoveStep DEF LaunchStep, ReadingStep, LaunchMoves
<1>2. CASE RecheckStep
  BY <1>2, LocationStep, FileStep, DoneStep, FailsStep DEF RecheckStep
<1>3. CASE Stopped \/ UNCHANGED vars
  <2>1. UNCHANGED vars
    BY <1>3 DEF Stopped
  <2> USE <2>1 DEF AdmissionInv, vars, diskVars, userVars, boundVars
  <2>2. ATypeOK' /\ StampsAreNew' /\ BoundSoFar' /\ ImageIsBound'
    BY DEF ATypeOK, StampsAreNew, BoundSoFar, IsBound, ImageIsBound, Inode
  <2>3. CertificateHolds'
    BY SameTarget DEF CertificateHolds
  <2>4. Rechecking' /\ Rechecked' /\ RequestRead'
    BY SameTarget DEF Rechecking, Rechecked, Whole, SameNames, AtInstant, RequestRead
  <2>. QED
    BY <2>2, <2>3, <2>4
<1>. QED
  BY <1>1, <1>2, <1>3, RequestStepInv, WorldStep DEF Next

\* The inductive invariant of admission.
THEOREM AdmissionSafe == Spec => []AdmissionInv
<1>1. Init => AdmissionInv
  BY AdmissionInit
<1>2. AdmissionInv /\ [Next]_vars => AdmissionInv'
  BY AdmissionNext
<1>. QED
  BY <1>1, <1>2, PTL DEF Spec

\* The target an admitted session holds, read off the instant.
LEMMA WholeTarget ==
  ASSUME AdmissionInv, Whole, Admits(Target)
  PROVE  /\ Target \in Entries
         /\ Target.binary = Digest(instant["codex"])
         /\ Target.bundle = [p \in {q \in Bundled : instant[q] # NoFile} |-> instant[p]]
         /\ Target.host = seenHost /\ Target.sandbox = args.sandbox
<1>1. \A p \in names : instant[p] = bound[p].content
  BY DEF Whole, Compared, AtInstant
<1>2. instant["codex"] = bound["codex"].content
  BY DEF Whole, Compared, AtInstant
<1>3. [p \in names |-> bound[p].content] = [p \in names |-> instant[p]]
  BY <1>1
<1>4. names = {q \in Bundled : instant[q] # NoFile}
  BY DEF Whole, SameNames
<1>. QED
  BY <1>2, <1>3, <1>4 DEF Target, Admits

\* However a package manager interleaves with discover, a launch is admitted
\* only if the whole package was a certified one at one instant.
THEOREM AdmissionIsWhole == Spec => []AdmittedWhole
<1>1. AdmissionInv => AdmittedWhole
  <2> SUFFICES ASSUME AdmissionInv, mode = "run", pc \in Admitted
               PROVE  AdmittedWhole
    BY DEF AdmittedWhole, Admitted
  <2>1. Whole /\ Admits(Target)
    BY DEF AdmissionInv, Rechecked, CertificateHolds
  <2>2. kind = "npm-bin" => /\ Target.launch = Digest(instant["codex.js"])
                            /\ Target.package = Digest(instant["package.json"])
    <3> SUFFICES ASSUME kind = "npm-bin"
                 PROVE  /\ Target.launch = Digest(instant["codex.js"])
                        /\ Target.package = Digest(instant["package.json"])
      OBVIOUS
    <3>1. /\ instant["codex.js"] = bound["codex.js"].content
          /\ instant["package.json"] = bound["package.json"].content
      BY <2>1 DEF Whole, Compared, AtInstant
    <3>2. package = bound["package.json"].content
      BY DEF AdmissionInv, BoundSoFar, Admitted, Ended
    <3>. QED
      BY <3>1, <3>2 DEF Target
  <2>. QED
    BY <2>1, <2>2, WholeTarget DEF AdmittedWhole
<1>. QED
  BY <1>1, AdmissionSafe, PTL

\* The child the broker decides for runs the bytes that were certified,
\* whatever the path names when it is executed or is written into meanwhile.
THEOREM ChildRunsCertifiedBytes == Spec => []RunsCertifiedBytes
<1>1. AdmissionInv => RunsCertifiedBytes
  <2> SUFFICES ASSUME AdmissionInv, Armed
               PROVE  \E e \in Entries : e.binary = Digest(image.content)
    BY DEF RunsCertifiedBytes
  <2>1. Admits(Target)
    BY DEF AdmissionInv, CertificateHolds, Armed, Deciding
  <2>2. image.content = bound["codex"].content
    BY DEF AdmissionInv, ImageIsBound, Inode, Armed, Deciding
  <2>3. Target \in Entries /\ Target.binary = Digest(bound["codex"].content)
    BY <2>1 DEF Admits, Target
  <2>. QED
    BY <2>2, <2>3
<1>. QED
  BY <1>1, AdmissionSafe, PTL

\* An approval is the verification's exact probe, or is backed by a certified
\* package that was whole on disk after the decision.
THEOREM ApprovalIsExact == Spec => []AuthorityIsExact
<1>1. AdmissionInv => AuthorityIsExact
  <2> SUFFICES ASSUME AdmissionInv, answer = "allowed"
               PROVE  AuthorityIsExact
    BY DEF AuthorityIsExact
  <2>1. pc = "armed"
    BY DEF AdmissionInv, RequestRead
  <2>2. CASE mode = "verify"
    BY <2>2 DEF AdmissionInv, RequestRead, IsProbe, AuthorityIsExact
  <2>3. CASE mode # "verify"
    <3>1. mode = "run"
      BY <2>3 DEF AdmissionInv, ATypeOK
    <3>2. Whole /\ Admits(Target)
      BY <2>1, <3>1 DEF AdmissionInv, Rechecked, CertificateHolds, Deciding
    <3>3. instant # <<>>
      BY <3>2 DEF Whole, SameNames
    <3>. QED
      BY <2>3, <3>2, <3>3, WholeTarget DEF AuthorityIsExact
  <2>. QED
    BY <2>2, <2>3
<1>. QED
  BY <1>1, AdmissionSafe, PTL

\* One field name, one value: any way to read the fields gives the same.
LEMMA OneValue ==
  ASSUME NEW T, NEW fs \in Seq([key : STRING, value : T]), Unique(fs), NEW k \in Keys(fs)
  PROVE  Cardinality({v \in {fs[i].value : i \in DOMAIN fs} :
                        \E i \in DOMAIN fs : fs[i] = [key |-> k, value |-> v]}) = 1
<1> DEFINE R == {v \in {fs[i].value : i \in DOMAIN fs} :
                   \E i \in DOMAIN fs : fs[i] = [key |-> k, value |-> v]}
<1>1. PICK j \in DOMAIN fs : fs[j].key = k
  BY DEF Keys
<1>2. fs[j] \in [key : STRING, value : T]
  BY SeqElement
<1>3. fs[j] = [key |-> k, value |-> fs[j].value]
  BY <1>1, <1>2, MemberParts
<1>4. \A v \in R : v = fs[j].value
  BY <1>1 DEF Unique
<1>5. R = {fs[j].value}
  BY <1>3, <1>4
<1>6. Cardinality({fs[j].value}) = 1
  BY FS_Singleton
<1>. QED
  BY <1>5, <1>6

\* parse_unique_object refuses what two readers could read differently.
THEOREM ApprovalHasOneReading == Spec => []OneReading
<1>1. AdmissionInv => OneReading
  <2> SUFFICES ASSUME AdmissionInv, answer = "allowed"
               PROVE  OneReading
    BY DEF OneReading
  <2> DEFINE fs == request.fields
             reading(gs, k) == {v \in {gs[i].value : i \in DOMAIN gs} :
                                  \E i \in DOMAIN gs : gs[i] = [key |-> k, value |-> v]}
  <2>1. request \in Document /\ Parse(request) /\ SupportedInput(Value(fs, "tool_input"))
    BY RequestsAreDocuments DEF AdmissionInv, RequestRead
  <2>2. fs \in Seq([key : STRING, value : JsonValue]) /\ Unique(fs)
        /\ \A i \in DOMAIN fs : Unique(fs[i].value.fields)
    BY <2>1 DEF Document, Parse, ParseUniqueObject, DeepUnique
  <2>3. \A k \in Keys(fs) : Cardinality(reading(fs, k)) = 1
    BY <2>2, OneValue
  <2>4. ASSUME NEW v \in reading(fs, "tool_input")
        PROVE  Cardinality(reading(v.fields, "command")) = 1
    <3> DEFINE j == Field(fs, "tool_input")
    <3>1. j \in DOMAIN fs /\ fs[j].key = "tool_input"
      BY <2>1, ParsedField DEF Required
    <3>2. PICK i \in DOMAIN fs : fs[i] = [key |-> "tool_input", value |-> v]
      OBVIOUS
    <3>3. fs[i].key = "tool_input" /\ fs[i].value = v
      BY <3>2
    <3>4. i = j
      BY <2>2, <3>1, <3>3 DEF Unique
    <3>5. v = Value(fs, "tool_input")
      BY <3>3, <3>4 DEF Value
    <3>6. v.type = "object" /\ "command" \in Keys(v.fields) /\ Unique(v.fields)
      BY <2>1, <2>2, <3>3, <3>5 DEF SupportedInput
    <3>7. v \in JsonValue
      BY <2>1, <3>3, DocumentFields, MemberParts
    <3>8. v.fields \in Seq(Member)
      BY <3>6, <3>7 DEF JsonValue, Scalar
    <3>. QED
      BY <3>6, <3>8, OneValue DEF Member
  <2>. QED
    BY <2>3, <2>4 DEF OneReading
<1>. QED
  BY <1>1, AdmissionSafe, PTL
=============================================================================
