----------------------------- MODULE Admission ------------------------------
(***************************************************************************)
(* Which Codex may be approved for: admission.rs, artifact.rs, identity.rs *)
(* and certification.rs on Linux.  A launch hashes the files of the Codex  *)
(* package one after the other, compares the digests with the certificates *)
(* embedded in the launcher, runs the executable through the handle it     *)
(* hashed, and checks all of it again before and after each decision.      *)
(*                                                                         *)
(* Meanwhile a package manager may replace, rewrite, add and remove files  *)
(* in any order, and the host may be upgraded.  A file's stamp (device,    *)
(* inode, size, times) is a number that every change makes new.  Hashes    *)
(* are injective: a digest is the content it was made of.                  *)
(***************************************************************************)
EXTENDS Decision, FiniteSets

CONSTANTS
    Helpers,      \* bundle files besides the executable and its metadata
    Contents,     \* what a file may hold
    NoFile,       \* a path that names no file
    Version(_),   \* the version a file's content reports
    Entries,      \* the certified targets of the embedded manifest
    Revoked,      \* digests the embedded manifest revokes
    Hosts,        \* what environment::observe may find
    Verifiable,   \* versions verify-local-hook knows
    Requests,     \* documents a hook may send
    Arguments,    \* argument lists a user may pass to Codex
    MaxChanges    \* bound: file changes while the program runs

Bundled == {"codex-package.json", "codex"} \cup Helpers
Paths == Bundled \cup {"codex.js", "package.json"}
Absent == [content |-> NoFile, stamp |-> 0]

\* The bundle's files are not the npm package's, and a file has a content.
ASSUME AdmissionAssumption ==
    /\ Helpers \cap {"codex.js", "package.json"} = {}
    /\ NoFile \notin Contents /\ Requests \subseteq Document

VARIABLES
    disk,      \* [Paths -> content and stamp]
    host,      \* what observe would find now
    changes,   \* number of changes so far: the next stamp
    kind,      \* is Codex launched through npm or natively?
    mode,      \* "run", or "verify" for verify-local-hook's broker
    args,      \* the arguments for Codex and the chosen sandbox
    pc, site,  \* the launcher's place, and which recheck is under way
    version,   \* Installation::version
    seenHost,  \* Admission::host
    bound,     \* what BoundFile and Executable recorded of each path
    package,   \* launch_package_sha256's content
    names,     \* Bundle::file_names
    handle,    \* the inode Executable holds open: content and stamp
    todo,      \* files the recheck still has to look at
    image,     \* what the child runs
    request, answer,
    instant    \* history: the disk when the last recheck began

diskVars == <<disk, host, changes, handle>>
userVars == <<kind, mode, args>>
boundVars == <<version, seenHost, bound, package, names>>
vars == <<diskVars, userVars, pc, site, boundVars, todo, image, request, answer, instant>>

Exists(p) == disk[p].content # NoFile
\* Files are gone through one by one, in a fixed order.
First(files) == CHOOSE p \in files : TRUE
Listed == {p \in Bundled : Exists(p)}
-----------------------------------------------------------------------------
(* certification.rs                                                        *)

Digest(c) == [file |-> c]
Digests(t) == {t.binary, t.bundle, t.launch, t.package}

\* Target::validate; versions, hashes and names are well formed here.
ValidTarget(t) ==
    /\ t.host.surface = "native-cli"
    /\ t.kind \in {"native", "npm-bin"}
    /\ t.sandbox \in {"linux-bwrap", "linux-landlock"}

\* Manifest::validate: certifying a revoked artifact voids the manifest.
ValidManifest == \A e \in Entries : ValidTarget(e) /\ Digests(e) \cap Revoked = {}

Admits(t) ==
    /\ ValidManifest /\ ValidTarget(t)
    /\ Digests(t) \cap Revoked = {}
    /\ t \in Entries

\* Admission::inspect's target, from what was recorded.
Target ==
    [version |-> version, host |-> seenHost, sandbox |-> args.sandbox,
     kind |-> kind, binary |-> Digest(bound["codex"].content),
     bundle |-> [p \in names |-> bound[p].content],
     launch |-> Digest(bound[IF kind = "native" THEN "codex" ELSE "codex.js"].content),
     package |-> Digest(package)]
-----------------------------------------------------------------------------
(* The user and the rest of the machine.                                   *)

Init ==
    /\ kind \in {"native", "npm-bin"}
    /\ \E c \in Contents, without \in SUBSET Helpers :   \* one release's files
         disk = [p \in Paths |->
                   IF p \in without \/ (kind = "native" /\ p \notin Bundled)
                   THEN Absent ELSE [content |-> c, stamp |-> 1]]
    /\ host \in Hosts /\ changes = 1
    /\ mode \in {"run", "verify"} /\ args \in Arguments
    /\ pc = "resolve" /\ site = "none"
    /\ version = NoFile /\ seenHost = host
    /\ bound = [p \in Paths |-> Absent] /\ package = NoFile /\ names = {}
    /\ handle = Absent /\ todo = {} /\ image = Absent
    /\ request = <<>> /\ answer = "none" /\ instant = <<>>

\* Nothing looks at the files of a verification or after the launcher left.
Looking == mode = "run" /\ pc \notin {"unarmed", "exit"} /\ changes < MaxChanges

Change(p, f) ==
    /\ Looking
    /\ changes' = changes + 1 /\ disk' = [disk EXCEPT ![p] = f]
    /\ UNCHANGED <<host, userVars, pc, site, boundVars, todo, image, request,
                   answer, instant>>

\* A new file is renamed over the old one, or made where there was none; a
\* handle stays on the old inode.
Replace(p, c) ==
    /\ Change(p, [content |-> c, stamp |-> changes + 1])
    /\ UNCHANGED handle

Remove(p) == Exists(p) /\ Change(p, Absent) /\ UNCHANGED handle

\* Writing into the file changes what a handle on it sees.  The kernel lets
\* nobody write a running image.
Rewrite(p, c) ==
    /\ Exists(p) /\ disk[p].stamp # image.stamp
    /\ Change(p, [content |-> c, stamp |-> changes + 1])
    /\ handle' = IF p = "codex" /\ handle.stamp = disk[p].stamp
                 THEN disk'[p] ELSE handle

HostChanges ==
    /\ Looking /\ changes' = changes + 1
    /\ host' \in Hosts \ {host}
    /\ UNCHANGED <<disk, handle, userVars, pc, site, boundVars, todo, image, request,
                   answer, instant>>
-----------------------------------------------------------------------------
(* Bundle: finding and binding the files.                                  *)

Goto(from, to) == pc = from /\ pc' = to
Bind(p) == bound' = [bound EXCEPT ![p] = disk[p]]
Rest == UNCHANGED <<diskVars, userVars, image, request, answer>>

\* locate: the package's layout and the versions its metadata state.
Locate(v) ==
    /\ Exists("codex-package.json") /\ Exists("codex")
    /\ v \in {"", Version(disk["codex-package.json"].content)}
    /\ kind = "npm-bin" =>
        /\ Exists("codex.js") /\ Exists("package.json")
        /\ Version(disk["package.json"].content) = Version(disk["codex-package.json"].content)

\* codex::inspect: the version the executable reports of itself, or unknown.
Resolve ==
    /\ Goto("resolve", IF mode = "verify" THEN "start" ELSE "inspect")
    /\ version' \in {"unknown"} \cup {Version(disk[p].content) : p \in {"codex"} \cap Listed}
    /\ Rest /\ UNCHANGED <<site, seenHost, bound, package, names, todo, instant>>

\* launch_unarmed: Codex runs without the hook's authority.
Unarmed(from) ==
    /\ Goto(from, "unarmed")
    /\ Rest /\ UNCHANGED <<site, boundVars, todo, instant>>

\* validate_arguments: a few options, at most one prompt, nothing that could
\* replace the certified sandbox or surface.
ArgumentsOk(list) ==
    LET value[i \in 0 .. Len(list)] ==     \* the argument of the option before it
          i > 1 /\ list[i - 1] = "--model" /\ ~value[i - 1]
        position(i) == IF value[i] THEN "value" ELSE list[i]
    IN  /\ \A i \in DOMAIN list : position(i) \notin {"option", "subcommand"}
        /\ Cardinality({i \in DOMAIN list : position(i) = "prompt"}) <= 1
        /\ list # <<>> => position(Len(list)) # "--model"

\* inspect up to the bundle: a known version, the arguments, the host and an
\* explicit choice of sandbox and mode.
Eligible ==
    /\ ValidManifest /\ \E e \in Entries : e.version = version
    /\ ArgumentsOk(args.list)
    /\ host.surface = "native-cli"
    /\ args.sandbox \in {"linux-bwrap", "linux-landlock"} /\ args.write

Inspect ==
    /\ Goto("inspect", "executable") /\ Eligible /\ Locate(version)
    /\ seenHost' = host
    /\ Rest /\ UNCHANGED <<site, version, bound, package, names, todo, instant>>

InspectFails == ~(Eligible /\ Locate(version)) /\ Unarmed("inspect")

\* Executable::open and BoundFile::open_limited compare the stamp before and
\* after they hash, so a file that is bound was hashed as one whole.
OpenExecutable ==
    /\ Goto("executable", "launch") /\ Exists("codex")
    /\ Bind("codex") /\ handle' = disk["codex"]
    /\ UNCHANGED <<disk, host, changes, userVars, image, request, answer>>
    /\ UNCHANGED <<site, version, seenHost, package, names, todo, instant>>

\* The npm shim and its package.json; a native launch reads the bundle's
\* metadata for the package digest and does not keep the handle.
OpenLaunch ==
    \/ /\ kind = "npm-bin" /\ Exists("codex.js") /\ Goto("launch", "package")
       /\ Bind("codex.js") /\ UNCHANGED package
       /\ Rest /\ UNCHANGED <<site, version, seenHost, names, todo, instant>>
    \/ /\ kind = "native" /\ Exists("codex-package.json") /\ Goto("launch", "list")
       /\ package' = disk["codex-package.json"].content
       /\ Rest /\ UNCHANGED <<site, version, seenHost, bound, names, todo, instant>>

OpenPackage ==
    /\ Goto("package", "list") /\ Exists("package.json")
    /\ Bind("package.json") /\ package' = disk["package.json"].content
    /\ Rest /\ UNCHANGED <<site, version, seenHost, names, todo, instant>>

ListFiles ==
    /\ Goto("list", "files") /\ Listed # {}
    /\ names' = Listed /\ todo' = Listed \ {"codex"}
    /\ Rest /\ UNCHANGED <<site, version, seenHost, bound, package, instant>>

OpenFile ==
    /\ pc = "files" /\ todo # {} /\ Exists(First(todo)) /\ UNCHANGED pc
    /\ Bind(First(todo)) /\ todo' = todo \ {First(todo)}
    /\ Rest /\ UNCHANGED <<site, version, seenHost, package, names, instant>>

\* A file went away while the bundle was read.
OpenFails ==
    \/ ~Exists("codex") /\ Unarmed("executable")
    \/ kind = "npm-bin" /\ ~Exists("codex.js") /\ Unarmed("launch")
    \/ kind = "native" /\ ~Exists("codex-package.json") /\ Unarmed("launch")
    \/ ~Exists("package.json") /\ Unarmed("package")
    \/ Listed = {} /\ Unarmed("list")
    \/ todo # {} /\ ~Exists(First(todo)) /\ Unarmed("files")
-----------------------------------------------------------------------------
(* Bundle::recheck, Admission::recheck and Admission::verify_process.      *)

Sites == {"discover", "health", "healthy", "launching", "child", "before", "after"}
OnSuccess ==
    [discover |-> "admit", health |-> "probe", healthy |-> "version",
     launching |-> "start", child |-> "bind", before |-> "decide", after |-> "allow"]
OnFailure ==
    [discover |-> "unarmed", health |-> "unarmed", healthy |-> "unarmed",
     launching |-> "exit", child |-> "exit", before |-> "armed", after |-> "armed"]

Call(from, s) ==
    /\ Goto(from, "recheck") /\ site' = s
    /\ UNCHANGED <<diskVars, userVars, boundVars, todo, image, request, answer, instant>>

\* The manifest and the host first (not within discover), then the location
\* and the names, and after them every file's stamp.
Unmoved ==
    /\ site # "discover" => Admits(Target) /\ host = seenHost
    /\ Exists("codex-package.json") /\ Locate(Version(disk["codex-package.json"].content))
    /\ Listed = names

RecheckLocation ==
    /\ Goto("recheck", "stamps") /\ Unmoved
    /\ todo' = names \cup (IF kind = "native" THEN {"codex"}
                           ELSE {"codex", "codex.js", "package.json"})
    /\ instant' = [p \in Paths |-> disk[p].content]
    /\ Rest /\ UNCHANGED <<site, boundVars>>

\* Mutant: the path is looked up, its stamp is not compared.
StillThere(p) == Exists(p)

Unchanged(p) == disk[p] = bound[p]

RecheckFile ==
    /\ pc = "stamps" /\ todo # {} /\ Unchanged(First(todo)) /\ UNCHANGED pc
    /\ todo' = todo \ {First(todo)}
    /\ Rest /\ UNCHANGED <<site, boundVars, instant>>

\* Executable::verify_process looks at the executable once more and compares
\* the running image's stamp.
RunsBound ==
    site \in {"child", "before", "after"} =>
        Unchanged("codex") /\ image.stamp = bound["codex"].stamp

RecheckDone ==
    /\ pc = "stamps" /\ todo = {} /\ RunsBound
    /\ pc' = OnSuccess[site]
    /\ Rest /\ UNCHANGED <<site, boundVars, todo, instant>>

RecheckFails ==
    /\ \/ pc = "recheck" /\ ~Unmoved
       \/ pc = "stamps" /\ todo # {} /\ ~Unchanged(First(todo))
       \/ pc = "stamps" /\ todo = {} /\ ~RunsBound
    /\ pc' = OnFailure[site] /\ todo' = {}
    /\ answer' = IF site \in {"before", "after"} THEN "declined" ELSE answer
    /\ UNCHANGED <<diskVars, userVars, image, request, site, boundVars, instant>>
-----------------------------------------------------------------------------
(* launcher::run, from the bundle to the armed child.                      *)

Bound == todo = {} /\ Call("files", "discover")

Admit ==
    \/ Admits(Target) /\ Goto("admit", "capability")
       /\ Rest /\ UNCHANGED <<site, boundVars, todo, instant>>
    \/ ~Admits(Target) /\ Unarmed("admit")

\* detect_hook_capability: two probes of the installed Codex.
Capability == Call("capability", "health") \/ Unarmed("capability")

\* check_execution_health: the sandbox runs a shell that writes a file.
Health == Call("probe", "healthy") \/ Unarmed("probe")

\* codex::version runs the file now at the path.
CheckVersion ==
    \/ /\ Exists("codex") /\ Version(disk["codex"].content) = version
       /\ Call("version", "launching")
    \/ Unarmed("version")

\* Executable::command: /proc/self/fd names the inode that was hashed.
Spawn ==
    /\ mode = "run" /\ Goto("start", "verify") /\ image' = handle
    /\ UNCHANGED <<diskVars, userVars, request, answer, site, boundVars, todo, instant>>

\* Mutant: what was checked before the execution is trusted after it.
VerifyChildSkipped ==
    /\ Goto("verify", "bind")
    /\ Rest /\ UNCHANGED <<site, boundVars, todo, instant>>

VerifyChild == Call("verify", "child")

\* set_codex_identity: from here on the broker decides.
Arm ==
    /\ mode = "run" /\ Goto("bind", "armed")
    /\ Rest /\ UNCHANGED <<site, boundVars, todo, instant>>

\* verify-local-hook has no admission; its child is found by codex::inspect.
ArmVerifier ==
    /\ mode = "verify" /\ Goto("start", "armed")
    /\ Rest /\ UNCHANGED <<site, boundVars, todo, instant>>
-----------------------------------------------------------------------------
(* verify_request: recheck, decide, recheck.                               *)

Context ==
    [certified |-> mode = "run", admits |-> mode = "run" /\ Admits(Target),
     version |-> version, verifiable |-> Verifiable, cwd |-> "here",
     command |-> IF mode = "run" THEN "any" ELSE Probe,
     tool |-> IF mode = "run" THEN "any" ELSE "Bash"]

\* parse_request and protocol::parse refuse a document without a decision.
Receive(doc) ==
    /\ pc = "armed" /\ request' = doc /\ instant' = <<>>
    /\ IF Parse(doc)
         THEN /\ answer' = "none"
              /\ IF mode = "run" THEN pc' = "recheck" /\ site' = "before"
                                 ELSE pc' = "decide" /\ UNCHANGED site
         ELSE answer' = "declined" /\ UNCHANGED <<pc, site>>
    /\ UNCHANGED <<diskVars, userVars, boundVars, todo, image>>

\* Mutant: a decision to allow is final.
DecideFinally ==
    /\ pc = "decide" /\ UNCHANGED site /\ instant' = <<>>
    /\ IF Decide(request.fields, Context)
         THEN pc' = "allow" /\ UNCHANGED answer
         ELSE pc' = "armed" /\ answer' = "declined"
    /\ UNCHANGED <<diskVars, userVars, boundVars, todo, image, request>>

DecideRequest ==
    /\ pc = "decide" /\ instant' = <<>>
    /\ IF Decide(request.fields, Context)
         THEN /\ UNCHANGED answer
              /\ IF mode = "run" THEN pc' = "recheck" /\ site' = "after"
                                 ELSE pc' = "allow" /\ UNCHANGED site
         ELSE pc' = "armed" /\ answer' = "declined" /\ UNCHANGED site
    /\ UNCHANGED <<diskVars, userVars, boundVars, todo, image, request>>

Allow ==
    /\ Goto("allow", "armed") /\ answer' = "allowed"
    /\ UNCHANGED <<diskVars, userVars, site, boundVars, todo, image, request, instant>>

Stopped == pc \in {"unarmed", "exit"} /\ UNCHANGED vars

LaunchStep ==
    \/ Resolve \/ Inspect \/ InspectFails \/ OpenExecutable \/ OpenLaunch \/ OpenPackage
    \/ ListFiles \/ OpenFile \/ OpenFails
    \/ Bound \/ Admit \/ Capability \/ Health \/ CheckVersion \/ Spawn
    \/ VerifyChild \/ Arm \/ ArmVerifier
RecheckStep ==
    RecheckLocation \/ RecheckFile \/ RecheckDone \/ RecheckFails
RequestStep == (\E doc \in Requests : Receive(doc)) \/ DecideRequest \/ Allow
World ==
    \/ \E p \in Paths : Remove(p) \/ \E c \in Contents : Replace(p, c) \/ Rewrite(p, c)
    \/ HostChanges

Next == LaunchStep \/ RecheckStep \/ RequestStep \/ World \/ Stopped
Spec == Init /\ [][Next]_vars
-----------------------------------------------------------------------------
Armed == mode = "run" /\ pc \in {"armed", "decide", "allow"}

\* The files are read one after the other while a package manager works on
\* them; yet once the launch is admitted there was one instant at which the
\* whole package on disk was a certified one (discover's final recheck).
AdmittedWhole ==
    mode = "run" /\ pc \in {"capability", "probe", "version", "start", "verify", "bind"} =>
        \E e \in Entries :
            /\ e.binary = Digest(instant["codex"])
            /\ e.bundle = [p \in {q \in Bundled : instant[q] # NoFile} |-> instant[p]]
            /\ kind = "npm-bin" => /\ e.launch = Digest(instant["codex.js"])
                                   /\ e.package = Digest(instant["package.json"])

\* The bound child runs the certified bytes, although the path may name
\* others when it is executed, and the file may be written into between the
\* check and the execution (Executable::command, verify_process).
RunsCertifiedBytes ==
    Armed => \E e \in Entries : e.binary = Digest(image.content)

\* Every approval is backed either by the exact probe of a verification, or
\* by a package that was certified and whole on disk at an instant after the
\* decision, in a session whose host and sandbox are the certificate's
\* (verify_request's second verify_process).
AuthorityIsExact ==
    answer = "allowed" =>
        IF mode = "verify"
        THEN \E i \in DOMAIN request.fields :
               request.fields[i] = [key |-> "tool_input", value |->
                   Object(<<[key |-> "command", value |-> Text(Probe)]>>)]
        ELSE /\ instant # <<>>
             /\ \E e \in Entries :
                  /\ e.host = seenHost /\ e.sandbox = args.sandbox
                  /\ e.binary = Digest(instant["codex"])
                  /\ e.bundle = [p \in {q \in Bundled : instant[q] # NoFile} |-> instant[p]]

\* What was approved can be read in one way only: a reader that keeps the
\* first of two equal field names and one that keeps the last agree, at every
\* depth, so Codex cannot run another command than the one decided on
\* (parse_unique_object).
OneReading ==
    answer = "allowed" =>
        LET reading(fs, k) == {v \in {fs[i].value : i \in DOMAIN fs} :
                                 \E i \in DOMAIN fs : fs[i] = [key |-> k, value |-> v]}
        IN  /\ \A k \in Keys(request.fields) : Cardinality(reading(request.fields, k)) = 1
            /\ \A v \in reading(request.fields, "tool_input") :
                 Cardinality(reading(v.fields, "command")) = 1
=============================================================================
