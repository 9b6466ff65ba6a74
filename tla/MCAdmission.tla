---------------------------- MODULE MCAdmission -----------------------------
(* Two certified releases and one altered file that reports the first      *)
(* one's version; a helper that may be added or removed.                   *)
EXTENDS Admission

CONSTANTS v1, v2, altered, none

ReportedVersion(c) == IF c = v2 THEN "2" ELSE "1"
Native == [surface |-> "native-cli", release |-> "a"]
SomeHosts == {Native, [surface |-> "native-cli", release |-> "b"],
              [surface |-> "container", release |-> "a"]}

Certificate(c, k, files) ==
    [version |-> ReportedVersion(c), host |-> Native, sandbox |-> "linux-bwrap", kind |-> k,
     binary |-> Digest(c), bundle |-> [p \in files |-> c],
     launch |-> Digest(c), package |-> Digest(c)]
Certified ==
    {Certificate(c, k, {"codex-package.json", "codex", "bwrap"}) :
        c \in {v1, v2}, k \in {"native", "npm-bin"}}

F(k, s) == [key |-> k, value |-> Text(s)]
Input(fs) == [key |-> "tool_input", value |-> Object(fs)]
Fields(input) ==
    <<F("hook_event_name", "PermissionRequest"), F("session_id", "s"), F("cwd", "here"),
      F("model", "m"), F("tool_name", "Bash"), input, F("turn_id", "t"),
      F("permission_mode", "default"), [key |-> "transcript_path", value |-> Null]>>
Doc(fs) == [form |-> "object", large |-> FALSE, fields |-> fs]
SomeRequests ==
    {Doc(Fields(Input(<<F("command", Probe)>>))),
     Doc(Fields(Input(<<F("command", "other")>>))),
     Doc(Fields(Input(<<F("command", Probe), F("description", "d")>>))),
     Doc(Fields(Input(<<F("command", Probe), F("command", "other")>>))),
     Doc(Append(Fields(Input(<<F("command", Probe)>>)), F("cwd", "there")))}

SomeArguments ==
    {[list |-> l, sandbox |-> "linux-bwrap", write |-> TRUE] :
        l \in {<<"--model", "option", "prompt">>, <<"option">>}}
    \cup {[list |-> <<>>, sandbox |-> "none", write |-> TRUE]}
=============================================================================
