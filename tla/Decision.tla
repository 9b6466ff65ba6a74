------------------------------ MODULE Decision ------------------------------
(***************************************************************************)
(* From the bytes a hook receives to a decision: protocol.rs parses one    *)
(* JSON object strictly, decision.rs decides on what was parsed.           *)
(*                                                                         *)
(* A document is the sequence of its fields as written, so that one name   *)
(* may occur twice; a value is a string, null, or an object nested one     *)
(* level, which is as deep as the decision looks.                          *)
(***************************************************************************)
EXTENDS Naturals, Sequences

Text(s)    == [type |-> "string", text |-> s, fields |-> <<>>]
Null       == [type |-> "null", text |-> "", fields |-> <<>>]
Object(fs) == [type |-> "object", text |-> "", fields |-> fs]

\* Everything a hook may be sent: numbers, truth values and arrays are "other".
Scalar == [type : {"string", "null", "other"}, text : STRING, fields : {<<>>}]
Member == [key : STRING, value : Scalar]
JsonValue == Scalar \cup [type : {"object"}, text : {""}, fields : Seq(Member)]
Document ==
    [form : STRING, large : BOOLEAN, fields : Seq([key : STRING, value : JsonValue])]

\* A command the verification harness made: curl of the witness's address.
Probe == "probe"
Keys(fs) == {fs[i].key : i \in DOMAIN fs}
Unique(fs) == \A i, j \in DOMAIN fs : fs[i].key = fs[j].key => i = j

\* Mutant: duplicates are looked for at the top only.
TopUnique(fs) == Unique(fs)

\* UniqueObjectVisitor and StrictValueVisitor: no object of the document names
\* a field twice.
DeepUnique(fs) ==
    /\ Unique(fs)
    /\ \A i \in DOMAIN fs : Unique(fs[i].value.fields)

\* parse_unique_object: one object and nothing after it.
ParseUniqueObject(doc) ==
    /\ doc.form = "object"      \* not a scalar, nor with trailing data
    /\ DeepUnique(doc.fields)

\* The reading of a field whose name is unique.
Field(fs, k) == (CHOOSE i \in DOMAIN fs : fs[i].key = k)
Value(fs, k) == fs[Field(fs, k)].value

Required == {"hook_event_name", "session_id", "cwd", "model", "tool_name",
             "tool_input", "turn_id", "permission_mode"}
Modes == {"default", "acceptEdits", "plan", "dontAsk", "bypassPermissions"}

\* parse: WireHookInput denies unknown fields, requires every field, and tells
\* a missing transcript_path from a null one.
Parse(doc) ==
    /\ ~doc.large
    /\ ParseUniqueObject(doc)
    /\ Keys(doc.fields) = Required \cup {"transcript_path"}
    /\ \A k \in Required \ {"tool_input"} : Value(doc.fields, k).type = "string"
    /\ Value(doc.fields, "transcript_path").type \in {"string", "null"}
    /\ Value(doc.fields, "permission_mode").text \in Modes
-----------------------------------------------------------------------------
\* The nested fields are a command, and at most a description beside it.
SupportedInput(v) ==
    /\ v.type = "object"
    /\ "command" \in Keys(v.fields)
    /\ \A i \in DOMAIN v.fields :
        \/ v.fields[i].key = "command" /\ v.fields[i].value.type = "string"
        \/ v.fields[i].key = "description" /\ v.fields[i].value.type \in {"string", "null"}

ExactCommand(v, command) ==
    v.type = "object" /\ v.fields = <<[key |-> "command", value |-> Text(command)]>>

\* verification_schema and the certificate: which of the two applies depends
\* on whether the session holds a certified target, whose version and tool
\* are the session's own.
Authorized(context, tool) ==
    IF /\ ~context.certified /\ context.command = Probe /\ context.tool = "Bash"
    THEN context.version \in context.verifiable /\ tool = "Bash"
    ELSE context.certified /\ context.admits /\ tool = "Bash"

\* decide: the checks in order; only the answer Allow is told apart.
Decide(fs, context) ==
    LET text(k) == Value(fs, k).text
    IN  /\ text("hook_event_name") = "PermissionRequest"
        /\ \A k \in {"session_id", "cwd", "tool_name"} : text(k) # ""
        /\ text("permission_mode") = "default"
        /\ context.tool # "any" => text("tool_name") = context.tool
        /\ text("tool_name") = "Bash"
        /\ Authorized(context, text("tool_name"))
        /\ SupportedInput(Value(fs, "tool_input"))
        /\ text("cwd") = context.cwd
        /\ context.command # "any" => ExactCommand(Value(fs, "tool_input"), context.command)
=============================================================================
