--------------------------- MODULE RequestLedger ---------------------------
(***************************************************************************)
(* The replay ledger of a broker session (src/broker/mod.rs,               *)
(* RequestLedger).  A ledger is a value: the session the broker is bound   *)
(* to, the hook invocations already answered with an allow, and the        *)
(* requests already answered with an allow.  consume runs under a mutex,   *)
(* so a use of it is one step of the broker.                               *)
(*                                                                         *)
(* Abstractions: an invocation is the pair <<pid, start time>>, as in the  *)
(* code.  The code keeps the SHA-256 of the serialised hook input; the     *)
(* model keeps the input itself (digests do not collide).  A missing and   *)
(* an empty session_id are both NoSession.                                 *)
(***************************************************************************)
EXTENDS Naturals, FiniteSets

CONSTANTS
    Sessions,        \* non-empty Codex session identifiers
    NoSession,       \* no session: unbound ledger, absent or empty session_id
    Bodies,          \* everything in a hook input except its session_id
    MaxInvocations   \* allows per broker (4096 in the code)

ASSUME LedgerAssumption ==
    /\ NoSession \notin Sessions
    /\ MaxInvocations \in Nat

\* What a PermissionRequest hook sends: its digest covers every field.
HookInput == [session : Sessions \cup {NoSession}, body : Bodies]

EmptyLedger == [session |-> NoSession, invocations |-> {}, requests |-> {}]

\* Mutants: a dropped check of the invocation, and of the bound session.
ConsumableReusedInvocation(ledger, input, invocation, verification) ==
    /\ input.session # NoSession
    /\ ledger.session \in {NoSession, input.session}
    /\ Cardinality(ledger.invocations) < MaxInvocations
    /\ verification => ledger.invocations = {}
    /\ input \notin ledger.requests
ConsumableAnySession(ledger, input, invocation, verification) ==
    /\ input.session # NoSession
    /\ Cardinality(ledger.invocations) < MaxInvocations
    /\ verification => ledger.invocations = {}
    /\ invocation \notin ledger.invocations
    /\ input \notin ledger.requests

\* The conditions under which RequestLedger::consume returns false; the
\* ledger is then left as it was.
Consumable(ledger, input, invocation, verification) ==
    /\ input.session # NoSession
    /\ ledger.session \in {NoSession, input.session}
    /\ Cardinality(ledger.invocations) < MaxInvocations
    /\ verification => ledger.invocations = {}
    /\ invocation \notin ledger.invocations
    /\ input \notin ledger.requests

\* The ledger after a consume that returns true.
Consumed(ledger, input, invocation) ==
    [session     |-> input.session,
     invocations |-> ledger.invocations \cup {invocation},
     requests    |-> ledger.requests \cup {input}]

=============================================================================
