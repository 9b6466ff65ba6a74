-------------------------- MODULE OneShotApproval --------------------------
(***************************************************************************)
(* What a broker session promises, without sockets, threads or processes:  *)
(* permission requests are granted at most once each, at most one per hook *)
(* invocation and per client, all for one Codex session, up to a limit;    *)
(* and only a granted client is ever approved, once.                       *)
(***************************************************************************)
EXTENDS Naturals, FiniteSets

CONSTANTS
    Clients,
    Requests,      \* records with a session field
    NoSession,     \* a request without a session is never granted
    Invocations,
    Limit,         \* grants per session
    Single         \* TRUE when a session is for a single grant

VARIABLES
    granted,   \* set of [conn, input, invocation]
    approved   \* the grants whose approval was printed for Codex

vars == <<granted, approved>>

Init == granted = {} /\ approved = {}

Fresh(c, r, i) ==
    \A g \in granted : g.conn # c /\ g.input # r /\ g.invocation # i

Grant(c, r, i) ==
    /\ Fresh(c, r, i)
    /\ r.session # NoSession
    /\ \A g \in granted : g.input.session = r.session
    /\ Cardinality(granted) < Limit
    /\ Single => granted = {}
    /\ granted' = granted \cup {[conn |-> c, input |-> r, invocation |-> i]}
    /\ UNCHANGED approved

Approve(g) ==
    /\ g \in granted \ approved
    /\ approved' = approved \cup {g}
    /\ UNCHANGED granted

\* A grant is always of something new, so it always changes granted.
Next ==
    \/ /\ granted' # granted
       /\ \E c \in Clients, r \in Requests, i \in Invocations : Grant(c, r, i)
    \/ \E g \in granted : Approve(g)

Spec == Init /\ [][Next]_vars

=============================================================================
