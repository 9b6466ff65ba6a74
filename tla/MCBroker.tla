------------------------------ MODULE MCBroker ------------------------------
(***************************************************************************)
(* Small instances of Broker.  Two sessions and two bodies are enough for  *)
(* a replayed request, a fresh request of the same session and a request   *)
(* of a foreign session.  MCLauncher has messages of every kind.           *)
(***************************************************************************)
EXTENDS Broker, TLC

Input(s, b) == [session |-> s, body |-> b]
Good(i) == [frame |-> "request", authentic |-> TRUE, admitted |-> TRUE, input |-> i]

\* Requests that pass every check before the ledger.
GoodMessages == {Good(Input(s, b)) : s \in Sessions, b \in Bodies}

\* A request that can be granted, and one that never arrives.
FewMessages == GoodMessages \cup {[m EXCEPT !.frame = "stalled"] : m \in GoodMessages}

\* A request, a fresh one of its session, and one of a foreign session.
ReplayMessages ==
    LET s1 == CHOOSE s \in Sessions : TRUE
        s2 == CHOOSE s \in Sessions : s # s1
        b1 == CHOOSE b \in Bodies : TRUE
        b2 == CHOOSE b \in Bodies : b # b1
    IN  {Good(Input(s1, b1)), Good(Input(s1, b2)), Good(Input(s2, b1))}

Perms == Permutations(Conns)

=============================================================================
