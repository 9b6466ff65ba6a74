----------------------------- MODULE MCLauncher -----------------------------
(***************************************************************************)
(* A launcher session with one connection and one message for every way of *)
(* being answered.                                                         *)
(***************************************************************************)
EXTENDS Launcher

Good(s, b) ==
    [frame |-> "request", authentic |-> TRUE, admitted |-> TRUE,
     input |-> [session |-> s, body |-> b]]
GoodMessages == {Good(s, b) : s \in Sessions, b \in Bodies}
MCMessages ==
    GoodMessages
      \cup {[m EXCEPT !.frame = f] : m \in GoodMessages, f \in FrameKinds}
      \cup {[m EXCEPT !.authentic = FALSE] : m \in GoodMessages}
      \cup {[m EXCEPT !.admitted = FALSE] : m \in GoodMessages}
      \cup {Good(NoSession, b) : b \in Bodies}

=============================================================================
