--------------------------- MODULE OutcomesProofs ---------------------------
(***************************************************************************)
(* What a session leaves behind, for any number of connections, any limit  *)
(* and any order: its audit claims nothing that did not happen and hides   *)
(* no refusal, the list of observations keeps the newest identities and    *)
(* their worst outcomes, and of any catalog the best release is offered.   *)
(***************************************************************************)
EXTENDS SessionAudit, Observations, Selection, ObservationListProofs, WellFoundedInduction

Bit(b) == IF b THEN 1 ELSE 0
-----------------------------------------------------------------------------
(* Counting.                                                               *)

\* Two sets that differ in one element at most.
LEMMA OneChange ==
    ASSUME NEW A, NEW B, NEW c, IsFiniteSet(A), A \ {c} = B \ {c}
    PROVE  /\ IsFiniteSet(B) /\ Cardinality(A) \in Nat /\ Cardinality(B) \in Nat
           /\ Cardinality(B) = (Cardinality(A) - Bit(c \in A)) + Bit(c \in B)
<1> DEFINE R == A \ {c}
<1>1. IsFiniteSet(R) /\ Cardinality(R) = Cardinality(A) - Bit(c \in A)
  <2>1. /\ IsFiniteSet(R) /\ Cardinality(A) \in Nat
        /\ Cardinality(R) = IF c \in A THEN Cardinality(A) - 1 ELSE Cardinality(A)
    BY FS_RemoveElement, FS_CardinalityType
  <2> HIDE DEF R
  <2> QED BY <2>1 DEF Bit
<1>2. Cardinality(A) \in Nat /\ Cardinality(R) \in Nat
  BY <1>1, FS_CardinalityType
<1>3. CASE c \in B
  <2>1. B = R \cup {c} /\ c \notin R
    BY <1>3
  <2>2. IsFiniteSet(B) /\ Cardinality(B) = Cardinality(R) + 1
    <3> HIDE DEF R
    <3> QED BY <1>1, <2>1, FS_AddElement
  <2> QED BY <1>1, <1>2, <1>3, <2>2, FS_CardinalityType DEF Bit
<1>4. CASE c \notin B
  <2>1. B = R
    BY <1>4
  <2> QED BY <1>1, <1>2, <1>4, <2>1 DEF Bit
<1> QED BY <1>3, <1>4

Lines == BrokerRecords \cup {"torn", "seed"}
Places(lines, x) == {i \in DOMAIN lines : lines[i] = x}

LEMMA CountType ==
    ASSUME NEW lines \in Seq(Lines), NEW x
    PROVE  /\ IsFiniteSet(Places(lines, x)) /\ CountOf(lines, x) = Cardinality(Places(lines, x))
           /\ CountOf(lines, x) \in Nat /\ DOMAIN lines = 1 .. Len(lines)
<1>1. Len(lines) \in Nat /\ DOMAIN lines = 1 .. Len(lines)
  OBVIOUS
<1>2. IsFiniteSet(1 .. Len(lines)) /\ Places(lines, x) \in SUBSET (1 .. Len(lines))
  BY <1>1, Interval DEF Places
<1>3. IsFiniteSet(Places(lines, x))
  BY <1>2, FS_Subset
<1>4. CountOf(lines, x) = Cardinality(Places(lines, x))
  BY DEF CountOf, Places
<1> QED BY <1>1, <1>3, <1>4, FS_CardinalityType

\* Two logs that differ at one place at most, counted.
LEMMA CountChange ==
    ASSUME NEW lines \in Seq(Lines), NEW more \in Seq(Lines), NEW n, NEW x,
           Places(lines, x) \ {n} = Places(more, x) \ {n}
    PROVE  CountOf(more, x) = (CountOf(lines, x) - Bit(n \in Places(lines, x)))
                                + Bit(n \in Places(more, x))
<1>1. IsFiniteSet(Places(lines, x)) /\ CountOf(lines, x) = Cardinality(Places(lines, x))
  BY CountType
<1>2. CountOf(more, x) = Cardinality(Places(more, x))
  BY CountType
<1>3. Cardinality(Places(more, x)) = (Cardinality(Places(lines, x)) - Bit(n \in Places(lines, x)))
                                       + Bit(n \in Places(more, x))
  BY <1>1, OneChange
<1> QED BY <1>1, <1>2, <1>3

LEMMA CountAppend ==
    ASSUME NEW lines \in Seq(Lines), NEW y \in Lines, NEW x
    PROVE  CountOf(Append(lines, y), x) = CountOf(lines, x) + Bit(x = y)
<1> DEFINE n == Len(lines)
           more == Append(lines, y)
<1>1. /\ n \in Nat /\ DOMAIN lines = 1 .. n /\ more \in Seq(Lines) /\ DOMAIN more = 1 .. (n + 1)
      /\ more[n + 1] = y /\ \A i \in 1 .. n : more[i] = lines[i]
  OBVIOUS
<1> HIDE DEF n, more
<1>2. Places(lines, x) \ {n + 1} = Places(more, x) \ {n + 1}
  BY <1>1 DEF Places
<1>3. /\ n + 1 \notin Places(lines, x)
      /\ n + 1 \in Places(more, x) <=> x = y
  BY <1>1 DEF Places
<1>4. CountOf(more, x) = (CountOf(lines, x) - Bit(n + 1 \in Places(lines, x)))
                           + Bit(n + 1 \in Places(more, x))
  BY <1>1, <1>2, CountChange
<1>5. CountOf(lines, x) \in Nat
  BY CountType
<1> QED BY <1>3, <1>4, <1>5 DEF Bit, more

\* A line that is glued to counts for what it is taken for then.
LEMMA CountGlue ==
    ASSUME NEW lines \in Seq(Lines), NEW more \in Seq(Lines), NEW n \in 1 .. Len(lines), NEW x,
           Len(more) = Len(lines), \A i \in 1 .. Len(lines) : i # n => more[i] = lines[i]
    PROVE  CountOf(more, x) = (CountOf(lines, x) - Bit(x = lines[n])) + Bit(x = more[n])
<1>1. DOMAIN lines = 1 .. Len(lines) /\ DOMAIN more = 1 .. Len(lines)
  OBVIOUS
<1>3. Places(lines, x) \ {n} = Places(more, x) \ {n}
  BY <1>1 DEF Places
<1>4. /\ n \in Places(lines, x) <=> x = lines[n]
      /\ n \in Places(more, x) <=> x = more[n]
  BY <1>1 DEF Places
<1>5. CountOf(more, x) = (CountOf(lines, x) - Bit(n \in Places(lines, x)))
                           + Bit(n \in Places(more, x))
  BY <1>3, CountChange
<1> QED BY <1>4, <1>5 DEF Bit

\* The lines that show a connection or an invocation, or spoil the audit, and
\* the appends cut short, less the line that may still swallow a record.
Shown == CountOf(log, "attempt") + CountOf(log, "invoked") + CountOf(log, "torn")
Price == (Shown + torn) - Bit(open)

AuditFile ==
    /\ log \in Seq(Lines) /\ open \in BOOLEAN /\ torn \in Nat /\ (open => log # <<>>)
    /\ torn = 0 => ~open /\ \A i \in DOMAIN log : log[i] \in BrokerRecords

\* What a write does to the counts.
LEMMA WriteStep ==
    ASSUME AuditFile, NEW text \in Lines, NEW whole \in BOOLEAN, Write(text, whole)
    PROVE  /\ log' \in Seq(Lines) /\ open' = ~whole /\ log' # <<>>
           /\ CountOf(log', "emitted") <= CountOf(log, "emitted") + Bit(text = "emitted")
           /\ Shown' \in Nat /\ Shown \in Nat
           /\ Shown' >= Shown + Bit(~open /\ text \in {"attempt", "invoked"})
           /\ ~open => /\ log' = Append(log, text)
                       /\ \A x \in BrokerRecords : CountOf(log', x) = CountOf(log, x) + Bit(x = text)
<1>1. \A x : CountOf(log, x) \in Nat
  BY CountType DEF AuditFile
<1> DEFINE na == CountOf(log, "attempt")
           ma == CountOf(log', "attempt")
           ni == CountOf(log, "invoked")
           mi == CountOf(log', "invoked")
           nt == CountOf(log, "torn")
           mt == CountOf(log', "torn")
           ne == CountOf(log, "emitted")
           me == CountOf(log', "emitted")
<1>2. na \in Nat /\ ni \in Nat /\ nt \in Nat /\ ne \in Nat
  BY <1>1
<1>3. CASE ~open
  <2>1. log' = Append(log, text) /\ open' = ~whole
    BY <1>3 DEF Write
  <2>2. log' \in Seq(Lines) /\ log' # <<>> /\ \A x : CountOf(log', x) = CountOf(log, x) + Bit(x = text)
    BY <2>1, CountAppend DEF AuditFile
  <2>3. /\ ma = na + Bit(text = "attempt") /\ mi = ni + Bit(text = "invoked")
        /\ mt = nt + Bit(text = "torn") /\ me = ne + Bit(text = "emitted")
    BY <2>2 DEF Bit
  <2> HIDE DEF na, ma, ni, mi, nt, mt, ne, me
  <2>4. /\ me <= ne + Bit(text = "emitted") /\ ma + mi + mt \in Nat /\ na + ni + nt \in Nat
        /\ ma + mi + mt >= na + ni + nt + Bit(~open /\ text \in {"attempt", "invoked"})
    BY <1>2, <1>3, <2>3 DEF Bit
  <2> QED BY <1>3, <2>1, <2>2, <2>4 DEF na, ma, ni, mi, nt, mt, ne, me, Shown
<1>4. CASE open
  <2> DEFINE n == Len(log)
             last == log[n]
             y == Glued(last, text)
  <2>1. /\ log' = [log EXCEPT ![n] = y] /\ n = Len(log)
        /\ open' = ~whole /\ log # <<>> /\ log \in Seq(Lines)
    BY <1>4 DEF Write, AuditFile
  <2>2. last \in Lines /\ y \in Lines
    BY <2>1 DEF Glued, Lines, Hashed, BrokerRecords
  <2> HIDE DEF n, y
  <2>3. /\ log \in Seq(Lines) /\ log' \in Seq(Lines) /\ Len(log') = Len(log) /\ n \in 1 .. Len(log) /\ log' # <<>>
        /\ log'[n] = y /\ \A i \in 1 .. Len(log) : i # n => log'[i] = log[i]
    BY <2>1, <2>2, ExceptSeq
  <2>4. ASSUME NEW x
        PROVE  CountOf(log', x) = (CountOf(log, x) - Bit(x = last)) + Bit(x = y)
    <3>1. CountOf(log', x) = (CountOf(log, x) - Bit(x = log[n])) + Bit(x = log'[n])
      BY <2>3, CountGlue
    <3> QED BY <2>3, <3>1, Zenon
  <2>5. /\ ma = (na - Bit(last = "attempt")) + Bit(y = "attempt")
        /\ mi = (ni - Bit(last = "invoked")) + Bit(y = "invoked")
        /\ mt = (nt - Bit(last = "torn")) + Bit(y = "torn")
        /\ me = (ne - Bit(last = "emitted")) + Bit(y = "emitted")
        /\ ma \in Nat /\ mi \in Nat /\ mt \in Nat
    <3>1. ma \in Nat /\ mi \in Nat /\ mt \in Nat
      BY <2>3, CountType
    <3> QED BY <2>4, <3>1 DEF Bit
  <2>6. \/ y = last
        \/ last = "seed" /\ y = "invoked"
        \/ last = "attempt" /\ y = "torn"
    BY <2>2 DEF y, Glued, Hashed, Lines, BrokerRecords
  <2> HIDE DEF na, ma, ni, mi, nt, mt, ne, me, last
  <2>7. /\ me <= ne + Bit(text = "emitted") /\ ma + mi + mt \in Nat /\ na + ni + nt \in Nat
        /\ ma + mi + mt >= na + ni + nt
    BY <1>2, <2>5, <2>6 DEF Bit
  <2>8. ma + mi + mt >= na + ni + nt + Bit(~open /\ text \in {"attempt", "invoked"})
    BY <1>2, <1>4, <2>7 DEF Bit
  <2> QED BY <1>4, <2>1, <2>3, <2>7, <2>8 DEF na, ma, ni, mi, nt, mt, ne, me, Shown
<1> QED BY <1>3, <1>4 DEF AuditFile

\* append_private: a record is shown, or a line cut short paid for it.
LEMMA LogStep ==
    ASSUME AuditFile, NEW record \in BrokerRecords, NEW ok \in BOOLEAN, Append1(record, ok)
    PROVE  /\ AuditFile' /\ Price \in Int /\ Price' \in Int
           /\ CountOf(log', "emitted") <= CountOf(log, "emitted") + Bit(record = "emitted")
           /\ Price' >= Price + Bit(ok /\ record \in {"attempt", "invoked"})
           /\ torn' = 0 => /\ torn = 0
                           /\ \A x \in BrokerRecords :
                                CountOf(log', x) = CountOf(log, x) + Bit(ok /\ x = record)
<1>0. record \in Lines /\ \A x : CountOf(log, x) \in Nat
  BY CountType DEF Lines, AuditFile
<1>1. CASE ok
  <2>1. Write(record, TRUE) /\ torn' = torn
    BY <1>1 DEF Append1
  <2>2. /\ log' \in Seq(Lines) /\ open' = FALSE /\ log' # <<>>
        /\ CountOf(log', "emitted") <= CountOf(log, "emitted") + Bit(record = "emitted")
        /\ Shown' \in Nat /\ Shown \in Nat
        /\ Shown' >= Shown + Bit(~open /\ record \in {"attempt", "invoked"})
        /\ ~open => /\ log' = Append(log, record)
                    /\ \A x \in BrokerRecords : CountOf(log', x) = CountOf(log, x) + Bit(x = record)
    BY <1>0, <2>1, WriteStep
  <2>3. AuditFile'
    <3>1. torn' = 0 => \A i \in DOMAIN log' : log'[i] \in BrokerRecords
      BY <2>1, <2>2 DEF AuditFile
    <3> QED BY <2>1, <2>2, <3>1 DEF AuditFile
  <2>4. Price \in Int /\ Price' \in Int /\ Price' >= Price + Bit(ok /\ record \in {"attempt", "invoked"})
    <3> DEFINE s == Shown
               t == Shown'
    <3>1. /\ s \in Nat /\ t \in Nat /\ torn \in Nat /\ torn' = torn
          /\ t >= s + Bit(~open /\ record \in {"attempt", "invoked"}) /\ ~open'
          /\ Price = (s + torn) - Bit(open) /\ Price' = (t + torn') - Bit(open')
      BY <2>1, <2>2 DEF AuditFile, Price
    <3> HIDE DEF s, t
    <3> QED BY <3>1, <1>1 DEF Bit
  <2>5. torn' = 0 => torn = 0 /\ \A x \in BrokerRecords :
                                CountOf(log', x) = CountOf(log, x) + Bit(ok /\ x = record)
    BY <1>1, <2>1, <2>2 DEF AuditFile, Bit
  <2> QED BY <2>2, <2>3, <2>4, <2>5
<1>2. CASE UNCHANGED audit /\ ~ok
  <2>1. log' = log /\ open' = open /\ torn' = torn
    BY <1>2 DEF audit
  <2>2. AuditFile' /\ Shown' = Shown /\ Shown \in Nat
    BY <1>0, <2>1 DEF AuditFile, Shown
  <2>3. Price \in Int /\ Price' \in Int /\ Price' >= Price + Bit(ok /\ record \in {"attempt", "invoked"})
    <3> DEFINE s == Shown
    <3>1. /\ s \in Nat /\ torn \in Nat /\ open \in BOOLEAN
          /\ Price = (s + torn) - Bit(open) /\ Price' = (s + torn) - Bit(open)
      BY <2>1, <2>2 DEF AuditFile, Price
    <3> HIDE DEF s
    <3> QED BY <3>1, <1>2 DEF Bit
  <2> QED BY <1>0, <1>2, <2>1, <2>2, <2>3 DEF Bit
<1>3. CASE ~ok /\ torn' = torn + 1 /\ \E part \in CutShort(record) : Write(part, FALSE)
  <2>1. PICK part \in CutShort(record) : Write(part, FALSE)
    BY <1>3
  <2>2. part \in Lines /\ (part = "emitted" => record = "emitted")
    BY <1>0, <2>1 DEF CutShort, Lines
  <2>3. /\ log' \in Seq(Lines) /\ open' = TRUE /\ log' # <<>>
        /\ CountOf(log', "emitted") <= CountOf(log, "emitted") + Bit(part = "emitted")
        /\ Shown' \in Nat /\ Shown \in Nat
        /\ Shown' >= Shown + Bit(~open /\ part \in {"attempt", "invoked"})
    BY <2>1, <2>2, WriteStep
  <2>4. torn' \in Nat /\ torn' # 0 /\ torn \in Nat
    BY <1>3 DEF AuditFile
  <2>5. AuditFile'
    BY <2>3, <2>4 DEF AuditFile
  <2>6. CountOf(log', "emitted") <= CountOf(log, "emitted") + Bit(record = "emitted")
    <3> DEFINE e == CountOf(log', "emitted")
               f == CountOf(log, "emitted")
    <3>1. e \in Nat /\ f \in Nat /\ e <= f + Bit(part = "emitted")
      BY <1>0, <2>3, CountType
    <3> HIDE DEF e, f
    <3>2. e <= f + Bit(record = "emitted")
      BY <2>2, <3>1 DEF Bit
    <3> QED BY <3>2 DEF e, f
  <2>7. Price \in Int /\ Price' \in Int /\ Price' >= Price + Bit(ok /\ record \in {"attempt", "invoked"})
    <3> DEFINE s == Shown
               t == Shown'
    <3>1. /\ s \in Nat /\ t \in Nat /\ torn \in Nat /\ torn' = torn + 1
          /\ t >= s + Bit(~open /\ part \in {"attempt", "invoked"})
          /\ Price = (s + torn) - Bit(open) /\ Price' = (t + torn') - Bit(open')
      BY <1>3, <2>3 DEF AuditFile, Price
    <3> HIDE DEF s, t
    <3> QED BY <3>1, <1>3 DEF Bit
  <2> QED BY <2>4, <2>5, <2>6, <2>7
<1> QED BY <1>1, <1>2, <1>3 DEF Append1
-----------------------------------------------------------------------------
(* The inductive invariant of a session.                                   *)

InStage(stages) == {c \in Conns : at[c] \in stages}
Begun == {"accepted", "framed", "requested", "allowing"}
Answers == {"none", "allow", "no_decision", "lost"}

\* The connections whose first append went well, but for late frames, and
\* those whose invocation was recorded.
Noted(stage, a) == stage \in Begun \cup {"answered", "done"} \/ (stage = "closed" /\ a # "none")
NotedConns == {c \in Conns : Noted(at[c], answer[c])}
Parsed == {"framed", "requested", "allowing", "answered", "done"}

AuditTypeOK ==
    /\ AuditFile /\ at \in [Conns -> Stages] /\ answer \in [Conns -> Answers]
    /\ session = <<>> \/ session = <<ReadAudit(log)>>

AnswersLast ==
    \A c \in Conns : /\ at[c] \in {"waiting"} \cup Begun => answer[c] = "none"
                     /\ at[c] = "answered" => answer[c] = "allow"
                     /\ at[c] = "closed" => answer[c] \in {"none", "no_decision"}

\* An emission is recorded, whole or cut short, after its allow was sent.
EmittedSent ==
    CountOf(log, "emitted") + Cardinality(InStage({"answered"})) <= Cardinality(Answered({"allow"}))

\* Every connection and every invocation that was recorded shows in the
\* audit, or an append cut short swallowed it.
RecordsPaid == Cardinality(NotedConns) + Cardinality(InStage(Parsed)) <= Price

\* With no line cut short each record presupposes the one before, and the
\* workers between the two are those that may still add to the second.
ChainOfRecords ==
    /\ CountOf(log, "invoked") + Cardinality(InStage({"accepted"})) <= CountOf(log, "attempt")
    /\ CountOf(log, "request") + Cardinality(InStage({"framed"})) <= CountOf(log, "invoked")
    /\ CountOf(log, "allow") + Cardinality(InStage({"requested"})) <= CountOf(log, "request")
    /\ CountOf(log, "emitted") + Cardinality(InStage({"allowing", "answered"}))
         <= CountOf(log, "allow")

AuditInv ==
    /\ AuditTypeOK /\ AnswersLast /\ EmittedSent /\ RecordsPaid
    /\ torn = 0 => ChainOfRecords

\* The moves of a worker: where it was, what it recorded, where it goes and
\* what its client has then.
Legal(from, kind, to, a) ==
    \/ from = "waiting" /\ a = "none"
         /\ ((kind = "attempt" /\ to = "accepted") \/ (kind = "nothing" /\ to = "closed"))
    \/ from = "accepted" /\ kind = "nothing" /\ to = "closed" /\ a \in {"none", "no_decision"}
    \/ from = "accepted" /\ kind = "invoked" /\ to = "framed" /\ a = "none"
    \/ from \in {"framed", "requested"} /\ kind = "nothing" /\ to = "done" /\ a = "no_decision"
    \/ from = "framed" /\ kind = "request" /\ to = "requested" /\ a = "none"
    \/ from = "requested" /\ kind = "allow" /\ to = "allowing" /\ a = "none"
    \/ from = "allowing" /\ kind = "nothing" /\ to = "answered" /\ a = "allow"
    \/ from = "allowing" /\ kind = "nothing" /\ to = "done" /\ a = "lost"
    \/ from = "answered" /\ kind \in {"emitted", "nothing"} /\ to = "done" /\ a = "allow"

\* A set of connections picked by what they are at and were answered changes
\* by the one that moves.
LEMMA PickedChange ==
    ASSUME NEW c \in Conns, NEW A \in SUBSET Conns, NEW B \in SUBSET Conns,
           \A d \in Conns \ {c} : d \in A <=> d \in B
    PROVE  /\ Cardinality(A) \in Nat /\ Cardinality(B) \in Nat
           /\ Cardinality(B) = (Cardinality(A) - Bit(c \in A)) + Bit(c \in B)
<1>1. A \ {c} = B \ {c}
  OBVIOUS
<1>2. IsFiniteSet(A)
  BY AuditAssumption, FS_Subset
<1> QED BY <1>1, <1>2, OneChange

\* A legal move keeps the invariant.
LEMMA WorkerMoves ==
    ASSUME AuditInv, session = <<>>, session' = session,
           NEW c \in Conns, NEW to \in Stages, NEW a \in Answers,
           at' = [at EXCEPT ![c] = to], answer' = [answer EXCEPT ![c] = a],
           AuditFile', NEW kind, Legal(at[c], kind, to, a),
           Price \in Int, Price' \in Int,
           Price' >= Price + Bit(kind \in {"attempt", "invoked"}),
           CountOf(log', "emitted") <= CountOf(log, "emitted") + Bit(at[c] = "answered"),
           torn' = 0 => /\ torn = 0
                        /\ \A x \in BrokerRecords : CountOf(log', x) = CountOf(log, x) + Bit(x = kind)
    PROVE  AuditInv'
<1> USE DEF AuditInv
<1>1. /\ at' \in [Conns -> Stages] /\ \A d \in Conns : at'[d] = IF d = c THEN to ELSE at[d]
      /\ answer' \in [Conns -> Answers]
      /\ \A d \in Conns : answer'[d] = IF d = c THEN a ELSE answer[d]
  BY DEF AuditTypeOK
<1>2. AuditTypeOK'
  BY <1>1 DEF AuditTypeOK
<1>3. AnswersLast'
  <2> SUFFICES ASSUME NEW d \in Conns
               PROVE  /\ at'[d] \in {"waiting"} \cup Begun => answer'[d] = "none"
                      /\ at'[d] = "answered" => answer'[d] = "allow"
                      /\ at'[d] = "closed" => answer'[d] \in {"none", "no_decision"}
    BY DEF AnswersLast
  <2>1. CASE d = c
    <3>1. /\ to \in {"waiting"} \cup Begun => a = "none"
          /\ to = "answered" => a = "allow"
          /\ to = "closed" => a \in {"none", "no_decision"}
      BY DEF Legal, Begun
    <3> QED BY <1>1, <2>1, <3>1
  <2>2. CASE d # c
    BY <1>1, <2>2 DEF AnswersLast
  <2> QED BY <2>1, <2>2
<1>4. /\ at[c] \in {"waiting"} \cup Begun => answer[c] = "none"
      /\ at[c] = "answered" => answer[c] = "allow"
  BY DEF AnswersLast
<1>5. ASSUME NEW stages
      PROVE  /\ Cardinality(InStage(stages)) \in Nat /\ Cardinality(InStage(stages)') \in Nat
             /\ Cardinality(InStage(stages)') =
                  (Cardinality(InStage(stages)) - Bit(at[c] \in stages)) + Bit(to \in stages)
  <2>1. /\ InStage(stages) \in SUBSET Conns /\ InStage(stages)' \in SUBSET Conns
        /\ \A d \in Conns \ {c} : d \in InStage(stages) <=> d \in InStage(stages)'
        /\ c \in InStage(stages) <=> at[c] \in stages
        /\ c \in InStage(stages)' <=> to \in stages
    BY <1>1 DEF InStage
  <2> HIDE DEF InStage
  <2>2. /\ Cardinality(InStage(stages)) \in Nat /\ Cardinality(InStage(stages)') \in Nat
        /\ Cardinality(InStage(stages)') =
             (Cardinality(InStage(stages)) - Bit(c \in InStage(stages))) + Bit(c \in InStage(stages)')
    BY <2>1, PickedChange
  <2> QED BY <2>1, <2>2 DEF Bit
<1>6. /\ Cardinality(Answered({"allow"})) \in Nat /\ Cardinality(Answered({"allow"})') \in Nat
      /\ Cardinality(Answered({"allow"})') =
           (Cardinality(Answered({"allow"})) - Bit(answer[c] = "allow")) + Bit(a = "allow")
  <2>1. /\ Answered({"allow"}) \in SUBSET Conns /\ Answered({"allow"})' \in SUBSET Conns
        /\ \A d \in Conns \ {c} : d \in Answered({"allow"}) <=> d \in Answered({"allow"})'
        /\ c \in Answered({"allow"}) <=> answer[c] = "allow"
        /\ c \in Answered({"allow"})' <=> a = "allow"
    BY <1>1 DEF Answered
  <2> HIDE DEF Answered
  <2>2. /\ Cardinality(Answered({"allow"})) \in Nat /\ Cardinality(Answered({"allow"})') \in Nat
        /\ Cardinality(Answered({"allow"})') =
             (Cardinality(Answered({"allow"})) - Bit(c \in Answered({"allow"})))
               + Bit(c \in Answered({"allow"})')
    BY <2>1, PickedChange
  <2> QED BY <2>1, <2>2 DEF Bit
<1>7. /\ Cardinality(NotedConns) \in Nat /\ Cardinality(NotedConns') \in Nat
      /\ Cardinality(NotedConns') = (Cardinality(NotedConns) - Bit(Noted(at[c], answer[c])))
                                     + Bit(Noted(to, a))
  <2>1. /\ NotedConns \in SUBSET Conns /\ NotedConns' \in SUBSET Conns
        /\ \A d \in Conns \ {c} : d \in NotedConns <=> d \in NotedConns'
        /\ c \in NotedConns <=> Noted(at[c], answer[c])
        /\ c \in NotedConns' <=> Noted(to, a)
    BY <1>1 DEF NotedConns, Noted
  <2> HIDE DEF NotedConns
  <2>2. /\ Cardinality(NotedConns) \in Nat /\ Cardinality(NotedConns') \in Nat
        /\ Cardinality(NotedConns') =
             (Cardinality(NotedConns) - Bit(c \in NotedConns)) + Bit(c \in NotedConns')
    BY <2>1, PickedChange
  <2> QED BY <2>1, <2>2 DEF Bit
<1> DEFINE from == at[c]
           b == answer[c]
<1>8. /\ Legal(from, kind, to, a) /\ (from \in {"waiting"} \cup Begun => b = "none")
      /\ (from = "answered" => b = "allow")
  BY <1>4
<1>9. EmittedSent'
  <2> DEFINE ne == CountOf(log, "emitted")
             me == CountOf(log', "emitted")
             i == Cardinality(InStage({"answered"}))
             j == Cardinality(InStage({"answered"})')
             w == Cardinality(Answered({"allow"}))
             v == Cardinality(Answered({"allow"})')
  <2>1. /\ ne \in Nat /\ me \in Nat /\ me <= ne + Bit(from = "answered")
        /\ i \in Nat /\ j = (i - Bit(from = "answered")) + Bit(to = "answered")
        /\ w \in Nat /\ v = (w - Bit(b = "allow")) + Bit(a = "allow") /\ ne + i <= w
    <3>1. ne \in Nat /\ me \in Nat
      BY CountType DEF AuditTypeOK, AuditFile
    <3>2. i \in Nat /\ j = (i - Bit(from = "answered")) + Bit(to = "answered")
      BY <1>5 DEF Bit
    <3> QED BY <1>6, <3>1, <3>2 DEF EmittedSent
  <2> HIDE DEF ne, me, i, j, w, v, from, b
  <2>2. me + j <= v
    BY <1>8, <2>1 DEF Legal, Begun, Bit
  <2> QED BY <2>2 DEF EmittedSent, me, j, v
<1>10. RecordsPaid'
  <2> DEFINE r == Cardinality(NotedConns)
             s == Cardinality(NotedConns')
             i == Cardinality(InStage(Parsed))
             j == Cardinality(InStage(Parsed)')
             p == Price
             q == Price'
  <2>1. /\ r \in Nat /\ s = (r - Bit(Noted(from, b))) + Bit(Noted(to, a))
        /\ i \in Nat /\ j = (i - Bit(from \in Parsed)) + Bit(to \in Parsed)
        /\ p \in Int /\ q \in Int /\ q >= p + Bit(kind \in {"attempt", "invoked"}) /\ r + i <= p
    BY <1>5, <1>7 DEF RecordsPaid
  <2> HIDE DEF r, s, i, j, p, q, from, b
  <2>2. s + j <= q
    BY <1>8, <2>1 DEF Legal, Begun, Noted, Parsed, Bit
  <2> QED BY <2>2 DEF RecordsPaid, s, j, q
<1>11. torn' = 0 => ChainOfRecords'
  <2> SUFFICES ASSUME torn' = 0 PROVE ChainOfRecords'
    OBVIOUS
  <2> DEFINE na == CountOf(log, "attempt")
             ma == CountOf(log', "attempt")
             ni == CountOf(log, "invoked")
             mi == CountOf(log', "invoked")
             nr == CountOf(log, "request")
             mr == CountOf(log', "request")
             nl == CountOf(log, "allow")
             ml == CountOf(log', "allow")
             ne == CountOf(log, "emitted")
             me == CountOf(log', "emitted")
             i1 == Cardinality(InStage({"accepted"}))
             j1 == Cardinality(InStage({"accepted"})')
             i2 == Cardinality(InStage({"framed"}))
             j2 == Cardinality(InStage({"framed"})')
             i3 == Cardinality(InStage({"requested"}))
             j3 == Cardinality(InStage({"requested"})')
             i4 == Cardinality(InStage({"allowing", "answered"}))
             j4 == Cardinality(InStage({"allowing", "answered"})')
  <2>0. \A x \in BrokerRecords : CountOf(log, x) \in Nat
    BY CountType DEF AuditTypeOK, AuditFile
  <2>1. /\ na \in Nat /\ ma = na + Bit(kind = "attempt")
        /\ ni \in Nat /\ mi = ni + Bit(kind = "invoked")
        /\ nr \in Nat /\ mr = nr + Bit(kind = "request")
        /\ nl \in Nat /\ ml = nl + Bit(kind = "allow")
        /\ ne \in Nat /\ me = ne + Bit(kind = "emitted")
    BY <2>0 DEF BrokerRecords, Bit
  <2>2. /\ i1 \in Nat /\ j1 = (i1 - Bit(from = "accepted")) + Bit(to = "accepted")
        /\ i2 \in Nat /\ j2 = (i2 - Bit(from = "framed")) + Bit(to = "framed")
        /\ i3 \in Nat /\ j3 = (i3 - Bit(from = "requested")) + Bit(to = "requested")
        /\ i4 \in Nat /\ j4 = (i4 - Bit(from \in {"allowing", "answered"}))
                                + Bit(to \in {"allowing", "answered"})
    BY <1>5 DEF Bit
  <2>4. /\ ni + i1 <= na /\ nr + i2 <= ni
        /\ nl + i3 <= nr /\ ne + i4 <= nl
    BY DEF ChainOfRecords
  <2> HIDE DEF na, ma, ni, mi, nr, mr, nl, ml, ne, me, i1, j1, i2, j2, i3, j3, i4, j4, from, b
  <2>6. /\ mi + j1 <= ma /\ mr + j2 <= mi
        /\ ml + j3 <= mr /\ me + j4 <= ml
    BY <2>1, <2>2, <2>4, <1>8 DEF Legal, Bit
  <2> QED BY <2>6 DEF ChainOfRecords, na, ma, ni, mi, nr, mr, nl, ml, ne, me, i1, j1, i2, j2, i3, j3, i4, j4
<1> QED BY <1>2, <1>3, <1>9, <1>10, <1>11

\* A worker that moves without a record, and one that records or fails to.
LEMMA SilentMove ==
    ASSUME AuditInv, session' = session, UNCHANGED audit, NEW c \in Conns,
           NEW from, NEW to \in Stages, Goto(c, from, to), NEW a \in Answers,
           answer' = [answer EXCEPT ![c] = a], Legal(from, "nothing", to, a)
    PROVE  AuditInv'
<1>1. /\ session = <<>> /\ at[c] = from /\ at' = [at EXCEPT ![c] = to]
      /\ log' = log /\ open' = open /\ torn' = torn /\ AuditFile
  BY DEF Goto, AuditInv, AuditTypeOK, audit
<1>2. \A x : CountOf(log, x) \in Nat
  BY <1>1, CountType DEF AuditFile
<1>3. AuditFile' /\ Price' = Price
  BY <1>1 DEF AuditFile, Price, Shown
<1>4. Price \in Int
  <2> DEFINE s == Shown
  <2>1. s \in Nat /\ torn \in Nat /\ Price = (s + torn) - Bit(open)
    BY <1>1, <1>2 DEF AuditFile, Price, Shown
  <2> HIDE DEF s
  <2> QED BY <2>1 DEF Bit
<1>5. /\ Price' \in Int /\ Price' >= Price + Bit("nothing" \in {"attempt", "invoked"})
      /\ CountOf(log', "emitted") <= CountOf(log, "emitted") + Bit(at[c] = "answered")
      /\ torn' = 0 => /\ torn = 0
                      /\ \A x \in BrokerRecords :
                           CountOf(log', x) = CountOf(log, x) + Bit(x = "nothing")
  <2>1. Price' \in Int /\ Price' >= Price + Bit("nothing" \in {"attempt", "invoked"})
    BY <1>3, <1>4 DEF Bit
  <2>2. CountOf(log', "emitted") <= CountOf(log, "emitted") + Bit(at[c] = "answered")
    BY <1>1, <1>2 DEF Bit
  <2>3. \A x \in BrokerRecords : CountOf(log', x) = CountOf(log, x) + Bit(x = "nothing")
    BY <1>1, <1>2 DEF Bit, BrokerRecords
  <2> QED BY <1>1, <2>1, <2>2, <2>3
<1>6. Legal(at[c], "nothing", to, a)
  BY <1>1
<1> HIDE DEF AuditInv
<1> QED BY <1>1, <1>3, <1>4, <1>5, <1>6, WorkerMoves

LEMMA RecordedMove ==
    ASSUME AuditInv, session' = session, NEW record \in BrokerRecords, NEW ok \in BOOLEAN,
           Append1(record, ok), NEW c \in Conns,
           NEW from, NEW to \in Stages, Goto(c, from, to), NEW a \in Answers,
           answer' = [answer EXCEPT ![c] = a], record = "emitted" => from = "answered",
           Legal(from, IF ok THEN record ELSE "nothing", to, a)
    PROVE  AuditInv'
<1> DEFINE kind == IF ok THEN record ELSE "nothing"
<1>1. session = <<>> /\ at[c] = from /\ at' = [at EXCEPT ![c] = to]
  BY DEF Goto
<1>2. /\ AuditFile' /\ Price \in Int /\ Price' \in Int
      /\ CountOf(log', "emitted") <= CountOf(log, "emitted") + Bit(record = "emitted")
      /\ Price' >= Price + Bit(ok /\ record \in {"attempt", "invoked"})
      /\ torn' = 0 => /\ torn = 0
                      /\ \A x \in BrokerRecords :
                           CountOf(log', x) = CountOf(log, x) + Bit(ok /\ x = record)
  BY LogStep DEF AuditInv, AuditTypeOK
<1>3. /\ \A x \in BrokerRecords : (ok /\ x = record) <=> x = kind
      /\ (ok /\ record \in {"attempt", "invoked"}) <=> kind \in {"attempt", "invoked"}
  BY DEF BrokerRecords
<1>4. /\ Price' >= Price + Bit(kind \in {"attempt", "invoked"})
      /\ torn' = 0 => /\ torn = 0
                      /\ \A x \in BrokerRecords : CountOf(log', x) = CountOf(log, x) + Bit(x = kind)
  BY <1>2, <1>3 DEF Bit
<1>5. CountOf(log', "emitted") <= CountOf(log, "emitted") + Bit(at[c] = "answered")
  <2> DEFINE n == CountOf(log, "emitted")
             m == CountOf(log', "emitted")
  <2>1. n \in Nat /\ m \in Nat /\ m <= n + Bit(record = "emitted")
    BY <1>2, CountType DEF AuditInv, AuditTypeOK, AuditFile
  <2> HIDE DEF n, m
  <2>2. m <= n + Bit(at[c] = "answered")
    BY <1>1, <2>1 DEF Bit
  <2> QED BY <2>2 DEF n, m
<1>6. Legal(at[c], kind, to, a)
  BY <1>1
<1> HIDE DEF AuditInv, kind
<1> QED BY <1>1, <1>2, <1>4, <1>5, <1>6, WorkerMoves

LEMMA WorkerKeeps ==
    ASSUME AuditInv, NEW c \in Conns, WorkerStep(c)
    PROVE  AuditInv'
<1>1. /\ answer \in [Conns -> Answers] /\ answer = [answer EXCEPT ![c] = answer[c]]
      /\ answer[c] \in Answers
      /\ at[c] \in {"waiting"} \cup Begun => answer[c] = "none"
      /\ at[c] = "answered" => answer[c] = "allow"
  BY DEF AuditInv, AuditTypeOK, AnswersLast
<1>2. CASE Accept(c)
  <2>1. PICK ok \in BOOLEAN :
            /\ Goto(c, "waiting", IF ok THEN "accepted" ELSE "closed")
            /\ Append1("attempt", ok) /\ UNCHANGED <<answer, session>>
    BY <1>2 DEF Accept
  <2> DEFINE to == IF ok THEN "accepted" ELSE "closed"
  <2>2. /\ "attempt" \in BrokerRecords /\ to \in Stages /\ session' = session
        /\ answer' = [answer EXCEPT ![c] = answer[c]]
        /\ Legal("waiting", IF ok THEN "attempt" ELSE "nothing", to, answer[c])
    BY <1>1, <2>1 DEF BrokerRecords, Stages, Legal, Begun, Goto
  <2>3. /\ Goto(c, "waiting", to) /\ Append1("attempt", ok)
        /\ "attempt" = "emitted" => "waiting" = "answered"
    BY <2>1
  <2> HIDE DEF to
  <2> QED BY <1>1, <2>2, <2>3, RecordedMove
<1>3. CASE BadFrame(c)
  <2>1. PICK a \in {"no_decision", "none"} : answer' = [answer EXCEPT ![c] = a]
    <3>1. at[c] = "accepted" /\ answer[c] = "none"
      BY <1>1, <1>3 DEF BadFrame, Goto, Begun
    <3> QED BY <1>1, <1>3, <3>1 DEF BadFrame, Answer
  <2>2. /\ Goto(c, "accepted", "closed") /\ UNCHANGED audit /\ session' = session
        /\ "closed" \in Stages /\ a \in Answers /\ Legal("accepted", "nothing", "closed", a)
    BY <1>3, <2>1 DEF BadFrame, Stages, Answers, Legal
  <2> QED BY <2>1, <2>2, SilentMove
<1>4. ASSUME NEW from, NEW record, NEW to, NEW otherwise, RecordStage(c, from, record, to, otherwise),
             <<from, record, to, otherwise>>
               \in {<<"accepted", "invoked", "framed", "closed">>,
                    <<"framed", "request", "requested", "done">>,
                    <<"requested", "allow", "allowing", "done">>}
      PROVE  AuditInv'
  <2>1. PICK ok \in BOOLEAN :
            /\ Goto(c, from, IF ok THEN to ELSE otherwise) /\ Append1(record, ok)
            /\ IF ok THEN UNCHANGED answer ELSE Answer(c, "no_decision")
            /\ UNCHANGED session
    BY <1>4 DEF RecordStage
  <2>2. /\ from \in Begun /\ record \in BrokerRecords /\ to \in Stages /\ otherwise \in Stages
        /\ record # "emitted"
    BY <1>4 DEF Begun, BrokerRecords, Stages
  <2>3. CASE ok
    <3>1. /\ Goto(c, from, to) /\ answer' = [answer EXCEPT ![c] = answer[c]]
          /\ answer[c] = "none"
      BY <1>1, <2>1, <2>2, <2>3 DEF Goto
    <3>2. Legal(from, record, to, answer[c])
      BY <1>4, <3>1 DEF Legal
    <3> QED BY <1>1, <2>1, <2>2, <2>3, <3>1, <3>2, RecordedMove
  <2>4. CASE ~ok
    <3>1. answer' = [answer EXCEPT ![c] = "no_decision"]
      BY <2>1, <2>4 DEF Answer
    <3>2. Goto(c, from, otherwise) /\ "no_decision" \in Answers
          /\ Legal(from, "nothing", otherwise, "no_decision")
      BY <1>4, <2>1, <2>2, <2>4 DEF Answers, Legal
    <3> QED BY <2>1, <2>2, <2>4, <3>1, <3>2, RecordedMove
  <2> QED BY <2>3, <2>4
<1>5. CASE Invoke(c)
  BY <1>4, <1>5 DEF Invoke
<1>6. CASE Deny(c)
  <2>1. answer' = [answer EXCEPT ![c] = "no_decision"]
    BY <1>6 DEF Deny, Answer
  <2>2. /\ Goto(c, "framed", "done") /\ UNCHANGED audit /\ session' = session
        /\ "done" \in Stages /\ "no_decision" \in Answers
        /\ Legal("framed", "nothing", "done", "no_decision")
    BY <1>6 DEF Deny, Stages, Answers, Legal
  <2> QED BY <2>1, <2>2, SilentMove
<1>8. CASE Request(c)
  BY <1>4, <1>8 DEF Request
<1>9. CASE Allow(c)
  BY <1>4, <1>9 DEF Allow
<1>10. CASE Respond(c)
  <2>1. PICK a \in {"allow", "lost"} :
          /\ answer' = [answer EXCEPT ![c] = a]
          /\ Goto(c, "allowing", IF a = "allow" THEN "answered" ELSE "done")
    BY <1>10 DEF Respond, Answer
  <2> DEFINE to == IF a = "allow" THEN "answered" ELSE "done"
  <2>3. /\ Goto(c, "allowing", to) /\ UNCHANGED audit /\ session' = session
        /\ to \in Stages /\ a \in Answers /\ Legal("allowing", "nothing", to, a)
    BY <1>10, <2>1 DEF Respond, Stages, Answers, Legal
  <2> HIDE DEF to
  <2> QED BY <2>1, <2>3, SilentMove
<1>11. CASE Emitted(c)
  <2>1. PICK ok \in BOOLEAN :
            /\ Goto(c, "answered", "done") /\ Append1("emitted", ok)
            /\ UNCHANGED <<answer, session>>
    BY <1>11 DEF Emitted
  <2>2. /\ "emitted" \in BrokerRecords /\ "done" \in Stages /\ session' = session
        /\ answer' = [answer EXCEPT ![c] = answer[c]]
        /\ Legal("answered", IF ok THEN "emitted" ELSE "nothing", "done", answer[c])
    BY <1>1, <2>1 DEF BrokerRecords, Stages, Legal, Goto
  <2> QED BY <1>1, <2>1, <2>2, RecordedMove
<1> QED BY <1>2, <1>3, <1>5, <1>6, <1>8, <1>9, <1>10, <1>11 DEF WorkerStep

\* The invariant holds of every session, however the workers interleave and
\* whichever appends fail: a record that does not show was paid for by an
\* append cut short, and with none each kind is bounded by the one before.
THEOREM AuditSafe == Spec => []AuditInv
<1>1. Init => AuditInv
  <2> SUFFICES ASSUME Init PROVE AuditInv
    OBVIOUS
  <2>1. AuditTypeOK /\ AnswersLast
    <3>1. AuditFile /\ session = <<>>
      <4>1. <<>> \in Seq(Lines) /\ DOMAIN <<>> = {} /\ 0 \in Nat
        OBVIOUS
      <4>2. log = <<>> /\ open = FALSE /\ torn = 0 /\ session = <<>>
        BY DEF Init
      <4> QED BY <4>1, <4>2, Zenon DEF AuditFile
    <3>2. at \in [Conns -> Stages] /\ answer \in [Conns -> Answers]
      BY DEF Init, Stages, Answers
    <3>3. AnswersLast
      BY DEF Init, AnswersLast, Begun
    <3> QED BY <3>1, <3>2, <3>3 DEF AuditTypeOK
  <2>2. \A x : CountOf(log, x) = 0
    <3>1. \A x : {i \in DOMAIN log : log[i] = x} = {}
      BY DEF Init
    <3> QED BY <3>1, FS_EmptySet DEF CountOf
  <2>3. /\ InStage({"accepted"}) = {} /\ InStage({"framed"}) = {}
        /\ InStage({"requested"}) = {} /\ InStage({"allowing", "answered"}) = {}
        /\ InStage({"answered"}) = {} /\ Answered({"allow"}) = {}
        /\ NotedConns = {} /\ InStage(Parsed) = {}
    BY DEF Init, InStage, Answered, NotedConns, Noted, Parsed, Begun
  <2>4. ChainOfRecords /\ EmittedSent
    BY <2>2, <2>3, FS_EmptySet DEF ChainOfRecords, EmittedSent
  <2>5. Price = 0
    BY <2>2 DEF Init, Price, Shown, Bit
  <2>6. RecordsPaid
    BY <2>3, <2>5, FS_EmptySet DEF RecordsPaid
  <2> QED BY <2>1, <2>4, <2>6 DEF AuditInv
<1>2. AuditInv /\ [Next]_vars => AuditInv'
  <2> SUFFICES ASSUME AuditInv, [Next]_vars PROVE AuditInv'
    OBVIOUS
  <2> USE DEF audit, AuditInv, AuditTypeOK, AuditFile, AnswersLast, ChainOfRecords, EmittedSent,
              RecordsPaid, Price, Shown, InStage, NotedConns, Noted, Answered
  <2>1. ASSUME NEW c \in Conns, WorkerStep(c) PROVE AuditInv'
    BY <2>1, WorkerKeeps
  <2>2. CASE Read
    BY <2>2 DEF Read
  <2>3. CASE UNCHANGED vars
    BY <2>3 DEF vars
  <2> QED BY <2>1, <2>2, <2>3 DEF Next, Finished
<1> QED BY <1>1, <1>2, PTL DEF Spec
-----------------------------------------------------------------------------
(* What read_audit makes of the records.                                   *)

\* The most alarming result that was counted is the outcome.
LEMMA FirstAlarm ==
    ASSUME NEW counts, counts["protocol_failure"] > 0
    PROVE  AggregateHookOutcome(counts) = "protocol_failure"
<1> DEFINE present == {i \in DOMAIN Alarms : counts[Alarms[i]] > 0}
           least == CHOOSE i \in present : \A j \in present : i <= j
<1>1. 1 \in present /\ present \in SUBSET (1 .. 5) /\ Alarms[1] = "protocol_failure"
  BY DEF Alarms
<1>2. \A j \in present : 1 <= j
  BY <1>1
<1>3. least \in present /\ \A j \in present : least <= j
  <2> HIDE DEF present
  <2> QED BY <1>1, <1>2
<1>4. least = 1
  <2> HIDE DEF least
  <2>1. least <= 1 /\ 1 <= least /\ least \in 1 .. 5
    BY <1>1, <1>2, <1>3
  <2> QED BY <2>1
<1>5. AggregateHookOutcome(counts) = Alarms[least]
  BY <1>1 DEF AggregateHookOutcome
<1> QED BY <1>1, <1>4, <1>5

\* With allows that were emitted and nothing else, that is the outcome.
LEMMA OnlyAllows ==
    ASSUME NEW counts, counts["broker_allow_unconfirmed"] > 0,
           \A f \in Results \ {"broker_allow_unconfirmed"} : ~(counts[f] > 0)
    PROVE  AggregateHookOutcome(counts) = "broker_allow_unconfirmed"
<1> DEFINE present == {i \in DOMAIN Alarms : counts[Alarms[i]] > 0}
           least == CHOOSE i \in present : \A j \in present : i <= j
<1>1. /\ DOMAIN Alarms = 1 .. 5 /\ Alarms[4] = "broker_allow_unconfirmed"
      /\ \A i \in 1 .. 5 : /\ Alarms[i] \in Results
                           /\ Alarms[i] = "broker_allow_unconfirmed" => i = 4
  BY DEF Alarms, Results
<1>2. present = {4}
  BY <1>1
<1>3. least = 4
  <2> HIDE DEF present
  <2> QED BY <1>2
<1>4. AggregateHookOutcome(counts) = Alarms[least]
  BY <1>2 DEF AggregateHookOutcome
<1> QED BY <1>1, <1>3, <1>4

LEMMA CountsRead ==
    ASSUME log \in Seq(Lines)
    PROVE  /\ AuditCounts(log)["broker_allow_unconfirmed"] = CountOf(log, "emitted")
           /\ AuditCounts(log)["protocol_failure"] = Bit(Undecided(log) > 0)
           /\ \A f \in Results \ {"broker_allow_unconfirmed", "protocol_failure"} :
                AuditCounts(log)[f] = 0
<1>1. Results = {"protocol_failure", "transport_failure", "compatibility_rejection",
                 "broker_allow_unconfirmed", "successful_exchange"}
  BY DEF Results, Alarms
<1> QED BY <1>1 DEF AuditCounts, NoCounts, Fields, Bit

\* The audit is read without an error exactly when no line ends the reading
\* and the records are nested.
LEMMA ReadWhole ==
    ASSUME log \in Seq(Lines)
    PROVE  /\ ReadAudit(log).error = "none" <=>
                 (/\ Len(log) <= MaxLines /\ log # <<>> /\ Nested(log)
                  /\ \A i \in DOMAIN log : ~Offending(log, i))
           /\ ReadAudit(log).error = "none" => ReadAudit(log).counts = AuditCounts(log)
<1> DEFINE bad == {i \in DOMAIN log : Offending(log, i)}
<1>1. LineError(log) = "none" <=> bad = {}
  BY DEF LineError
<1>2. bad = {} <=> \A i \in DOMAIN log : ~Offending(log, i)
  OBVIOUS
<1> HIDE DEF bad
<1>3. ReadAudit(log).error = "none" <=>
        /\ ~(Len(log) > MaxLines) /\ log # <<>> /\ LineError(log) = "none" /\ Nested(log)
  BY DEF ReadAudit, Refused
<1>4. ReadAudit(log).error = "none" => ReadAudit(log).counts = AuditCounts(log)
  BY <1>3 DEF ReadAudit
<1>5. ~(Len(log) > MaxLines) <=> Len(log) <= MaxLines
  BY OutcomeAssumption
<1> QED BY <1>1, <1>2, <1>3, <1>4, <1>5

\* With no line cut short each count is bounded by the one before.
LEMMA Bounded ==
    ASSUME AuditInv, torn = 0
    PROVE  /\ \A x \in BrokerRecords :
                CountOf(log, x) \in Nat /\ CountOf(log, x) <= CountOf(log, "attempt")
           /\ Nested(log)
<1>1. \A x \in BrokerRecords : CountOf(log, x) \in Nat
  BY CountType DEF AuditInv, AuditTypeOK, AuditFile
<1>2. ASSUME NEW S \in SUBSET Conns PROVE Cardinality(S) \in Nat
  BY AuditAssumption, FS_Subset, FS_CardinalityType
<1>3. \A stages : InStage(stages) \in SUBSET Conns
  BY DEF InStage
<1>4. \A stages : Cardinality(InStage(stages)) \in Nat
  BY <1>2, <1>3
<1> DEFINE na == CountOf(log, "attempt")
           ni == CountOf(log, "invoked")
           nr == CountOf(log, "request")
           nl == CountOf(log, "allow")
           ne == CountOf(log, "emitted")
<1>5. na \in Nat /\ ni \in Nat /\ nr \in Nat /\ nl \in Nat /\ ne \in Nat
  BY <1>1 DEF BrokerRecords
<1>6. PICK i1, i2, i3, i4 \in Nat :
        ni + i1 <= na /\ nr + i2 <= ni /\ nl + i3 <= nr /\ ne + i4 <= nl
  BY <1>4 DEF AuditInv, ChainOfRecords
<1> HIDE DEF na, ni, nr, nl, ne
<1>7. /\ ni <= na /\ nr <= na /\ nl <= na /\ ne <= na
      /\ nr <= ni /\ nl <= nr /\ ne <= nl
  BY <1>5, <1>6
<1> QED BY <1>5, <1>7 DEF na, ni, nr, nl, ne, BrokerRecords, Nested

\* What a session counts against what its clients were sent.
LEMMA Paid ==
    ASSUME AuditInv
    PROVE  /\ Cardinality(Answered({"allow"})) \in Nat /\ Cardinality(Refusals) \in Nat
           /\ Cardinality({c \in Refusals : at[c] = "done"}) \in Nat
           /\ CountOf(log, "emitted") \in Nat /\ Shown \in Nat /\ torn \in Nat
           /\ CountOf(log, "emitted") <= Cardinality(Answered({"allow"}))
           /\ 2 * Cardinality(Answered({"allow"})) + Cardinality(Refusals)
                + Cardinality({c \in Refusals : at[c] = "done"}) <= Shown + torn
<1> USE DEF AuditInv
<1>1. /\ CountOf(log, "emitted") \in Nat /\ Shown \in Nat /\ torn \in Nat
  BY CountType DEF AuditTypeOK, AuditFile, Shown
<1> DEFINE A == Answered({"allow"})
           R == Refusals
           W == {c \in Refusals : at[c] = "done"}
           N == NotedConns
           P == InStage(Parsed)
           I == InStage({"answered"})
<1>2. /\ A \in SUBSET Conns /\ R \in SUBSET Conns /\ W \in SUBSET Conns
      /\ N \in SUBSET Conns /\ P \in SUBSET Conns /\ I \in SUBSET Conns
  BY DEF Answered, Refusals, NotedConns, InStage
<1>3. A \cap R = {} /\ A \cap W = {} /\ A \cup R \subseteq N /\ A \cup W \subseteq P
  <2>1. A \cap R = {} /\ A \cap W = {}
    BY DEF Answered, Refusals
  <2>2. ASSUME NEW c \in A PROVE c \in N /\ c \in P
    <3>1. c \in Conns /\ answer[c] = "allow" /\ at[c] \in Stages
      BY <1>2, <2>2 DEF Answered, AuditTypeOK
    <3>2. at[c] \in {"answered", "done"}
      BY <3>1 DEF AnswersLast, Stages, Begun
    <3> QED BY <3>1, <3>2 DEF NotedConns, Noted, InStage, Parsed
  <2>3. ASSUME NEW c \in R PROVE c \in N /\ (c \in W => c \in P)
    <3>1. c \in Conns /\ answer[c] \in {"no_decision", "lost"} /\ at[c] \in Stages
      BY <1>2, <2>3 DEF Answered, Refusals, AuditTypeOK
    <3>2. at[c] \in {"closed", "done"}
      BY <3>1 DEF AnswersLast, Stages, Begun
    <3> QED BY <3>1, <3>2 DEF NotedConns, Noted, InStage, Parsed
  <2>4. W \subseteq R
    OBVIOUS
  <2> HIDE DEF A, R, W, N, P
  <2> QED BY <2>1, <2>2, <2>3, <2>4
<1>4. ASSUME NEW S, NEW T, NEW U, S \in SUBSET Conns, T \in SUBSET Conns, U \in SUBSET Conns,
             S \cap T = {}, S \cup T \subseteq U
      PROVE  /\ Cardinality(S) \in Nat /\ Cardinality(T) \in Nat /\ Cardinality(U) \in Nat
             /\ Cardinality(S) + Cardinality(T) <= Cardinality(U)
  <2>1. IsFiniteSet(S) /\ IsFiniteSet(T) /\ IsFiniteSet(U)
    BY <1>4, AuditAssumption, FS_Subset
  <2>2. Cardinality(S) \in Nat /\ Cardinality(T) \in Nat /\ Cardinality(U) \in Nat
    BY <2>1, FS_CardinalityType
  <2>3. Cardinality(S \cup T) = Cardinality(S) + Cardinality(T) - Cardinality(S \cap T)
    BY <2>1, FS_Union
  <2>4. Cardinality(S \cap T) = 0
    BY <1>4, FS_EmptySet
  <2>5. Cardinality(S \cup T) <= Cardinality(U)
    BY <1>4, <2>1, FS_Subset
  <2> QED BY <2>2, <2>3, <2>4, <2>5
<1>5. /\ Cardinality(A) \in Nat /\ Cardinality(R) \in Nat /\ Cardinality(N) \in Nat
      /\ Cardinality(A) + Cardinality(R) <= Cardinality(N)
  <2> HIDE DEF A, R, N
  <2> QED BY <1>2, <1>3, <1>4
<1>6. /\ Cardinality(W) \in Nat /\ Cardinality(P) \in Nat
      /\ Cardinality(A) + Cardinality(W) <= Cardinality(P)
  <2> HIDE DEF A, W, P
  <2> QED BY <1>2, <1>3, <1>4
<1>7. Cardinality(I) \in Nat
  <2> HIDE DEF I
  <2> QED BY <1>2, AuditAssumption, FS_Subset, FS_CardinalityType
<1>8. CountOf(log, "emitted") <= Cardinality(A)
  <2> DEFINE e == CountOf(log, "emitted")
             i == Cardinality(I)
             w == Cardinality(A)
  <2>1. e \in Nat /\ i \in Nat /\ w \in Nat /\ e + i <= w
    BY <1>1, <1>5, <1>7 DEF EmittedSent
  <2> HIDE DEF e, i, w
  <2>2. e <= w
    BY <2>1
  <2> QED BY <2>2 DEF e, w
<1>9. 2 * Cardinality(A) + Cardinality(R) + Cardinality(W) <= Shown + torn
  <2> DEFINE a == Cardinality(A)
             r == Cardinality(R)
             w == Cardinality(W)
             n == Cardinality(N)
             p == Cardinality(P)
             s == Shown
  <2>1. /\ a \in Nat /\ r \in Nat /\ w \in Nat /\ n \in Nat /\ p \in Nat /\ s \in Nat /\ torn \in Nat
        /\ a + r <= n /\ a + w <= p /\ n + p <= (s + torn) - Bit(open)
    BY <1>1, <1>5, <1>6 DEF RecordsPaid, Price
  <2> HIDE DEF a, r, w, n, p, s
  <2>2. 2 * a + r + w <= s + torn
    BY <2>1 DEF Bit
  <2> QED BY <2>2 DEF a, r, w, s
<1> QED BY <1>1, <1>5, <1>6, <1>8, <1>9

\* An audit whose lines are all records has room: it is never cut short.
LEMMA RoomForAll ==
    ASSUME log \in Seq(Lines), \A i \in DOMAIN log : log[i] \in BrokerRecords,
           \A x \in BrokerRecords : CountOf(log, x) <= MaxCount
    PROVE  /\ Len(log) <= MaxLines
           /\ \A i \in DOMAIN log : ~Offending(log, i)
<1>1. /\ DOMAIN log = 1 .. Len(log) /\ Len(log) \in Nat
      /\ \A x : /\ IsFiniteSet(Places(log, x)) /\ CountOf(log, x) = Cardinality(Places(log, x))
               /\ CountOf(log, x) \in Nat
  BY CountType
<1>2. \A i \in DOMAIN log : log[i] \in BrokerRecords
  OBVIOUS
<1>3. ASSUME NEW i \in DOMAIN log PROVE ~Offending(log, i)
  <2> DEFINE part == SubSeq(log, 1, i)
             x == log[i]
  <2>1. i \in Nat /\ i <= Len(log) /\ x \in BrokerRecords
    BY <1>1, <1>2, <1>3
  <2>2. /\ part \in Seq(Lines) /\ DOMAIN part = 1 .. i
        /\ \A j \in 1 .. i : j \in DOMAIN log /\ part[j] = log[j]
    BY <1>1, <2>1
  <2>3. CountOf(part, x) = Cardinality(Places(part, x)) /\ CountOf(part, x) \in Nat
    BY <2>2, CountType
  <2>4. Places(part, x) \subseteq Places(log, x)
    BY <2>2 DEF Places
  <2>5. Cardinality(Places(part, x)) <= Cardinality(Places(log, x))
    BY <1>1, <2>4, FS_Subset
  <2>6. CountOf(part, x) <= CountOf(log, x) /\ CountOf(log, x) <= MaxCount
    BY <1>1, <2>1, <2>3, <2>5
  <2>7. ~(CountOf(part, x) > MaxCount)
    <3> HIDE DEF part, x
    <3> QED BY <1>1, <2>3, <2>6, OutcomeAssumption
  <2> QED BY <2>1, <2>7 DEF Offending
<1>4. Len(log) <= 5 * MaxCount
  <2> DEFINE P == Places(log, "attempt")
             Q == P \cup Places(log, "invoked")
             R == Q \cup Places(log, "request")
             S == R \cup Places(log, "allow")
             T == S \cup Places(log, "emitted")
  <2>1. 1 .. Len(log) \subseteq T
    BY <1>1, <1>2 DEF Places, BrokerRecords
  <2>2. ASSUME NEW A, IsFiniteSet(A), NEW x \in BrokerRecords
        PROVE  /\ IsFiniteSet(A \cup Places(log, x))
               /\ Cardinality(A) \in Nat /\ Cardinality(A \cup Places(log, x)) \in Nat
               /\ Cardinality(A \cup Places(log, x)) <= Cardinality(A) + MaxCount
    <3> DEFINE B == Places(log, x)
    <3>1. IsFiniteSet(B) /\ Cardinality(B) \in Nat /\ Cardinality(B) <= MaxCount
      BY <1>1
    <3> HIDE DEF B
    <3>2. /\ IsFiniteSet(A \cup B) /\ IsFiniteSet(A \cap B)
          /\ Cardinality(A \cup B) = Cardinality(A) + Cardinality(B) - Cardinality(A \cap B)
      BY <2>2, <3>1, FS_Union, FS_Intersection
    <3>3. Cardinality(A) \in Nat /\ Cardinality(A \cup B) \in Nat /\ Cardinality(A \cap B) \in Nat
      BY <2>2, <3>2, FS_CardinalityType
    <3>4. Cardinality(A \cup B) <= Cardinality(A) + MaxCount
      BY <3>1, <3>2, <3>3, OutcomeAssumption
    <3> QED BY <3>2, <3>3, <3>4 DEF B
  <2>3. IsFiniteSet(P) /\ Cardinality(P) \in Nat /\ Cardinality(P) <= MaxCount
    BY <1>1 DEF BrokerRecords
  <2>4. IsFiniteSet(Q) /\ Cardinality(Q) \in Nat /\ Cardinality(Q) <= Cardinality(P) + MaxCount
    BY <2>2, <2>3 DEF BrokerRecords
  <2>5. IsFiniteSet(R) /\ Cardinality(R) \in Nat /\ Cardinality(R) <= Cardinality(Q) + MaxCount
    <3> HIDE DEF Q
    <3> QED BY <2>2, <2>4 DEF BrokerRecords
  <2>6. IsFiniteSet(S) /\ Cardinality(S) \in Nat /\ Cardinality(S) <= Cardinality(R) + MaxCount
    <3> HIDE DEF R
    <3> QED BY <2>2, <2>5 DEF BrokerRecords
  <2>7. IsFiniteSet(T) /\ Cardinality(T) \in Nat /\ Cardinality(T) <= Cardinality(S) + MaxCount
    <3> HIDE DEF S
    <3> QED BY <2>2, <2>6 DEF BrokerRecords
  <2>8. Cardinality(1 .. Len(log)) = Len(log)
    BY <1>1, Interval
  <2> HIDE DEF P, Q, R, S, T
  <2>9. Cardinality(1 .. Len(log)) <= Cardinality(T)
    BY <2>1, <2>7, FS_Subset
  <2> QED BY <1>1, <2>3, <2>4, <2>5, <2>6, <2>7, <2>8, <2>9, OutcomeAssumption
<1> QED BY <1>1, <1>2, <1>3, <1>4, AuditAssumption, OutcomeAssumption

\* The counts of an audit that was read, given how it was left.
LEMMA ObservedCounts ==
    ASSUME AuditInv, session # <<>>
    PROVE  /\ log \in Seq(Lines) /\ session[1] = ReadAudit(log)
           /\ Observed => Counts = AuditCounts(log)
           /\ Observed <=> (/\ Len(log) <= MaxLines /\ log # <<>> /\ Nested(log)
                             /\ \A i \in DOMAIN log : ~Offending(log, i))
<1>1. log \in Seq(Lines) /\ session = <<ReadAudit(log)>>
  BY DEF AuditInv, AuditTypeOK, AuditFile
<1>2. session[1] = ReadAudit(log)
  BY <1>1
<1> QED BY <1>1, <1>2, ReadWhole DEF Observed, Counts

\* What a session reports as allowed was sent to that many clients, and it
\* is never reported as more than unconfirmed.
THEOREM AuditClaimsHappened == Spec => []ClaimsHappened
<1>1. AuditInv => ClaimsHappened
  <2> SUFFICES ASSUME AuditInv, session # <<>>, Observed
               PROVE  /\ Counts["broker_allow_unconfirmed"] <= Cardinality(Answered({"allow"}))
                      /\ AggregateHookOutcome(Counts)
                           \in {"broker_allow_unconfirmed", "protocol_failure"}
    BY DEF ClaimsHappened, Observed
  <2>1. /\ log \in Seq(Lines) /\ log # <<>> /\ Counts = AuditCounts(log) /\ Nested(log)
        /\ \A i \in DOMAIN log : ~Offending(log, i)
    BY ObservedCounts
  <2>2. /\ \A x : CountOf(log, x) \in Nat
        /\ CountOf(log, "emitted") <= Cardinality(Answered({"allow"}))
    BY <2>1, CountType, Paid
  <2>3. Counts["broker_allow_unconfirmed"] <= Cardinality(Answered({"allow"}))
    BY <2>1, <2>2, CountsRead
  <2>4. CASE Undecided(log) > 0
    <3>1. Counts["protocol_failure"] = 1
      BY <2>1, <2>4, CountsRead DEF Bit
    <3> QED BY <2>3, <3>1, FirstAlarm
  <2>5. CASE ~(Undecided(log) > 0)
    <3>1. /\ Counts["protocol_failure"] = 0
          /\ \A f \in Results \ {"broker_allow_unconfirmed"} : Counts[f] = 0
      BY <2>1, <2>5, CountsRead DEF Bit
    <3>2. CountOf(log, "attempt") > 0
      <4>1. 1 \in DOMAIN log /\ log[1] \in BrokerRecords
        BY <2>1 DEF Offending
      <4>2. /\ 1 \in Places(log, log[1]) /\ IsFiniteSet(Places(log, log[1]))
            /\ CountOf(log, log[1]) = Cardinality(Places(log, log[1]))
        BY <2>1, <4>1, CountType DEF Places
      <4>3. CountOf(log, log[1]) # 0
        BY <4>2, FS_EmptySet
      <4>4. \A x \in BrokerRecords : CountOf(log, x) # 0 => CountOf(log, "attempt") > 0
        <5> DEFINE na == CountOf(log, "attempt")
                   ni == CountOf(log, "invoked")
                   nr == CountOf(log, "request")
                   nl == CountOf(log, "allow")
                   ne == CountOf(log, "emitted")
        <5>1. /\ na \in Nat /\ ni \in Nat /\ nr \in Nat /\ nl \in Nat /\ ne \in Nat
              /\ ni <= na /\ nr <= ni /\ nl <= nr /\ ne <= nl
          BY <2>1, <2>2 DEF Nested
        <5> HIDE DEF na, ni, nr, nl, ne
        <5>2. na # 0 \/ ni # 0 \/ nr # 0 \/ nl # 0 \/ ne # 0 => na > 0
          BY <5>1
        <5> QED BY <5>2 DEF BrokerRecords, na, ni, nr, nl, ne
      <4> QED BY <4>1, <4>3, <4>4
    <3>3. CountOf(log, "emitted") > 0
      BY <2>2, <2>5, <3>2 DEF Undecided
    <3>4. Counts["broker_allow_unconfirmed"] > 0
      BY <2>1, <3>3, CountsRead
    <3>5. \A f \in Results \ {"broker_allow_unconfirmed"} : ~(Counts[f] > 0)
      BY <3>1
    <3>6. AggregateHookOutcome(Counts) = "broker_allow_unconfirmed"
      BY <3>4, <3>5, OnlyAllows
    <3> QED BY <2>3, <3>6
  <2> QED BY <2>4, <2>5
<1> QED BY <1>1, AuditSafe, PTL

\* A refused client, or one whose allow was lost, makes the session a protocol
\* failure or its audit unreadable, unless lines cut short paid for hiding it:
\* one for its connection, another for its invocation if that was recorded.
\* With none cut short the audit is readable within the limit.
THEOREM AuditShowsRefusals == Spec => []RefusalIsVisible
<1>1. AuditInv => RefusalIsVisible
  <2> SUFFICES ASSUME AuditInv, session # <<>>,
                      Cardinality(Refusals) + Cardinality({c \in Refusals : at[c] = "done"}) > torn
               PROVE  /\ Observed => AggregateHookOutcome(Counts) = "protocol_failure"
                      /\ torn = 0 /\ CountOf(log, "attempt") <= MaxCount => Observed
    BY DEF RefusalIsVisible
  <2> DEFINE na == CountOf(log, "attempt")
             ni == CountOf(log, "invoked")
             nt == CountOf(log, "torn")
             ne == CountOf(log, "emitted")
             al == Cardinality(Answered({"allow"}))
             re == Cardinality(Refusals)
             wf == Cardinality({c \in Refusals : at[c] = "done"})
  <2>0. log \in Seq(Lines)
    BY ObservedCounts
  <2>1. /\ na \in Nat /\ ni \in Nat /\ nt \in Nat /\ ne \in Nat /\ torn \in Nat
        /\ al \in Nat /\ re \in Nat /\ wf \in Nat /\ ne <= al
        /\ 2 * al + re + wf <= na + ni + nt + torn /\ re + wf > torn
    BY <2>0, CountType, Paid DEF Shown
  <2>2. ASSUME Observed PROVE AggregateHookOutcome(Counts) = "protocol_failure"
    <3>1. /\ Counts = AuditCounts(log) /\ Nested(log)
          /\ \A i \in DOMAIN log : ~Offending(log, i)
      BY <2>2, ObservedCounts
    <3>2. nt = 0
      <4>1. Places(log, "torn") = {}
        BY <3>1 DEF Places, Offending, BrokerRecords
      <4> QED BY <2>0, <4>1, CountType, FS_EmptySet
    <3>3. ni <= na
      BY <3>1 DEF Nested
    <3>4. na - ne > 0
      <4> HIDE DEF na, ni, nt, ne, al, re, wf
      <4> QED BY <2>1, <3>2, <3>3
    <3>5. Counts["protocol_failure"] = 1
      <4>1. Undecided(log) > 0
        BY <3>4 DEF Undecided
      <4> QED BY <2>0, <3>1, <4>1, CountsRead DEF Bit
    <3> QED BY <3>5, FirstAlarm
  <2>3. ASSUME torn = 0, na <= MaxCount PROVE Observed
    <3>1. /\ \A x \in BrokerRecords : CountOf(log, x) \in Nat /\ CountOf(log, x) <= na
          /\ Nested(log)
      BY <2>3, Bounded
    <3>2. \A x \in BrokerRecords : CountOf(log, x) <= MaxCount
      <4> SUFFICES ASSUME NEW x \in BrokerRecords PROVE CountOf(log, x) <= MaxCount
        OBVIOUS
      <4> DEFINE n == CountOf(log, x)
      <4>1. n \in Nat /\ n <= na /\ na <= MaxCount
        BY <2>3, <3>1
      <4> HIDE DEF n, na
      <4>2. n <= MaxCount
        BY <2>1, <4>1, OutcomeAssumption
      <4> QED BY <4>2 DEF n
    <3>3. \A i \in DOMAIN log : log[i] \in BrokerRecords
      BY <2>3 DEF AuditInv, AuditTypeOK, AuditFile
    <3>4. Len(log) <= MaxLines /\ \A i \in DOMAIN log : ~Offending(log, i)
      BY <2>0, <3>2, <3>3, RoomForAll
    <3>5. log # <<>>
      <4> SUFFICES ASSUME log = <<>> PROVE FALSE
        OBVIOUS
      <4>1. \A x : Places(log, x) = {}
        BY DEF Places
      <4>2. na = 0 /\ ni = 0 /\ nt = 0
        BY <2>0, <4>1, CountType, FS_EmptySet
      <4> HIDE DEF na, ni, nt, ne, al, re, wf
      <4> QED BY <2>1, <2>3, <4>2
    <3> QED BY <3>1, <3>4, <3>5, ObservedCounts
  <2> QED BY <2>2, <2>3
<1> QED BY <1>1, AuditSafe, PTL
-----------------------------------------------------------------------------
(* What sessions add up to (UpdateState::record_compatibility_observation). *)

\* An entry never stands without a result.
Telling(counts) == counts["entry"] > 0 => \E f \in Results : counts[f] > 0

Rising(counts) == {i \in DOMAIN Alarms : counts[Alarms[i]] > 0}

\* The severity of the aggregate is that of the first alarm that was counted.
LEMMA AggregateSeverity ==
    ASSUME NEW counts \in [Fields -> Nat], Telling(counts)
    PROVE  /\ Rising(counts) \in SUBSET (1 .. 5)
           /\ Rising(counts) = {} => /\ counts["entry"] = 0
                                     /\ Severity(AggregateHookOutcome(counts)) = 1
           /\ Rising(counts) # {} =>
                \E i \in Rising(counts) :
                    /\ \A j \in Rising(counts) : i <= j
                    /\ Severity(AggregateHookOutcome(counts)) = 7 - i
<1> DEFINE present == Rising(counts)
           first == CHOOSE i \in present : \A j \in present : i <= j
<1>1. /\ DOMAIN Alarms = 1 .. 5 /\ Len(Alarms) = 5
      /\ \A i, j \in 1 .. 5 : Alarms[i] = Alarms[j] => i = j
      /\ \A i \in 1 .. 5 : Alarms[i] # "no_hook_invocation" /\ Alarms[i] \in Results
      /\ \A f \in Results : \E i \in 1 .. 5 : f = Alarms[i]
  BY DEF Alarms, Results
<1>2. present \in SUBSET (1 .. 5)
  BY <1>1 DEF Rising
<1>3. CASE present = {}
  <2>1. \A f \in Results : ~(counts[f] > 0)
    BY <1>1, <1>3 DEF Rising
  <2>2. counts["entry"] = 0
    BY <2>1 DEF Telling, Fields
  <2>3. AggregateHookOutcome(counts) = "no_hook_invocation"
    BY <1>3, <2>2 DEF AggregateHookOutcome, Rising
  <2> QED BY <1>2, <1>3, <2>2, <2>3 DEF Severity
<1>4. CASE present # {}
  <2>1. \E i \in present : \A j \in present : i <= j
    <3> HIDE DEF present
    <3>2. CASE 1 \in present
      BY <1>2, <3>2
    <3>3. CASE 1 \notin present /\ 2 \in present
      BY <1>2, <3>3
    <3>4. CASE 1 \notin present /\ 2 \notin present /\ 3 \in present
      BY <1>2, <3>4
    <3>5. CASE 1 \notin present /\ 2 \notin present /\ 3 \notin present /\ 4 \in present
      BY <1>2, <3>5
    <3>6. CASE 1 \notin present /\ 2 \notin present /\ 3 \notin present /\ 4 \notin present
      <4>1. \A j \in present : j = 5
        BY <1>2, <3>6
      <4> QED BY <1>4, <4>1
    <3> QED BY <3>2, <3>3, <3>4, <3>5, <3>6
  <2>2. first \in present /\ \A j \in present : first <= j
    BY <2>1
  <2>3. AggregateHookOutcome(counts) = Alarms[first]
    BY <1>4 DEF AggregateHookOutcome, Rising
  <2> HIDE DEF first
  <2>4. first \in 1 .. 5
    BY <1>2, <2>2
  <2>5. (CHOOSE i \in DOMAIN Alarms : Alarms[i] = Alarms[first]) = first
    BY <1>1, <2>4
  <2>6. Severity(Alarms[first]) = 7 - first
    BY <1>1, <2>4, <2>5 DEF Severity
  <2> QED BY <1>2, <1>4, <2>2, <2>3, <2>6
<1> QED BY <1>3, <1>4

\* Sessions that are added up are no better than the worst of them.
LEMMA CombineSevere ==
    ASSUME NEW left \in [Fields -> Nat], NEW right \in [Fields -> Nat],
           Telling(left), Telling(right)
    PROVE  LET both == Combine(left, right)
           IN  /\ both \in [Fields -> Nat] /\ Telling(both)
               /\ Severity(AggregateHookOutcome(both)) \in Nat
               /\ Severity(AggregateHookOutcome(left)) \in Nat
               /\ Severity(AggregateHookOutcome(right)) \in Nat
               /\ Severity(AggregateHookOutcome(both)) >= Severity(AggregateHookOutcome(left))
               /\ Severity(AggregateHookOutcome(both)) >= Severity(AggregateHookOutcome(right))
<1> DEFINE both == Combine(left, right)
<1>1. /\ both \in [Fields -> Nat]
      /\ \A f \in Fields : both[f] > 0 <=> (left[f] > 0 \/ right[f] > 0)
  BY OutcomeAssumption DEF Combine
<1> HIDE DEF both
<1>2. /\ Results \subseteq Fields /\ "entry" \in Fields
      /\ \A i \in DOMAIN Alarms : Alarms[i] \in Results
  BY DEF Fields, Results
<1>3. Telling(both)
  BY <1>1, <1>2 DEF Telling
<1>4. Rising(both) = Rising(left) \cup Rising(right)
  BY <1>1, <1>2 DEF Rising
<1> DEFINE sb == Severity(AggregateHookOutcome(both))
<1>5. ASSUME NEW c \in [Fields -> Nat], Telling(c), Rising(c) \subseteq Rising(both)
      PROVE  /\ Severity(AggregateHookOutcome(c)) \in Nat /\ sb \in Nat
             /\ sb >= Severity(AggregateHookOutcome(c))
  <2> DEFINE sc == Severity(AggregateHookOutcome(c))
  <2> SUFFICES sc \in Nat /\ sb \in Nat /\ sb >= sc
    OBVIOUS
  <2>1. /\ Rising(both) \in SUBSET (1 .. 5) /\ Rising(c) \in SUBSET (1 .. 5)
        /\ Rising(both) = {} => sb = 1
        /\ Rising(c) = {} => sc = 1
        /\ Rising(both) # {} => \E i \in Rising(both) :
                                   (\A j \in Rising(both) : i <= j) /\ sb = 7 - i
        /\ Rising(c) # {} => \E i \in Rising(c) : (\A j \in Rising(c) : i <= j) /\ sc = 7 - i
    BY <1>1, <1>3, <1>5, AggregateSeverity
  <2> HIDE DEF sb, sc
  <2>2. CASE Rising(both) = {}
    BY <1>5, <2>1, <2>2
  <2>3. CASE Rising(both) # {}
    <3>1. PICK i \in Rising(both) : (\A j \in Rising(both) : i <= j) /\ sb = 7 - i
      BY <2>1, <2>3
    <3>2. i \in 1 .. 5
      BY <2>1
    <3>3. CASE Rising(c) = {}
      BY <2>1, <3>1, <3>2, <3>3
    <3>4. CASE Rising(c) # {}
      <4>1. PICK k \in Rising(c) : sc = 7 - k
        BY <2>1, <3>4
      <4>2. k \in 1 .. 5 /\ i <= k
        BY <1>5, <2>1, <3>1
      <4> QED BY <3>1, <3>2, <4>1, <4>2
    <3> QED BY <3>3, <3>4
  <2> QED BY <2>2, <2>3
<1>6. /\ sb \in Nat /\ Severity(AggregateHookOutcome(left)) \in Nat
      /\ sb >= Severity(AggregateHookOutcome(left))
  BY <1>4, <1>5
<1>7. /\ Severity(AggregateHookOutcome(right)) \in Nat
      /\ sb >= Severity(AggregateHookOutcome(right))
  BY <1>4, <1>5
<1> QED BY <1>1, <1>3, <1>6, <1>7 DEF both

\* The inductive invariant of the list: it is well formed, every entry says
\* what its counts say, and no outcome is on record for an identity that was
\* never recorded.
ObservationsTypeOK ==
    /\ observations \in Lists /\ Len(observations) <= MaxObservations
    /\ recorded \in SUBSET Ids /\ worst \in [Ids -> Nat]

EntriesTell ==
    \A i \in DOMAIN observations :
        /\ observations[i].hook = AggregateHookOutcome(observations[i].counts)
        /\ Telling(observations[i].counts)

WorstWasRecorded == \A id \in Ids \ recorded : worst[id] = 0

ObservationsInv ==
    /\ ObservationsTypeOK /\ EntriesTell /\ WorstWasRecorded
    /\ NewestAreKept /\ FailuresStayVisible

\* NewestAreKept in terms of the operations on lists.
NewestOf(list, ids) ==
    /\ Increasing(list) /\ IdsOf(list) \subseteq ids
    /\ \A id \in ids \ IdsOf(list) : \A k \in IdsOf(list) : id < k
    /\ Len(list) < MaxObservations => IdsOf(list) = ids

LEMMA NewestIs ==
    ASSUME observations \in Lists
    PROVE  NewestAreKept <=> NewestOf(observations, recorded)
<1>1. Kept = IdsOf(observations)
  BY DEF Kept, IdsOf
<1>2. Increasing(observations) => Cardinality(Kept) = Len(observations)
  BY <1>1, IncreasingIds
<1> QED BY <1>1, <1>2 DEF NewestAreKept, NewestOf, Increasing

\* A new identity at its place in the list.
LEMMA InsertNewest ==
    ASSUME NEW list \in Lists, NEW ids \in SUBSET Nat, NewestOf(list, ids),
           Len(list) <= MaxObservations, NEW o \in CompatibilityObservation,
           o.id \notin IdsOf(list), NEW s, s = Insert(list, o)
    PROVE  /\ s \in Lists /\ Len(s) <= MaxObservations /\ NewestOf(s, ids \cup {o.id})
           /\ \A r \in DOMAIN s : \/ s[r] = o /\ o.id \notin ids
                                  \/ \E i \in DOMAIN list : s[r] = list[i]
<1> DEFINE n == Len(list)
           S == IdsOf(list)
<1>1. /\ n \in Nat /\ MaxObservations \in Nat /\ o.id \in Nat /\ S \in SUBSET Nat
      /\ Increasing(list) /\ S \subseteq ids
      /\ \A id \in ids \ S : \A k \in S : id < k
      /\ n < MaxObservations => S = ids
  BY ListElement, ListAssumption DEF NewestOf, CompatibilityObservation, IdsOf
<1>2. /\ s \in Lists /\ Increasing(s)
      /\ \/ /\ n < MaxObservations /\ Len(s) = n + 1 /\ IdsOf(s) = S \cup {o.id}
            /\ \A r \in DOMAIN s : s[r] = o \/ \E i \in DOMAIN list : s[r] = list[i]
         \/ n = MaxObservations /\ s = list /\ \A k \in S : o.id < k
         \/ /\ n = MaxObservations /\ Len(s) = n
            /\ \E old \in S : /\ old < o.id /\ \A k \in S : old <= k
                              /\ IdsOf(s) = (S \ {old}) \cup {o.id}
            /\ \A r \in DOMAIN s : s[r] = o \/ \E i \in DOMAIN list : s[r] = list[i]
  BY <1>1, Inserted
<1>3. CASE /\ n < MaxObservations /\ Len(s) = n + 1 /\ IdsOf(s) = S \cup {o.id}
           /\ \A r \in DOMAIN s : s[r] = o \/ \E i \in DOMAIN list : s[r] = list[i]
  <2>1. S = ids
    BY <1>1, <1>3
  <2>2. IdsOf(s) = ids \cup {o.id} /\ o.id \notin ids
    BY <1>3, <2>1
  <2>3. Len(s) <= MaxObservations
    <3> HIDE DEF n
    <3> QED BY <1>1, <1>3
  <2>4. NewestOf(s, ids \cup {o.id})
    BY <1>2, <2>2 DEF NewestOf
  <2> QED BY <1>2, <1>3, <2>2, <2>3, <2>4
<1>4. CASE n = MaxObservations /\ s = list /\ \A k \in S : o.id < k
  <2>1. ~(Len(s) < MaxObservations) /\ Len(s) <= MaxObservations
    BY <1>1, <1>4
  <2>2. \A id \in (ids \cup {o.id}) \ S : \A k \in S : id < k
    <3> HIDE DEF S
    <3> QED BY <1>1, <1>4
  <2>3. NewestOf(s, ids \cup {o.id})
    BY <1>1, <1>2, <1>4, <2>1, <2>2 DEF NewestOf
  <2> QED BY <1>2, <1>4, <2>1, <2>3
<1>5. CASE /\ n = MaxObservations /\ Len(s) = n
           /\ \E old \in S : /\ old < o.id /\ \A k \in S : old <= k
                             /\ IdsOf(s) = (S \ {old}) \cup {o.id}
           /\ \A r \in DOMAIN s : s[r] = o \/ \E i \in DOMAIN list : s[r] = list[i]
  <2>1. PICK old \in S : /\ old < o.id /\ \A k \in S : old <= k
                         /\ IdsOf(s) = (S \ {old}) \cup {o.id}
    BY <1>5
  <2>2. ~(Len(s) < MaxObservations) /\ Len(s) <= MaxObservations
    BY <1>1, <1>5
  <2> HIDE DEF S
  <2>3. o.id \notin ids
    <3> SUFFICES ASSUME o.id \in ids PROVE FALSE
      OBVIOUS
    <3>1. o.id \notin S
      BY DEF S
    <3>2. o.id < old /\ old \in Nat
      BY <1>1, <3>1
    <3> QED BY <1>1, <2>1, <3>2
  <2>4. ASSUME NEW id \in (ids \cup {o.id}) \ IdsOf(s), NEW k \in IdsOf(s)
        PROVE  id < k
    <3>1. id # o.id /\ id \in ids /\ (id \in S => id = old) /\ id \in Nat
      BY <2>1, <2>4
    <3>2. k \in Nat /\ old \in Nat /\ (k = o.id \/ (k \in S /\ k # old))
      BY <1>1, <2>1, <2>4
    <3>3. old < k
      BY <2>1, <3>2
    <3>4. id = old \/ id < old
      BY <1>1, <3>1
    <3> QED BY <3>1, <3>2, <3>3, <3>4
  <2>5. NewestOf(s, ids \cup {o.id})
    <3>1. IdsOf(s) \subseteq ids \cup {o.id}
      BY <1>1, <2>1
    <3> QED BY <1>2, <2>2, <2>4, <3>1 DEF NewestOf
  <2> QED BY <1>2, <1>5, <2>2, <2>3, <2>5
<1> QED BY <1>2, <1>3, <1>4, <1>5

\* A session is recorded: merged into the entry of its identity, inserted, or
\* left out as too old.
LEMMA RecordKeeps ==
    ASSUME ObservationsInv, NEW id \in Ids, NEW counts \in Sessions,
           NEW command \in CommandOutcomes, Record(id, counts, command)
    PROVE  ObservationsInv'
<1> DEFINE o == FromSession(id, counts, command)
           sev == Severity(o.hook)
<1>1. /\ counts \in [Fields -> Nat] /\ Telling(counts) /\ id \in Nat
      /\ o \in CompatibilityObservation /\ o.id = id /\ o.counts = counts
      /\ o.hook = AggregateHookOutcome(counts)
  <2>1. counts \in [Fields -> Nat] /\ Telling(counts) /\ id \in Nat
    BY ObservationsAssumption DEF Telling
  <2>2. AggregateHookOutcome(counts) \in HookOutcomes
    BY <2>1, AggregateType
  <2> QED BY <2>1, <2>2 DEF FromSession, CompatibilityObservation
<1>2. PICK first, second \in Times :
        /\ observations' \in Recorded(observations, o, first, second)
        /\ recorded' = recorded \cup {id}
        /\ worst' = [worst EXCEPT ![id] = IF @ >= sev THEN @ ELSE sev]
  BY DEF Record
<1>3. /\ first \in Nat /\ second \in Nat /\ observations \in Lists
      /\ Len(observations) <= MaxObservations
      /\ recorded \in SUBSET Ids /\ recorded \in SUBSET Nat /\ worst \in [Ids -> Nat]
  BY ObservationsAssumption DEF ObservationsInv, ObservationsTypeOK
<1>4. sev \in Nat
  BY <1>1, CombineSevere
<1> HIDE DEF o, sev
<1>5. /\ recorded' \in SUBSET Ids /\ worst' \in [Ids -> Nat]
      /\ \A k \in Ids : k # id => worst'[k] = worst[k]
      /\ worst'[id] = IF worst[id] >= sev THEN worst[id] ELSE sev
  BY <1>2, <1>3, <1>4
<1>6. WorstWasRecorded'
  BY <1>2, <1>5 DEF ObservationsInv, WorstWasRecorded
<1>7. NewestOf(observations, recorded) /\ DistinctIds(observations)
  BY <1>3, NewestIs, IncreasingIds DEF ObservationsInv, NewestOf
<1>8. \/ \E i \in DOMAIN observations, d \in CompatibilityObservation :
            /\ SameSession(d, o) /\ observations[i].id = id
            /\ observations' = [observations EXCEPT ![i] = MergeInto(observations[i], d, second)]
      \/ /\ id \notin IdsOf(observations)
         /\ \E d \in CompatibilityObservation :
               SameSession(d, o) /\ observations' = Insert(observations, d)
  BY <1>1, <1>2, <1>3, <1>7, RecordedCases
<1>9. /\ \A i \in DOMAIN observations :
            /\ observations[i] \in CompatibilityObservation
            /\ observations[i].counts \in [Fields -> Nat] /\ Telling(observations[i].counts)
            /\ observations[i].hook = AggregateHookOutcome(observations[i].counts)
            /\ observations[i].id \in Ids
            /\ Severity(observations[i].hook) >= worst[observations[i].id]
            /\ Severity(observations[i].hook) \in Nat
  <2> SUFFICES ASSUME NEW i \in DOMAIN observations
               PROVE  /\ observations[i] \in CompatibilityObservation
                      /\ observations[i].counts \in [Fields -> Nat]
                      /\ Telling(observations[i].counts)
                      /\ observations[i].hook = AggregateHookOutcome(observations[i].counts)
                      /\ observations[i].id \in Ids
                      /\ Severity(observations[i].hook) >= worst[observations[i].id]
                      /\ Severity(observations[i].hook) \in Nat
    OBVIOUS
  <2>1. observations[i] \in CompatibilityObservation
    BY <1>3, ListElement
  <2>2. observations[i].counts \in [Fields -> Nat]
    BY <2>1 DEF CompatibilityObservation
  <2>3. /\ Telling(observations[i].counts)
        /\ observations[i].hook = AggregateHookOutcome(observations[i].counts)
        /\ Severity(observations[i].hook) >= worst[observations[i].id]
    BY DEF ObservationsInv, EntriesTell, FailuresStayVisible
  <2>4. observations[i].id \in Ids
    BY <1>3, <1>7 DEF NewestOf, IdsOf
  <2>5. Severity(observations[i].hook) \in Nat
    BY <2>2, <2>3, CombineSevere
  <2> QED BY <2>1, <2>2, <2>3, <2>4, <2>5
<1>10. CASE \E i \in DOMAIN observations, d \in CompatibilityObservation :
              /\ SameSession(d, o) /\ observations[i].id = id
              /\ observations' = [observations EXCEPT ![i] = MergeInto(observations[i], d, second)]
  <2>1. PICK i \in DOMAIN observations, d \in CompatibilityObservation :
            /\ SameSession(d, o) /\ observations[i].id = id
            /\ observations' = [observations EXCEPT ![i] = MergeInto(observations[i], d, second)]
    BY <1>10
  <2> DEFINE old == observations[i]
             both == Combine(old.counts, counts)
             entry == MergeInto(old, d, second)
  <2>2. /\ entry \in CompatibilityObservation /\ entry.id = id /\ entry.counts = both
        /\ entry.hook = AggregateHookOutcome(both)
    <3>1. old \in CompatibilityObservation /\ old.id = id /\ d.counts = counts /\ second \in Nat
      BY <1>1, <1>3, <1>9, <2>1 DEF SameSession
    <3> HIDE DEF old
    <3>2. /\ entry \in CompatibilityObservation /\ entry.id = old.id
          /\ entry.counts = Combine(old.counts, d.counts)
          /\ entry.hook = AggregateHookOutcome(Combine(old.counts, d.counts))
      BY <3>1, MergedEntry
    <3> QED BY <3>1, <3>2
  <2>3. /\ Telling(both) /\ Severity(entry.hook) \in Nat
        /\ Severity(entry.hook) >= Severity(old.hook) /\ Severity(entry.hook) >= sev
    <3>1. /\ old.counts \in [Fields -> Nat] /\ Telling(old.counts)
          /\ old.hook = AggregateHookOutcome(old.counts) /\ sev = Severity(AggregateHookOutcome(counts))
      BY <1>1, <1>9 DEF sev
    <3> HIDE DEF old
    <3> QED BY <1>1, <2>2, <3>1, CombineSevere
  <2>4. old.id = id /\ Severity(old.hook) >= worst[id] /\ Severity(old.hook) \in Nat
    BY <1>9, <2>1
  <2>5. Severity(entry.hook) >= worst'[id]
    <3> DEFINE se == Severity(entry.hook)
               so == Severity(old.hook)
               wi == worst[id]
    <3>1. /\ se \in Nat /\ so \in Nat /\ wi \in Nat /\ se >= so /\ so >= wi /\ se >= sev
          /\ worst'[id] = IF wi >= sev THEN wi ELSE sev
      BY <1>3, <1>5, <2>3, <2>4
    <3> HIDE DEF se, so, wi
    <3>2. se >= worst'[id]
      BY <1>4, <3>1
    <3> QED BY <3>2 DEF se
  <2> HIDE DEF entry, both
  <2>6. /\ observations' \in Lists /\ DOMAIN observations' = DOMAIN observations
        /\ Len(observations') = Len(observations)
        /\ \A k \in DOMAIN observations : observations'[k] = IF k = i THEN entry ELSE observations[k]
    <3>1. Len(observations) \in Nat /\ DOMAIN observations = 1 .. Len(observations)
      BY <1>3, ListElement
    <3>2. observations' = [k \in 1 .. Len(observations) |-> IF k = i THEN entry ELSE observations[k]]
      BY <2>1, <3>1 DEF entry
    <3>3. observations' \in [1 .. Len(observations) -> CompatibilityObservation]
      BY <1>9, <2>2, <3>1, <3>2
    <3> QED BY <3>1, <3>2, <3>3 DEF Lists
  <2>7. \A k \in DOMAIN observations : observations'[k].id = observations[k].id
    BY <2>1, <2>2, <2>6
  <2>8. NewestOf(observations', recorded')
    <3>1. Increasing(observations') /\ IdsOf(observations') = IdsOf(observations)
      BY <1>7, <2>6, <2>7 DEF NewestOf, Increasing, IdsOf
    <3>2. recorded' = recorded
      BY <1>2, <1>7, <2>1 DEF NewestOf, IdsOf
    <3> QED BY <1>7, <2>6, <3>1, <3>2 DEF NewestOf
  <2>9. NewestAreKept'
    <3>1. (observations \in Lists)' => (NewestAreKept <=> NewestOf(observations, recorded))'
      BY NewestIs, PTL
    <3> QED BY <2>6, <2>8, <3>1
  <2>10. EntriesTell'
    BY <1>9, <2>2, <2>3, <2>6 DEF EntriesTell
  <2>11. FailuresStayVisible'
    <3> SUFFICES ASSUME NEW k \in DOMAIN observations
                 PROVE  Severity(observations'[k].hook) >= worst'[observations'[k].id]
      BY <2>6 DEF FailuresStayVisible
    <3>1. CASE k = i
      BY <2>2, <2>5, <2>6, <3>1
    <3>2. CASE k # i
      <4>1. observations[k].id # id /\ observations'[k] = observations[k]
        BY <1>7, <2>1, <2>6, <3>2 DEF DistinctIds
      <4> QED BY <1>5, <1>9, <4>1
    <3> QED BY <3>1, <3>2
  <2> QED BY <1>3, <1>5, <1>6, <2>6, <2>9, <2>10, <2>11 DEF ObservationsInv, ObservationsTypeOK
<1>11. CASE /\ id \notin IdsOf(observations)
            /\ \E d \in CompatibilityObservation :
                  SameSession(d, o) /\ observations' = Insert(observations, d)
  <2>1. PICK d \in CompatibilityObservation :
            SameSession(d, o) /\ observations' = Insert(observations, d)
    BY <1>11
  <2>2. d.id = id /\ d.counts = counts /\ d.hook = AggregateHookOutcome(counts) /\ Severity(d.hook) = sev
    BY <1>1, <2>1 DEF SameSession, sev
  <2>3. /\ observations' \in Lists /\ Len(observations') <= MaxObservations
        /\ NewestOf(observations', recorded')
        /\ \A r \in DOMAIN observations' :
             \/ observations'[r] = d /\ id \notin recorded
             \/ \E i \in DOMAIN observations : observations'[r] = observations[i]
    <3>1. d.id \notin IdsOf(observations) /\ recorded' = recorded \cup {d.id}
      BY <1>2, <1>11, <2>2
    <3> DEFINE s == observations'
    <3>2. s = Insert(observations, d)
      BY <2>1
    <3> HIDE DEF s
    <3>3. /\ s \in Lists /\ Len(s) <= MaxObservations /\ NewestOf(s, recorded \cup {d.id})
          /\ \A r \in DOMAIN s : \/ s[r] = d /\ d.id \notin recorded
                                 \/ \E i \in DOMAIN observations : s[r] = observations[i]
      <4>1. /\ observations \in Lists /\ recorded \in SUBSET Nat /\ NewestOf(observations, recorded)
            /\ Len(observations) <= MaxObservations /\ d.id \notin IdsOf(observations)
        BY <1>3, <1>7, <3>1
      <4>2. \A ids \in SUBSET Nat : NewestOf(observations, ids) =>
                /\ s \in Lists /\ Len(s) <= MaxObservations /\ NewestOf(s, ids \cup {d.id})
                /\ \A r \in DOMAIN s : \/ s[r] = d /\ d.id \notin ids
                                       \/ \E i \in DOMAIN observations : s[r] = observations[i]
        BY <3>2, <4>1, InsertNewest
      <4> QED BY <4>1, <4>2
    <3> QED BY <2>2, <3>1, <3>3 DEF s
  <2>4. NewestAreKept'
    <3>1. (observations \in Lists)' => (NewestAreKept <=> NewestOf(observations, recorded))'
      BY NewestIs, PTL
    <3> QED BY <2>3, <3>1
  <2>5. EntriesTell'
    BY <1>1, <1>9, <2>2, <2>3 DEF EntriesTell
  <2>6. FailuresStayVisible'
    <3> SUFFICES ASSUME NEW r \in DOMAIN observations'
                 PROVE  Severity(observations'[r].hook) >= worst'[observations'[r].id]
      BY DEF FailuresStayVisible
    <3>1. CASE observations'[r] = d /\ id \notin recorded
      <4>1. worst[id] = 0
        BY <3>1 DEF ObservationsInv, WorstWasRecorded
      <4>2. worst'[id] <= sev
        BY <1>4, <1>5, <4>1
      <4> QED BY <1>4, <1>5, <2>2, <3>1, <4>1
    <3>2. CASE \E i \in DOMAIN observations : observations'[r] = observations[i]
      <4>1. PICK i \in DOMAIN observations : observations'[r] = observations[i]
        BY <3>2
      <4>2. observations[i].id # id
        BY <1>11 DEF IdsOf
      <4> QED BY <1>5, <1>9, <4>1, <4>2
    <3> QED BY <2>3, <3>1, <3>2
  <2> QED BY <1>5, <1>6, <2>3, <2>4, <2>5, <2>6 DEF ObservationsInv, ObservationsTypeOK
<1> QED BY <1>8, <1>10, <1>11

\* The list of observations keeps its invariant for any number of sessions, in
\* any order and with any clock.
THEOREM ObservationsSafe == ObservationsSpec => []ObservationsInv
<1>1. ObservationsInit => ObservationsInv
  <2> SUFFICES ASSUME ObservationsInit PROVE ObservationsInv
    OBVIOUS
  <2>1. observations = <<>> /\ recorded = {} /\ worst = [i \in Ids |-> 0]
    BY DEF ObservationsInit
  <2>2. observations \in Lists /\ Len(observations) = 0 /\ DOMAIN observations = {}
    BY <2>1 DEF Lists
  <2>3. ObservationsTypeOK
    BY <2>1, <2>2, ListAssumption DEF ObservationsTypeOK
  <2>4. Kept = {}
    BY <2>2 DEF Kept
  <2> QED BY <2>1, <2>2, <2>3, <2>4
          DEF ObservationsInv, EntriesTell, WorstWasRecorded, NewestAreKept, FailuresStayVisible
<1>2. ObservationsInv /\ [ObservationsNext]_observationVars => ObservationsInv'
  <2> SUFFICES ASSUME ObservationsInv, [ObservationsNext]_observationVars PROVE ObservationsInv'
    OBVIOUS
  <2>1. CASE UNCHANGED observationVars
    BY <2>1 DEF observationVars, ObservationsInv, ObservationsTypeOK, EntriesTell,
                WorstWasRecorded, NewestAreKept, FailuresStayVisible, Kept
  <2>2. ASSUME NEW id \in Ids, NEW counts \in Sessions, NEW command \in CommandOutcomes,
               Record(id, counts, command)
        PROVE  ObservationsInv'
    BY <2>2, RecordKeeps
  <2> QED BY <2>1, <2>2 DEF ObservationsNext, RecordInvalid
<1> QED BY <1>1, <1>2, PTL DEF ObservationsSpec

\* An older version's session that finishes late never displaces a newer
\* version's observation, for every limit and any number of identities.
THEOREM ObservationsKeepNewest == ObservationsSpec => []NewestAreKept
<1>1. ObservationsInv => NewestAreKept
  BY DEF ObservationsInv
<1> QED BY <1>1, ObservationsSafe, PTL

\* No number of later sessions, and no saturated counter, makes an identity
\* look better than the worst session recorded for it.
THEOREM ObservationsShowFailures == ObservationsSpec => []FailuresStayVisible
<1>1. ObservationsInv => FailuresStayVisible
  BY DEF ObservationsInv
<1> QED BY <1>1, ObservationsSafe, PTL
-----------------------------------------------------------------------------
(* Choosing an update: orders, and what select_applicable returns.         *)

\* The naturals are well-founded.
LEMMA LeastExists ==
    ASSUME NEW S \in SUBSET Nat, S # {}
    PROVE  Least(S) \in S /\ \A j \in S : Least(S) <= j
<1>1. \E i \in S : \A j \in S : <<j, i>> \notin OpToRel(<, Nat)
  BY WFMin, NatLessThanWellFounded
<1>2. OpToRel(<, Nat) = {ss \in Nat \X Nat : ss[1] < ss[2]}
  BY Zenon DEF OpToRel
<1> DEFINE lt == OpToRel(<, Nat)
<1> HIDE DEF lt
<1>3. \A i, j \in Nat : <<j, i>> \in lt <=> j < i
  BY <1>2 DEF lt
<1>4. \E i \in S : \A j \in S : <<j, i>> \notin lt
  BY <1>1 DEF lt
<1>5. \E i \in S : \A j \in S : i <= j
  <2>1. PICK i \in S : \A j \in S : <<j, i>> \notin lt
    BY <1>4
  <2>2. ASSUME NEW j \in S PROVE i <= j
    <3>1. i \in Nat /\ j \in Nat
      OBVIOUS
    <3>2. ~(j < i)
      BY <1>3, <2>1, <3>1
    <3> QED BY <3>1, <3>2
  <2> QED BY <2>2
<1> QED BY <1>5, Zenon DEF Least

\* Versions and floors: numbers compared from the first on.
Digits(n) == [1 .. n -> Nat]

LEMMA BeforeStrict ==
    ASSUME NEW n \in Nat, NEW a \in Digits(n), NEW b \in Digits(n), Before(a, b)
    PROVE  a # b /\ ~Before(b, a)
<1>1. PICK i \in 1 .. n : a[i] < b[i] /\ \A j \in 1 .. i - 1 : a[j] = b[j]
  BY DEF Before, Digits
<1>2. \A k \in 1 .. n : a[k] \in Nat /\ b[k] \in Nat
  BY DEF Digits
<1>3. a # b
  BY <1>1, <1>2
<1>4. ASSUME NEW k \in 1 .. n, b[k] < a[k], \A j \in 1 .. k - 1 : b[j] = a[j] PROVE FALSE
  <2>1. ~(k < i)
    BY <1>1, <1>2, <1>4
  <2>2. ~(i < k)
    BY <1>1, <1>2, <1>4
  <2>3. i # k
    BY <1>1, <1>2, <1>4
  <2> QED BY <2>1, <2>2, <2>3
<1>5. DOMAIN b = 1 .. n
  BY DEF Digits
<1> QED BY <1>3, <1>4, <1>5 DEF Before

LEMMA BeforeTransitive ==
    ASSUME NEW n \in Nat, NEW a \in Digits(n), NEW b \in Digits(n), NEW c \in Digits(n),
           Before(a, b), Before(b, c)
    PROVE  Before(a, c)
<1>1. PICK i \in 1 .. n : a[i] < b[i] /\ \A j \in 1 .. i - 1 : a[j] = b[j]
  BY DEF Before, Digits
<1>2. PICK k \in 1 .. n : b[k] < c[k] /\ \A j \in 1 .. k - 1 : b[j] = c[j]
  BY DEF Before, Digits
<1>3. CASE i <= k
  <2>1. a[i] < c[i] /\ \A j \in 1 .. i - 1 : a[j] = c[j]
    BY <1>1, <1>2, <1>3 DEF Digits
  <2> QED BY <2>1 DEF Before, Digits
<1>4. CASE k < i
  <2>1. a[k] < c[k] /\ \A j \in 1 .. k - 1 : a[j] = c[j]
    BY <1>1, <1>2, <1>4 DEF Digits
  <2> QED BY <2>1 DEF Before, Digits
<1> QED BY <1>3, <1>4

\* The first number that differs decides.
LEMMA BeforeTotal ==
    ASSUME NEW n \in Nat, NEW a \in Digits(n), NEW b \in Digits(n), a # b
    PROVE  Before(a, b) \/ Before(b, a)
<1> DEFINE differ == {i \in 1 .. n : a[i] # b[i]}
           i == Least(differ)
<1>1. differ # {} /\ differ \in SUBSET Nat
  BY DEF Digits
<1>2. i \in differ /\ \A j \in differ : i <= j
  BY <1>1, LeastExists
<1>3. i \in 1 .. n /\ a[i] # b[i] /\ a[i] \in Nat /\ b[i] \in Nat
  BY <1>2 DEF Digits
<1> HIDE DEF i
<1>4. \A j \in 1 .. i - 1 : a[j] = b[j]
  BY <1>2, <1>3
<1>5. DOMAIN a = 1 .. n /\ DOMAIN b = 1 .. n
  BY DEF Digits
<1>6. CASE a[i] < b[i]
  BY <1>3, <1>4, <1>5, <1>6 DEF Before
<1>7. CASE b[i] < a[i]
  BY <1>3, <1>4, <1>5, <1>7 DEF Before
<1> QED BY <1>3, <1>6, <1>7

\* A finite set of versions or floors has a greatest one.
LEMMA GreatestExists ==
    ASSUME NEW n \in Nat, NEW T \in SUBSET Digits(n), IsFiniteSet(T), T # {}
    PROVE  \E g \in T : \A d \in T : AtMost(d, g)
<1> DEFINE above(d) == {e \in T : Before(d, e)}
           counts == {Cardinality(above(d)) : d \in T}
<1>1. \A d \in T : IsFiniteSet(above(d)) /\ Cardinality(above(d)) \in Nat
  <2> TAKE d \in T
  <2>1. IsFiniteSet(above(d))
    BY FS_Subset
  <2> QED BY <2>1, FS_CardinalityType
<1>2. counts \in SUBSET Nat /\ counts # {}
  BY <1>1
<1>3. Least(counts) \in counts /\ \A k \in counts : Least(counts) <= k
  <2> HIDE DEF counts
  <2> QED BY <1>2, LeastExists
<1>4. PICK g \in T : Least(counts) = Cardinality(above(g))
  BY <1>3
<1>5. ASSUME NEW d \in T, Before(g, d) PROVE FALSE
  <2>1. d \in above(g) /\ d \notin above(d) /\ above(d) \subseteq above(g)
    BY <1>5, BeforeStrict, BeforeTransitive
  <2>2. Cardinality(above(d)) <= Cardinality(above(g)) /\ Cardinality(above(d)) # Cardinality(above(g))
    <3> HIDE DEF above
    <3> QED BY <1>1, <2>1, FS_Subset
  <2>3. Cardinality(above(g)) <= Cardinality(above(d))
    BY <1>3, <1>4
  <2> HIDE DEF above
  <2> QED BY <1>1, <2>2, <2>3
<1>6. ASSUME NEW d \in T PROVE AtMost(d, g)
  BY <1>5, <1>6, BeforeTotal DEF AtMost
<1> QED BY <1>6

\* The first check that holds gives the reason.
LEMMA FirstReasonIs ==
    ASSUME NEW n \in Nat, NEW checks, DOMAIN checks = 1 .. n
    PROVE  \/ (\A i \in 1 .. n : ~checks[i][1]) /\ FirstReason(checks) = "none"
           \/ \E i \in 1 .. n : /\ checks[i][1] /\ FirstReason(checks) = checks[i][2]
                                /\ \A j \in 1 .. i - 1 : ~checks[j][1]
<1> DEFINE holds == {i \in DOMAIN checks : checks[i][1]}
<1>1. FirstReason(checks) = IF holds = {} THEN "none" ELSE checks[Least(holds)][2]
  BY DEF FirstReason
<1>2. CASE holds = {}
  BY <1>1, <1>2
<1>3. CASE holds # {}
  <2>1. Least(holds) \in holds /\ \A j \in holds : Least(holds) <= j
    <3>1. holds \in SUBSET Nat
      OBVIOUS
    <3> HIDE DEF holds
    <3> QED BY <1>3, <3>1, LeastExists
  <2> DEFINE i == Least(holds)
  <2>2. i \in 1 .. n /\ checks[i][1] /\ FirstReason(checks) = checks[i][2]
    BY <1>1, <1>3, <2>1
  <2> HIDE DEF i
  <2>3. ASSUME NEW j \in 1 .. i - 1, checks[j][1] PROVE FALSE
    <3>1. j \in 1 .. n /\ ~(i <= j)
      BY <2>2
    <3>2. j \in holds
      BY <2>3, <3>1
    <3> QED BY <2>1, <3>1, <3>2 DEF i
  <2> QED BY <2>2, <2>3
<1> QED BY <1>2, <1>3

\* runtime_meets passes only the runtime of the host's platform.
LEMMA RuntimeIs ==
    ASSUME input \in SelectionInput
    PROVE  /\ Runtime(input) \in {"none", "UnknownRuntime", "UnsupportedRuntime"}
           /\ Runtime(input) = "none" => input.runtime.kind = input.os
<1> DEFINE checks == << <<input.runtime.kind = "unknown", "UnknownRuntime">>,
                        <<input.runtime.kind # input.os, "UnsupportedRuntime">>,
                        <<input.runtime.kind = "windows" /\ input.runtime.numbers[3] \notin {1, 2},
                          "UnknownRuntime">> >>
<1>1. DOMAIN checks = 1 .. 3
  OBVIOUS
<1>3. checks[1][2] = "UnknownRuntime"
  OBVIOUS
<1>4. checks[2][2] = "UnsupportedRuntime"
  OBVIOUS
<1>5. checks[3][2] = "UnknownRuntime"
  OBVIOUS
<1>6. checks[2][1] = (input.runtime.kind # input.os)
  OBVIOUS
<1>2. Runtime(input) = FirstReason(checks)
  BY DEF Runtime
<1> HIDE DEF checks
<1>7. 3 \in Nat
  OBVIOUS
<1>8. CASE \A i \in 1 .. 3 : ~checks[i][1] /\ FirstReason(checks) = "none"
  <2>1. ~checks[2][1] /\ FirstReason(checks) = "none"
    BY <1>8
  <2>2. ~(input.runtime.kind # input.os)
    BY <1>6, <2>1, Zenon
  <2> QED BY <1>2, <2>1, <2>2
<1>9. CASE \E i \in 1 .. 3 : checks[i][1] /\ FirstReason(checks) = checks[i][2]
  BY <1>2, <1>3, <1>4, <1>5, <1>9
<1> QED BY <1>1, <1>7, <1>8, <1>9, FirstReasonIs

\* What the values of a sequence are made into is a finite set.
LEMMA ImageFinite ==
    ASSUME NEW n \in Nat, NEW f, f = [i \in 1 .. n |-> f[i]]
    PROVE  IsFiniteSet({f[i] : i \in 1 .. n})
<1> DEFINE T == {f[i] : i \in 1 .. n}
<1>1. f \in Surjection(1 .. n, T)
  BY DEF Surjection
<1>2. IsFiniteSet(1 .. n)
  BY FS_Interval
<1> HIDE DEF T
<1> QED BY <1>1, <1>2, FS_Surjection DEF T

Valid(m) == m \in ReleaseManifest /\ ParseManifest(m)
Defects == {"ConflictingAssetIdentity", "AmbiguousAsset", "AmbiguousCompatibility",
            "MalformedRuntimeRequirement"}
Depth(os) == IF os = "windows" THEN 3 ELSE 2

\* An accepted floor can be read, and its numbers say everything about it.
LEMMA FloorIsRead ==
    ASSUME NEW m, Valid(m), NEW i \in DOMAIN m.assets
    PROVE  LET a == m.assets[i] IN
           /\ a \in ReleaseAsset /\ ParsesMinimum(a) /\ Numbers(a.minimum) \in Digits(Depth(a.os))
           /\ \A k \in DOMAIN a.minimum.tokens : ~a.minimum.tokens[k].leadingZero
           /\ Len(a.minimum.tokens) = Depth(a.os)
           /\ a.minimum.prefix = IF a.os = "windows" THEN "windows" ELSE "glibc"
           /\ a.format = IF a.os = "windows" THEN "zip" ELSE "tar-gz"
<1> DEFINE a == m.assets[i]
<1>1. a \in ReleaseAsset /\ ValidAsset(a)
  <2>1. m.assets \in Seq(ReleaseAsset)
    BY DEF Valid, ReleaseManifest
  <2>2. ValidAsset(a)
    BY DEF Valid, ParseManifest
  <2> QED BY <2>1, <2>2
<1> HIDE DEF a
<1>2. ParsesMinimum(a) /\ a.os \in {"linux", "windows"}
  BY <1>1 DEF ValidAsset, ReleaseAsset, TargetOperatingSystem
<1>3. /\ a.minimum.tokens \in Seq(Token)
      /\ \A k \in DOMAIN a.minimum.tokens : ~a.minimum.tokens[k].leadingZero
  BY <1>1, <1>2 DEF ReleaseAsset, ParsesMinimum, Decimal
<1>4. /\ Len(a.minimum.tokens) = Depth(a.os)
      /\ a.minimum.prefix = IF a.os = "windows" THEN "windows" ELSE "glibc"
  BY <1>2 DEF ParsesMinimum, Depth
<1>5. a.format = IF a.os = "windows" THEN "zip" ELSE "tar-gz"
  BY <1>1 DEF ValidAsset
<1>6. Numbers(a.minimum) \in Digits(Depth(a.os))
  <2> DEFINE s == a.minimum.tokens
  <2>1. Numbers(a.minimum) = [k \in DOMAIN s |-> s[k].value]
    BY DEF Numbers
  <2>2. s \in Seq(Token) /\ Len(s) = Depth(a.os)
    BY <1>3, <1>4
  <2> HIDE DEF s
  <2>3. DOMAIN s = 1 .. Depth(a.os) /\ \A k \in DOMAIN s : s[k] \in Token
    BY <2>2
  <2> QED BY <2>1, <2>3 DEF Digits, Token
<1> QED BY <1>1, <1>2, <1>3, <1>4, <1>5, <1>6 DEF a

\* Two accepted assets for one machine have different floors.
LEMMA FloorIdentifies ==
    ASSUME NEW m, Valid(m), NEW i \in DOMAIN m.assets, NEW j \in DOMAIN m.assets,
           m.assets[i].os = m.assets[j].os, m.assets[i].arch = m.assets[j].arch,
           Numbers(m.assets[i].minimum) = Numbers(m.assets[j].minimum)
    PROVE  i = j
<1> DEFINE a == m.assets[i]
           b == m.assets[j]
           s == a.minimum.tokens
           t == b.minimum.tokens
<1>1. /\ a \in ReleaseAsset /\ b \in ReleaseAsset
      /\ Len(s) = Len(t) /\ a.minimum.prefix = b.minimum.prefix /\ a.format = b.format
      /\ \A k \in DOMAIN s : ~s[k].leadingZero
      /\ \A k \in DOMAIN t : ~t[k].leadingZero
  BY FloorIsRead
<1>2. Numbers(a.minimum) = Numbers(b.minimum) /\ a.os = b.os /\ a.arch = b.arch
  OBVIOUS
<1>3. AssetIdentity(a) = AssetIdentity(b) => i = j
  <2> DEFINE assets == m.assets
             keys == [k \in DOMAIN assets |-> AssetIdentity(assets[k])]
  <2>1. Distinct(keys)
    BY DEF Valid, ParseManifest, DistinctAssets
  <2>2. keys[i] = AssetIdentity(a) /\ keys[j] = AssetIdentity(b) /\ i \in DOMAIN keys /\ j \in DOMAIN keys
    OBVIOUS
  <2> HIDE DEF keys
  <2> QED BY <2>1, <2>2 DEF Distinct
<1> HIDE DEF a, b
<1>4. /\ a.minimum \in [prefix : STRING, tokens : Seq(Token)]
      /\ b.minimum \in [prefix : STRING, tokens : Seq(Token)]
  BY <1>1 DEF ReleaseAsset
<1>5. s = t
  <2>1. /\ s \in Seq(Token)
        /\ t \in Seq(Token)
    BY <1>4
  <2>2. [k \in DOMAIN s |-> s[k].value] = [k \in DOMAIN t |-> t[k].value]
    BY <1>2 DEF Numbers
  <2> HIDE DEF s, t
  <2>3. DOMAIN s = DOMAIN t /\ DOMAIN s = 1 .. Len(s)
    BY <1>1, <2>1
  <2>4. ASSUME NEW k \in DOMAIN s PROVE s[k] = t[k]
    <3>1. s[k].value = t[k].value
      BY <2>2, <2>3
    <3>2. s[k].leadingZero = FALSE /\ t[k].leadingZero = FALSE
      BY <1>1, <2>1, <2>3
    <3>3. s[k] \in Token /\ t[k] \in Token
      <4>1. k \in DOMAIN t
        BY <2>3
      <4>2. s[k] \in Token
        BY <2>1
      <4>3. t[k] \in Token
        BY <2>1, <4>1
      <4> QED BY <4>2, <4>3
    <3> QED BY <3>1, <3>2, <3>3 DEF Token
  <2> QED BY <1>1, <2>1, <2>3, <2>4
<1>6. a.minimum = b.minimum
  BY <1>1, <1>4, <1>5
<1>7. AssetIdentity(a) = AssetIdentity(b)
  BY <1>1, <1>2, <1>6 DEF AssetIdentity
<1> QED BY <1>3, <1>7

\* select_asset: the most demanding floor the host meets, if there is one.
LEMMA AssetIsBest ==
    ASSUME NEW m, Valid(m), input \in SelectionInput
    PROVE  \/ /\ Runtime(input) = "none"
              /\ \E x \in Fits(m) :
                    /\ SelectAsset(m, input) = [Nothing EXCEPT !.found = TRUE, !.minimum = x]
                    /\ \A n \in Fits(m) : AtMost(n, x)
           \/ /\ Runtime(input) # "none" \/ Fits(m) = {}
              /\ \E reason : /\ reason \notin Defects
                             /\ SelectAsset(m, input) = Because(reason)
<1> DEFINE platform == {a \in Elements(m.assets) : a.os = input.os}
           machine  == {a \in platform : a.arch = input.arch}
           parsed   == {a \in machine : ParsesMinimum(a)}
           fits     == {a \in parsed : Meets(input, a)}
           checks   == << <<platform = {}, "UnsupportedPlatform">>,
                          <<machine = {}, "UnsupportedArchitecture">>,
                          <<parsed # {} /\ Runtime(input) # "none", Runtime(input)>>,
                          <<fits = {} /\ parsed # machine, "MalformedRuntimeRequirement">>,
                          <<fits = {}, "RuntimeBelowMinimum">>,
                          <<Cardinality(Highest(fits)) > 1, "AmbiguousAsset">> >>
           reason   == FirstReason(checks)
           floors   == {Numbers(a.minimum) : a \in Highest(fits)}
<1>1. SelectAsset(m, input) =
        IF reason # "none" THEN Because(reason)
        ELSE [Nothing EXCEPT !.found = TRUE, !.minimum = CHOOSE x \in floors : TRUE]
  BY DEF SelectAsset
<1>2. \A a \in machine : ParsesMinimum(a) /\ Numbers(a.minimum) \in Digits(Depth(input.os))
  BY FloorIsRead DEF Elements
<1>3. parsed = machine
  BY <1>2
<1>4. \A a, b \in machine : Numbers(a.minimum) = Numbers(b.minimum) => a = b
  BY FloorIdentifies DEF Elements
<1>5. Runtime(input) = "none" => Fits(m) = {Numbers(a.minimum) : a \in fits}
  BY <1>3 DEF Fits, Meets
<1>6. Runtime(input) # "none" => fits = {}
  BY DEF Meets
<1>7. fits \subseteq machine
  OBVIOUS
<1>8. IsFiniteSet({Numbers(a.minimum) : a \in fits})
  <2> DEFINE f == [i \in 1 .. Len(m.assets) |-> Numbers(m.assets[i].minimum)]
             all == {f[i] : i \in 1 .. Len(m.assets)}
  <2>1. m.assets \in Seq(ReleaseAsset)
    BY DEF Valid, ReleaseManifest
  <2>2. Len(m.assets) \in Nat /\ DOMAIN m.assets = 1 .. Len(m.assets)
    BY <2>1
  <2>3. IsFiniteSet(all)
    <3>1. f = [i \in 1 .. Len(m.assets) |-> f[i]]
      OBVIOUS
    <3> HIDE DEF f
    <3> QED BY <2>2, <3>1, ImageFinite
  <2>4. {Numbers(a.minimum) : a \in fits} \subseteq all
    BY <2>2 DEF Elements
  <2> HIDE DEF all, fits
  <2> QED BY <2>3, <2>4, FS_Subset
<1>9. ASSUME fits # {}
      PROVE  \E a \in fits : Highest(fits) = {a} /\ \A b \in fits : AtMost(Numbers(b.minimum), Numbers(a.minimum))
  <2> DEFINE T == {Numbers(a.minimum) : a \in fits}
  <2>1. T # {} /\ T \in SUBSET Digits(Depth(input.os)) /\ Depth(input.os) \in Nat
    BY <1>2, <1>7, <1>9 DEF Depth
  <2>2. PICK g \in T : \A d \in T : AtMost(d, g)
    <3> HIDE DEF T
    <3> QED BY <1>8, <2>1, GreatestExists DEF T
  <2>3. PICK a \in fits : g = Numbers(a.minimum)
    BY <2>2
  <2>4. \A b \in fits : AtMost(Numbers(b.minimum), Numbers(a.minimum))
    BY <2>2, <2>3
  <2>5. ASSUME NEW b \in Highest(fits) PROVE b = a
    <3>1. b \in fits /\ AtMost(Numbers(a.minimum), Numbers(b.minimum))
      BY <2>5 DEF Highest
    <3>2. AtMost(Numbers(b.minimum), Numbers(a.minimum))
      BY <2>4, <3>1
    <3>3. a \in machine /\ b \in machine
      BY <3>1, <1>7
    <3>4. Numbers(a.minimum) \in Digits(Depth(input.os)) /\ Numbers(b.minimum) \in Digits(Depth(input.os))
      BY <1>2, <3>3
    <3>5. Numbers(a.minimum) = Numbers(b.minimum)
      BY <2>1, <3>1, <3>2, <3>4, BeforeStrict DEF AtMost
    <3> QED BY <1>4, <3>3, <3>5
  <2>6. a \in Highest(fits)
    BY <2>4 DEF Highest
  <2> QED BY <2>4, <2>5, <2>6
<1>10. /\ DOMAIN checks = 1 .. 6 /\ 6 \in Nat
  OBVIOUS
<1>11. /\ checks[1][2] = "UnsupportedPlatform" /\ checks[2][2] = "UnsupportedArchitecture"
       /\ checks[3][2] = Runtime(input) /\ checks[5][2] = "RuntimeBelowMinimum"
  OBVIOUS
<1>12. checks[4][1] = (fits = {} /\ parsed # machine)
  OBVIOUS
<1>13. checks[6][1] = (Cardinality(Highest(fits)) > 1)
  OBVIOUS
<1>14. checks[5][1] = (fits = {})
  OBVIOUS
<1>15. checks[1][1] = (platform = {}) /\ checks[2][1] = (machine = {})
  OBVIOUS
<1>16. checks[3][1] = (parsed # {} /\ Runtime(input) # "none")
  OBVIOUS
<1> HIDE DEF checks
<1>17. CASE fits = {}
  <2>1. checks[5][1] /\ ~checks[4][1]
    BY <1>3, <1>12, <1>14, <1>17, Zenon
  <2>2. PICK i \in 1 .. 6 : /\ checks[i][1] /\ FirstReason(checks) = checks[i][2]
                            /\ \A j \in 1 .. i - 1 : ~checks[j][1]
    <3>1. \/ \A i \in 1 .. 6 : ~checks[i][1]
          \/ \E i \in 1 .. 6 : /\ checks[i][1] /\ FirstReason(checks) = checks[i][2]
                               /\ \A j \in 1 .. i - 1 : ~checks[j][1]
      BY <1>10, FirstReasonIs
    <3>2. ~\A i \in 1 .. 6 : ~checks[i][1]
      BY <2>1
    <3> QED BY <3>1, <3>2, Zenon
  <2>3. i # 4 /\ i # 6
    BY <2>1, <2>2
  <2>4. i = 3 => Runtime(input) # "none"
    BY <1>16, <2>2, Zenon
  <2>5. reason # "none" /\ reason \notin Defects
    <3>1. i \in {1, 2, 3, 5}
      BY <2>3
    <3>2. reason \in {"UnsupportedPlatform", "UnsupportedArchitecture", "RuntimeBelowMinimum", Runtime(input)}
      BY <1>11, <2>2, <3>1
    <3>3. reason = Runtime(input) => reason # "none" \/ i # 3
      BY <2>4
    <3> HIDE DEF reason
    <3> QED BY <1>11, <2>2, <2>4, <3>1, <3>2, RuntimeIs DEF Defects, reason
  <2>6. Runtime(input) # "none" \/ Fits(m) = {}
    BY <1>5, <1>17
  <2>7. SelectAsset(m, input) = Because(reason)
    BY <1>1, <2>5
  <2> HIDE DEF reason
  <2> QED BY <2>5, <2>6, <2>7
<1>18. CASE fits # {}
  <2>1. PICK a \in fits : Highest(fits) = {a} /\ \A b \in fits : AtMost(Numbers(b.minimum), Numbers(a.minimum))
    BY <1>9, <1>18
  <2>2. Runtime(input) = "none"
    BY <1>6, <1>18
  <2>3. ~(Cardinality(Highest(fits)) > 1)
    <3>1. Cardinality({a}) = 1
      BY FS_Singleton
    <3> QED BY <2>1, <3>1
  <2>4. platform # {} /\ machine # {}
    BY <1>18
  <2>5. ~checks[1][1] /\ ~checks[2][1]
    BY <1>15, <2>4, Zenon
  <2>6. ~checks[3][1]
    BY <1>16, <2>2, Zenon
  <2>7. ~checks[4][1] /\ ~checks[5][1]
    BY <1>12, <1>14, <1>18, Zenon
  <2>8. ~checks[6][1]
    BY <1>13, <2>3, Zenon
  <2>9. \A i \in 1 .. 6 : ~checks[i][1]
    BY <2>5, <2>6, <2>7, <2>8
  <2>10. reason = "none"
    BY <1>10, <2>9, FirstReasonIs
  <2>11. floors = {Numbers(a.minimum)}
    BY <2>1
  <2>12. (CHOOSE x \in floors : TRUE) = Numbers(a.minimum)
    BY <2>11, Zenon
  <2>13. SelectAsset(m, input) = [Nothing EXCEPT !.found = TRUE, !.minimum = Numbers(a.minimum)]
    BY <1>1, <2>10, <2>12
  <2>14. Fits(m) = {Numbers(b.minimum) : b \in fits}
    BY <1>5, <2>2
  <2>15. Numbers(a.minimum) \in Fits(m) /\ \A n \in Fits(m) : AtMost(n, Numbers(a.minimum))
    BY <2>1, <2>14
  <2> QED BY <2>2, <2>13, <2>15
<1> QED BY <1>17, <1>18

\* select_compatibility: the verdict of the only record for the host.
LEMMA VerdictIsSingle ==
    ASSUME NEW m, Valid(m), input \in SelectionInput
    PROVE  LET r == SelectCompatibility(m, input)
               admitted == {{"reviewed"}} \cup
                   (IF input.mode = "automatic" THEN {{"experimental"}} ELSE {})
           IN  \/ /\ Verdicts(m) \in admitted
                  /\ \E s : /\ Verdicts(m) = {s}
                            /\ r = [Nothing EXCEPT !.found = TRUE, !.status = s]
               \/ /\ Verdicts(m) \notin admitted
                  /\ \E reason : reason \notin Defects /\ r = Because(reason)
<1> DEFINE recs == m.records
           matching == {i \in DOMAIN recs : Matches(recs[i].tuple, input)}
           status == {recs[i].status : i \in matching}
           checks == << <<"excluded" \in status, "CompatibilityExcluded">>,
                        <<matching = {}, "CompatibilityUnavailable">>,
                        <<Cardinality(matching) > 1, "AmbiguousCompatibility">>,
                        <<status = {"experimental"} /\ input.mode # "automatic",
                          "StrictRequiresReviewed">> >>
           reason == FirstReason(checks)
           admitted == {{"reviewed"}} \cup
                   (IF input.mode = "automatic" THEN {{"experimental"}} ELSE {})
<1>1. SelectCompatibility(m, input) =
        IF reason # "none" THEN Because(reason)
        ELSE [Nothing EXCEPT !.found = TRUE, !.status = CHOOSE s \in status : TRUE]
  BY DEF SelectCompatibility
<1>2. recs \in Seq(CompatibilityRecord)
  BY DEF Valid, ReleaseManifest
<1>3. Verdicts(m) = status
  BY DEF Verdicts, Elements
<1>4. \A i, j \in matching : i = j
  <2> DEFINE keys == [i \in DOMAIN recs |-> recs[i].tuple]
  <2>1. Distinct(keys)
    BY DEF Valid, ParseManifest, DistinctRecords
  <2>2. \A i \in DOMAIN recs : recs[i] \in CompatibilityRecord
    BY <1>2
  <2> SUFFICES ASSUME NEW i \in matching, NEW j \in matching PROVE i = j
    OBVIOUS
  <2>3. recs[i].tuple.hook = "known" /\ recs[j].tuple.hook = "known"
    BY DEF Valid, ParseManifest, ValidRecord
  <2>4. recs[i].tuple = recs[j].tuple
    BY <2>2, <2>3 DEF Matches, CompatibilityRecord
  <2> QED BY <2>1, <2>4 DEF Distinct
<1>5. matching = {} \/ \E i \in DOMAIN recs : matching = {i} /\ status = {recs[i].status}
  BY <1>4
<1>6. status \in SUBSET {"reviewed", "experimental", "excluded"}
  <2>1. \A i \in DOMAIN recs : recs[i] \in CompatibilityRecord
    BY <1>2
  <2> QED BY <2>1 DEF CompatibilityRecord
<1>7. ~(Cardinality(matching) > 1)
  <2> HIDE DEF matching, status
  <2>1. CASE matching = {}
    <3>1. Cardinality(matching) = 0
      BY <2>1, FS_EmptySet
    <3> QED BY <3>1
  <2>2. CASE \E i \in DOMAIN recs : matching = {i}
    <3>1. PICK i \in DOMAIN recs : matching = {i}
      BY <2>2
    <3>2. Cardinality(matching) = 1
      BY <3>1, FS_Singleton
    <3> QED BY <3>2
  <2> QED BY <1>5, <2>1, <2>2
<1>8. /\ DOMAIN checks = 1 .. 4 /\ 4 \in Nat
  OBVIOUS
<1>9. /\ checks[1][2] = "CompatibilityExcluded" /\ checks[2][2] = "CompatibilityUnavailable"
      /\ checks[4][2] = "StrictRequiresReviewed"
  OBVIOUS
<1>10. checks[1][1] = ("excluded" \in status)
  OBVIOUS
<1>11. checks[2][1] = (matching = {})
  OBVIOUS
<1>12. checks[3][1] = (Cardinality(matching) > 1)
  OBVIOUS
<1>13. checks[4][1] = (status = {"experimental"} /\ input.mode # "automatic")
  OBVIOUS
<1>14. matching = {} <=> status = {}
  OBVIOUS
<1> HIDE DEF checks
<1>15. \/ (\A i \in 1 .. 4 : ~checks[i][1]) /\ reason = "none"
       \/ \E i \in 1 .. 4 : checks[i][1] /\ reason = checks[i][2]
  BY <1>8, FirstReasonIs
<1>16. ~checks[3][1]
  BY <1>7, <1>12, Zenon
<1> HIDE DEF reason
<1>17. CASE \A i \in 1 .. 4 : ~checks[i][1] /\ reason = "none"
  <2>1. ~checks[1][1] /\ ~checks[2][1] /\ ~checks[4][1]
    BY <1>17
  <2>2. "excluded" \notin status /\ matching # {} /\ ~(status = {"experimental"} /\ input.mode # "automatic")
    BY <1>10, <1>11, <1>13, <2>1, Zenon
  <2>3. PICK s \in {"reviewed", "experimental"} : status = {s}
    <3> HIDE DEF matching, status
    <3> QED BY <1>5, <1>6, <2>2
  <2>4. (CHOOSE x \in status : TRUE) = s
    BY <2>3, Zenon
  <2> HIDE DEF matching, status
  <2>5. reason = "none"
    BY <1>17
  <2>6. SelectCompatibility(m, input) = [Nothing EXCEPT !.found = TRUE, !.status = s]
    BY <1>1, <2>4, <2>5
  <2>7. status \in admitted
    BY <2>2, <2>3
  <2> HIDE DEF admitted
  <2> QED BY <1>3, <2>3, <2>6, <2>7 DEF admitted
<1>18. CASE \E i \in 1 .. 4 : checks[i][1] /\ reason = checks[i][2]
  <2>1. PICK i \in 1 .. 4 : checks[i][1] /\ reason = checks[i][2]
    BY <1>18
  <2>2. i \in {1, 2, 4}
    BY <1>16, <2>1
  <2>3. reason \in {"CompatibilityExcluded", "CompatibilityUnavailable", "StrictRequiresReviewed"}
    BY <1>9, <2>1, <2>2
  <2>4. checks[1][1] \/ checks[2][1] \/ checks[4][1]
    BY <2>1, <2>2
  <2>5. "excluded" \in status \/ matching = {} \/ (status = {"experimental"} /\ input.mode # "automatic")
    BY <1>10, <1>11, <1>13, <2>4, Zenon
  <2> HIDE DEF matching, status
  <2>6. status \notin admitted
    BY <1>14, <2>5
  <2>7. SelectCompatibility(m, input) = Because(reason) /\ reason \notin Defects
    BY <1>1, <2>3 DEF Defects
  <2> HIDE DEF admitted
  <2> QED BY <1>3, <2>6, <2>7 DEF admitted
<1> QED BY <1>15, <1>17, <1>18

\* What makes one release applicable: Applicable without the catalog.
Suits(m) ==
    /\ Before(input.installed, m.version) /\ Runtime(input) = "none" /\ Fits(m) # {}
    /\ Verdicts(m) \in {{"reviewed"}} \cup
         (IF input.mode = "automatic" THEN {{"experimental"}} ELSE {})

\* What is offered of a release.
Offers(m, r) ==
    /\ r.found /\ r.reason = "none" /\ r.release = m.version /\ Verdicts(m) = {r.status}
    /\ r.minimum \in Fits(m) /\ \A n \in Fits(m) : AtMost(n, r.minimum)

\* Whatever check comes first, a candidate is found if and only if it suits.
LEMMA CandidateIs ==
    ASSUME NEW m, Valid(m), input \in SelectionInput
    PROVE  \/ Suits(m) /\ Offers(m, Candidate(m, input))
           \/ /\ ~Suits(m)
              /\ \E reason : reason \notin Defects /\ Candidate(m, input) = Because(reason)
<1> DEFINE asset == SelectAsset(m, input)
           compatibility == SelectCompatibility(m, input)
<1>1. Candidate(m, input) =
        IF AtMost(m.version, input.installed) THEN Because("NotNewerThanInstalled")
        ELSE IF ~asset.found THEN asset
        ELSE IF ~compatibility.found THEN compatibility
        ELSE [asset EXCEPT !.release = m.version, !.status = compatibility.status]
  BY DEF Candidate
<1>2. m.version \in Digits(3) /\ input.installed \in Digits(3)
  BY DEF Valid, ReleaseManifest, SelectionInput, StableVersion, Digits
<1>3. AtMost(m.version, input.installed) <=> ~Before(input.installed, m.version)
  BY <1>2, BeforeStrict, BeforeTotal DEF AtMost
<1>4. CASE AtMost(m.version, input.installed)
  BY <1>1, <1>3, <1>4 DEF Suits, Defects
<1>5. CASE ~AtMost(m.version, input.installed) /\ ~(Runtime(input) = "none" /\ Fits(m) # {})
  <2>1. PICK reason : reason \notin Defects /\ asset = Because(reason)
    BY <1>5, AssetIsBest
  <2>2. ~asset.found
    BY <2>1 DEF Because, Nothing
  <2> HIDE DEF asset
  <2> QED BY <1>1, <1>5, <2>1, <2>2 DEF Suits
<1>6. CASE ~AtMost(m.version, input.installed) /\ Runtime(input) = "none" /\ Fits(m) # {}
  <2>1. PICK x \in Fits(m) : /\ asset = [Nothing EXCEPT !.found = TRUE, !.minimum = x]
                             /\ \A n \in Fits(m) : AtMost(n, x)
    BY <1>6, AssetIsBest
  <2>2. asset = [found |-> TRUE, reason |-> "none", reasons |-> {}, release |-> <<>>,
                 minimum |-> x, status |-> "none"]
    BY <2>1 DEF Nothing
  <2> HIDE DEF asset
  <2>3. CASE Suits(m)
    <3>1. PICK s : Verdicts(m) = {s} /\ compatibility = [Nothing EXCEPT !.found = TRUE, !.status = s]
      BY <2>3, VerdictIsSingle DEF Suits
    <3>2. compatibility.found /\ compatibility.status = s
      BY <3>1 DEF Nothing
    <3> HIDE DEF compatibility
    <3>3. Candidate(m, input) =
            [found |-> TRUE, reason |-> "none", reasons |-> {}, release |-> m.version,
             minimum |-> x, status |-> s]
      BY <1>1, <1>6, <2>2, <3>2
    <3> QED BY <2>1, <2>3, <3>1, <3>3 DEF Offers
  <2>4. CASE ~Suits(m)
    <3>1. PICK reason : reason \notin Defects /\ compatibility = Because(reason)
      BY <1>3, <1>6, <2>4, VerdictIsSingle DEF Suits
    <3>2. ~compatibility.found
      BY <3>1 DEF Because, Nothing
    <3> HIDE DEF compatibility
    <3> QED BY <1>1, <1>6, <2>2, <2>4, <3>1, <3>2
  <2> QED BY <2>3, <2>4
<1> QED BY <1>4, <1>5, <1>6

\* What the parser accepted is not ambiguous to the selector.
LEMMA AcceptedIsUnambiguous ==
    ASSUME NEW m, Valid(m)
    PROVE  ManifestAmbiguity(m) = "none"
<1> DEFINE assets == m.assets
           names == [i \in DOMAIN assets |-> assets[i].name]
           parser == [i \in DOMAIN assets |-> AssetIdentity(assets[i])]
           selector == [i \in DOMAIN assets |-> <<AssetIdentity(assets[i]), assets[i].libc>>]
           checks == << <<~(Distinct(names) /\ Distinct(selector)), "ConflictingAssetIdentity">>,
                        <<~DistinctRecords(m), "AmbiguousCompatibility">> >>
<1>1. Distinct(names) /\ Distinct(parser) /\ DistinctRecords(m)
  BY DEF Valid, ParseManifest, DistinctAssets
<1>2. Distinct(selector)
  <2> SUFFICES ASSUME NEW i \in DOMAIN assets, NEW j \in DOMAIN assets, selector[i] = selector[j]
               PROVE  i = j
    BY DEF Distinct
  <2>1. parser[i] = parser[j]
    OBVIOUS
  <2>2. i \in DOMAIN parser /\ j \in DOMAIN parser
    OBVIOUS
  <2> HIDE DEF parser
  <2> QED BY <1>1, <2>1, <2>2 DEF Distinct
<1>3. ManifestAmbiguity(m) = FirstReason(checks)
  BY DEF ManifestAmbiguity
<1>4. DOMAIN checks = 1 .. 2 /\ 2 \in Nat
  OBVIOUS
<1>5. checks[1][1] = ~(Distinct(names) /\ Distinct(selector))
  OBVIOUS
<1>6. checks[2][1] = ~DistinctRecords(m)
  OBVIOUS
<1> HIDE DEF checks, names, selector
<1>7. ~checks[1][1] /\ ~checks[2][1]
  BY <1>1, <1>2, <1>5, <1>6, Zenon
<1>8. \A i \in 1 .. 2 : ~checks[i][1]
  BY <1>7
<1> QED BY <1>3, <1>4, <1>8, FirstReasonIs

\* So the catalog's only defect is a version published twice.
LEMMA OnlyRepeated ==
    ASSUME NEW ms \in Seq(ReleaseManifest), \A i \in DOMAIN ms : Valid(ms[i])
    PROVE  Ambiguity(ms) \in {"none", "DuplicateReleaseVersion"}
<1> DEFINE repeated(i) == \E j \in 1 .. i - 1 : ms[j].version = ms[i].version
           checks == [i \in DOMAIN ms |->
            <<repeated(i) \/ ManifestAmbiguity(ms[i]) # "none",
              IF repeated(i) THEN "DuplicateReleaseVersion"
                             ELSE ManifestAmbiguity(ms[i])>>]
<1>1. Ambiguity(ms) = FirstReason(checks)
  BY DEF Ambiguity
<1>2. DOMAIN checks = 1 .. Len(ms) /\ Len(ms) \in Nat /\ DOMAIN ms = 1 .. Len(ms)
  OBVIOUS
<1>3. \A i \in DOMAIN ms : ManifestAmbiguity(ms[i]) = "none"
  BY AcceptedIsUnambiguous
<1>4. \A i \in DOMAIN ms : checks[i][2] \in {"none", "DuplicateReleaseVersion"}
  BY <1>3
<1> HIDE DEF checks
<1> QED BY <1>1, <1>2, <1>4, FirstReasonIs

Catalog == catalog \in Seq(ReleaseManifest) /\ \A i \in DOMAIN catalog : Valid(catalog[i])

\* select_applicable on any catalog of accepted manifests.
LEMMA SelectsBest ==
    ASSUME Catalog, input \in SelectionInput, outcome = SelectApplicable(catalog, input)
    PROVE  SelectionIsBest /\ ValidatedIsUnambiguous
<1> DEFINE results == [i \in DOMAIN catalog |-> Candidate(catalog[i], input)]
<1>1. outcome =
        IF catalog = <<>> THEN Because("EmptyCatalog")
        ELSE IF Ambiguity(catalog) # "none" THEN Because(Ambiguity(catalog))
        ELSE IF Selected(results) = {}
        THEN [Because("NoApplicable") EXCEPT !.reasons = {r.reason : r \in Elements(results)}]
        ELSE Newest(results)
  BY DEF SelectApplicable
<1>2. Applicable = {m \in Elements(catalog) : Suits(m)}
  BY DEF Applicable, Suits
<1>3. Len(catalog) \in Nat /\ DOMAIN catalog = 1 .. Len(catalog) /\ DOMAIN results = DOMAIN catalog
  BY DEF Catalog
<1>4. \A i \in DOMAIN catalog :
        \/ Suits(catalog[i]) /\ Offers(catalog[i], results[i])
        \/ ~Suits(catalog[i]) /\ \E reason : reason \notin Defects /\ results[i] = Because(reason)
  BY CandidateIs DEF Catalog
<1>5. results = [i \in 1 .. Len(catalog) |-> results[i]]
  BY <1>3
<1> HIDE DEF results
<1>6. \A i \in DOMAIN catalog : results[i].found <=> Suits(catalog[i])
  BY <1>4 DEF Offers, Because, Nothing
<1>7. Applicable = {} <=> Selected(results) = {}
  BY <1>2, <1>3, <1>6 DEF Elements, Selected
<1>8. CASE catalog = <<>>
  <2>1. outcome.found = FALSE /\ outcome.reason = "EmptyCatalog"
    BY <1>1, <1>8 DEF Because, Nothing
  <2>2. Applicable = {}
    BY <1>2, <1>8 DEF Elements
  <2> QED BY <2>1, <2>2 DEF SelectionIsBest, ValidatedIsUnambiguous
<1>9. CASE catalog # <<>> /\ Ambiguity(catalog) # "none"
  <2>1. outcome = Because("DuplicateReleaseVersion")
    BY <1>1, <1>9, OnlyRepeated DEF Catalog
  <2>2. outcome.reason = "DuplicateReleaseVersion"
    BY <2>1 DEF Because, Nothing
  <2> QED BY <2>2 DEF SelectionIsBest, ValidatedIsUnambiguous
<1>10. CASE catalog # <<>> /\ Ambiguity(catalog) = "none" /\ Selected(results) = {}
  <2> DEFINE reasons == {r.reason : r \in Elements(results)}
  <2>1. outcome = [Because("NoApplicable") EXCEPT !.reasons = reasons]
    BY <1>1, <1>10
  <2>2. outcome.found = FALSE /\ outcome.reason = "NoApplicable" /\ outcome.reasons = reasons
    <3> HIDE DEF reasons
    <3> QED BY <2>1 DEF Because, Nothing
  <2>3. ASSUME NEW i \in DOMAIN catalog PROVE results[i].reason \notin Defects
    <3>1. ~Suits(catalog[i])
      BY <1>3, <1>6, <1>10 DEF Selected, Elements
    <3> QED BY <1>4, <3>1 DEF Because, Nothing
  <2>4. reasons \cap Defects = {}
    BY <1>3, <2>3 DEF Elements
  <2>5. SelectionIsBest
    BY <1>7, <1>10, <2>2 DEF SelectionIsBest
  <2>6. ValidatedIsUnambiguous
    <3> HIDE DEF reasons
    <3> QED BY <2>2, <2>4 DEF ValidatedIsUnambiguous, Defects
  <2> QED BY <2>5, <2>6
<1>11. CASE catalog # <<>> /\ Ambiguity(catalog) = "none" /\ Selected(results) # {}
  <2> DEFINE T == {r.release : r \in Selected(results)}
  <2>1. \A r \in Selected(results) :
          \E i \in DOMAIN catalog : r = results[i] /\ Suits(catalog[i]) /\ Offers(catalog[i], r)
    BY <1>3, <1>4, <1>6 DEF Selected, Elements
  <2>2. \A i \in DOMAIN catalog : catalog[i].version \in Digits(3)
    BY DEF Catalog, Valid, ReleaseManifest, StableVersion, Digits
  <2>3. T \in SUBSET Digits(3) /\ T # {} /\ 3 \in Nat
    BY <1>11, <2>1, <2>2 DEF Offers
  <2>4. IsFiniteSet(T)
    <3> DEFINE f == [i \in 1 .. Len(catalog) |-> results[i].release]
               all == {f[i] : i \in 1 .. Len(catalog)}
    <3>1. f = [i \in 1 .. Len(catalog) |-> f[i]]
      OBVIOUS
    <3>2. T \subseteq all
      BY <1>3, <2>1
    <3> HIDE DEF f, T
    <3>3. IsFiniteSet(all)
      BY <1>3, <3>1, ImageFinite
    <3> HIDE DEF all
    <3> QED BY <3>2, <3>3, FS_Subset
  <2>5. PICK g \in T : \A d \in T : AtMost(d, g)
    <3> HIDE DEF T
    <3> QED BY <2>3, <2>4, GreatestExists
  <2>6. \E c \in Selected(results) : \A d \in Selected(results) : AtMost(d.release, c.release)
    BY <2>5
  <2>7. outcome \in Selected(results) /\ \A d \in Selected(results) : AtMost(d.release, outcome.release)
    <3>1. outcome = CHOOSE c \in Selected(results) :
                      \A d \in Selected(results) : AtMost(d.release, c.release)
      BY <1>1, <1>11 DEF Newest
    <3> QED BY <2>6, <3>1, Zenon
  <2>8. PICK i \in DOMAIN catalog : Suits(catalog[i]) /\ Offers(catalog[i], outcome)
    BY <2>1, <2>7
  <2> DEFINE m == catalog[i]
  <2>9. m \in Applicable
    BY <1>2, <2>8 DEF Elements
  <2>10. ASSUME NEW other \in Applicable PROVE AtMost(other.version, m.version)
    <3>1. PICK k \in DOMAIN catalog : other = catalog[k] /\ Suits(catalog[k])
      BY <1>2 DEF Elements
    <3>2. results[k] \in Selected(results) /\ results[k].release = other.version
      BY <1>3, <1>4, <1>6, <3>1 DEF Selected, Elements, Offers
    <3> QED BY <2>7, <2>8, <3>2 DEF Offers
  <2>11. SelectionIsBest
    BY <2>8, <2>9, <2>10 DEF SelectionIsBest, Offers
  <2>12. ValidatedIsUnambiguous
    BY <2>8 DEF Offers, ValidatedIsUnambiguous
  <2> QED BY <2>11, <2>12
<1> QED BY <1>8, <1>9, <1>10, <1>11
-----------------------------------------------------------------------------
OfferInv ==
    /\ Catalog /\ input \in SelectionInput
    /\ outcome = Nothing \/ outcome = SelectApplicable(catalog, input)

\* Only accepted manifests are in the catalog, and an offer is the selector's
\* answer for the catalog there is (select_applicable).
THEOREM OfferSafe == OfferSpec => []OfferInv
<1>1. OfferInit => OfferInv
  BY SelectionAssumption DEF OfferInit, OfferInv, Catalog
<1>2. ASSUME OfferInv, [OfferNext]_offerVars PROVE OfferInv'
  <2>1. ASSUME NEW m \in Manifests, Publish(m) PROVE OfferInv'
    <3>1. catalog \in Seq(ReleaseManifest) /\ \A i \in DOMAIN catalog : Valid(catalog[i])
      BY <1>2 DEF OfferInv, Catalog
    <3>2. m \in ReleaseManifest /\ Valid(m) /\ catalog' = Append(catalog, m)
      BY <2>1, SelectionAssumption DEF Publish, Valid
    <3>3. catalog' \in Seq(ReleaseManifest) /\ \A i \in DOMAIN catalog' : Valid(catalog'[i])
      BY <3>1, <3>2
    <3>4. outcome' = Nothing /\ input' = input
      BY <2>1 DEF Publish
    <3> QED BY <1>2, <3>3, <3>4 DEF OfferInv, Catalog, Valid
  <2>2. CASE Select
    BY <1>2, <2>2 DEF Select, OfferInv, Catalog
  <2>3. CASE UNCHANGED offerVars
    BY <1>2, <2>3 DEF offerVars, OfferInv, Catalog
  <2> QED BY <1>2, <2>1, <2>2, <2>3 DEF OfferNext
<1> QED BY <1>1, <1>2, PTL DEF OfferSpec

LEMMA OfferIsRight == OfferInv => SelectionIsBest /\ ValidatedIsUnambiguous
<1> SUFFICES ASSUME OfferInv PROVE SelectionIsBest /\ ValidatedIsUnambiguous
  OBVIOUS
<1>1. CASE outcome = Nothing
  <2>1. outcome.reason = "none"
    BY <1>1 DEF Nothing
  <2> QED BY <1>1, <2>1 DEF SelectionIsBest, ValidatedIsUnambiguous
<1>2. CASE outcome = SelectApplicable(catalog, input)
  BY <1>2, SelectsBest DEF OfferInv
<1> QED BY <1>1, <1>2 DEF OfferInv

\* The newest applicable release is offered, with the most demanding floor the
\* host meets, from every catalog of accepted manifests in every order
\* (select_applicable).
THEOREM OfferIsBest == OfferSpec => []SelectionIsBest
<1> QED BY OfferSafe, OfferIsRight, PTL

\* No accepted manifest is ambiguous or unreadable to the selector
\* (validate_manifest against validate_catalog_ambiguity and select_asset).
THEOREM AcceptedNeverBlocks == OfferSpec => []ValidatedIsUnambiguous
<1> QED BY OfferSafe, OfferIsRight, PTL
=============================================================================
