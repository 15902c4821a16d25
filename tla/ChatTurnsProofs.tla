--------------------------- MODULE ChatTurnsProofs ---------------------------
(* Theorems about ChatTurns: the transcript stays well formed, a replay       *)
(* answers its question, and the conversation's row is right, for any number  *)
(* of requests, keys and rows, and any bounds.                                *)
EXTENDS ChatTurns, TLAPS, FiniteSetTheorems, WellFoundedInduction

----------------------------------------------------------------------------
(* The last of a set of rows *)

Before == OpToRel(<, Nat)

LEMMA BeforeIsLess == Before = {ss \in Nat \X Nat : ss[1] < ss[2]}
  BY DEF Before, OpToRel

LEMMA BeforeWellFounded == IsWellFoundedOn(Before, Nat)
  BY NatLessThanWellFounded DEF Before

LEMMA LeastNumber ==
  ASSUME NEW S, S \subseteq Nat, S # {}
  PROVE  \E x \in S : \A y \in S : x <= y
<1>1. PICK x \in S : \A y \in S : <<y, x>> \notin Before
  BY BeforeWellFounded, WFMin
<1>2. \A y \in S : x <= y
  <2> TAKE y \in S
  <2>1. y \in Nat /\ x \in Nat
    OBVIOUS
  <2>2. y < x => <<y, x>> \in Before
    <3> DEFINE p == <<y, x>>
    <3>1. p \in Nat \X Nat /\ p[1] = y /\ p[2] = x
      BY <2>1
    <3>2. p \in Before <=> p[1] < p[2]
      BY <3>1, BeforeIsLess, Zenon
    <3> QED BY <3>1, <3>2
  <2> QED BY <1>1, <2>1, <2>2
<1> QED BY <1>2

LEMMA LeastIsMin ==
  ASSUME NEW S, S \subseteq Nat, S # {}
  PROVE  Min(S) \in S /\ \A y \in S : Min(S) <= y
BY LeastNumber, Zenon DEF Min

LEMMA GreatestRow ==
  ASSUME NEW S, S \subseteq Seqs, S # {}
  PROVE  Max(S) \in S /\ \A y \in S : Max(S) >= y
<1> DEFINE T == {MaxSeq - s : s \in S}
<1>1. MaxSeq \in Nat /\ \A s \in S : s \in Nat /\ s <= MaxSeq
  BY ChatConstants DEF Seqs
<1>2. T \subseteq Nat /\ T # {}
  BY <1>1
<1>3. PICK t \in T : \A y \in T : t <= y
  BY <1>2, LeastNumber
<1>4. PICK x \in S : t = MaxSeq - x
  OBVIOUS
<1>5. \A y \in S : x >= y
  <2> TAKE y \in S
  <2>1. t <= MaxSeq - y
    BY <1>3
  <2> QED BY <1>1, <1>4, <2>1
<1> QED BY <1>5, Zenon DEF Max

----------------------------------------------------------------------------
(* Message rows *)

Messages == [Seqs -> Message \cup {None}]

LEMMA RowTypes ==
  ASSUME NEW M \in Messages
  PROVE  /\ Rows(M) \subseteq Seqs /\ Seqs \subseteq Nat
         /\ Active(M) \subseteq Rows(M)
         /\ Users(M) \subseteq Active(M) /\ Answers(M) \subseteq Active(M)
         /\ Pending(M) \subseteq Answers(M)
         /\ \A s \in Rows(M) : M[s] \in Message
         /\ \A s \in Seqs \ Rows(M) : M[s] = None
BY DEF Messages, Rows, Active, Users, Answers, Pending, Seqs

LEMMA NoRow == None \notin Message /\ None \notin Seqs
BY NoneAssumption

LEMMA QuestionType ==
  ASSUME NEW k \in Keys \cup {None}
  PROVE  /\ Question(k) \in Message
         /\ Question(k).role = "user" /\ Question(k).status = "complete"
         /\ Question(k).active /\ Question(k).key = k
BY DEF Question, Message, MessageStatus

LEMMA PendingAnswerType ==
  ASSUME NEW q \in Seqs
  PROVE  /\ PendingAnswer(q) \in Message
         /\ PendingAnswer(q).role = "assistant" /\ PendingAnswer(q).status = "pending"
         /\ PendingAnswer(q).active /\ PendingAnswer(q).key = None /\ PendingAnswer(q).of = q
BY DEF PendingAnswer, Message, MessageStatus

LEMMA NextIsBehind ==
  ASSUME NEW M \in Messages
  PROVE  /\ NextSequence(M) \in Nat /\ NextSequence(M) >= 1
         /\ \A s \in Rows(M) : s < NextSequence(M)
         /\ NextSequence(M) \notin Rows(M)
<1>1. CASE Rows(M) = {}
  BY <1>1 DEF NextSequence
<1>2. CASE Rows(M) # {}
  <2>1. Max(Rows(M)) \in Rows(M) /\ \A y \in Rows(M) : Max(Rows(M)) >= y
    BY <1>2, RowTypes, GreatestRow
  <2>2. NextSequence(M) = Max(Rows(M)) + 1
    BY <1>2 DEF NextSequence
  <2>3. \A y \in Rows(M) : y \in Nat
    BY RowTypes
  <2> QED BY <2>1, <2>2, <2>3
<1> QED BY <1>1, <1>2

\* M with one more row, and M with one row settled.
WithRow(M, a, row) == [M EXCEPT ![a] = row]
WithSettled(M, a, out) == [M EXCEPT ![a] = SettledRow(@, out)]

\* The row a discarded answer leaves behind: none.
Gone(a, out) == IF out = "discarded" THEN {a} ELSE {}

LEMMA Appended ==
  ASSUME NEW M \in Messages, NEW a \in Seqs, a \notin Rows(M), NEW row \in Message, row.active,
         NEW N, N = WithRow(M, a, row)
  PROVE  /\ N \in Messages
         /\ N[a] = row /\ \A s \in Seqs \ {a} : N[s] = M[s]
         /\ Rows(N) = Rows(M) \cup {a}
         /\ Active(N) = Active(M) \cup {a}
         /\ Users(N) = Users(M) \cup (IF row.role = "user" THEN {a} ELSE {})
         /\ Answers(N) = Answers(M) \cup (IF row.role = "assistant" THEN {a} ELSE {})
         /\ Pending(N) = Pending(M) \cup
              (IF row.role = "assistant" /\ row.status = "pending" THEN {a} ELSE {})
<1>1. N \in Messages /\ N[a] = row /\ \A s \in Seqs \ {a} : N[s] = M[s]
  BY DEF Messages, WithRow
<1>2. row # None /\ M[a] = None
  BY NoRow DEF Rows
<1>3. Rows(N) = Rows(M) \cup {a}
  BY <1>1, <1>2 DEF Rows
<1>4. Active(N) = Active(M) \cup {a}
  BY <1>1, <1>2, <1>3, RowTypes DEF Active
<1>5. Users(N) = Users(M) \cup (IF row.role = "user" THEN {a} ELSE {})
  BY <1>1, <1>3, <1>4, RowTypes DEF Users
<1>6. Answers(N) = Answers(M) \cup (IF row.role = "assistant" THEN {a} ELSE {})
  BY <1>1, <1>3, <1>4, RowTypes DEF Answers
<1>7. Pending(N) = Pending(M) \cup
        (IF row.role = "assistant" /\ row.status = "pending" THEN {a} ELSE {})
  BY <1>1, <1>6, RowTypes, <1>2 DEF Pending, Answers, Active, Rows
<1> QED BY <1>1, <1>3, <1>4, <1>5, <1>6, <1>7

LEMMA NextOfAppended ==
  ASSUME NEW M \in Messages, NEW row \in Message, row.active, NextSequence(M) \in Seqs
  PROVE  NextSequence(WithRow(M, NextSequence(M), row)) = NextSequence(M) + 1
<1> DEFINE a == NextSequence(M)
           N == WithRow(M, a, row)
<1>2. a \in Nat /\ a \notin Rows(M) /\ \A s \in Rows(M) : s \in Nat /\ s < a
  BY NextIsBehind, RowTypes
<1>1. Rows(N) = Rows(M) \cup {a} /\ N \in Messages
  BY <1>2, Appended
<1> HIDE DEF a, N
<1>3. Max(Rows(N)) \in Rows(N) /\ \A y \in Rows(N) : Max(Rows(N)) >= y
  BY <1>1, RowTypes, GreatestRow
<1>4. Max(Rows(N)) = a
  BY <1>1, <1>2, <1>3
<1>5. NextSequence(N) = a + 1
  BY <1>1, <1>4 DEF NextSequence
<1> QED BY <1>5 DEF a, N

LEMMA DeactivatedRow ==
  ASSUME NEW row \in Message
  PROVE  LET off == [row EXCEPT !.active = FALSE]
         IN  /\ off \in Message /\ ~off.active
             /\ off.role = row.role /\ off.status = row.status
             /\ off.key = row.key /\ off.of = row.of
BY DEF Message

LEMMA Deactivated ==
  ASSUME NEW M \in Messages, NEW S, S \subseteq Rows(M),
         NEW D, D = Deactivate(M, S)
  PROVE  /\ D \in Messages
         /\ Rows(D) = Rows(M)
         /\ \A s \in Rows(M) : /\ D[s].role = M[s].role /\ D[s].status = M[s].status
                               /\ D[s].key = M[s].key /\ D[s].of = M[s].of
         /\ Active(D) = Active(M) \ S
         /\ Users(D) = Users(M) \ S
         /\ Answers(D) = Answers(M) \ S
         /\ Pending(D) = Pending(M) \ S
         /\ NextSequence(D) = NextSequence(M)
<1>0. S \subseteq Seqs
  BY RowTypes
<1>1. \A s \in Seqs : D[s] = IF s \in S THEN [M[s] EXCEPT !.active = FALSE] ELSE M[s]
  BY DEF Deactivate
<1>2. \A s \in S : /\ D[s] \in Message /\ ~D[s].active
                   /\ D[s].role = M[s].role /\ D[s].status = M[s].status
                   /\ D[s].key = M[s].key /\ D[s].of = M[s].of
  BY <1>0, <1>1, RowTypes, DeactivatedRow
<1>3. \A s \in Seqs \ S : D[s] = M[s]
  BY <1>1
<1>4. D = [s \in Seqs |-> D[s]]
  BY DEF Deactivate
<1>5. D \in Messages
  BY <1>0, <1>2, <1>3, <1>4 DEF Messages
<1>6. Rows(D) = Rows(M)
  BY <1>0, <1>2, <1>3, NoRow DEF Rows
<1>7. \A s \in Rows(M) : /\ D[s].role = M[s].role /\ D[s].status = M[s].status
                         /\ D[s].key = M[s].key /\ D[s].of = M[s].of
  BY <1>2, <1>3, RowTypes
<1>8. Active(D) = Active(M) \ S
  BY <1>2, <1>3, <1>6, RowTypes DEF Active
<1>9. Users(D) = Users(M) \ S /\ Answers(D) = Answers(M) \ S
  BY <1>6, <1>7, <1>8 DEF Users, Answers, Active
<1>10. Pending(D) = Pending(M) \ S
  BY <1>6, <1>7, <1>9 DEF Pending, Answers, Active
<1>11. NextSequence(D) = NextSequence(M)
  BY <1>6 DEF NextSequence
<1> QED BY <1>5, <1>6, <1>7, <1>8, <1>9, <1>10, <1>11

Outcomes == {"complete", "failed", "cancelled", "discarded"}

LEMMA SettledRowType ==
  ASSUME NEW row \in Message, NEW out \in Outcomes \ {"discarded"}
  PROVE  LET new == SettledRow(row, out)
         IN  /\ new \in Message /\ new.status = out /\ new.active = row.active
             /\ new.role = row.role /\ new.key = row.key /\ new.of = row.of
BY DEF SettledRow, Message, MessageStatus, Outcomes

\* What the settlement of one answer leaves: the row with a final status, or nothing.
LEMMA Settled ==
  ASSUME NEW M \in Messages, NEW a \in Rows(M), NEW out \in Outcomes,
         NEW N, N = WithSettled(M, a, out)
  PROVE  /\ N \in Messages
         /\ Rows(N) = Rows(M) \ Gone(a, out)
         /\ Active(N) = Active(M) \ Gone(a, out)
         /\ Users(N) = Users(M) \ Gone(a, out)
         /\ Answers(N) = Answers(M) \ Gone(a, out)
         /\ Pending(N) = Pending(M) \ {a}
         /\ \A s \in Rows(M) \ {a} : N[s] = M[s]
         /\ \A s \in Rows(N) : /\ N[s].role = M[s].role /\ N[s].key = M[s].key
                               /\ N[s].of = M[s].of
<1>1. a \in Seqs /\ M[a] \in Message
  BY RowTypes
<1>2. /\ N[a] = SettledRow(M[a], out)
      /\ \A s \in Seqs \ {a} : N[s] = M[s]
      /\ N = [s \in Seqs |-> N[s]]
  BY <1>1 DEF Messages, WithSettled
<1>3. CASE out = "discarded"
  <2>0. Gone(a, out) = {a}
    BY <1>3 DEF Gone
  <2>1. N[a] = None
    BY <1>2, <1>3 DEF SettledRow
  <2>2. N \in Messages /\ Rows(N) = Rows(M) \ {a}
    BY <1>2, <2>1 DEF Messages, Rows
  <2>3. \A s \in Rows(N) : N[s] = M[s]
    BY <1>2, <2>2, RowTypes
  <2>4. Active(N) = Active(M) \ {a}
    BY <2>2, <2>3 DEF Active
  <2>5. Users(N) = Users(M) \ {a} /\ Answers(N) = Answers(M) \ {a}
    BY <2>2, <2>3, <2>4, RowTypes DEF Users, Answers
  <2>6. Pending(N) = Pending(M) \ {a}
    BY <2>2, <2>3, <2>5, <2>4, RowTypes DEF Pending
  <2> QED BY <1>2, <2>0, <2>2, <2>3, <2>4, <2>5, <2>6, RowTypes
<1>4. CASE out # "discarded"
  <2>0. Gone(a, out) = {}
    BY <1>4 DEF Gone
  <2>1. /\ N[a] \in Message /\ N[a].status = out /\ N[a].active = M[a].active
        /\ N[a].role = M[a].role /\ N[a].key = M[a].key /\ N[a].of = M[a].of
    BY <1>1, <1>2, <1>4, SettledRowType
  <2>2. N \in Messages /\ Rows(N) = Rows(M)
    BY <1>1, <1>2, <2>1, NoRow DEF Messages, Rows
  <2>3. \A s \in Rows(M) : /\ N[s].role = M[s].role /\ N[s].key = M[s].key
                           /\ N[s].of = M[s].of /\ N[s].active = M[s].active
    BY <1>2, <2>1, RowTypes
  <2>4. Active(N) = Active(M)
    BY <2>2, <2>3 DEF Active
  <2>5. Users(N) = Users(M) /\ Answers(N) = Answers(M)
    BY <2>3, <2>4, RowTypes DEF Users, Answers
  <2>6. out # "pending"
    BY DEF Outcomes
  <2>7. Pending(N) = Pending(M) \ {a}
    BY <1>2, <2>1, <2>5, <2>6, RowTypes DEF Pending
  <2> QED BY <1>2, <2>0, <2>2, <2>3, <2>4, <2>5, <2>7, RowTypes
<1> QED BY <1>3, <1>4

----------------------------------------------------------------------------
(* The transcript of a set of rows *)

Fits(M) == PendingIsLast(M) /\ AnswersFit(M)

\* A new question goes behind everything.
LEMMA AskFits ==
  ASSUME NEW M \in Messages, Fits(M), Pending(M) = {}, NEW k \in Keys \cup {None},
         NEW q \in Seqs, q = NextSequence(M), NEW N, N = WithRow(M, q, Question(k))
  PROVE  /\ Fits(N) /\ Pending(N) = {}
         /\ q \in Users(N) /\ \A s \in Active(N) : s <= q
<1>1. q \in Nat /\ q \notin Rows(M) /\ \A s \in Rows(M) : s \in Nat /\ s < q
  BY NextIsBehind, RowTypes
<1>2. /\ Rows(N) = Rows(M) \cup {q} /\ Active(N) = Active(M) \cup {q}
      /\ Users(N) = Users(M) \cup {q} /\ Answers(N) = Answers(M) /\ Pending(N) = Pending(M)
      /\ \A s \in Seqs \ {q} : N[s] = M[s]
  <2> DEFINE row == Question(k)
  <2>1. row \in Message /\ row.active /\ N = WithRow(M, q, row)
    BY QuestionType
  <2>2. row.role = "user"
    BY QuestionType
  <2> HIDE DEF row
  <2>3. Rows(N) = Rows(M) \cup {q} /\ Active(N) = Active(M) \cup {q}
    BY <1>1, <2>1, Appended
  <2>4. Users(N) = Users(M) \cup (IF row.role = "user" THEN {q} ELSE {})
    BY <1>1, <2>1, Appended
  <2>5. Answers(N) = Answers(M) \cup (IF row.role = "assistant" THEN {q} ELSE {})
    BY <1>1, <2>1, Appended
  <2>6. Pending(N) = Pending(M) \cup
          (IF row.role = "assistant" /\ row.status = "pending" THEN {q} ELSE {})
    BY <1>1, <2>1, Appended
  <2>7. \A s \in Seqs \ {q} : N[s] = M[s]
    BY <1>1, <2>1, Appended
  <2> QED BY <2>2, <2>3, <2>4, <2>5, <2>6, <2>7
<1>3. \A a \in Answers(M) : a \in Rows(M) /\ N[a] = M[a]
  BY <1>1, <1>2, RowTypes
<1>4. AnswersFit(N)
  <2> SUFFICES ASSUME NEW a \in Answers(N)
               PROVE  /\ N[a].of \in Users(N) /\ N[a].of < a
                      /\ \A s \in Active(N) : ~(N[a].of < s /\ s < a)
    BY DEF AnswersFit
  <2>1. a \in Answers(M) /\ N[a] = M[a] /\ a \in Rows(M)
    BY <1>2, <1>3
  <2>2. /\ M[a].of \in Users(M) /\ M[a].of < a
        /\ \A s \in Active(M) : ~(M[a].of < s /\ s < a)
    BY <2>1 DEF Fits, AnswersFit
  <2>3. ~(q < a)
    BY <1>1, <2>1
  <2> QED BY <1>2, <2>1, <2>2, <2>3
<1>5. PendingIsLast(N)
  BY <1>2 DEF PendingIsLast
<1>6. \A s \in Active(N) : s <= q
  BY <1>1, <1>2, RowTypes
<1> QED BY <1>2, <1>4, <1>5, <1>6 DEF Fits

\* A new answer goes behind its question, the last active row.
LEMMA BeginFits ==
  ASSUME NEW M \in Messages, Fits(M), Pending(M) = {},
         NEW q \in Users(M), \A s \in Active(M) : s <= q,
         NEW a \in Seqs, a = NextSequence(M), NEW N, N = WithRow(M, a, PendingAnswer(q))
  PROVE  Fits(N)
<1>0. q \in Seqs /\ q \in Nat
  BY RowTypes
<1>1. a \in Nat /\ a \notin Rows(M) /\ \A s \in Rows(M) : s \in Nat /\ s < a
  BY NextIsBehind, RowTypes
<1>2. /\ Rows(N) = Rows(M) \cup {a} /\ Active(N) = Active(M) \cup {a}
      /\ Users(N) = Users(M) /\ Answers(N) = Answers(M) \cup {a} /\ Pending(N) = {a}
      /\ \A s \in Seqs \ {a} : N[s] = M[s]
      /\ N[a].of = q
  <2> DEFINE row == PendingAnswer(q)
  <2>1. /\ row \in Message /\ row.active /\ row.role = "assistant" /\ row.status = "pending"
        /\ row.of = q /\ N = WithRow(M, a, row)
    BY <1>0, PendingAnswerType
  <2> HIDE DEF row
  <2> QED BY <1>1, <2>1, Appended
<1>3. AnswersFit(N)
  <2> SUFFICES ASSUME NEW b \in Answers(N)
               PROVE  /\ N[b].of \in Users(N) /\ N[b].of < b
                      /\ \A s \in Active(N) : ~(N[b].of < s /\ s < b)
    BY DEF AnswersFit
  <2>1. CASE b = a
    <3>1. q < a /\ q \in Users(N)
      BY <1>1, <1>2, RowTypes
    <3>2. \A s \in Active(N) : ~(q < s /\ s < a)
      <4> TAKE s \in Active(N)
      <4>1. CASE s = a
        BY <1>1, <4>1
      <4>2. CASE s # a
        <5>1. s \in Active(M) /\ s <= q /\ s \in Nat
          BY <1>1, <1>2, <4>2, RowTypes
        <5> QED BY <1>0, <5>1
      <4> QED BY <4>1, <4>2
    <3> QED BY <1>2, <2>1, <3>1, <3>2
  <2>2. CASE b # a
    <3>1. b \in Answers(M) /\ b \in Rows(M) /\ N[b] = M[b]
      BY <1>2, <2>2, RowTypes
    <3>2. /\ M[b].of \in Users(M) /\ M[b].of < b
          /\ \A s \in Active(M) : ~(M[b].of < s /\ s < b)
      BY <3>1 DEF Fits, AnswersFit
    <3>3. ~(a < b)
      BY <1>1, <3>1
    <3> QED BY <1>2, <3>1, <3>2, <3>3
  <2> QED BY <2>1, <2>2
<1>4. PendingIsLast(N)
  BY <1>1, <1>2, RowTypes DEF PendingIsLast
<1> QED BY <1>3, <1>4 DEF Fits

\* Rows that leave the transcript from behind, or answers that leave it from anywhere.
LEMMA DeactivatedFits ==
  ASSUME NEW M \in Messages, Fits(M), NEW S, S \subseteq Active(M),
         \/ S \subseteq Answers(M)
         \/ \E q \in Seqs : S = {s \in Active(M) : s >= q},
         NEW D, D = Deactivate(M, S)
  PROVE  Fits(D)
<1>1. /\ Rows(D) = Rows(M) /\ Active(D) = Active(M) \ S /\ Users(D) = Users(M) \ S
      /\ Answers(D) = Answers(M) \ S /\ Pending(D) = Pending(M) \ S
      /\ \A s \in Rows(M) : D[s].of = M[s].of
  <2>1. S \subseteq Rows(M)
    BY RowTypes
  <2> QED BY <2>1, Deactivated
<1>2. AnswersFit(D)
  <2> SUFFICES ASSUME NEW a \in Answers(D)
               PROVE  /\ D[a].of \in Users(D) /\ D[a].of < a
                      /\ \A s \in Active(D) : ~(D[a].of < s /\ s < a)
    BY DEF AnswersFit
  <2>1. a \in Answers(M) /\ a \notin S /\ D[a].of = M[a].of /\ a \in Active(M) /\ a \in Nat
    BY <1>1, RowTypes
  <2>2. /\ M[a].of \in Users(M) /\ M[a].of < a
        /\ \A s \in Active(M) : ~(M[a].of < s /\ s < a)
    BY <2>1 DEF Fits, AnswersFit
  <2>3. M[a].of \in Nat
    BY <2>2, RowTypes
  <2>4. M[a].of \notin S
    <3>1. CASE S \subseteq Answers(M)
      BY <2>2, <3>1 DEF Users, Answers
    <3>2. ASSUME NEW q \in Seqs, S = {s \in Active(M) : s >= q}
          PROVE  M[a].of \notin S
      <4>1. ~(a >= q) /\ q \in Nat
        BY <2>1, <3>2, RowTypes
      <4>2. ~(M[a].of >= q)
        BY <2>1, <2>2, <2>3, <4>1
      <4> QED BY <3>2, <4>2
    <3> QED BY <3>1, <3>2
  <2> QED BY <1>1, <2>1, <2>2, <2>4
<1>3. PendingIsLast(D)
  BY <1>1 DEF Fits, PendingIsLast
<1> QED BY <1>2, <1>3 DEF Fits

LEMMA SettledFits ==
  ASSUME NEW M \in Messages, Fits(M), NEW a \in Rows(M), M[a].role = "assistant",
         NEW out \in Outcomes, NEW N, N = WithSettled(M, a, out)
  PROVE  Fits(N)
<1>1. /\ Rows(N) = Rows(M) \ Gone(a, out) /\ Active(N) = Active(M) \ Gone(a, out)
      /\ Users(N) = Users(M) \ Gone(a, out) /\ Answers(N) = Answers(M) \ Gone(a, out)
      /\ Pending(N) = Pending(M) \ {a}
      /\ \A s \in Rows(N) : N[s].of = M[s].of
  BY Settled
<1>2. Users(N) = Users(M)
  BY <1>1 DEF Users, Gone
<1>3. AnswersFit(N)
  <2> SUFFICES ASSUME NEW b \in Answers(N)
               PROVE  /\ N[b].of \in Users(N) /\ N[b].of < b
                      /\ \A s \in Active(N) : ~(N[b].of < s /\ s < b)
    BY DEF AnswersFit
  <2>1. b \in Answers(M) /\ b \in Rows(N) /\ N[b].of = M[b].of
    BY <1>1, RowTypes
  <2> QED BY <1>1, <1>2, <2>1 DEF Fits, AnswersFit
<1>4. PendingIsLast(N)
  BY <1>1 DEF Fits, PendingIsLast
<1> QED BY <1>3, <1>4 DEF Fits

\* At most one active answer follows the latest question; without it, that question is last.
LEMMA LatestIsLast ==
  ASSUME NEW M \in Messages, Fits(M), Users(M) # {}, NEW last,
         LET current == {s \in Answers(M) : s > Max(Users(M))}
         IN  last = IF current = {} THEN {} ELSE {Max(current)}
  PROVE  /\ Max(Users(M)) \in Users(M)
         /\ last \subseteq Answers(M)
         /\ \A s \in Active(M) \ last : s <= Max(Users(M))
<1> DEFINE q == Max(Users(M))
           current == {s \in Answers(M) : s > q}
<1>1. q \in Users(M) /\ \A s \in Users(M) : q >= s
  BY RowTypes, GreatestRow
<1>2. current # {} => Max(current) \in current
  <2>1. current \subseteq Seqs
    BY RowTypes
  <2> QED BY <2>1, GreatestRow
<1>3. last = IF current = {} THEN {} ELSE {Max(current)}
  OBVIOUS
<1> HIDE DEF q
<1>4. \A s \in current : M[s].of = q
  <2> TAKE s \in current
  <2>1. /\ M[s].of \in Users(M) /\ M[s].of \in Nat /\ q \in Nat /\ s > q
        /\ \A p \in Active(M) : ~(M[s].of < p /\ p < s)
    BY <1>1, RowTypes DEF Fits, AnswersFit
  <2>2. s \in Nat /\ q \in Active(M) /\ M[s].of <= q
    BY <1>1, <2>1, RowTypes
  <2>3. ~(M[s].of < q)
    BY <2>1, <2>2
  <2> QED BY <2>1, <2>2, <2>3
<1>5. \A s, p \in current : s = p
  <2> TAKE s, p \in current
  <2>1. /\ s \in Nat /\ p \in Nat /\ s > q /\ p > q /\ q \in Nat
        /\ s \in Active(M) /\ p \in Active(M)
    BY <1>1, RowTypes
  <2>2. ~(q < s /\ s < p) /\ ~(q < p /\ p < s)
    BY <1>4, <2>1 DEF Fits, AnswersFit
  <2> QED BY <2>1, <2>2
<1>6. \A s \in current : s \in last
  BY <1>2, <1>3, <1>5
<1>7. \A s \in Active(M) \ last : s <= q
  <2> TAKE s \in Active(M) \ last
  <2>1. s \in Users(M) \/ s \in Answers(M)
    BY RowTypes DEF Users, Answers, Message
  <2>2. s \in Nat /\ q \in Nat
    BY <1>1, RowTypes
  <2>3. s \in Answers(M) => ~(s > q)
    BY <1>6
  <2> QED BY <1>1, <2>1, <2>2, <2>3
<1> QED BY <1>1, <1>2, <1>3, <1>7 DEF q

----------------------------------------------------------------------------
(* Questions with a key and their answers *)

LEMMA StaysBesideUnkeyed ==
  ASSUME NEW M \in Messages, NEW discarded, AnswersStay(M, discarded),
         NEW a \in Seqs, a \notin Rows(M), NEW row \in Message, row.active, row.key = None,
         NEW N, N = WithRow(M, a, row)
  PROVE  AnswersStay(N, discarded)
<1>1. /\ Rows(N) = Rows(M) \cup {a} /\ N[a] = row
      /\ \A s \in Seqs \ {a} : N[s] = M[s]
  BY Appended
<1> SUFFICES ASSUME NEW q \in Rows(N), N[q].key # None, q \notin discarded
             PROVE  q + 1 \in Rows(N) /\ N[q + 1].role = "assistant" /\ N[q + 1].of = q
  BY DEF AnswersStay
<1>2. q \in Rows(M) /\ N[q] = M[q]
  BY <1>1, RowTypes
<1>3. q + 1 \in Rows(M) /\ M[q + 1].role = "assistant" /\ M[q + 1].of = q
  BY <1>2 DEF AnswersStay
<1>4. N[q + 1] = M[q + 1] /\ q + 1 \in Rows(N)
  BY <1>1, <1>3, RowTypes
<1> QED BY <1>3, <1>4

\* A turn appends its question and, right behind it, the answer.
LEMMA StaysBesideTurn ==
  ASSUME NEW M \in Messages, NEW discarded, AnswersStay(M, discarded),
         NEW k \in Keys \cup {None}, NEW q \in Seqs, q = NextSequence(M),
         NEW A, A = WithRow(M, q, Question(k)),
         NEW a \in Seqs, a = NextSequence(A),
         NEW N, N = WithRow(A, a, PendingAnswer(q))
  PROVE  AnswersStay(N, discarded)
<1>1. q \notin Rows(M) /\ q \in Nat
  BY NextIsBehind
<1>2. PICK row \in Message : row = Question(k) /\ row.active /\ row.key = k
  BY QuestionType
<1>3. PICK new \in Message : /\ new = PendingAnswer(q) /\ new.active
                             /\ new.role = "assistant" /\ new.of = q /\ new.key = None
  BY PendingAnswerType
<1>4. A = WithRow(M, q, row) /\ N = WithRow(A, a, new)
  BY <1>2, <1>3
<1>5. /\ A \in Messages /\ Rows(A) = Rows(M) \cup {q} /\ A[q] = row
      /\ \A s \in Seqs \ {q} : A[s] = M[s]
  BY <1>1, <1>2, <1>4, Appended
<1>6. a = q + 1
  BY <1>2, <1>4, NextOfAppended
<1>7. a \notin Rows(A)
  BY <1>5, NextIsBehind
<1>8. /\ Rows(N) = Rows(A) \cup {a} /\ N[a] = new
      /\ \A s \in Seqs \ {a} : N[s] = A[s]
  BY <1>3, <1>4, <1>5, <1>7, Appended
<1> SUFFICES ASSUME NEW p \in Rows(N), N[p].key # None, p \notin discarded
             PROVE  p + 1 \in Rows(N) /\ N[p + 1].role = "assistant" /\ N[p + 1].of = p
  BY DEF AnswersStay
<1>9. CASE p = q
  BY <1>3, <1>6, <1>8, <1>9
<1>10. CASE p # q
  <2>1. p # a
    BY <1>3, <1>8
  <2>2. p \in Rows(M) /\ N[p] = M[p]
    BY <1>5, <1>8, <1>10, <2>1, RowTypes
  <2>3. p + 1 \in Rows(M) /\ M[p + 1].role = "assistant" /\ M[p + 1].of = p
    BY <2>2 DEF AnswersStay
  <2>4. p + 1 \in Seqs /\ p + 1 # q /\ p + 1 # a
    BY <1>1, <1>5, <1>7, <2>3, RowTypes
  <2>5. N[p + 1] = M[p + 1] /\ p + 1 \in Rows(N)
    BY <1>5, <1>8, <2>3, <2>4
  <2> QED BY <2>3, <2>5
<1> QED BY <1>9, <1>10

LEMMA StaysDeactivated ==
  ASSUME NEW M \in Messages, NEW discarded, AnswersStay(M, discarded),
         NEW S, S \subseteq Rows(M), NEW D, D = Deactivate(M, S)
  PROVE  AnswersStay(D, discarded)
<1>1. /\ Rows(D) = Rows(M)
      /\ \A s \in Rows(M) : /\ D[s].role = M[s].role /\ D[s].key = M[s].key
                            /\ D[s].of = M[s].of
  BY Deactivated
<1> QED BY <1>1 DEF AnswersStay

\* An answer that is discarded takes the promise to its question with it.
LEMMA StaysSettled ==
  ASSUME NEW M \in Messages, NEW discarded, AnswersStay(M, discarded),
         NEW a \in Rows(M), NEW out \in Outcomes, NEW N, N = WithSettled(M, a, out),
         NEW after, discarded \subseteq after, out = "discarded" => M[a].of \in after
  PROVE  AnswersStay(N, after)
<1>1. /\ Rows(N) = Rows(M) \ Gone(a, out)
      /\ \A s \in Rows(N) : /\ N[s].role = M[s].role /\ N[s].key = M[s].key
                            /\ N[s].of = M[s].of
  BY Settled
<1> SUFFICES ASSUME NEW q \in Rows(N), N[q].key # None, q \notin after
             PROVE  q + 1 \in Rows(N) /\ N[q + 1].role = "assistant" /\ N[q + 1].of = q
  BY DEF AnswersStay
<1>2. q + 1 \in Rows(M) /\ M[q + 1].role = "assistant" /\ M[q + 1].of = q
  BY <1>1 DEF AnswersStay
<1>3. q + 1 \notin Gone(a, out)
  BY <1>2 DEF Gone
<1> QED BY <1>1, <1>2, <1>3

\* The first answer behind a question with a key is its own.
LEMMA FirstAnswerIsOwn ==
  ASSUME msg \in Messages, NEW q \in Rows(msg), NEW discarded, AnswersStay(msg, discarded),
         msg[q].key # None, q \notin discarded
  PROVE  msg[FollowingAssistant(q)].of = q
<1>1. q + 1 \in Rows(msg) /\ msg[q + 1].role = "assistant" /\ msg[q + 1].of = q
  BY DEF AnswersStay
<1>2. q \in Nat /\ AssistantsAfter(q) \subseteq Nat /\ q + 1 \in AssistantsAfter(q)
  BY <1>1, RowTypes DEF AssistantsAfter
<1>3. /\ Min(AssistantsAfter(q)) \in AssistantsAfter(q)
      /\ \A y \in AssistantsAfter(q) : Min(AssistantsAfter(q)) <= y
  BY <1>2, LeastIsMin
<1>4. Min(AssistantsAfter(q)) > q /\ Min(AssistantsAfter(q)) <= q + 1
  BY <1>2, <1>3 DEF AssistantsAfter
<1>5. Min(AssistantsAfter(q)) = q + 1
  BY <1>2, <1>3, <1>4
<1> QED BY <1>1, <1>5 DEF FollowingAssistant

----------------------------------------------------------------------------
(* Requests *)

LEMMA Counted ==
  ASSUME NEW S, S \subseteq Seqs
  PROVE  IsFiniteSet(S) /\ Cardinality(S) \in Nat /\ Cardinality(S) \in 0..MaxSeq
<1>1. MaxSeq \in Nat /\ IsFiniteSet(Seqs) /\ Cardinality(Seqs) = MaxSeq
  BY ChatConstants, FS_Interval DEF Seqs
<1>2. IsFiniteSet(S) /\ Cardinality(S) <= MaxSeq
  BY <1>1, FS_Subset
<1>3. Cardinality(S) \in Nat
  BY <1>2, FS_CardinalityType
<1> QED BY <1>1, <1>2, <1>3

LEMMA IdleType ==
  /\ Idle \in Request
  /\ Idle.pc = "idle" /\ Idle.op = "none" /\ Idle.out = "none"
BY ChatConstants DEF Idle, Request

LEMMA DoneType ==
  /\ Done \in Request
  /\ Done.pc = "done" /\ Done.op = "none"
BY IdleType DEF Done, Request

LEMMA ConvTypes ==
  ASSUME TypeOK
  PROVE  /\ msg \in Messages
         /\ conv.status \in {"active", "archived", "deleted"} /\ conv.count \in 0..MaxSeq
         /\ conv.title \in {"default", "generated", "chosen"} /\ conv.auto \in BOOLEAN
         /\ hist.superseded \in BOOLEAN /\ hist.discarded \subseteq Seqs
         /\ hist.renameOverlapped \in BOOLEAN /\ hist.renamed \in BOOLEAN
         /\ \A r \in Requests : req[r] \in Request
BY DEF TypeOK, Messages, Conversation, History

\* A request that ends or begins a turn locks no message row.
LEMMA DeletionApart ==
  ASSUME ChatInv, NEW r \in Requests, NEW x \in Request,
         \A p \in Requests : req'[p] = IF p = r THEN x ELSE req[p],
         x.pc = "flushed" => ~RowLocked(x.a),
         x.op = "delete" /\ x.pc \in {"emptied", "locked"} =>
            \/ Deleting(r) /\ x.rows = req[r].rows
            \/ \A s \in x.rows : ~RowLocked(s)
  PROVE  DeletionInv'
<1> SUFFICES ASSUME NEW d \in Requests, NEW p \in Requests, Deleting(d)', req'[p].pc = "flushed"
             PROVE  req'[p].a \notin req'[d].rows
  BY DEF DeletionInv
<1>1. CASE d = r /\ p # r
  <2>1. req'[d] = x /\ req'[p] = req[p]
    BY <1>1
  <2>2. x.op = "delete" /\ x.pc \in {"emptied", "locked"} /\ req[p].pc = "flushed"
    BY <1>1, <2>1 DEF Deleting
  <2>3. CASE Deleting(r) /\ x.rows = req[r].rows
    BY <2>1, <2>2, <2>3 DEF ChatInv, DeletionInv
  <2>4. CASE \A s \in x.rows : ~RowLocked(s)
    BY <2>1, <2>2, <2>4 DEF RowLocked
  <2> QED BY <2>2, <2>3, <2>4
<1>2. CASE d # r /\ p = r
  BY <1>2 DEF Deleting, RowLocked
<1>3. CASE d # r /\ p # r
  BY <1>3 DEF Deleting, ChatInv, DeletionInv
<1>4. CASE d = r /\ p = r
  BY <1>4 DEF Deleting
<1> QED BY <1>1, <1>2, <1>3, <1>4

\* A step that writes no message: what one request may become.
LEMMA QuietStep ==
  ASSUME ChatInv, NEW r \in Requests, NEW x \in Request, req' = [req EXCEPT ![r] = x],
         msg' = msg, hist' = hist,
         commands' \in 0..MaxCommands, losses' \in 0..MaxLosses,
         conv' \in Conversation, conv'.status = conv.status, conv'.count = conv.count,
         conv'.auto = conv.auto,
         hist.renamed /\ ~hist.renameOverlapped => conv'.title = "chosen",
         x.pc = "locked" =>
            /\ Unlocked
            /\ x.op = "edit" => /\ Users(msg) # {} /\ x.rows = Superseded(LatestUser)
                                /\ NextSequence(msg) \in Seqs,
         x.pc \in {"generating", "flushed"} =>
            /\ x.pc = "flushed" /\ req[r].pc = "generating" /\ Answered(r) /\ x.out # "none"
            /\ x.q = req[r].q /\ x.a = req[r].a /\ x.count = req[r].count
            /\ x.titled = req[r].titled
            /\ x.seen = Cardinality(Active(msg) \ IF x.out = "discarded" THEN {x.a} ELSE {})
            /\ ~RowLocked(x.a),
         x.op = "delete" /\ x.pc \in {"emptied", "locked"} =>
            \/ Deleting(r) /\ x.rows = req[r].rows
            \/ \A s \in x.rows : ~RowLocked(s),
         x.pc # "titling",
         x.op = "replay" => x.a = x.q \/ x.q \in hist.discarded
  PROVE  ChatInv'
<1>1. \A p \in Requests : req'[p] = IF p = r THEN x ELSE req[p]
  BY DEF ChatInv, TypeOK
<1>2. TypeOK'
  BY DEF ChatInv, TypeOK
<1>3. LockInv'
  <2>1. \A p, s \in Requests : req'[p].pc = "locked" /\ req'[s].pc = "locked" => p = s
    BY <1>1 DEF ChatInv, LockInv, Unlocked
  <2>2. \A p \in Requests : req'[p].pc = "locked" /\ req'[p].op = "edit" =>
          /\ Users(msg) # {} /\ req'[p].rows = Superseded(LatestUser)
          /\ NextSequence(msg) \in Seqs
    BY <1>1 DEF ChatInv, LockInv
  <2> QED BY <2>1, <2>2 DEF LockInv, Superseded, LatestUser
<1>4. \A p \in Requests : InFlight(p)' =>
        /\ InFlight(p) /\ req'[p].q = req[p].q /\ req'[p].a = req[p].a
        /\ req'[p].count = req[p].count
        /\ Answered(p)' = Answered(p)
        /\ req'[p].titled = req[p].titled
  BY <1>1 DEF InFlight, Answered
<1>5. TurnInv'
  <2>1. \A p \in Requests : InFlight(p)' =>
          /\ req'[p].q \in Seqs /\ req'[p].a \in Seqs
          /\ Answered(p)' => msg'[req'[p].a].role = "assistant"
                             /\ msg'[req'[p].a].of = req'[p].q
    BY <1>4 DEF ChatInv, TurnInv
  <2>2. \A p \in Requests : InFlight(p)' =>
          /\ ~Answered(p)' => conv'.status = "deleted" /\ req'[p].pc = "generating"
          /\ req'[p].pc = "flushed" => req'[p].out # "none"
    BY <1>1, <1>4 DEF ChatInv, TurnInv, InFlight
  <2>3. \A p, s \in Requests : InFlight(p)' /\ InFlight(s)' /\ req'[p].a = req'[s].a => p = s
    BY <1>4 DEF ChatInv, TurnInv
  <2> QED BY <2>1, <2>2, <2>3 DEF ChatInv, TurnInv
<1>6. ReplayAnswersItsQuestion'
  BY <1>1 DEF ChatInv, ReplayAnswersItsQuestion
<1>7. CountInv'
  <2> SUFFICES ASSUME ~hist.superseded PROVE CountInv'
    BY DEF CountInv
  <2>1. conv'.count = Cardinality(Active(msg'))
    BY DEF ChatInv, CountInv
  <2>2. \A p \in Requests : InFlight(p)' /\ Answered(p)' =>
          req'[p].a \in Pending(msg') /\ req'[p].count = Cardinality(Active(msg'))
    BY <1>4 DEF ChatInv, CountInv
  <2>3. \A p \in Requests : InFlight(p)' /\ Answered(p)' /\ req'[p].pc = "flushed" =>
          req'[p].seen = Cardinality(Active(msg') \ IF req'[p].out = "discarded"
                                                    THEN {req'[p].a} ELSE {})
    <3> TAKE p \in Requests
    <3>1. CASE p = r
      BY <1>1, <3>1 DEF InFlight
    <3>2. CASE p # r
      <4>1. req'[p] = req[p]
        BY <1>1, <3>2
      <4> QED BY <1>4, <4>1 DEF ChatInv, CountInv
    <3> QED BY <3>1, <3>2
  <2> QED BY <2>1, <2>2, <2>3 DEF CountInv
<1>8. TitleInv'
  <2>1. hist'.renamed => ~conv'.auto
    BY DEF ChatInv, TitleInv
  <2>2. ASSUME hist'.renamed, ~hist'.renameOverlapped, NEW p \in Requests,
               req'[p].pc \in {"generating", "flushed", "titling"}
        PROVE  req'[p].titled
    BY <1>1, <2>2 DEF ChatInv, TitleInv
  <2> QED BY <2>1, <2>2 DEF TitleInv
<1>9. DeletionInv'
  BY <1>1, DeletionApart
<1> QED BY <1>2, <1>3, <1>5, <1>6, <1>7, <1>8, <1>9 DEF ChatInv

\* The request is over and has written nothing.
LEMMA EndStep ==
  ASSUME ChatInv, NEW r \in Requests, req' = [req EXCEPT ![r] = Done],
         UNCHANGED <<conv, msg, commands, hist>>, losses' \in 0..MaxLosses
  PROVE  ChatInv'
<1>1. /\ conv' \in Conversation /\ commands' \in 0..MaxCommands
      /\ hist.renamed /\ ~hist.renameOverlapped => conv'.title = "chosen"
  BY DEF ChatInv, TypeOK, TitleInv
<1> QED BY <1>1, DoneType, QuietStep

LEMMA ReplayStep ==
  ASSUME ChatInv, NEW r \in Requests, NEW op \in {"send", "stream"}, NEW k \in Keys \cup {None},
         Replay(r, op, k)
  PROVE  ChatInv'
<1>1. PICK q \in FindByClientRequestId(k) :
        /\ AssistantsAfter(q) # {}
        /\ req' = [req EXCEPT ![r] = [Done EXCEPT !.op = "replay", !.q = q,
                                                  !.a = msg[FollowingAssistant(q)].of]]
  BY DEF Replay
<1>2. UNCHANGED <<conv, msg, commands, losses, hist>>
  BY DEF Replay
<1>3. msg \in Messages /\ q \in Rows(msg) /\ q \in Seqs /\ msg[q].key # None
  BY ConvTypes, RowTypes DEF ChatInv, FindByClientRequestId
<1>4. FollowingAssistant(q) \in Rows(msg)
  <2>1. AssistantsAfter(q) \subseteq Nat /\ AssistantsAfter(q) \subseteq Rows(msg)
    BY <1>3, RowTypes DEF AssistantsAfter
  <2> QED BY <1>1, <2>1, LeastIsMin DEF FollowingAssistant
<1> DEFINE of == msg[FollowingAssistant(q)].of
<1>5. of \in Seqs \cup {None}
  BY <1>3, <1>4, RowTypes DEF Message
<1>6. of = q \/ q \in hist.discarded
  BY <1>3, FirstAnswerIsOwn DEF ChatInv
<1> HIDE DEF of
<1> DEFINE x == [Done EXCEPT !.op = "replay", !.q = q, !.a = of]
<1>7. x \in Request /\ x.pc = "done" /\ x.op = "replay" /\ x.q = q /\ x.a = of
  BY <1>3, <1>5, DoneType DEF Request
<1>8. req' = [req EXCEPT ![r] = x]
  BY <1>1 DEF of
<1> HIDE DEF x
<1>9. /\ conv' \in Conversation /\ commands' \in 0..MaxCommands /\ losses' \in 0..MaxLosses
      /\ hist.renamed /\ ~hist.renameOverlapped => conv'.title = "chosen"
  BY <1>2 DEF ChatInv, TypeOK, TitleInv
<1> QED BY <1>2, <1>6, <1>7, <1>8, <1>9, QuietStep

LEMMA EditLockStep ==
  ASSUME ChatInv, NEW r \in Requests, EditLock(r)
  PROVE  ChatInv'
<1> DEFINE x == [Idle EXCEPT !.pc = "locked", !.op = "edit", !.q = LatestUser,
                             !.rows = Superseded(LatestUser)]
<1>1. /\ Unlocked /\ Users(msg) # {} /\ NextSequence(msg) \in Seqs
      /\ req' = [req EXCEPT ![r] = x]
      /\ UNCHANGED <<conv, msg, commands, losses, hist>>
  BY DEF EditLock, RequireActive
<1>2. LatestUser \in Seqs /\ Superseded(LatestUser) \subseteq Seqs
  BY <1>1, ConvTypes, RowTypes, GreatestRow DEF ChatInv, LatestUser, Superseded
<1>3. x \in Request /\ x.pc = "locked" /\ x.op = "edit" /\ x.rows = Superseded(LatestUser)
  BY <1>2, IdleType DEF Request
<1> HIDE DEF x
<1>4. /\ conv' \in Conversation /\ commands' \in 0..MaxCommands /\ losses' \in 0..MaxLosses
      /\ hist.renamed /\ ~hist.renameOverlapped => conv'.title = "chosen"
  BY <1>1 DEF ChatInv, TypeOK, TitleInv
<1> QED BY <1>1, <1>3, <1>4, QuietStep

LEMMA DeleteMessagesStep ==
  ASSUME ChatInv, NEW r \in Requests, DeleteMessages(r)
  PROVE  ChatInv'
<1> DEFINE x == [Idle EXCEPT !.pc = "emptied", !.op = "delete", !.rows = Rows(msg)]
<1>1. /\ req' = [req EXCEPT ![r] = x] /\ \A s \in Rows(msg) : ~RowLocked(s)
      /\ UNCHANGED <<conv, msg, commands, losses, hist>>
  BY DEF DeleteMessages
<1>2. Rows(msg) \subseteq Seqs
  BY DEF Rows
<1>3. x \in Request /\ x.pc = "emptied" /\ x.op = "delete" /\ x.rows = Rows(msg)
  BY <1>2, IdleType DEF Request
<1> HIDE DEF x
<1>4. /\ conv' \in Conversation /\ commands' \in 0..MaxCommands /\ losses' \in 0..MaxLosses
      /\ hist.renamed /\ ~hist.renameOverlapped => conv'.title = "chosen"
  BY <1>1 DEF ChatInv, TypeOK, TitleInv
<1> QED BY <1>1, <1>3, <1>4, QuietStep

LEMMA DeleteLockStep ==
  ASSUME ChatInv, NEW r \in Requests, DeleteLock(r)
  PROVE  ChatInv'
<1> DEFINE x == [req[r] EXCEPT !.pc = "locked"]
<1>1. /\ Unlocked /\ req' = [req EXCEPT ![r] = x] /\ req[r].pc = "emptied"
      /\ UNCHANGED <<conv, msg, commands, losses, hist>>
  BY DEF DeleteLock, ChatInv, TypeOK
<1>2. req[r] \in Request /\ req[r].op = "delete"
  BY DEF DeleteLock, ChatInv, TypeOK
<1>3. /\ x \in Request /\ x.pc = "locked" /\ x.op = "delete" /\ x.rows = req[r].rows
  BY <1>2 DEF Request
<1> HIDE DEF x
<1>4. Deleting(r)
  BY <1>1, <1>2 DEF Deleting
<1>5. /\ conv' \in Conversation /\ commands' \in 0..MaxCommands /\ losses' \in 0..MaxLosses
      /\ hist.renamed /\ ~hist.renameOverlapped => conv'.title = "chosen"
  BY <1>1 DEF ChatInv, TypeOK, TitleInv
<1> QED BY <1>1, <1>3, <1>4, <1>5, QuietStep

Titles == {"never", "inline", "after"}

\* A settlement counts what its commit is going to leave.
LEMMA SettleFlushStep ==
  ASSUME ChatInv, NEW r \in Requests, NEW out \in Outcomes, NEW title \in Titles,
         SettleFlush(r, out, title)
  PROVE  ChatInv'
<1> DEFINE x == req'[r]
           seen == Cardinality(Active(msg) \ IF out = "discarded" THEN {req[r].a} ELSE {})
<1>1. req[r] \in Request /\ req \in [Requests -> Request] /\ msg \in Messages
  BY ConvTypes DEF ChatInv, TypeOK
<1>2. seen \in 0..MaxSeq
  BY <1>1, RowTypes, Counted
<1>3. /\ req[r].pc = "generating" /\ Answered(r) /\ ~RowLocked(req[r].a)
      /\ UNCHANGED <<conv, msg, commands, losses, hist>>
  BY DEF SettleFlush, Answered
<1> HIDE DEF seen
<1>4. req' = [req EXCEPT ![r].pc = "flushed", ![r].out = out, ![r].title = title, ![r].seen = seen]
  BY DEF SettleFlush, seen
<1>5. /\ x.pc = "flushed" /\ x.out = out /\ x.seen = seen
      /\ x.q = req[r].q /\ x.a = req[r].a /\ x.count = req[r].count
      /\ x.titled = req[r].titled /\ x.op = req[r].op
  BY <1>1, <1>4 DEF Request
<1>6. x \in Request
  <2> DEFINE y == [req[r] EXCEPT !.pc = "flushed", !.out = out, !.title = title, !.seen = seen]
  <2>1. x = y
    BY <1>1, <1>4
  <2>2. y \in Request
    BY <1>1, <1>2 DEF Request, Outcomes, Titles
  <2> HIDE DEF x, y
  <2> QED BY <2>1, <2>2
<1>7. req' = [req EXCEPT ![r] = x]
  BY <1>1, <1>4
<1>8. x.op = "replay" => x.a = x.q \/ x.q \in hist.discarded
  BY <1>5 DEF ChatInv, ReplayAnswersItsQuestion
<1>9. /\ conv' \in Conversation /\ commands' \in 0..MaxCommands /\ losses' \in 0..MaxLosses
      /\ hist.renamed /\ ~hist.renameOverlapped => conv'.title = "chosen"
  BY <1>3 DEF ChatInv, TypeOK, TitleInv
<1>10. x.out # "none" /\ x.seen = Cardinality(Active(msg) \ IF x.out = "discarded" THEN {x.a} ELSE {})
  BY <1>5 DEF Outcomes, seen
<1> HIDE DEF x
<1> QED BY <1>3, <1>5, <1>6, <1>7, <1>8, <1>9, <1>10, QuietStep

LEMMA SettleStep ==
  ASSUME ChatInv, NEW r \in Requests, Settle(r)
  PROVE  ChatInv'
<1>1. \E out \in Outcomes, title \in Titles : SettleFlush(r, out, title)
  BY DEF Settle, GeneratedAnswer, GenerationMarkedFailed, RetrievalFailed, EarlyReply,
         AgentsAnswer, AgentsFailed, AgentsDisconnected, ToolsAnswer, ToolsFailed,
         ToolsDisconnected, PlainAnswer, PlainFailed, PlainDisconnected, Outcomes, Titles
<1> QED BY <1>1, SettleFlushStep

\* The stream's title transaction writes only the title, and none a user has chosen since.
LEMMA TitleCommitStep ==
  ASSUME ChatInv, NEW r \in Requests, TitleCommit(r)
  PROVE  ChatInv'
<1>1. /\ req' = [req EXCEPT ![r] = Done] /\ req[r].pc = "titling"
      /\ UNCHANGED <<msg, commands, losses, hist>>
      /\ conv' = conv \/ conv' = Titled(conv, TitleDue(r, msg))
  BY DEF TitleCommit
<1>2. conv \in Conversation
  BY DEF ChatInv, TypeOK
<1>3. /\ Titled(conv, TitleDue(r, msg)) \in Conversation
      /\ Titled(conv, TitleDue(r, msg)).status = conv.status
      /\ Titled(conv, TitleDue(r, msg)).count = conv.count
      /\ Titled(conv, TitleDue(r, msg)).auto = conv.auto
  BY <1>2 DEF Titled, Conversation
<1>4. hist.renamed /\ ~hist.renameOverlapped =>
        conv.title = "chosen" /\ ~TitleDue(r, msg)
  BY <1>1 DEF ChatInv, TitleInv, TitleDue
<1>5. ~TitleDue(r, msg) => Titled(conv, TitleDue(r, msg)) = conv
  BY DEF Titled
<1>6. /\ conv' \in Conversation /\ conv'.status = conv.status /\ conv'.count = conv.count
      /\ conv'.auto = conv.auto
      /\ hist.renamed /\ ~hist.renameOverlapped => conv'.title = "chosen"
  BY <1>1, <1>2, <1>3, <1>4, <1>5
<1>7. commands' \in 0..MaxCommands /\ losses' \in 0..MaxLosses
  BY <1>1 DEF ChatInv, TypeOK
<1> QED BY <1>1, <1>6, <1>7, DoneType, QuietStep

LEMMA UnwrittenEnds ==
  ASSUME ChatInv, NEW r \in Requests,
         \/ SettleOnDeleted(r)
         \/ \E e \in Requests : DeadlockAbort(r, e) \/ RegenerateDeadlock(r, e)
         \/ SendDomainError(r) \/ RegenerateError(r) \/ StreamTorn(r)
  PROVE  ChatInv'
<1>1. losses \in 0..MaxLosses /\ MaxLosses \in Nat
  BY ChatConstants DEF ChatInv, TypeOK
<1>2. ASSUME Lose(r) PROVE ChatInv'
  <2>1. losses' \in 0..MaxLosses
    BY <1>1, <1>2 DEF Lose
  <2> QED BY <1>2, <2>1, EndStep DEF Lose
<1>3. ASSUME NEW e \in Requests, DeadlockAbort(r, e) \/ RegenerateDeadlock(r, e) PROVE ChatInv'
  <2>1. PICK victim \in Requests : req' = [req EXCEPT ![victim] = Done]
    BY <1>3 DEF DeadlockAbort, RegenerateDeadlock
  <2>2. UNCHANGED <<conv, msg, commands, losses, hist>>
    BY <1>3 DEF DeadlockAbort, RegenerateDeadlock
  <2> QED BY <1>1, <2>1, <2>2, EndStep
<1>4. CASE SettleOnDeleted(r)
  BY <1>1, <1>4, EndStep DEF SettleOnDeleted
<1> QED BY <1>2, <1>3, <1>4 DEF SendDomainError, RegenerateError, StreamTorn

----------------------------------------------------------------------------
(* Steps that write messages *)

BegunTurn(op, q, a, n, titled) ==
  [Idle EXCEPT !.pc = "generating", !.op = op, !.q = q, !.a = a, !.count = n, !.titled = titled]

LEMMA BegunTurnType ==
  ASSUME NEW op \in {"send", "stream", "regenerate"}, NEW q \in Seqs, NEW a \in Seqs,
         NEW n \in 0..MaxSeq, NEW titled \in BOOLEAN
  PROVE  LET x == BegunTurn(op, q, a, n, titled)
         IN  /\ x \in Request /\ x.pc = "generating" /\ x.op = op /\ x.q = q /\ x.a = a
             /\ x.count = n /\ x.titled = titled
BY IdleType DEF BegunTurn, Request

\* A turn begins behind its question, and nothing is pending but its answer.
LEMMA BeginStep ==
  ASSUME ChatInv, NEW r \in Requests, NEW op \in {"send", "stream", "regenerate"},
         RequireActive,
         NEW M \in Messages, Fits(M), Pending(M) = {}, Pending(msg) = {},
         NEW q \in Users(M), \A s \in Active(M) : s <= q,
         Rows(msg) \subseteq Rows(M),
         \A s \in Rows(msg) : M[s].role = msg[s].role /\ M[s].of = msg[s].of,
         BeginAnswer(r, op, M, q), UNCHANGED <<commands, losses, hist>>,
         \A a \in Seqs, N \in Messages :
            a = NextSequence(M) /\ N = WithRow(M, a, PendingAnswer(q))
              => AnswersStay(N, hist.discarded)
  PROVE  ChatInv'
<1>1. q \in Seqs /\ msg \in Messages
  BY RowTypes, ConvTypes DEF ChatInv
<1>2. PICK a \in Seqs : a = NextSequence(M)
  BY DEF BeginAnswer
<1>3. PICK N : N = WithRow(M, a, PendingAnswer(q))
  OBVIOUS
<1>4. PICK n : n = Cardinality(Active(N))
  OBVIOUS
<1>5. PICK new \in Message : /\ new = PendingAnswer(q) /\ new.active /\ new.role = "assistant"
                             /\ new.status = "pending" /\ new.of = q
  BY <1>1, PendingAnswerType
<1>6. N = WithRow(M, a, new) /\ a \notin Rows(M)
  BY <1>2, <1>3, <1>5, NextIsBehind
<1>7. /\ N \in Messages /\ N[a] = new /\ \A s \in Seqs \ {a} : N[s] = M[s]
      /\ Active(N) = Active(M) \cup {a} /\ Rows(N) = Rows(M) \cup {a}
  BY <1>5, <1>6, Appended
<1>8. Pending(N) = {a}
  <2>1. Pending(N) = Pending(M) \cup
          (IF new.role = "assistant" /\ new.status = "pending" THEN {a} ELSE {})
    BY <1>5, <1>6, Appended
  <2> QED BY <1>5, <2>1
<1>9. n \in 0..MaxSeq
  BY <1>4, <1>7, RowTypes, Counted
<1>10. PICK titled \in BOOLEAN : titled = ~(conv.auto /\ conv.title = "default")
  OBVIOUS
<1>11. /\ msg' = N /\ conv' = [conv EXCEPT !.count = n]
       /\ req' = [req EXCEPT ![r] = BegunTurn(op, q, a, n, titled)]
  BY <1>2, <1>3, <1>4, <1>10 DEF BeginAnswer, WithRow, BegunTurn
<1>12. PICK x \in Request :
         /\ x = BegunTurn(op, q, a, n, titled) /\ x.pc = "generating" /\ x.op = op /\ x.q = q
         /\ x.a = a /\ x.count = n /\ x.titled = titled
  BY <1>1, <1>9, BegunTurnType
<1>13. \A p \in Requests : req'[p] = IF p = r THEN x ELSE req[p]
  BY <1>11, <1>12 DEF ChatInv, TypeOK
<1>14. /\ conv' \in Conversation /\ conv'.status = "active" /\ conv'.count = n
       /\ conv'.auto = conv.auto /\ conv'.title = conv.title /\ conv.status = "active"
  BY <1>9, <1>11 DEF ChatInv, TypeOK, Conversation, RequireActive
<1>15. TypeOK'
  BY <1>7, <1>11, <1>12, <1>14 DEF ChatInv, TypeOK, Messages
<1>16. LockInv'
  BY <1>12, <1>13 DEF LockInv, RequireActive, Unlocked
<1>17. DeletionInv'
  BY <1>12, <1>13, DeletionApart
<1>18. \A p \in Requests \ {r} : InFlight(p)' =>
         /\ InFlight(p) /\ Answered(p) /\ req'[p] = req[p]
         /\ req[p].a \in Rows(msg) /\ req[p].a # a
  <2> SUFFICES ASSUME NEW p \in Requests \ {r}, InFlight(p)'
               PROVE  /\ InFlight(p) /\ Answered(p) /\ req'[p] = req[p]
                      /\ req[p].a \in Rows(msg) /\ req[p].a # a
    OBVIOUS
  <2>1. InFlight(p) /\ req'[p] = req[p]
    BY <1>13 DEF InFlight
  <2>2. Answered(p) /\ req[p].a \in Seqs
    BY <1>14, <2>1 DEF ChatInv, TurnInv
  <2>3. req[p].a \in Rows(msg)
    BY <2>2 DEF Answered, Rows
  <2> QED BY <1>6, <2>1, <2>2, <2>3
<1>19. TurnInv'
  <2>1. \A p \in Requests : InFlight(p)' =>
          /\ req'[p].q \in Seqs /\ req'[p].a \in Seqs /\ req'[p].a \in Rows(N)
          /\ N[req'[p].a].role = "assistant" /\ N[req'[p].a].of = req'[p].q
          /\ req'[p].pc = "flushed" => req'[p].out # "none"
    <3> SUFFICES ASSUME NEW p \in Requests, InFlight(p)'
                 PROVE  /\ req'[p].q \in Seqs /\ req'[p].a \in Seqs /\ req'[p].a \in Rows(N)
                        /\ N[req'[p].a].role = "assistant" /\ N[req'[p].a].of = req'[p].q
                        /\ req'[p].pc = "flushed" => req'[p].out # "none"
      OBVIOUS
    <3>1. CASE p = r
      BY <1>1, <1>5, <1>7, <1>12, <1>13, <3>1
    <3>2. CASE p # r
      <4>1. /\ InFlight(p) /\ Answered(p) /\ req'[p] = req[p]
            /\ req[p].a \in Rows(msg) /\ req[p].a # a
        BY <1>18, <3>2
      <4>2. /\ req[p].q \in Seqs /\ req[p].a \in Seqs
            /\ msg[req[p].a].role = "assistant" /\ msg[req[p].a].of = req[p].q
            /\ req[p].pc = "flushed" => req[p].out # "none"
        BY <4>1 DEF ChatInv, TurnInv
      <4> QED BY <1>7, <4>1, <4>2
    <3> QED BY <3>1, <3>2
  <2>2. \A p, s \in Requests : InFlight(p)' /\ InFlight(s)' /\ req'[p].a = req'[s].a => p = s
    <3> SUFFICES ASSUME NEW p \in Requests, NEW s \in Requests, InFlight(p)', InFlight(s)',
                        req'[p].a = req'[s].a
                 PROVE  p = s
      OBVIOUS
    <3>1. CASE p # r /\ s # r
      BY <1>18, <3>1 DEF ChatInv, TurnInv
    <3>2. CASE p = r \/ s = r
      BY <1>12, <1>13, <1>18, <3>2
    <3> QED BY <3>1, <3>2
  <2>3. \A p \in Requests : InFlight(p)' => Answered(p)'
    BY <1>11, <2>1 DEF Answered, Rows
  <2> QED BY <1>11, <1>14, <2>1, <2>2, <2>3 DEF TurnInv
<1>20. Fits(msg')
  BY <1>2, <1>3, <1>11, BeginFits
<1>21. AnswersStay(msg', hist'.discarded)
  BY <1>2, <1>3, <1>7, <1>11
<1>22. ReplayAnswersItsQuestion'
  BY <1>12, <1>13 DEF ChatInv, ReplayAnswersItsQuestion
<1>23. CountInv'
  <2> SUFFICES ASSUME ~hist.superseded PROVE CountInv'
    BY DEF CountInv
  <2>1. \A p \in Requests \ {r} : ~InFlight(p)'
    BY <1>18 DEF ChatInv, CountInv
  <2>2. req'[r] = x /\ x.pc # "flushed" /\ x.a \in Pending(N) /\ x.count = Cardinality(Active(N))
    BY <1>4, <1>8, <1>12, <1>13
  <2>3. conv'.count = Cardinality(Active(N))
    BY <1>4, <1>14
  <2> QED BY <1>11, <2>1, <2>2, <2>3 DEF CountInv
<1>24. TitleInv'
  <2>1. hist.renamed => ~conv.auto
    BY DEF ChatInv, TitleInv
  <2>2. ASSUME hist.renamed, ~hist.renameOverlapped, NEW p \in Requests,
               req'[p].pc \in {"generating", "flushed", "titling"}
        PROVE  req'[p].titled
    <3>1. CASE p = r
      BY <1>10, <1>12, <1>13, <2>1, <2>2, <3>1
    <3>2. CASE p # r
      BY <1>13, <2>2, <3>2 DEF ChatInv, TitleInv
    <3> QED BY <3>1, <3>2
  <2>3. hist.renamed /\ ~hist.renameOverlapped => conv'.title = "chosen"
    BY <1>14 DEF ChatInv, TitleInv
  <2> QED BY <1>14, <2>1, <2>2, <2>3 DEF TitleInv
<1> QED BY <1>17, <1>15, <1>16, <1>19, <1>20, <1>21, <1>22, <1>23, <1>24 DEF ChatInv, Fits

LEMMA SendStep ==
  ASSUME ChatInv, NEW r \in Requests, NEW op \in {"send", "stream"}, NEW k \in Keys \cup {None},
         Send(r, op, k)
  PROVE  ChatInv'
<1>0. msg \in Messages /\ Fits(msg) /\ AnswersStay(msg, hist.discarded)
  BY ConvTypes DEF ChatInv, Fits
<1>1. PICK q \in Seqs : q = NextSequence(msg)
  BY DEF Send
<1>2. PICK M : M = WithRow(msg, q, Question(k))
  OBVIOUS
<1>3. /\ RequireActive /\ BeginAnswer(r, op, M, q) /\ Pending(M) = {}
      /\ UNCHANGED <<commands, losses, hist>>
  BY <1>1, <1>2 DEF Send, BeginAnswer, MayAnswer, WithRow
<1> DEFINE row == Question(k)
<1>4. row \in Message /\ row.active /\ M = WithRow(msg, q, row)
  BY <1>2, QuestionType
<1>11. row.role = "user"
  BY QuestionType
<1> HIDE DEF row
<1>5. q \notin Rows(msg)
  BY <1>0, <1>1, NextIsBehind
<1>6. /\ M \in Messages /\ Rows(M) = Rows(msg) \cup {q}
      /\ \A s \in Seqs \ {q} : M[s] = msg[s]
  BY <1>0, <1>4, <1>5, Appended
<1>7. Pending(msg) = {}
  <2>1. Pending(M) = Pending(msg) \cup
          (IF row.role = "assistant" /\ row.status = "pending" THEN {q} ELSE {})
    BY <1>0, <1>4, <1>5, Appended
  <2> QED BY <1>3, <1>11, <2>1
<1>8. Fits(M) /\ q \in Users(M) /\ \A s \in Active(M) : s <= q
  BY <1>0, <1>1, <1>2, <1>7, AskFits
<1>9. \A s \in Rows(msg) : M[s].role = msg[s].role /\ M[s].of = msg[s].of
  BY <1>0, <1>5, <1>6, RowTypes
<1>10. \A a \in Seqs, N \in Messages :
         a = NextSequence(M) /\ N = WithRow(M, a, PendingAnswer(q))
           => AnswersStay(N, hist.discarded)
  BY <1>0, <1>1, <1>2, StaysBesideTurn
<1> QED BY <1>3, <1>6, <1>7, <1>8, <1>9, <1>10, BeginStep

LEMMA RegenerateStep ==
  ASSUME ChatInv, NEW r \in Requests, Regenerate(r)
  PROVE  ChatInv'
<1>0. msg \in Messages /\ Fits(msg) /\ AnswersStay(msg, hist.discarded)
  BY ConvTypes DEF ChatInv, Fits
<1>1. PICK last : last = LatestAnswer
  OBVIOUS
<1>2. PICK q : q = Max(Users(msg))
  OBVIOUS
<1>3. PICK D : D = Deactivate(msg, last)
  OBVIOUS
<1>4. /\ RequireActive /\ Users(msg) # {} /\ \A s \in last : msg[s].status # "pending"
      /\ BeginAnswer(r, "regenerate", D, q) /\ UNCHANGED <<commands, losses, hist>>
  BY <1>1, <1>2, <1>3 DEF Regenerate, MayRegenerate, LatestUser
<1>5. q \in Users(msg) /\ last \subseteq Answers(msg) /\ \A s \in Active(msg) \ last : s <= q
  BY <1>0, <1>1, <1>2, <1>4, LatestIsLast DEF LatestAnswer, LatestUser
<1>6. last \subseteq Rows(msg) /\ last \subseteq Active(msg)
  BY <1>0, <1>5, RowTypes
<1>7. /\ D \in Messages /\ Rows(D) = Rows(msg) /\ Active(D) = Active(msg) \ last
      /\ Users(D) = Users(msg) \ last /\ Pending(D) = Pending(msg) \ last
      /\ \A s \in Rows(msg) : D[s].role = msg[s].role /\ D[s].of = msg[s].of
  BY <1>0, <1>3, <1>6, Deactivated
<1>8. Pending(D) = {} /\ Pending(msg) = {}
  <2>1. Pending(D) = {}
    BY <1>4 DEF BeginAnswer, MayAnswer
  <2> QED BY <1>4, <1>7, <2>1 DEF Pending
<1>9. q \in Users(D) /\ \A s \in Active(D) : s <= q
  BY <1>5, <1>7 DEF Users, Answers
<1>10. Fits(D)
  BY <1>0, <1>3, <1>5, <1>6, DeactivatedFits
<1>11. AnswersStay(D, hist.discarded)
  BY <1>0, <1>3, <1>6, StaysDeactivated
<1>12. \A a \in Seqs, N \in Messages :
         a = NextSequence(D) /\ N = WithRow(D, a, PendingAnswer(q))
           => AnswersStay(N, hist.discarded)
  <2> SUFFICES ASSUME NEW a \in Seqs, NEW N \in Messages, a = NextSequence(D),
                      N = WithRow(D, a, PendingAnswer(q))
               PROVE  AnswersStay(N, hist.discarded)
    OBVIOUS
  <2>1. q \in Seqs
    BY <1>0, <1>5, RowTypes
  <2>2. PICK new \in Message : new = PendingAnswer(q) /\ new.active /\ new.key = None
    BY <2>1, PendingAnswerType
  <2>3. a \notin Rows(D) /\ N = WithRow(D, a, new)
    BY <1>7, <2>2, NextIsBehind
  <2> QED BY <1>7, <1>11, <2>2, <2>3, StaysBesideUnkeyed
<1> QED BY <1>4, <1>7, <1>8, <1>9, <1>10, <1>12, BeginStep

\* An edit takes every pending answer out of the transcript.
LEMMA SupersededPending ==
  ASSUME msg \in Messages, Fits(msg), Users(msg) # {}
  PROVE  Pending(msg) \subseteq Superseded(LatestUser)
<1> SUFFICES ASSUME NEW p \in Pending(msg)
             PROVE  p \in Superseded(LatestUser)
  OBVIOUS
<1>1. LatestUser \in Users(msg)
  BY RowTypes, GreatestRow DEF LatestUser
<1>2. p \in Active(msg) /\ p \in Nat /\ LatestUser \in Rows(msg) /\ LatestUser \in Nat
  BY <1>1, RowTypes
<1>3. LatestUser <= p
  BY <1>2 DEF Fits, PendingIsLast
<1> QED BY <1>2, <1>3 DEF Superseded

\* Nobody else is in flight as long as no edit has superseded a pending answer.
LEMMA NobodyPending ==
  ASSUME ChatInv, ~hist.superseded, Pending(msg) = {}, conv.status # "deleted"
  PROVE  \A p \in Requests : ~InFlight(p)
BY DEF ChatInv, CountInv, TurnInv

LEMMA EditWriteStep ==
  ASSUME ChatInv, NEW r \in Requests, EditWrite(r)
  PROVE  ChatInv'
<1>1. msg \in Messages /\ Fits(msg) /\ AnswersStay(msg, hist.discarded)
  BY ConvTypes DEF ChatInv, Fits
<1>2. PICK S : S = Superseded(LatestUser)
  OBVIOUS
<1>3. /\ req[r].pc = "locked" /\ req[r].rows = S
      /\ Users(msg) # {} /\ NextSequence(msg) \in Seqs
  BY <1>2 DEF EditWrite, ChatInv, LockInv
<1>4. PICK D : D = Deactivate(msg, S)
  OBVIOUS
<1>5. PICK q \in Seqs : q = NextSequence(msg)
  BY <1>3
<1>6. LatestUser \in Seqs /\ LatestUser \in Rows(msg)
  BY <1>1, <1>3, RowTypes, GreatestRow DEF LatestUser
<1>7. S \subseteq Active(msg) /\ S \subseteq Rows(msg) /\ \E s \in Seqs : S = {t \in Active(msg) : t >= s}
  BY <1>1, <1>2, <1>6, RowTypes DEF Superseded
<1>8. /\ D \in Messages /\ Rows(D) = Rows(msg) /\ Pending(D) = Pending(msg) \ S
      /\ NextSequence(D) = NextSequence(msg)
      /\ \A s \in Rows(msg) : D[s].role = msg[s].role /\ D[s].of = msg[s].of
  BY <1>1, <1>4, <1>7, Deactivated
<1>9. Pending(msg) \subseteq S
  BY <1>1, <1>2, <1>3, SupersededPending
<1>10. Pending(D) = {}
  BY <1>8, <1>9
<1>11. Fits(D) /\ AnswersStay(D, hist.discarded)
  BY <1>1, <1>4, <1>7, DeactivatedFits, StaysDeactivated
<1>12. PICK N : N = WithRow(D, q, Question(None))
  OBVIOUS
<1>13. q \notin Rows(D) /\ q = NextSequence(D)
  BY <1>5, <1>8, NextIsBehind
<1> DEFINE row == Question(None)
<1>14. row \in Message /\ row.active /\ row.key = None /\ N = WithRow(D, q, row)
  BY <1>12, QuestionType
<1> HIDE DEF row
<1>15. /\ N \in Messages /\ Rows(N) = Rows(D) \cup {q}
       /\ \A s \in Seqs \ {q} : N[s] = D[s]
  BY <1>8, <1>13, <1>14, Appended
<1>16. Fits(N)
  BY <1>8, <1>10, <1>11, <1>12, <1>13, AskFits
<1>17. AnswersStay(N, hist.discarded)
  BY <1>8, <1>11, <1>13, <1>14, StaysBesideUnkeyed
<1>18. PICK n : n = Cardinality(Active(N))
  OBVIOUS
<1>19. n \in 0..MaxSeq
  BY <1>15, <1>18, RowTypes, Counted
<1>20. /\ msg' = N /\ conv' = [conv EXCEPT !.count = n] /\ req' = [req EXCEPT ![r] = Done]
       /\ UNCHANGED <<commands, losses>>
  BY <1>3, <1>4, <1>12, <1>13, <1>18 DEF EditWrite, WithRow
<1>21. hist' = [hist EXCEPT !.superseded = @ \/ S \cap Pending(msg) # {}]
  BY <1>3 DEF EditWrite
<1>22. /\ hist' \in History /\ hist'.discarded = hist.discarded
       /\ hist'.renamed = hist.renamed /\ hist'.renameOverlapped = hist.renameOverlapped
  BY <1>21 DEF ChatInv, TypeOK, History
<1>23. ~hist'.superseded => ~hist.superseded /\ S \cap Pending(msg) = {}
  BY <1>21, Zenon DEF ChatInv, TypeOK, History
<1>24. \A p \in Requests : req'[p] = IF p = r THEN Done ELSE req[p]
  BY <1>20 DEF ChatInv, TypeOK
<1>25. /\ conv' \in Conversation /\ conv'.status = conv.status /\ conv'.count = n
       /\ conv'.auto = conv.auto /\ conv'.title = conv.title
  BY <1>19, <1>20 DEF ChatInv, TypeOK, Conversation
<1>26. conv.status # "deleted"
  BY <1>6 DEF ChatInv, TurnInv
<1>27. TypeOK'
  BY <1>15, <1>20, <1>22, <1>25, DoneType DEF ChatInv, TypeOK, Messages
<1>28. LockInv'
  BY <1>3, <1>24, DoneType DEF ChatInv, LockInv
<1>29. DeletionInv'
  BY <1>24, DoneType, DeletionApart
<1>30. \A p \in Requests : InFlight(p)' =>
         InFlight(p) /\ req'[p] = req[p] /\ req[p].a \in Rows(msg)
  BY <1>24, <1>26, DoneType DEF InFlight, Answered, Rows, ChatInv, TurnInv
<1>31. TurnInv'
  <2> SUFFICES ASSUME NEW p \in Requests, InFlight(p)'
               PROVE  /\ req'[p].q \in Seqs /\ req'[p].a \in Seqs
                      /\ msg'[req'[p].a].role = "assistant" /\ msg'[req'[p].a].of = req'[p].q
                      /\ req'[p].a \in Rows(N)
                      /\ req'[p].pc = "flushed" => req'[p].out # "none"
                      /\ \A s \in Requests :
                           InFlight(s)' /\ req'[p].a = req'[s].a => p = s
    BY <1>15, <1>20, <1>25, <1>26 DEF TurnInv, Answered, Rows
  <2>1. InFlight(p) /\ req'[p] = req[p] /\ req[p].a \in Rows(msg)
    BY <1>30
  <2>2. /\ req[p].q \in Seqs /\ req[p].a \in Seqs
        /\ msg[req[p].a].role = "assistant" /\ msg[req[p].a].of = req[p].q
        /\ req[p].pc = "flushed" => req[p].out # "none"
    BY <2>1 DEF ChatInv, TurnInv, Answered, Rows
  <2>3. req[p].a \in Rows(N) /\ N[req[p].a] = D[req[p].a]
    BY <1>8, <1>13, <1>15, <2>1, <2>2
  <2>4. N[req[p].a].role = msg[req[p].a].role /\ N[req[p].a].of = msg[req[p].a].of
    BY <1>8, <2>1, <2>3
  <2>5. \A s \in Requests : InFlight(s)' /\ req'[p].a = req'[s].a => p = s
    BY <1>30, <2>1 DEF ChatInv, TurnInv
  <2> QED BY <1>20, <2>1, <2>2, <2>3, <2>4, <2>5
<1>32. ReplayAnswersItsQuestion'
  BY <1>22, <1>24, DoneType DEF ChatInv, ReplayAnswersItsQuestion
<1>33. CountInv'
  <2> SUFFICES ASSUME ~hist'.superseded PROVE CountInv'
    BY DEF CountInv
  <2>1. Pending(msg) = {} /\ ~hist.superseded
    BY <1>9, <1>23
  <2>2. \A p \in Requests : ~InFlight(p)'
    BY <1>26, <1>30, <2>1, NobodyPending
  <2> QED BY <1>18, <1>20, <1>25, <2>2 DEF CountInv
<1>34. TitleInv'
  BY <1>22, <1>24, <1>25, DoneType DEF ChatInv, TitleInv
<1> QED BY <1>29, <1>16, <1>17, <1>20, <1>22, <1>27, <1>28, <1>31, <1>32, <1>33, <1>34 DEF ChatInv, Fits

\* The rows go with the conversation, and no turn is left that has written one.
LEMMA DeleteWriteStep ==
  ASSUME ChatInv, NEW r \in Requests, DeleteWrite(r)
  PROVE  ChatInv'
<1>1. /\ req[r].pc = "locked" /\ req[r].op = "delete"
      /\ \A s \in Rows(msg) \ req[r].rows : ~RowLocked(s)
      /\ conv' = [conv EXCEPT !.status = "deleted", !.count = 0]
      /\ msg' = [s \in Seqs |-> None] /\ req' = [req EXCEPT ![r] = Done]
      /\ UNCHANGED <<commands, losses, hist>>
  BY DEF DeleteWrite
<1>2. msg' \in Messages /\ Rows(msg') = {} /\ \A s \in Seqs : msg'[s] = None
  BY <1>1 DEF Messages, Rows
<1>3. Active(msg') = {} /\ Answers(msg') = {} /\ Pending(msg') = {}
  BY <1>2, RowTypes
<1>4. \A p \in Requests : req'[p] = IF p = r THEN Done ELSE req[p]
  BY <1>1 DEF ChatInv, TypeOK
<1>5. /\ conv' \in Conversation /\ conv'.status = "deleted" /\ conv'.count = 0
      /\ conv'.auto = conv.auto /\ conv'.title = conv.title
  <2>1. 0 \in 0..MaxSeq
    BY ChatConstants
  <2>2. conv \in Conversation
    BY DEF ChatInv, TypeOK
  <2> QED BY <1>1, <2>1, <2>2 DEF Conversation
<1>6. TypeOK'
  BY <1>1, <1>2, <1>5, DoneType DEF ChatInv, TypeOK, Messages
<1>7. LockInv'
  BY <1>1, <1>4, DoneType DEF ChatInv, LockInv
<1>8. DeletionInv'
  BY <1>4, DoneType, DeletionApart
<1>9. \A p \in Requests : InFlight(p)' =>
        /\ InFlight(p) /\ req'[p] = req[p] /\ req[p].pc = "generating"
        /\ req[p].q \in Seqs /\ req[p].a \in Seqs
  <2> SUFFICES ASSUME NEW p \in Requests, InFlight(p)'
               PROVE  /\ InFlight(p) /\ req'[p] = req[p] /\ req[p].pc = "generating"
                      /\ req[p].q \in Seqs /\ req[p].a \in Seqs
    OBVIOUS
  <2>1. InFlight(p) /\ req'[p] = req[p]
    BY <1>4, DoneType DEF InFlight
  <2>2. req[p].q \in Seqs /\ req[p].a \in Seqs /\ (~Answered(p) => req[p].pc = "generating")
    BY <2>1 DEF ChatInv, TurnInv
  <2>3. req[p].pc # "flushed"
    <3> SUFFICES ASSUME req[p].pc = "flushed" PROVE FALSE
      OBVIOUS
    <3>1. req[p].a \in Rows(msg) /\ RowLocked(req[p].a)
      BY <2>2 DEF RowLocked, Answered, Rows
    <3>2. req[p].a \notin req[r].rows
      BY <1>1 DEF ChatInv, DeletionInv, Deleting
    <3> QED BY <1>1, <3>1, <3>2
  <2> QED BY <2>1, <2>2, <2>3 DEF InFlight
<1>10. \A p \in Requests : InFlight(p)' => ~Answered(p)'
  BY <1>2, <1>9 DEF Answered
<1>11. TurnInv'
  <2>1. \A p, s \in Requests : InFlight(p)' /\ InFlight(s)' /\ req'[p].a = req'[s].a => p = s
    BY <1>9 DEF ChatInv, TurnInv
  <2> QED BY <1>2, <1>5, <1>9, <1>10, <2>1 DEF TurnInv
<1>12. PendingIsLast(msg') /\ AnswersFit(msg') /\ AnswersStay(msg', hist'.discarded)
  BY <1>2, <1>3 DEF PendingIsLast, AnswersFit, AnswersStay
<1>13. ReplayAnswersItsQuestion'
  BY <1>1, <1>4, DoneType DEF ChatInv, ReplayAnswersItsQuestion
<1>14. CountInv'
  BY <1>3, <1>5, <1>10, FS_EmptySet DEF CountInv
<1>15. TitleInv'
  BY <1>1, <1>4, <1>5, DoneType DEF ChatInv, TitleInv
<1> QED BY <1>8, <1>6, <1>7, <1>11, <1>12, <1>13, <1>14, <1>15 DEF ChatInv

AfterCommit(x) == IF x.title = "after" THEN [Done EXCEPT !.pc = "titling", !.titled = x.titled] ELSE Done

LEMMA AfterCommitType ==
  ASSUME NEW x \in Request
  PROVE  LET y == AfterCommit(x)
         IN  /\ y \in Request /\ y.pc \in {"done", "titling"} /\ y.op = "none"
             /\ y.pc = "titling" => y.titled = x.titled
<1>1. x.titled \in BOOLEAN
  BY DEF Request
<1>2. CASE x.title = "after"
  BY <1>1, <1>2, DoneType DEF AfterCommit, Request
<1>3. CASE x.title # "after"
  BY <1>3, DoneType DEF AfterCommit
<1> QED BY <1>2, <1>3

\* What a settlement writes to the conversation's row.
LEMMA SettledConversation ==
  ASSUME conv \in Conversation, NEW r \in Requests, req[r] \in Request, NEW due \in BOOLEAN,
         NEW c, c = Titled(Recounted(conv, r), due)
  PROVE  /\ c \in Conversation
         /\ c.status = conv.status /\ c.auto = conv.auto
         /\ c.count = IF req[r].seen = req[r].count THEN conv.count ELSE req[r].seen
         /\ ~due => c.title = conv.title
<1>1. PICK d : d = Recounted(conv, r)
  OBVIOUS
<1>2. /\ d \in Conversation /\ d.status = conv.status /\ d.auto = conv.auto
      /\ d.title = conv.title
      /\ d.count = IF req[r].seen = req[r].count THEN conv.count ELSE req[r].seen
  <2>1. req[r].seen \in 0..MaxSeq
    BY DEF Request
  <2>2. CASE req[r].seen = req[r].count
    BY <1>1, <2>2 DEF Recounted
  <2>3. CASE req[r].seen # req[r].count
    BY <1>1, <2>1, <2>3 DEF Recounted, Conversation
  <2> QED BY <2>2, <2>3
<1>3. c = Titled(d, due)
  BY <1>1
<1>4. /\ c \in Conversation /\ c.status = d.status /\ c.auto = d.auto /\ c.count = d.count
      /\ ~due => c.title = d.title
  BY <1>2, <1>3 DEF Titled, Conversation
<1> QED BY <1>2, <1>4

LEMMA SettleCommitStep ==
  ASSUME ChatInv, NEW r \in Requests, SettleCommit(r)
  PROVE  ChatInv'
<1>1. /\ msg \in Messages /\ Fits(msg) /\ AnswersStay(msg, hist.discarded)
      /\ req[r] \in Request /\ conv \in Conversation
  BY ConvTypes DEF ChatInv, Fits, TypeOK
<1>2. req[r].pc = "flushed" /\ Unlocked
  BY DEF SettleCommit
<1>3. PICK a \in Rows(msg) : a = req[r].a
  BY <1>2 DEF ChatInv, TurnInv, InFlight, Answered, Rows
<1>4. PICK out \in Outcomes : out = req[r].out
  BY <1>1, <1>2 DEF ChatInv, TurnInv, InFlight, Request, Outcomes
<1>5. msg[a].role = "assistant" /\ msg[a].of = req[r].q /\ req[r].q \in Seqs
  BY <1>2, <1>3 DEF ChatInv, TurnInv, InFlight, Answered, Rows
<1>6. PICK N : N = WithSettled(msg, a, out)
  OBVIOUS
<1>7. PICK due \in BOOLEAN : due = (req[r].title = "inline" /\ TitleDue(r, N))
  OBVIOUS
<1>8. /\ N \in Messages /\ Rows(N) = Rows(msg) \ Gone(a, out)
      /\ Active(N) = Active(msg) \ Gone(a, out)
      /\ \A s \in Rows(msg) \ {a} : N[s] = msg[s]
  BY <1>1, <1>6, Settled
<1>9. PICK x \in Request :
        /\ x = AfterCommit(req[r]) /\ x.pc \in {"done", "titling"} /\ x.op = "none"
        /\ x.pc = "titling" => x.titled = req[r].titled
  BY <1>1, AfterCommitType
<1>10. PICK c : c = Titled(Recounted(conv, r), due)
  OBVIOUS
<1>11. /\ msg' = N /\ conv' = c /\ req' = [req EXCEPT ![r] = x]
       /\ UNCHANGED <<commands, losses>>
  BY <1>3, <1>4, <1>6, <1>7, <1>9, <1>10 DEF SettleCommit, WithSettled, AfterCommit
<1>12. hist' = [hist EXCEPT !.discarded = IF out = "discarded" THEN @ \cup {req[r].q} ELSE @]
  BY <1>4 DEF SettleCommit
<1>13. /\ hist' \in History /\ hist'.superseded = hist.superseded
       /\ hist'.renamed = hist.renamed /\ hist'.renameOverlapped = hist.renameOverlapped
       /\ hist.discarded \subseteq hist'.discarded
       /\ out = "discarded" => msg[a].of \in hist'.discarded
  BY <1>5, <1>12 DEF ChatInv, TypeOK, History
<1>14. /\ c \in Conversation /\ c.status = conv.status /\ c.auto = conv.auto
       /\ c.count = IF req[r].seen = req[r].count THEN conv.count ELSE req[r].seen
       /\ ~due => c.title = conv.title
  BY <1>1, <1>10, SettledConversation
<1>15. \A p \in Requests : req'[p] = IF p = r THEN x ELSE req[p]
  BY <1>11 DEF ChatInv, TypeOK
<1>16. conv.status # "deleted"
  BY <1>3 DEF ChatInv, TurnInv
<1>17. TypeOK'
  BY <1>8, <1>11, <1>13, <1>14 DEF ChatInv, TypeOK, Messages
<1>18. LockInv'
  BY <1>2, <1>9, <1>15 DEF LockInv, Unlocked
<1>19. DeletionInv'
  BY <1>9, <1>15, DeletionApart
<1>20. \A p \in Requests : InFlight(p)' =>
         /\ InFlight(p) /\ p # r /\ req'[p] = req[p]
         /\ req[p].a \in Rows(msg) /\ req[p].a # a
  <2> SUFFICES ASSUME NEW p \in Requests, InFlight(p)'
               PROVE  /\ InFlight(p) /\ p # r /\ req'[p] = req[p]
                      /\ req[p].a \in Rows(msg) /\ req[p].a # a
    OBVIOUS
  <2>1. InFlight(p) /\ p # r /\ req'[p] = req[p]
    BY <1>9, <1>15 DEF InFlight
  <2>2. req[p].a \in Rows(msg)
    BY <1>16, <2>1 DEF ChatInv, TurnInv, Answered, Rows
  <2>3. InFlight(r)
    BY <1>2 DEF InFlight
  <2>4. req[p].a # a
    BY <1>3, <2>1, <2>3 DEF ChatInv, TurnInv
  <2> QED BY <2>1, <2>2, <2>4
<1>21. TurnInv'
  <2> SUFFICES ASSUME NEW p \in Requests, InFlight(p)'
               PROVE  /\ req'[p].q \in Seqs /\ req'[p].a \in Seqs
                      /\ msg'[req'[p].a].role = "assistant" /\ msg'[req'[p].a].of = req'[p].q
                      /\ req'[p].a \in Rows(N)
                      /\ req'[p].pc = "flushed" => req'[p].out # "none"
                      /\ \A s \in Requests :
                           InFlight(s)' /\ req'[p].a = req'[s].a => p = s
    BY <1>11, <1>14, <1>16 DEF TurnInv, Answered, Rows
  <2>1. InFlight(p) /\ req'[p] = req[p] /\ req[p].a \in Rows(msg) /\ req[p].a # a
    BY <1>20
  <2>2. /\ req[p].q \in Seqs /\ req[p].a \in Seqs
        /\ msg[req[p].a].role = "assistant" /\ msg[req[p].a].of = req[p].q
        /\ req[p].pc = "flushed" => req[p].out # "none"
    BY <2>1 DEF ChatInv, TurnInv, Answered, Rows
  <2>3. req[p].a \in Rows(N) /\ N[req[p].a] = msg[req[p].a]
    BY <1>8, <2>1 DEF Gone
  <2>4. \A s \in Requests : InFlight(s)' /\ req'[p].a = req'[s].a => p = s
    BY <1>20, <2>1 DEF ChatInv, TurnInv
  <2> QED BY <1>11, <2>1, <2>2, <2>3, <2>4
<1>22. Fits(N) /\ AnswersStay(N, hist'.discarded)
  <2>1. Fits(N)
    BY <1>1, <1>5, <1>6, SettledFits
  <2>2. AnswersStay(N, hist'.discarded)
    BY <1>1, <1>6, <1>13, StaysSettled
  <2> QED BY <2>1, <2>2
<1>23. ReplayAnswersItsQuestion'
  <2>1. \A p \in Requests : req'[p].op = "replay" => p # r /\ req'[p] = req[p]
    BY <1>9, <1>15
  <2> QED BY <1>13, <2>1 DEF ChatInv, ReplayAnswersItsQuestion
<1>24. CountInv'
  <2> SUFFICES ASSUME ~hist.superseded PROVE CountInv'
    BY <1>13 DEF CountInv
  <2>1. /\ conv.count = Cardinality(Active(msg)) /\ req[r].count = conv.count
        /\ req[r].seen = Cardinality(Active(N)) /\ a \in Pending(msg)
    BY <1>2, <1>3, <1>4, <1>8 DEF ChatInv, CountInv, InFlight, Answered, Rows, Gone
  <2>2. \A p \in Requests : ~InFlight(p)'
    <3> SUFFICES ASSUME NEW p \in Requests, InFlight(p)' PROVE FALSE
      OBVIOUS
    <3>1. InFlight(p) /\ req[p].a \in Rows(msg) /\ req[p].a # a
      BY <1>20
    <3>2. req[p].a \in Pending(msg)
      BY <3>1 DEF ChatInv, CountInv, Answered, Rows
    <3>3. a \in Nat /\ req[p].a \in Nat /\ a <= req[p].a /\ req[p].a <= a
      BY <1>1, <2>1, <3>1, <3>2, RowTypes DEF Fits, PendingIsLast
    <3> QED BY <3>1, <3>3
  <2>3. c.count = Cardinality(Active(N))
    BY <1>14, <2>1
  <2> QED BY <1>11, <2>2, <2>3 DEF CountInv
<1>25. TitleInv'
  <2>1. ASSUME hist.renamed, ~hist.renameOverlapped
        PROVE  conv.title = "chosen" /\ req[r].titled
    BY <1>2, <2>1 DEF ChatInv, TitleInv
  <2>2. hist.renamed /\ ~hist.renameOverlapped => c.title = "chosen"
    BY <1>7, <1>14, <2>1 DEF TitleDue
  <2>3. hist.renamed => ~c.auto
    BY <1>14 DEF ChatInv, TitleInv
  <2>4. ASSUME hist.renamed, ~hist.renameOverlapped, NEW p \in Requests,
               req'[p].pc \in {"generating", "flushed", "titling"}
        PROVE  req'[p].titled
    BY <1>9, <1>15, <2>1, <2>4 DEF ChatInv, TitleInv
  <2> QED BY <1>11, <1>13, <2>2, <2>3, <2>4 DEF TitleInv
<1> QED BY <1>19, <1>11, <1>17, <1>18, <1>21, <1>22, <1>23, <1>24, <1>25 DEF ChatInv, Fits

----------------------------------------------------------------------------
(* Commands, and the theorems *)

\* Nobody's request changes and no message does.
LEMMA CommandStep ==
  ASSUME ChatInv, UNCHANGED <<msg, req, losses>>, commands' \in 0..MaxCommands,
         conv' \in Conversation, conv'.count = conv.count,
         conv.status # "deleted", conv'.status # "deleted",
         hist' \in History, hist'.superseded = hist.superseded,
         hist'.discarded = hist.discarded, TitleInv'
  PROVE  ChatInv'
<1>1. TypeOK'
  BY DEF ChatInv, TypeOK
<1>2. LockInv'
  BY DEF ChatInv, LockInv, Superseded, LatestUser
<1>3. DeletionInv'
  BY DEF ChatInv, DeletionInv, Deleting
<1>4. TurnInv'
  BY DEF ChatInv, TurnInv, InFlight, Answered
<1>5. ReplayAnswersItsQuestion'
  BY DEF ChatInv, ReplayAnswersItsQuestion
<1>6. CountInv'
  BY DEF ChatInv, CountInv, InFlight, Answered
<1> QED BY <1>3, <1>1, <1>2, <1>4, <1>5, <1>6 DEF ChatInv

LEMMA MoreCommands ==
  ASSUME ChatInv, commands < MaxCommands
  PROVE  commands + 1 \in 0..MaxCommands
BY ChatConstants DEF ChatInv, TypeOK

LEMMA RenameStep ==
  ASSUME ChatInv, Rename
  PROVE  ChatInv'
<1>1. /\ conv.status # "deleted" /\ commands' = commands + 1 /\ commands < MaxCommands
      /\ conv' = [conv EXCEPT !.title = "chosen", !.auto = FALSE]
      /\ UNCHANGED <<msg, req, losses>>
  BY DEF Rename
<1>2. hist' = [hist EXCEPT !.renamed = TRUE, !.renameOverlapped = @ \/ InTurn]
  BY DEF Rename
<1>3. /\ conv' \in Conversation /\ conv'.count = conv.count /\ conv'.status = conv.status
      /\ conv'.title = "chosen" /\ conv'.auto = FALSE
  BY <1>1 DEF ChatInv, TypeOK, Conversation
<1>4. PICK overlapped \in BOOLEAN : overlapped = (hist.renameOverlapped \/ InTurn)
  OBVIOUS
<1>5. /\ hist' \in History /\ hist'.superseded = hist.superseded
      /\ hist'.discarded = hist.discarded /\ hist'.renameOverlapped = overlapped
  <2>1. hist' = [hist EXCEPT !.renamed = TRUE, !.renameOverlapped = overlapped]
    BY <1>2, <1>4
  <2> QED BY <2>1 DEF ChatInv, TypeOK, History
<1>6. TitleInv'
  BY <1>1, <1>3, <1>4, <1>5 DEF TitleInv, InTurn
<1> QED BY <1>1, <1>3, <1>5, <1>6, CommandStep, MoreCommands

LEMMA SetStatusStep ==
  ASSUME ChatInv, NEW s \in {"active", "archived"}, SetStatus(s)
  PROVE  ChatInv'
<1>1. /\ conv.status # "deleted" /\ commands' = commands + 1 /\ commands < MaxCommands
      /\ conv' = [conv EXCEPT !.status = s] /\ UNCHANGED <<msg, req, losses, hist>>
  BY DEF SetStatus
<1>2. /\ conv' \in Conversation /\ conv'.count = conv.count /\ conv'.status = s
      /\ conv'.title = conv.title /\ conv'.auto = conv.auto
  BY <1>1 DEF ChatInv, TypeOK, Conversation
<1>3. TitleInv'
  BY <1>1, <1>2 DEF ChatInv, TitleInv
<1>4. hist \in History
  BY DEF ChatInv, TypeOK
<1> QED BY <1>1, <1>2, <1>3, <1>4, CommandStep, MoreCommands

LEMMA ChatInit ==
  ASSUME Init
  PROVE  ChatInv
<1>1. /\ conv = [status |-> "active", count |-> 0, title |-> "default", auto |-> TRUE]
      /\ msg = [s \in Seqs |-> None] /\ req = [r \in Requests |-> Idle]
      /\ commands = 0 /\ losses = 0
      /\ hist = [superseded |-> FALSE, discarded |-> {}, renameOverlapped |-> FALSE,
                 renamed |-> FALSE]
  BY DEF Init
<1>2. msg \in Messages /\ Rows(msg) = {}
  BY <1>1 DEF Messages, Rows
<1>3. Active(msg) = {} /\ Answers(msg) = {} /\ Pending(msg) = {}
  BY <1>2, RowTypes
<1>4. \A r \in Requests : req[r] = Idle
  BY <1>1
<1>5. conv \in Conversation /\ commands \in 0..MaxCommands /\ losses \in 0..MaxLosses
  BY <1>1, ChatConstants DEF Conversation
<1>6. hist \in History
  BY <1>1 DEF History
<1>7. TypeOK
  BY <1>1, <1>2, <1>5, <1>6, IdleType DEF TypeOK, Messages
<1>8. LockInv /\ DeletionInv /\ TurnInv /\ ReplayAnswersItsQuestion /\ TitleInv
  BY <1>1, <1>4, IdleType DEF LockInv, DeletionInv, TurnInv, InFlight, ReplayAnswersItsQuestion, TitleInv
<1>9. PendingIsLast(msg) /\ AnswersFit(msg) /\ AnswersStay(msg, hist.discarded)
  BY <1>2, <1>3 DEF PendingIsLast, AnswersFit, AnswersStay
<1>10. CountInv
  BY <1>1, <1>3, <1>4, IdleType, FS_EmptySet DEF CountInv, InFlight
<1> QED BY <1>7, <1>8, <1>9, <1>10 DEF ChatInv

LEMMA ChatNext ==
  ASSUME ChatInv, [Next]_vars
  PROVE  ChatInv'
<1>1. ASSUME NEW r \in Requests, Step(r)
      PROVE  ChatInv'
  <2>1. ASSUME NEW op \in {"send", "stream"}, NEW k \in Keys \cup {None}, Send(r, op, k)
        PROVE  ChatInv'
    BY <2>1, SendStep
  <2>2. ASSUME NEW op \in {"send", "stream"}, NEW k \in Keys \cup {None}, Replay(r, op, k)
        PROVE  ChatInv'
    BY <2>2, ReplayStep
  <2>3. CASE Regenerate(r)
    BY <2>3, RegenerateStep
  <2>4. CASE EditLock(r)
    BY <2>4, EditLockStep
  <2>5. CASE EditWrite(r)
    BY <2>5, EditWriteStep
  <2>6. CASE DeleteMessages(r)
    BY <2>6, DeleteMessagesStep
  <2>7. CASE DeleteLock(r)
    BY <2>7, DeleteLockStep
  <2>8. CASE DeleteWrite(r)
    BY <2>8, DeleteWriteStep
  <2>9. CASE Settle(r)
    BY <2>9, SettleStep
  <2>10. CASE SettleCommit(r)
    BY <2>10, SettleCommitStep
  <2>11. CASE TitleCommit(r)
    BY <2>11, TitleCommitStep
  <2>12. CASE \/ SettleOnDeleted(r)
              \/ \E e \in Requests : DeadlockAbort(r, e) \/ RegenerateDeadlock(r, e)
              \/ SendDomainError(r) \/ RegenerateError(r) \/ StreamTorn(r)
    BY <2>12, UnwrittenEnds
  <2> QED
    BY <1>1, <2>1, <2>2, <2>3, <2>4, <2>5, <2>6, <2>7, <2>8, <2>9, <2>10,
       <2>11, <2>12 DEF Step
<1>2. CASE Rename
  BY <1>2, RenameStep
<1>3. ASSUME NEW s \in {"active", "archived"}, SetStatus(s)
      PROVE  ChatInv'
  BY <1>3, SetStatusStep
<1>4. CASE UNCHANGED vars
  BY <1>4 DEF vars, ChatInv, TypeOK, LockInv, DeletionInv, Deleting, TurnInv, InFlight, Answered,
              CountInv, TitleInv, ReplayAnswersItsQuestion, Superseded, LatestUser
<1> QED BY <1>1, <1>2, <1>3, <1>4 DEF Next

\* The inductive invariant holds: who holds the conversation's lock, which
\* turn owns which answer, what a settlement has counted, and where every
\* answer stands, in every reachable state.
THEOREM ChatInvariant == Spec => []ChatInv
<1>1. Init => ChatInv
  BY ChatInit
<1>2. ChatInv /\ [Next]_vars => ChatInv'
  BY ChatNext
<1> QED BY <1>1, <1>2, PTL DEF Spec

LEMMA OnePending ==
  ASSUME ChatInv
  PROVE  Cardinality(Pending(msg)) <= 1
<1>1. msg \in Messages
  BY ConvTypes DEF ChatInv
<1>2. ASSUME Pending(msg) = {}
      PROVE  Cardinality(Pending(msg)) <= 1
  <2>1. Cardinality(Pending(msg)) = 0
    BY <1>2, FS_EmptySet
  <2> QED BY <2>1
<1>3. ASSUME NEW p \in Pending(msg)
      PROVE  Cardinality(Pending(msg)) <= 1
  <2>1. \A s \in Pending(msg) : s = p
    <3> TAKE s \in Pending(msg)
    <3>1. s \in Nat /\ p \in Nat /\ s \in Rows(msg) /\ p \in Rows(msg)
      BY <1>1, RowTypes
    <3>2. s <= p /\ p <= s
      BY <3>1 DEF ChatInv, PendingIsLast
    <3> QED BY <3>1, <3>2
  <2>2. Pending(msg) = {p}
    BY <2>1
  <2>3. Cardinality(Pending(msg)) = 1
    BY <2>2, FS_Singleton
  <2> QED BY <2>3
<1> QED BY <1>2, <1>3

\* The visible transcript is well formed, whatever edits, regenerations,
\* deletions, aborted transactions and late settlements overlap with it
\* (create_pending_assistant, prepare_regeneration, edit_latest_user_message).
THEOREM TranscriptWellFormed == Spec => []Transcript
<1>1. ChatInv => Transcript
  BY OnePending DEF ChatInv, AnswersFit, Transcript
<1> QED BY <1>1, ChatInvariant, PTL

\* A retried request gets the answer to its own question, except after a
\* discarded answer (_following_assistant, discard_empty_assistant).
THEOREM ReplaysAnswerTheirQuestion == Spec => []ReplayAnswersItsQuestion
<1>1. ChatInv => ReplayAnswersItsQuestion
  BY DEF ChatInv
<1> QED BY <1>1, ChatInvariant, PTL

\* message_count and a chosen title survive settlements that count without
\* the conversation's lock (refresh_counters, _maybe_update_title).
THEOREM ConversationRowIsRight == Spec => []ConversationRowRight
<1>1. ChatInv => ConversationRowRight
  BY DEF ChatInv, CountInv, TitleInv, ConversationRowRight
<1> QED BY <1>1, ChatInvariant, PTL
=============================================================================
