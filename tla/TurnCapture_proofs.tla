------------------------- MODULE TurnCapture_proofs -------------------------
(***************************************************************************)
(* Proofs about turn capture: the offset stays inside the conversation, and *)
(* cutting the turn out of the conversation implements recording it as it   *)
(* happens, for every set of items and every history.                       *)
(***************************************************************************)
EXTENDS TurnCapture, SequenceTheorems, TLAPS

-----------------------------------------------------------------------------
(* Sequences *)

\* A tail of a sequence of items is one, and its items are known.
LEMMA TailType ==
    ASSUME NEW S, NEW s \in Seq(S), NEW n \in Nat
    PROVE  /\ TurnTail(s, n) \in Seq(S)
           /\ n <= Len(s) => Len(TurnTail(s, n)) = Len(s) - n
           /\ n <= Len(s) => \A i \in 1..(Len(s) - n) : TurnTail(s, n)[i] = s[n + i]
<1>1. Len(s) \in Nat
  BY LenProperties
<1>2. \A i \in (n + 1)..Len(s) : s[i] \in S
  BY <1>1, ElementOfSeq
<1> HIDE DEF TurnTail
<1>3. /\ SubSeq(s, n + 1, Len(s)) \in Seq(S)
      /\ Len(SubSeq(s, n + 1, Len(s))) = IF n + 1 <= Len(s) THEN Len(s) - (n + 1) + 1 ELSE 0
      /\ \A i \in 1..(Len(s) - (n + 1) + 1) : SubSeq(s, n + 1, Len(s))[i] = s[(n + 1) + i - 1]
  BY <1>1, <1>2, SubSeqProperties
<1> QED
  BY <1>1, <1>3 DEF TurnTail

\* There is nothing behind the last item.
LEMMA TailAtEnd ==
    ASSUME NEW S, NEW s \in Seq(S)
    PROVE  TurnTail(s, Len(s)) = <<>>
  BY LenProperties, SubSeqEmpty DEF TurnTail

\* Behind the last but one there is the last.
LEMMA TailOfLast ==
    ASSUME NEW S, NEW s \in Seq(S), s # <<>>
    PROVE  /\ Len(s) - 1 \in Nat
           /\ s[Len(s)] \in S
           /\ TurnTail(s, Len(s) - 1) = <<s[Len(s)]>>
<1>1. Len(s) \in Nat /\ Len(s) >= 1
  BY EmptySeq
<1>2. s[Len(s)] \in S
  BY <1>1, ElementOfSeq
<1> DEFINE n == Len(s) - 1
           t == TurnTail(s, n)
<1>3. n \in Nat /\ n <= Len(s) /\ Len(s) - n = 1 /\ n + 1 = Len(s)
  BY <1>1
<1>4. t \in Seq(S) /\ Len(t) = 1 /\ t[1] = s[n + 1]
  <2> HIDE DEF n
  <2>1. /\ t \in Seq(S) /\ Len(t) = Len(s) - n
        /\ \A i \in 1..(Len(s) - n) : t[i] = s[n + i]
    BY <1>3, TailType
  <2> QED
    BY <1>3, <2>1
<1>5. t = <<s[Len(s)]>>
  <2>1. <<s[Len(s)]>> \in Seq(S) /\ Len(<<s[Len(s)]>>) = 1 /\ <<s[Len(s)]>>[1] = s[Len(s)]
    BY <1>2
  <2> QED
    BY <1>3, <1>4, <2>1, SeqEqual
<1> QED
  BY <1>2, <1>3, <1>5

\* What is appended to a sequence is appended to its tails.
LEMMA TailOfAppend ==
    ASSUME NEW S, NEW s \in Seq(S), NEW e \in S, NEW n \in Nat, n <= Len(s)
    PROVE  TurnTail(Append(s, e), n) = Append(TurnTail(s, n), e)
<1> DEFINE x == Append(s, e)
           a == TurnTail(x, n)
           t == TurnTail(s, n)
           b == Append(t, e)
<1>1. Len(s) \in Nat
  BY LenProperties
<1>2. /\ x \in Seq(S) /\ Len(x) = Len(s) + 1
      /\ \A i \in 1..Len(s) : x[i] = s[i]
      /\ x[Len(s) + 1] = e
  BY AppendProperties
<1>4. /\ t \in Seq(S) /\ Len(t) = Len(s) - n
      /\ \A i \in 1..(Len(s) - n) : t[i] = s[n + i]
  BY TailType
<1>3. /\ a \in Seq(S) /\ Len(a) = Len(s) + 1 - n
      /\ \A i \in 1..(Len(s) + 1 - n) : a[i] = x[n + i]
  <2> HIDE DEF x
  <2>1. n <= Len(x) /\ Len(x) - n = Len(s) + 1 - n
    BY <1>1, <1>2
  <2>2. /\ a \in Seq(S) /\ Len(a) = Len(x) - n
        /\ \A i \in 1..(Len(x) - n) : a[i] = x[n + i]
    BY <1>2, <2>1, TailType
  <2> QED
    BY <2>1, <2>2
<1>5. /\ b \in Seq(S) /\ Len(b) = Len(t) + 1
      /\ \A i \in 1..Len(t) : b[i] = t[i]
      /\ b[Len(t) + 1] = e
  <2> HIDE DEF t
  <2> QED
    BY <1>4, AppendProperties
<1>6. a = b
  <2> HIDE DEF x, a, t, b
  <2>1. ASSUME NEW i \in 1..Len(a) PROVE a[i] = b[i]
    <3>1. CASE i <= Len(s) - n
      BY <1>1, <1>2, <1>3, <1>4, <1>5, <3>1
    <3>2. CASE i = Len(s) - n + 1
      BY <1>1, <1>2, <1>3, <1>4, <1>5, <3>2
    <3> QED
      BY <1>1, <1>3, <3>1, <3>2
  <2>2. Len(a) = Len(b)
    BY <1>1, <1>3, <1>4, <1>5
  <2> QED
    BY <1>3, <1>5, <2>1, <2>2, SeqEqual
<1> QED
  BY <1>6

\* Appending to the second part appends to the whole.
LEMMA ConcatAppend ==
    ASSUME NEW S, NEW s \in Seq(S), NEW t \in Seq(S), NEW e \in S
    PROVE  s \o Append(t, e) = Append(s \o t, e)
<1>1. Append(t, e) = t \o <<e>> /\ <<e>> \in Seq(S)
  BY AppendIsConcat
<1>2. s \o t \in Seq(S)
  BY ConcatProperties
<1>3. Append(s \o t, e) = (s \o t) \o <<e>>
  BY <1>2, AppendIsConcat
<1> QED
  BY <1>1, <1>3, ConcatAssociative

-----------------------------------------------------------------------------
(* Typing *)

\* The state is well formed and the offset never passes the end of the
\* conversation, so the assertion in turn_tail holds at every call.
THEOREM TypeCorrect == Spec => []TypeOK
<1>1. Init => TypeOK
  <2>1. <<>> \in Seq(Items)
    BY EmptySeq
  <2>2. Init => offset \in Nat
    BY DEF Init
  <2> QED
    BY <2>1, <2>2, Zenon DEF Init, TypeOK
<1>2. TypeOK /\ [Next]_vars => TypeOK'
  <2> SUFFICES ASSUME TypeOK, [Next]_vars PROVE TypeOK'
    OBVIOUS
  <2> USE DEF TypeOK
  <2>1. /\ TurnTail(conv, offset) \in Seq(Items)
        /\ pre \o TurnTail(conv, offset) \in Seq(Items)
        /\ Captured \in Seq(Items)
        /\ <<>> \in Seq(Items)
    BY TailType, ConcatProperties, EmptySeq DEF Captured
  <2>2. ASSUME BeginTurnCapture PROVE TypeOK'
    BY <2>2 DEF BeginTurnCapture
  <2>3. ASSUME TakeTurnMessages PROVE TypeOK'
    BY <2>1, <2>3 DEF TakeTurnMessages, Close
  <2>4. ASSUME Rewrite PROVE TypeOK'
    BY <2>1, <2>4 DEF Rewrite, Rebase
  <2>5. ASSUME PushUser PROVE TypeOK'
    BY <2>1, <2>5 DEF PushUser, Rebase
  <2>6. ASSUME Truncate PROVE TypeOK'
    BY <2>1, <2>6 DEF Truncate, Close
  <2>7. ASSUME NEW item \in Items, Push(item) PROVE TypeOK'
    BY <2>7 DEF Push
  <2>8. ASSUME UNCHANGED vars PROVE TypeOK'
    BY <2>8 DEF vars
  <2> QED
    BY <2>2, <2>3, <2>4, <2>5, <2>6, <2>7, <2>8 DEF Next
<1> QED
  BY <1>1, <1>2, PTL DEF Spec

-----------------------------------------------------------------------------
(* Refinement *)

\* A rewrite is invisible: the tail is saved before and empty after.
LEMMA RewriteIsSilent ==
    ASSUME TypeOK, Rewrite
    PROVE  Captured' = Captured
<1> USE DEF TypeOK
<1>1. TurnTail(conv, offset) \in Seq(Items)
  BY TailType
<1>2. TurnTail(conv', Len(conv')) = <<>>
  BY TailAtEnd DEF Rewrite
<1>3. CASE on
  BY <1>1, <1>2, <1>3 DEF Rewrite, Rebase, Captured
<1>4. CASE ~on
  BY <1>4 DEF Rewrite, Rebase, Captured
<1> QED
  BY <1>3, <1>4

\* A user message is logged once, whatever the repair before it did.
LEMMA PushUserIsLogged ==
    ASSUME TypeOK, PushUser
    PROVE  \E item \in Items : Log!Push(item)
<1> USE DEF TypeOK
<1> DEFINE item == conv'[Len(conv')]
<1>1. TurnTail(conv, offset) \in Seq(Items)
  BY TailType
<1>2. conv' \in Seq(Items) /\ conv' # <<>>
  BY DEF PushUser
<1>3. item \in Items /\ TurnTail(conv', Len(conv') - 1) = <<item>>
  BY <1>2, TailOfLast
<1>4. CASE on
  <2>1. Captured = pre \o TurnTail(conv, offset) /\ Captured' = pre' \o TurnTail(conv', offset')
    BY <1>4 DEF Captured, PushUser, Rebase
  <2>2. pre' = Captured /\ offset' = Len(conv') - 1
    BY <1>4, <2>1 DEF PushUser, Rebase
  <2>3. Captured \in Seq(Items)
    BY <1>1, <2>1
  <2>4. Captured' = Captured \o <<item>>
    BY <1>3, <2>1, <2>2
  <2>5. Captured' = Append(Captured, item)
    <3> HIDE DEF item
    <3> QED
      BY <1>3, <2>3, <2>4, AppendIsConcat
  <2> QED
    BY <1>3, <1>4, <2>5 DEF Log!Push, PushUser, Rebase
<1>5. CASE ~on
  BY <1>3, <1>5 DEF Log!Push, PushUser, Rebase, Captured
<1> QED
  BY <1>4, <1>5

\* Any other item is logged once.
LEMMA PushIsLogged ==
    ASSUME TypeOK, NEW item \in Items, Push(item)
    PROVE  Log!Push(item)
<1> USE DEF TypeOK
<1>1. TurnTail(conv, offset) \in Seq(Items)
  BY TailType
<1>2. CASE on
  <2>1. TurnTail(conv', offset) = Append(TurnTail(conv, offset), item)
    BY <1>2, TailOfAppend DEF Push
  <2>2. Captured' = Append(Captured, item)
    BY <1>1, <1>2, <2>1, ConcatAppend DEF Push, Captured
  <2> QED
    BY <1>2, <2>2 DEF Log!Push, Push
<1>3. CASE ~on
  BY <1>3 DEF Log!Push, Push, Captured
<1> QED
  BY <1>2, <1>3

\* Cutting the turn out of the conversation implements recording it: a take
\* answers what was pushed since the begin, however often and however the
\* conversation was rewritten in between.
THEOREM CaptureImplementsLog == Spec => LogSpec
<1>1. Init => Log!Init
  BY DEF Init, Log!Init, Captured
<1>2. TypeOK /\ [Next]_vars => [Log!Next]_(Log!vars)
  <2> SUFFICES ASSUME TypeOK, [Next]_vars PROVE [Log!Next]_(Log!vars)
    OBVIOUS
  <2>1. ASSUME BeginTurnCapture PROVE Log!Begin
    BY <2>1, TailAtEnd DEF BeginTurnCapture, Log!Begin, Captured, TypeOK
  <2>2. ASSUME TakeTurnMessages PROVE Log!Take
    BY <2>2 DEF TakeTurnMessages, Close, Log!Take, Captured
  <2>3. ASSUME Rewrite PROVE UNCHANGED Log!vars
    BY <2>3, RewriteIsSilent DEF Log!vars, Rewrite, Rebase
  <2>4. ASSUME PushUser PROVE Log!Next
    BY <2>4, PushUserIsLogged DEF Log!Next
  <2>5. ASSUME Truncate PROVE Log!Drop
    BY <2>5 DEF Truncate, Close, Log!Drop, Captured
  <2>6. ASSUME NEW item \in Items, Push(item) PROVE Log!Next
    BY <2>6, PushIsLogged DEF Log!Next
  <2>7. ASSUME UNCHANGED vars PROVE UNCHANGED Log!vars
    BY <2>7 DEF vars, Log!vars, Captured
  <2> QED
    BY <2>1, <2>2, <2>3, <2>4, <2>5, <2>6, <2>7 DEF Next, Log!Next
<1>3. Spec => []TypeOK
  BY TypeCorrect
<1> QED
  BY <1>1, <1>2, <1>3, PTL DEF Spec, LogSpec, Log!Spec
=============================================================================
