----------------------- MODULE CircuitBreaker_proofs -----------------------
(***************************************************************************)
(* Proofs about CircuitBreaker, for every number of callers, every         *)
(* configuration, every clock and any interleaving: type correctness, the  *)
(* exact count of the window's failures, and the lease of a probe.         *)
(***************************************************************************)
EXTENDS CircuitBreaker, FiniteSetTheorems, SequenceTheorems, TLAPS

-----------------------------------------------------------------------------
(* The sliding window *)

Windows == [entries : Seq(Sample), failures : Int]

\* A set of positions of a sequence has a natural number of elements.
LEMMA PositionsCount ==
    ASSUME NEW es \in Seq(Sample), NEW P, P \subseteq DOMAIN es
    PROVE  Cardinality(P) \in Nat
<1>1. IsFiniteSet(1..Len(es))
  BY FS_Interval
<1>2. DOMAIN es = 1..Len(es)
  OBVIOUS
<1>3. IsFiniteSet(P)
  BY <1>1, <1>2, FS_Subset
<1> QED
  BY <1>3, FS_CardinalityType

LEMMA FailuresType ==
    ASSUME NEW es \in Seq(Sample)
    PROVE  Failures(es) \in Nat
<1>1. {i \in DOMAIN es : es[i].fail} \subseteq DOMAIN es
  OBVIOUS
<1> QED
  BY <1>1, PositionsCount DEF Failures

\* SlidingWindow::push keeps a window a window.
LEMMA WindowPushType ==
    ASSUME NEW w \in Windows, NEW fail \in BOOLEAN, NEW at \in Nat
    PROVE  WindowPush(w, fail, at) \in Windows
<1> DEFINE full == Len(w.entries) >= MaxWindowEntries
           kept == IF full THEN Tail(w.entries) ELSE w.entries
           gone == IF full /\ Head(w.entries).fail THEN 1 ELSE 0
<1>1. w.entries \in Seq(Sample) /\ w.failures \in Int
  BY DEF Windows
<1>2. kept \in Seq(Sample)
  <2>1. CASE full
    <3>1. w.entries # <<>>
      BY <2>1, <1>1, ConstantsAssumption
    <3> QED
      BY <1>1, <2>1, <3>1
  <2>2. CASE ~full
    BY <1>1, <2>2
  <2> QED
    BY <2>1, <2>2
<1>3. [at |-> at, fail |-> fail] \in Sample
  BY DEF Sample
<1>4. Append(kept, [at |-> at, fail |-> fail]) \in Seq(Sample)
  BY <1>2, <1>3
<1>5. gone \in Int /\ (IF fail THEN 1 ELSE 0) \in Int
  OBVIOUS
<1>6. w.failures - gone + (IF fail THEN 1 ELSE 0) \in Int
  BY <1>1, <1>5
<1> QED
  BY <1>4, <1>6 DEF WindowPush, Windows

\* SlidingWindow::evict keeps a window a window.
LEMMA WindowEvictType ==
    ASSUME NEW w \in Windows, NEW now \in Nat
    PROVE  WindowEvict(w, now) \in Windows
<1> DEFINE old(i) == w.entries[i].at < now - WindowDuration
           P == {i \in DOMAIN w.entries : \A j \in 1..i : old(j)}
           n == Cardinality(P)
<1>1. w.entries \in Seq(Sample) /\ w.failures \in Int
  BY DEF Windows
<1>2. n \in Nat
  BY <1>1, PositionsCount
<1>3a. Len(w.entries) \in Nat
  BY <1>1
<1>3b. IsFiniteSet(1..Len(w.entries))
  BY FS_Interval
<1>3c. Cardinality(1..Len(w.entries)) = Len(w.entries)
  BY <1>3a, FS_Interval
<1>3d. P \subseteq 1..Len(w.entries)
  BY <1>1
<1>3. n <= Len(w.entries)
  BY <1>3b, <1>3c, <1>3d, FS_Subset
<1> HIDE DEF n
<1>4. SubSeq(w.entries, n + 1, Len(w.entries)) \in Seq(Sample)
  BY <1>1, <1>2, <1>3
<1>5. SubSeq(w.entries, 1, n) \in Seq(Sample)
  BY <1>1, <1>2, <1>3
<1>6. Failures(SubSeq(w.entries, 1, n)) \in Nat
  BY <1>5, FailuresType
<1>7. w.failures - Failures(SubSeq(w.entries, 1, n)) \in Int
  BY <1>1, <1>6
<1> QED
  BY <1>4, <1>7 DEF n, WindowEvict, Windows

\* The failed samples of a window, cut anywhere, are those of its two parts.
LEMMA FailuresSplit ==
    ASSUME NEW es \in Seq(Sample), NEW n \in 0..Len(es)
    PROVE  Failures(es) = Failures(SubSeq(es, 1, n)) + Failures(SubSeq(es, n + 1, Len(es)))
<1> DEFINE L == Len(es)
           front == SubSeq(es, 1, n)
           back == SubSeq(es, n + 1, L)
           A == {i \in DOMAIN front : front[i].fail}
           C == {i \in DOMAIN back : back[i].fail}
           B == {i \in (n + 1)..L : es[i].fail}
           All == {i \in DOMAIN es : es[i].fail}
           shift == [i \in C |-> i + n]
<1>1. L \in Nat /\ n \in Nat /\ n <= L
  OBVIOUS
<1>2. front \in Seq(Sample) /\ DOMAIN front = 1..n /\ \A i \in 1..n : front[i] = es[i]
  BY <1>1
<1>3. back \in Seq(Sample) /\ DOMAIN back = 1..(L - n) /\ \A i \in 1..(L - n) : back[i] = es[i + n]
  BY <1>1
<1>4. All = A \cup B /\ A \cap B = {}
  BY <1>1, <1>2
<1>5. IsFiniteSet(A) /\ IsFiniteSet(C)
  <2>1. IsFiniteSet(1..n) /\ IsFiniteSet(1..(L - n))
    BY <1>1, FS_Interval
  <2>2. A \subseteq 1..n /\ C \subseteq 1..(L - n)
    BY <1>2, <1>3
  <2> QED
    BY <2>1, <2>2, FS_Subset
<1>6. IsFiniteSet(B) /\ Cardinality(B) = Cardinality(C)
  <2>1. \A i \in C : shift[i] = i + n /\ i + n \in B
    BY <1>1, <1>3
  <2>2. shift \in [C -> B]
    BY <2>1
  <2>3. \A i, j \in C : shift[i] = shift[j] => i = j
    BY <1>1, <1>3, <2>1
  <2>4. \A k \in B : k - n \in C /\ shift[k - n] = k
    <3> SUFFICES ASSUME NEW k \in B PROVE k - n \in C /\ shift[k - n] = k
      OBVIOUS
    <3>1. k \in Int /\ k - n \in 1..(L - n) /\ (k - n) + n = k
      BY <1>1
    <3>2. k - n \in C
      BY <1>3, <3>1
    <3> QED
      BY <2>1, <3>1, <3>2
  <2>5. shift \in Bijection(C, B)
    <3>1. \A k \in B : \E i \in C : shift[i] = k
      BY <2>4
    <3> HIDE DEF shift, C, B
    <3> QED
      BY <2>2, <2>3, <3>1 DEF Bijection, Injection, Surjection, IsInjective
  <2>6. ExistsBijection(C, B)
    BY <2>5 DEF ExistsBijection
  <2> QED
    BY <1>5, <2>6, FS_Bijection
<1>7. Cardinality(A \cup B) = Cardinality(A) + Cardinality(B)
  <2>1. Cardinality(A \cup B) = Cardinality(A) + Cardinality(B) - Cardinality(A \cap B)
    BY <1>5, <1>6, FS_Union
  <2>2. Cardinality(A \cap B) = 0
    BY <1>4, FS_EmptySet
  <2>3. Cardinality(A) \in Nat /\ Cardinality(B) \in Nat
    BY <1>5, <1>6, FS_CardinalityType
  <2> HIDE DEF A, B
  <2> QED
    BY <2>1, <2>2, <2>3
<1> HIDE DEF A, B, C, All, front, back
<1>8. Cardinality(All) = Cardinality(A) + Cardinality(C)
  BY <1>4, <1>6, <1>7
<1> QED
  BY <1>8 DEF Failures, All, A, C, front, back

\* A window of one sample.
LEMMA FailuresOne ==
    ASSUME NEW e \in Sample
    PROVE  Failures(<<e>>) = IF e.fail THEN 1 ELSE 0
<1>1. <<e>> \in Seq(Sample) /\ DOMAIN <<e>> = {1} /\ <<e>>[1] = e
  OBVIOUS
<1>2. CASE e.fail
  <2>1. {i \in DOMAIN <<e>> : <<e>>[i].fail} = {1}
    BY <1>1, <1>2
  <2> QED
    BY <1>2, <2>1, FS_Singleton DEF Failures
<1>3. CASE ~e.fail
  <2>1. {i \in DOMAIN <<e>> : <<e>>[i].fail} = {}
    BY <1>1, <1>3
  <2> QED
    BY <1>3, <2>1, FS_EmptySet DEF Failures
<1> QED
  BY <1>2, <1>3

LEMMA FailuresAppend ==
    ASSUME NEW es \in Seq(Sample), NEW e \in Sample
    PROVE  Failures(Append(es, e)) = Failures(es) + (IF e.fail THEN 1 ELSE 0)
<1> DEFINE s == Append(es, e)
<1>1. s \in Seq(Sample) /\ Len(s) = Len(es) + 1 /\ Len(es) \in 0..Len(s)
  OBVIOUS
<1>2. SubSeq(s, 1, Len(es)) = es
  OBVIOUS
<1>3. SubSeq(s, Len(es) + 1, Len(s)) = <<e>>
  <2> DEFINE t == SubSeq(s, Len(es) + 1, Len(s))
  <2>1. t \in Seq(Sample) /\ Len(t) = 1 /\ t[1] = s[Len(es) + 1] /\ s[Len(es) + 1] = e
    BY <1>1
  <2> HIDE DEF t
  <2>2. t = <<e>>
    BY <2>1
  <2> QED
    BY <2>2 DEF t
<1>4. Failures(s) = Failures(SubSeq(s, 1, Len(es))) + Failures(SubSeq(s, Len(es) + 1, Len(s)))
  BY <1>1, FailuresSplit
<1> QED
  BY <1>2, <1>3, <1>4, FailuresOne

LEMMA FailuresTail ==
    ASSUME NEW es \in Seq(Sample), es # <<>>
    PROVE  Failures(es) = (IF Head(es).fail THEN 1 ELSE 0) + Failures(Tail(es))
<1>1. 1 \in 0..Len(es) /\ Head(es) \in Sample /\ 1 + 1 = 2
  OBVIOUS
<1>2. SubSeq(es, 1, 1) = <<Head(es)>>
  <2> DEFINE t == SubSeq(es, 1, 1)
  <2>1. t \in Seq(Sample) /\ Len(t) = 1 /\ t[1] = es[1] /\ es[1] = Head(es)
    BY <1>1
  <2> HIDE DEF t
  <2>2. t = <<Head(es)>>
    BY <2>1
  <2> QED
    BY <2>2 DEF t
<1>3. SubSeq(es, 2, Len(es)) = Tail(es)
  BY TailIsSubSeq
<1>4. Failures(es) = Failures(SubSeq(es, 1, 1)) + Failures(SubSeq(es, 2, Len(es)))
  BY <1>1, FailuresSplit
<1> QED
  BY <1>1, <1>2, <1>3, <1>4, FailuresOne

\* The running count of a window is the number of its failed samples, and the
\* window is within its cap.
Exact(w) == w.failures = Failures(w.entries) /\ Len(w.entries) <= MaxWindowEntries

\* SlidingWindow::push keeps the count exact, at the cap too.
LEMMA WindowPushExact ==
    ASSUME NEW w \in Windows, Exact(w), NEW fail \in BOOLEAN, NEW at \in Nat
    PROVE  Exact(WindowPush(w, fail, at))
<1> DEFINE full == Len(w.entries) >= MaxWindowEntries
           kept == IF full THEN Tail(w.entries) ELSE w.entries
           gone == IF full /\ Head(w.entries).fail THEN 1 ELSE 0
           e == [at |-> at, fail |-> fail]
           one == IF fail THEN 1 ELSE 0
<1>1. w.entries \in Seq(Sample) /\ MaxWindowEntries \in Nat \ {0}
  BY ConstantsAssumption DEF Windows
<1>2. /\ kept \in Seq(Sample) /\ Len(kept) < MaxWindowEntries
      /\ Failures(w.entries) = gone + Failures(kept)
  <2>1. CASE full
    <3>1. w.entries # <<>>
      BY <2>1, <1>1
    <3>2. kept \in Seq(Sample) /\ Len(kept) < MaxWindowEntries
      BY <1>1, <2>1, <3>1 DEF Exact
    <3> QED
      BY <1>1, <2>1, <3>1, <3>2, FailuresTail
  <2>2. CASE ~full
    BY <1>1, <2>2, FailuresType
  <2> QED
    BY <2>1, <2>2
<1>3. e \in Sample /\ e.fail = fail /\ Failures(kept) \in Nat /\ gone \in Int /\ one \in Int
  <2>1. e \in Sample /\ e.fail = fail /\ gone \in Int /\ one \in Int
    BY DEF Sample
  <2> HIDE DEF kept
  <2>2. Failures(kept) \in Nat
    BY <1>2, FailuresType
  <2> QED
    BY <2>1, <2>2
<1>4. Failures(Append(kept, e)) = Failures(kept) + one
  BY <1>2, <1>3, FailuresAppend
<1>5. Len(Append(kept, e)) <= MaxWindowEntries
  BY <1>1, <1>2, <1>3
<1>6. WindowPush(w, fail, at) = [entries |-> Append(kept, e), failures |-> w.failures - gone + one]
  BY DEF WindowPush
<1> HIDE DEF kept, gone, e, one
<1>7. w.failures - gone + one = Failures(Append(kept, e))
  BY <1>2, <1>3, <1>4 DEF Exact
<1> QED
  BY <1>5, <1>6, <1>7 DEF Exact

\* SlidingWindow::evict subtracts what it pops.
LEMMA WindowEvictExact ==
    ASSUME NEW w \in Windows, Exact(w), NEW now \in Nat
    PROVE  Exact(WindowEvict(w, now))
<1> DEFINE P == {i \in DOMAIN w.entries : \A j \in 1..i : w.entries[j].at < now - WindowDuration}
           n == Cardinality(P)
           rest == SubSeq(w.entries, n + 1, Len(w.entries))
<1>1. w.entries \in Seq(Sample) /\ Len(w.entries) \in Nat
  BY DEF Windows
<1>2. n \in Nat
  BY <1>1, PositionsCount
<1>3. n <= Len(w.entries)
  <2>1. IsFiniteSet(1..Len(w.entries)) /\ Cardinality(1..Len(w.entries)) = Len(w.entries)
    BY <1>1, FS_Interval
  <2>2. P \subseteq 1..Len(w.entries)
    BY <1>1
  <2> QED
    BY <2>1, <2>2, FS_Subset
<1>4. WindowEvict(w, now) = [entries |-> rest, failures |-> w.failures - Failures(SubSeq(w.entries, 1, n))]
  BY DEF WindowEvict
<1> HIDE DEF n
<1>5. Failures(w.entries) = Failures(SubSeq(w.entries, 1, n)) + Failures(rest)
  BY <1>1, <1>2, <1>3, FailuresSplit
<1>6. /\ rest \in Seq(Sample) /\ Len(rest) <= Len(w.entries)
      /\ SubSeq(w.entries, 1, n) \in Seq(Sample)
  BY <1>1, <1>2, <1>3
<1>7. Failures(SubSeq(w.entries, 1, n)) \in Nat /\ Failures(rest) \in Nat /\ Failures(w.entries) \in Nat
  BY <1>1, <1>6, FailuresType
<1>8. w.failures - Failures(SubSeq(w.entries, 1, n)) = Failures(rest)
  BY <1>5, <1>7 DEF Exact
<1>9. Len(rest) <= MaxWindowEntries
  BY <1>1, <1>6, ConstantsAssumption DEF Exact
<1> HIDE DEF rest
<1> QED
  BY <1>4, <1>8, <1>9 DEF Exact

-----------------------------------------------------------------------------
(* Type correctness *)

Locals == [now : 0..clock, read : 0..clock, fail : BOOLEAN]

LEMMA ForgetType ==
    ASSUME TypeOK, NEW c \in Callers, Forget(c), UNCHANGED clock
    PROVE  loc' \in [Callers -> Locals']
<1>1. clock \in Nat /\ loc \in [Callers -> Locals]
  BY DEF TypeOK, Locals
<1>2. NoLocals \in Locals
  BY <1>1 DEF NoLocals, Locals
<1> QED
  BY <1>1, <1>2 DEF Forget, Locals

\* check() preserves the types.
LEMMA CheckType ==
    ASSUME TypeOK, NEW c \in Callers, Check(c) \/ CheckStep(c)
    PROVE  TypeOK'
<1> USE ConstantsAssumption
<1>0. /\ MaxProbes \in Nat
      /\ \A x \in Nat : x % Usize \in 0..(Usize - 1)
      /\ half_open_probes + 1 \in Nat /\ half_open_probes + Usize - 1 \in Nat
  BY DEF TypeOK, MaxProbes
<1>1. CASE Check(c)
  <2>1. pc' \in [Callers -> Pcs]
    BY <1>1 DEF Check, Branch, Go, TypeOK, Pcs, AtRest, CheckPcs, BreakerStates
  <2> QED
    BY <1>1, <2>1 DEF Check, TypeOK, shared
<1>2. CASE OpenLoad(c)
  BY <1>2 DEF OpenLoad, Go, TypeOK, shared, Pcs, CheckPcs
<1>3. CASE OpenClock(c)
  <2>1. pc' \in [Callers -> Pcs]
    BY <1>3 DEF OpenClock, Go, TypeOK, Pcs, AtRest, CheckPcs
  <2>2. loc' \in [Callers -> Locals']
    BY <1>3, ForgetType DEF OpenClock
  <2> QED
    BY <1>3, <2>1, <2>2 DEF OpenClock, TypeOK, shared, Locals
<1>4. CASE OpenCas(c)
  BY <1>4 DEF OpenCas, Go, TypeOK, Pcs, CheckPcs, BreakerStates
<1>5. CASE OpenMirror(c)
  BY <1>5 DEF OpenMirror, Go, TypeOK, Pcs, CheckPcs
<1>6. CASE OpenRetry(c)
  <2>1. pc' \in [Callers -> Pcs]
    BY <1>6 DEF OpenRetry, Branch, Go, TypeOK, Pcs, AtRest, CheckPcs, BreakerStates
  <2> QED
    BY <1>6, <2>1 DEF OpenRetry, TypeOK, shared
<1>7. CASE ProbeClock(c)
  <2>1. pc' \in [Callers -> Pcs]
    BY <1>7 DEF ProbeClock, Go, TypeOK, Pcs, CheckPcs
  <2>2. clock \in 0..clock
    BY DEF TypeOK
  <2>3. loc' \in [Callers -> Locals']
    BY <1>7, <2>2 DEF ProbeClock, TypeOK, Locals
  <2> QED
    BY <1>7, <2>1, <2>3 DEF ProbeClock, TypeOK, shared, Locals
<1>8. CASE ProbeAdd(c)
  <2>1. pc' \in [Callers -> Pcs]
    BY <1>8 DEF ProbeAdd, Go, TypeOK, Pcs, CheckPcs
  <2>2. half_open_probes' \in 0..(Usize - 1)
    BY <1>0, <1>8 DEF ProbeAdd
  <2> QED
    BY <1>8, <2>1, <2>2 DEF ProbeAdd, TypeOK
<1>9. CASE ProbeStore(c)
  <2>1. pc' \in [Callers -> Pcs]
    BY <1>9 DEF ProbeStore, Go, TypeOK, Pcs, AtRest
  <2>2. loc' \in [Callers -> Locals']
    BY <1>9, ForgetType DEF ProbeStore
  <2> QED
    BY <1>9, <2>1, <2>2 DEF ProbeStore, TypeOK, Locals
<1>10. CASE ProbeSub(c)
  <2>1. pc' \in [Callers -> Pcs]
    BY <1>10 DEF ProbeSub, Go, TypeOK, Pcs, CheckPcs
  <2>2. half_open_probes' \in 0..(Usize - 1)
    BY <1>0, <1>10 DEF ProbeSub
  <2> QED
    BY <1>10, <2>1, <2>2 DEF ProbeSub, TypeOK
<1>11. CASE ProbeLoad(c)
  <2>1. pc' \in [Callers -> Pcs]
    BY <1>11 DEF ProbeLoad, Go, TypeOK, Pcs, AtRest, CheckPcs
  <2>2. loc' \in [Callers -> Locals']
    <3>1. CASE loc' = [loc EXCEPT ![c].read = probe_claimed_at]
      BY <1>11, <3>1 DEF ProbeLoad, TypeOK, Locals, shared
    <3>2. CASE Forget(c)
      BY <1>11, <3>2, ForgetType DEF ProbeLoad
    <3> QED
      BY <1>11, <3>1, <3>2 DEF ProbeLoad
  <2> QED
    BY <1>11, <2>1, <2>2 DEF ProbeLoad, TypeOK, shared, Locals
<1>12. CASE ProbeCas(c)
  <2>1. pc' \in [Callers -> Pcs]
    BY <1>12 DEF ProbeCas, Go, TypeOK, Pcs, AtRest
  <2>2. loc' \in [Callers -> Locals']
    BY <1>12, ForgetType DEF ProbeCas
  <2> QED
    BY <1>12, <2>1, <2>2 DEF ProbeCas, TypeOK, Locals
<1> QED
  BY <1>1, <1>2, <1>3, <1>4, <1>5, <1>6, <1>7, <1>8, <1>9, <1>10, <1>11, <1>12
     DEF CheckStep

\* record() preserves the types.
LEMMA RecordType ==
    ASSUME TypeOK, NEW c \in Callers,
           RecordStep(c) \/ \E fail \in BOOLEAN : Record(c, fail)
    PROVE  TypeOK'
<1> USE ConstantsAssumption
<1>0. /\ window \in Windows
      /\ loc[c].now \in Nat /\ loc[c].fail \in BOOLEAN
      /\ WindowEvict(WindowPush(window, loc[c].fail, loc[c].now), loc[c].now) \in Windows
  <2>1. window \in Windows /\ loc[c].now \in Nat /\ loc[c].fail \in BOOLEAN
    BY DEF TypeOK, Windows
  <2> QED
    BY <2>1, WindowPushType, WindowEvictType
<1>1. CASE \E fail \in BOOLEAN : Record(c, fail)
  BY <1>1 DEF Record, Go, TypeOK, shared, Pcs, RecordPcs
<1>2. CASE RecordState(c)
  <2>1. pc' \in [Callers -> Pcs]
    BY <1>2 DEF RecordState, Branch, Go, TypeOK, Pcs, RecordPcs, TripPcs, ClosePcs,
                BreakerStates
  <2> QED
    BY <1>2, <2>1 DEF RecordState, TypeOK, shared
<1>3. CASE RecordClosed(c)
  <2>1. pc' \in [Callers -> Pcs]
    BY <1>3 DEF RecordClosed, Go, TypeOK, Pcs, AtRest, TripPcs
  <2>2. loc' \in [Callers -> Locals']
    BY <1>3, ForgetType DEF RecordClosed
  <2>3. window' \in Windows
    BY <1>0, <1>3 DEF RecordClosed
  <2> QED
    BY <1>3, <2>1, <2>2, <2>3 DEF RecordClosed, TypeOK, Locals, Windows
<1>4. CASE RecordOpen(c)
  <2>1. pc' \in [Callers -> Pcs]
    BY <1>4 DEF RecordOpen, Go, TypeOK, Pcs, AtRest
  <2>2. loc' \in [Callers -> Locals']
    BY <1>4, ForgetType DEF RecordOpen
  <2>3. window' \in Windows
    BY <1>0, <1>4 DEF RecordOpen
  <2> QED
    BY <1>4, <2>1, <2>2, <2>3 DEF RecordOpen, TypeOK, Locals, Windows
<1>5. CASE TripState(c)
  BY <1>5 DEF TripState, Go, TypeOK, Pcs, TripPcs, BreakerStates
<1>6. CASE TripAt(c)
  <2>1. loc' \in [Callers -> Locals']
    BY <1>6, ForgetType DEF TripAt
  <2> QED
    BY <1>6, <2>1 DEF TripAt, Go, TypeOK, Pcs, TripPcs, Locals
<1>7. CASE TripProbes(c)
  BY <1>7 DEF TripProbes, Go, TypeOK, Pcs, TripPcs
<1>8. CASE TripMirror(c)
  BY <1>8 DEF TripMirror, Go, TypeOK, Pcs, AtRest
<1>9. CASE CloseState(c)
  BY <1>9 DEF CloseState, Go, TypeOK, Pcs, ClosePcs, BreakerStates
<1>10. CASE CloseWindow(c)
  BY <1>10 DEF CloseWindow, Go, TypeOK, Pcs, ClosePcs
<1>11. CASE CloseProbes(c)
  BY <1>11 DEF CloseProbes, Go, TypeOK, Pcs, ClosePcs
<1>12. CASE CloseMirror(c)
  <2>1. loc' \in [Callers -> Locals']
    BY <1>12, ForgetType DEF CloseMirror
  <2> QED
    BY <1>12, <2>1 DEF CloseMirror, Go, TypeOK, Pcs, AtRest, Locals
<1>13. CASE TripClock(c)
  <2>1. clock \in 0..clock
    BY DEF TypeOK
  <2>2. loc' \in [Callers -> Locals']
    BY <1>13, <2>1 DEF TripClock, TypeOK, Locals
  <2> QED
    BY <1>13, <2>2 DEF TripClock, Go, TypeOK, shared, Pcs, TripPcs, Locals
<1> QED
  BY <1>1, <1>2, <1>3, <1>4, <1>5, <1>6, <1>7, <1>8, <1>9, <1>10, <1>11, <1>12, <1>13
     DEF RecordStep

\* Whatever the interleaving of checks and records, the shared cells keep their
\* types, the probe counter stays in its word, and neither the time of the last
\* trip nor the time of the last claim is ever in the future.
THEOREM TypeCorrect == Spec => []TypeOK
<1> USE ConstantsAssumption
<1>1. Init => TypeOK
  <2> SUFFICES ASSUME Init PROVE TypeOK
    OBVIOUS
  <2>1. window \in [entries : Seq(Sample), failures : Int]
    BY DEF Init
  <2>2. loc \in [Callers -> [now : 0..clock, read : 0..clock, fail : BOOLEAN]]
    BY DEF Init, NoLocals
  <2>3. pc \in [Callers -> Pcs]
    BY DEF Init, Pcs, AtRest
  <2>4. /\ clock \in Nat /\ opened_at \in 0..clock /\ probe_claimed_at \in 0..clock
        /\ half_open_probes \in 0..(Usize - 1)
    BY DEF Init
  <2>5. state \in BreakerStates /\ is_open_fast \in BOOLEAN
    BY DEF Init, BreakerStates
  <2> QED
    BY <2>1, <2>2, <2>3, <2>4, <2>5 DEF TypeOK
<1>2. TypeOK /\ [Next]_vars => TypeOK'
  <2> SUFFICES ASSUME TypeOK, [Next]_vars PROVE TypeOK'
    OBVIOUS
  <2>1. ASSUME NEW c \in Callers, Check(c) \/ CheckStep(c) PROVE TypeOK'
    BY <2>1, CheckType
  <2>2. ASSUME NEW c \in Callers,
               RecordStep(c) \/ \E fail \in BOOLEAN : Record(c, fail)
        PROVE  TypeOK'
    BY <2>2, RecordType
  <2>3. ASSUME NEW c \in Callers, Abandon(c) PROVE TypeOK'
    BY <2>3 DEF Abandon, TypeOK, shared, Pcs, AtRest
  <2>4. CASE ErrorRate
    <3>1. window \in Windows /\ clock \in Nat
      BY DEF TypeOK, Windows
    <3>2. PICK now \in 0..clock : window' = WindowEvict(window, now)
      BY <2>4 DEF ErrorRate
    <3>3. now \in Nat
      BY <3>1
    <3>4. window' \in Windows
      BY <3>1, <3>2, <3>3, WindowEvictType
    <3> QED
      BY <2>4, <3>4 DEF ErrorRate, TypeOK, Windows
  <2>5. CASE Tick
    BY <2>5 DEF Tick, TypeOK, shared
  <2>6. CASE UNCHANGED vars
    BY <2>6 DEF vars, shared, TypeOK
  <2> QED
    BY <2>1, <2>2, <2>3, <2>4, <2>5, <2>6 DEF Next
<1> QED
  BY <1>1, <1>2, PTL DEF Spec

\* The running failure count that error_rate() divides is the number of failed
\* samples in the window and the window is within MAX_WINDOW_ENTRIES, whatever
\* the interleaving of records, closes and readers that evict.
THEOREM WindowCount == Spec => []WindowCountExact
<1>1. Init => WindowCountExact
  <2> SUFFICES ASSUME Init PROVE WindowCountExact
    OBVIOUS
  <2>1. window.entries = <<>> /\ window.failures = 0
    BY DEF Init
  <2>2. {i \in DOMAIN window.entries : window.entries[i].fail} = {}
    BY <2>1
  <2> QED
    BY <2>1, <2>2, FS_EmptySet, ConstantsAssumption DEF WindowCountExact, Failures
<1>2. TypeOK /\ WindowCountExact /\ [Next]_vars => WindowCountExact'
  <2> SUFFICES ASSUME TypeOK, Exact(window), [Next]_vars PROVE Exact(window')
    BY DEF WindowCountExact, Exact
  <2>0. window \in Windows /\ clock \in Nat
    BY DEF TypeOK, Windows
  <2>1. ASSUME UNCHANGED window PROVE Exact(window')
    BY <2>1
  <2>2. ASSUME NEW c \in Callers, RecordClosed(c) \/ RecordOpen(c) PROVE Exact(window')
    <3> DEFINE p == WindowPush(window, loc[c].fail, loc[c].now)
    <3>1. loc[c].fail \in BOOLEAN /\ loc[c].now \in Nat
      BY DEF TypeOK
    <3>2. p \in Windows /\ Exact(p)
      BY <2>0, <3>1, WindowPushType, WindowPushExact
    <3>3. window' = WindowEvict(p, loc[c].now)
      BY <2>2 DEF RecordClosed, RecordOpen
    <3> QED
      BY <3>1, <3>2, <3>3, WindowEvictExact
  <2>3. ASSUME NEW c \in Callers, CloseWindow(c) PROVE Exact(window')
    <3>1. window' = [entries |-> <<>>, failures |-> 0]
      BY <2>3 DEF CloseWindow
    <3>2. {i \in DOMAIN window'.entries : window'.entries[i].fail} = {}
      BY <3>1
    <3> QED
      BY <3>1, <3>2, FS_EmptySet, ConstantsAssumption DEF Exact, Failures
  <2>4. CASE ErrorRate
    BY <2>0, <2>4, WindowEvictExact DEF ErrorRate
  <2>5. ASSUME NEW c \in Callers, Check(c) \/ CheckStep(c) PROVE UNCHANGED window
    BY <2>5 DEF Check, CheckStep, OpenLoad, OpenClock, OpenCas, OpenMirror, OpenRetry, ProbeClock,
        ProbeAdd, ProbeStore, ProbeSub, ProbeLoad, ProbeCas, shared
  <2>6. ASSUME NEW c \in Callers,
               RecordStep(c) \/ (\E fail \in BOOLEAN : Record(c, fail)) \/ Abandon(c),
               ~RecordClosed(c), ~RecordOpen(c), ~CloseWindow(c)
        PROVE  UNCHANGED window
    BY <2>6 DEF RecordStep, Record, Abandon, RecordState, TripState, TripClock, TripAt, TripProbes,
        TripMirror, CloseState, CloseProbes, CloseMirror, shared
  <2>7. CASE Tick \/ UNCHANGED vars
    BY <2>1, <2>7 DEF Tick, vars, shared
  <2> QED
    BY <2>1, <2>2, <2>3, <2>4, <2>5, <2>6, <2>7 DEF Next
<1> QED
  BY <1>1, <1>2, TypeCorrect, PTL DEF Spec

-----------------------------------------------------------------------------
(* The lease of a probe *)

\* A caller about to compare-and-exchange read a claim whose lease was over.
ReadExpired ==
    \A c \in Callers : pc[c] = "probe_cas" => Since(loc[c].now, loc[c].read) >= OpenDuration

\* A step of caller d leaves the others where they are, and brings d to the
\* exchange only from the load of a claim whose lease is over.
LEMMA CallerStep ==
    ASSUME TypeOK, NEW d \in Callers,
           \/ Check(d) \/ CheckStep(d)
           \/ \E fail \in BOOLEAN : Record(d, fail)
           \/ RecordStep(d) \/ Abandon(d)
    PROVE  /\ \A c \in Callers : c # d => pc'[c] = pc[c] /\ loc'[c] = loc[c]
           /\ pc'[d] = "probe_cas" =>
                 Since(loc'[d].now, loc'[d].read) >= OpenDuration
<1>0. /\ pc \in [Callers -> Pcs] /\ loc \in [Callers -> Locals]
      /\ state \in {"Closed", "Open", "HalfOpen"}
  BY DEF TypeOK, Locals, BreakerStates
<1>1. CASE Check(d) \/ (\E fail \in BOOLEAN : Record(d, fail)) \/ Abandon(d)
  BY <1>0, <1>1 DEF Check, Branch, Go, Record, Abandon
<1>2. CASE ProbeLoad(d)
  BY <1>0, <1>2 DEF ProbeLoad, Go, Forget, NoLocals, Locals
<1>3. CASE OpenLoad(d) \/ OpenClock(d) \/ OpenCas(d) \/ OpenMirror(d) \/ OpenRetry(d)
  BY <1>0, <1>3 DEF OpenLoad, OpenClock, OpenCas, OpenMirror, OpenRetry, Branch, Go, Forget
<1>4. CASE ProbeClock(d) \/ ProbeAdd(d) \/ ProbeStore(d) \/ ProbeSub(d) \/ ProbeCas(d)
  BY <1>0, <1>4 DEF ProbeClock, ProbeAdd, ProbeStore, ProbeSub, ProbeCas, Go, Forget
<1>5. CASE RecordState(d) \/ RecordClosed(d) \/ RecordOpen(d)
  BY <1>0, <1>5 DEF RecordState, RecordClosed, RecordOpen, Branch, Go, Forget
<1>6. CASE TripState(d) \/ TripClock(d) \/ TripAt(d) \/ TripProbes(d) \/ TripMirror(d)
  BY <1>0, <1>6 DEF TripState, TripClock, TripAt, TripProbes, TripMirror, Go, Forget
<1>7. CASE CloseState(d) \/ CloseWindow(d) \/ CloseProbes(d) \/ CloseMirror(d)
  BY <1>0, <1>7 DEF CloseState, CloseWindow, CloseProbes, CloseMirror, Go, Forget
<1> QED
  BY <1>1, <1>2, <1>3, <1>4, <1>5, <1>6, <1>7 DEF CheckStep, RecordStep

LEMMA ReadExpiredStep == TypeOK /\ ReadExpired /\ [Next]_vars => ReadExpired'
<1> SUFFICES ASSUME TypeOK, ReadExpired, [Next]_vars PROVE ReadExpired'
  OBVIOUS
<1>1. ASSUME NEW d \in Callers,
             \/ Check(d) \/ CheckStep(d)
             \/ \E fail \in BOOLEAN : Record(d, fail)
             \/ RecordStep(d) \/ Abandon(d)
      PROVE  ReadExpired'
  <2>1. /\ \A c \in Callers : c # d => pc'[c] = pc[c] /\ loc'[c] = loc[c]
        /\ pc'[d] = "probe_cas" => Since(loc'[d].now, loc'[d].read) >= OpenDuration
    BY <1>1, CallerStep
  <2> QED
    BY <2>1 DEF ReadExpired
<1>2. CASE ErrorRate \/ Tick \/ UNCHANGED vars
  BY <1>2 DEF ErrorRate, Tick, vars, ReadExpired
<1> QED
  BY <1>1, <1>2 DEF Next

\* For any number of callers and any interleaving, a caller that takes a probe's
\* claim over takes over one that is at least open_duration old: the losers of
\* the exchange are refused and the winner's own claim lasts a full lease.
THEOREM TakeoverExclusive == Spec => OneTakeover
<1> DEFINE Aged(c) == pc[c] = "probe_cas" /\ pc'[c] = "probing" =>
                         Since(probe_claimed_at', probe_claimed_at) >= OpenDuration
<1>1. TypeOK /\ ReadExpired /\ [Next]_vars => [\A c \in Callers : Aged(c)]_vars
  <2> SUFFICES ASSUME TypeOK, ReadExpired, Next, NEW c \in Callers,
                      pc[c] = "probe_cas", pc'[c] = "probing"
               PROVE  Since(probe_claimed_at', probe_claimed_at) >= OpenDuration
    BY DEF vars
  <2>0. pc \in [Callers -> Pcs] /\ state \in {"Closed", "Open", "HalfOpen"}
    BY DEF TypeOK, BreakerStates
  <2>1. ProbeCas(c)
    <3>1. PICK d \in Callers : \/ Check(d) \/ CheckStep(d)
                               \/ \E fail \in BOOLEAN : Record(d, fail)
                               \/ RecordStep(d) \/ Abandon(d)
      BY DEF Next, ErrorRate, Tick
    <3>2. c = d
      BY <3>1, CallerStep
    <3> QED
      BY <2>0, <3>1, <3>2
         DEF Check, Branch, Go, CheckStep, RecordStep, Record, Abandon, OpenLoad, OpenClock,
             OpenCas, OpenMirror, OpenRetry, ProbeClock, ProbeAdd, ProbeStore, ProbeSub,
             ProbeLoad, RecordState, RecordClosed, RecordOpen, TripState, TripClock, TripAt,
             TripProbes, TripMirror, CloseState, CloseWindow, CloseProbes, CloseMirror
  <2>2. probe_claimed_at = loc[c].read /\ probe_claimed_at' = loc[c].now
    BY <2>0, <2>1 DEF ProbeCas, Go
  <2> QED
    BY <2>2 DEF ReadExpired
<1>2. Init => ReadExpired
  BY DEF Init, ReadExpired
<1> QED
  BY <1>1, <1>2, ReadExpiredStep, TypeCorrect, PTL DEF Spec, OneTakeover
=============================================================================
