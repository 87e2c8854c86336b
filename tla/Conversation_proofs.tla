------------------------ MODULE Conversation_proofs -------------------------
(***************************************************************************)
(* What the repair passes do to a conversation of any length: how the runs  *)
(* of results move, that what they leave is valid, and that nothing but     *)
(* results is added or removed.  A pass builds its result piece by piece,   *)
(* so the facts about it go by induction over the positions; the induction  *)
(* is over a set of numbers, since the provers take no operator as a        *)
(* parameter.                                                               *)
(***************************************************************************)
EXTENDS Conversation, TLAPS, WellFoundedInduction, FiniteSetTheorems

----------------------------------------------------------------------------
(* Numbers *)

LEMMA SetInduction ==
    ASSUME NEW T, 0 \in T, \A n \in Nat : n \in T => n + 1 \in T
    PROVE  \A n \in Nat : n \in T
<1> SUFFICES ASSUME Nat \ T # {} PROVE FALSE
    OBVIOUS
<1> DEFINE R == {ss \in Nat \X Nat : ss[1] < ss[2]}
<1>0. IsWellFoundedOn(R, Nat)
    BY NatLessThanWellFounded DEF OpToRel
<1> HIDE DEF R
<1>1. PICK x \in Nat \ T : \A y \in Nat \ T : ~(<<y, x>> \in R)
    BY <1>0, WFMin
<1>2. x # 0 /\ x - 1 \in Nat /\ x - 1 \notin T
    BY SMT
<1>3. <<x - 1, x>> \in R
    BY <1>2, SMT DEF R
<1>4. QED
    BY <1>1, <1>2, <1>3

\* A set of numbers below a bound has a largest one, and any set of numbers a smallest.
LEMMA MaxFacts ==
    ASSUME NEW n \in Nat, NEW A, A \subseteq 0..n, A # {}
    PROVE  Max(A) \in A /\ \A y \in A : y <= Max(A)
<1> DEFINE T == {m \in Nat : \A B : B \subseteq 0..m /\ B # {} => \E x \in B : \A y \in B : x >= y}
<1>1. 0 \in T
  <2>1. ASSUME NEW B, B \subseteq 0..0, B # {} PROVE \E x \in B : \A y \in B : x >= y
    <3>1. \A x \in B : x = 0
      BY <2>1, SMT
    <3>2. PICK x \in B : TRUE
      BY <2>1, Zenon
    <3>3. \A y \in B : x >= y
      BY <3>1, SMT
    <3>4. QED
      BY <3>3, Zenon
  <2>2. QED
    BY <2>1
<1>2. ASSUME NEW m \in Nat, m \in T PROVE m + 1 \in T
  <2>1. ASSUME NEW B, B \subseteq 0..(m + 1), B # {} PROVE \E x \in B : \A y \in B : x >= y
    <3>1. CASE m + 1 \in B
      BY <2>1, <3>1, SMT
    <3>2. CASE m + 1 \notin B
      <4>1. B \subseteq 0..m
        BY <2>1, <3>2, SMT
      <4>2. QED
        BY <1>2, <2>1, <4>1
    <3>3. QED
      BY <3>1, <3>2
  <2>2. QED
    BY <2>1
<1>3. n \in T
  <2> HIDE DEF T
  <2>1. QED
    BY <1>1, <1>2, SetInduction
<1>4. PICK x \in A : \A y \in A : x >= y
    BY <1>3
<1>5. Max(A) \in A /\ \A y \in A : Max(A) >= y
    BY <1>4, Zenon DEF Max
<1>6. QED
    BY <1>5, SMT

LEMMA MinFacts ==
    ASSUME NEW A, A \subseteq Nat, A # {}
    PROVE  Min(A) \in A /\ \A y \in A : Min(A) <= y
<1> DEFINE R == {ss \in Nat \X Nat : ss[1] < ss[2]}
<1>0. IsWellFoundedOn(R, Nat)
    BY NatLessThanWellFounded DEF OpToRel
<1>1. PICK x \in A : \A y \in A : ~(<<y, x>> \in R)
  <2> HIDE DEF R
  <2>1. QED
    BY <1>0, WFMin
<1>2. ASSUME NEW y \in A PROVE x =< y
  <2>1. x \in Nat /\ y \in Nat
    OBVIOUS
  <2>2. ~(y < x)
    BY <1>1, <2>1, Zenon
  <2>3. QED
    BY <2>1, <2>2, SMT
<1>3. QED
    BY <1>2, Zenon DEF Min

----------------------------------------------------------------------------
(* Sequences made of pieces *)

LEMMA LenNat == \A S : \A s \in Seq(S) : Len(s) \in Nat
BY SMT

LEMMA ConcatFacts ==
    ASSUME NEW S, NEW s \in Seq(S), NEW t \in Seq(S)
    PROVE  /\ s \o t \in Seq(S) /\ Len(s \o t) = Len(s) + Len(t) /\ Len(s) <= Len(s \o t)
           /\ Len(s) \in Nat /\ Len(t) \in Nat
           /\ \A k \in 1..Len(s) : (s \o t)[k] = s[k] /\ k \in 1..Len(s \o t)
           /\ \A k \in 1..Len(t) : (s \o t)[Len(s) + k] = t[k] /\ Len(s) + k \in 1..Len(s \o t)
BY SMT

\* g[i] is the concatenation of the first i pieces, up to the m-th.
AccumulatesTo(ss, g, m) ==
    /\ g[0] = <<>>
    /\ \A i \in 1..m : g[i] = g[i - 1] \o ss[i]

Accumulates(ss, g) == AccumulatesTo(ss, g, Len(ss))

Flattened(ss, f) == f = [i \in 1..Len(ss) |-> IF i = 1 THEN ss[i] ELSE f[i - 1] \o ss[i]]

LEMMA PrefixesExist ==
    ASSUME NEW S, NEW ss \in Seq(Seq(S))
    PROVE  \E g \in [0..Len(ss) -> Seq(S)] : Accumulates(ss, g)
<1> DEFINE n == Len(ss)
           T == {m \in Nat : m <= n => \E g \in [0..m -> Seq(S)] : AccumulatesTo(ss, g, m)}
<1>0. n \in Nat /\ \A i \in 1..n : ss[i] \in Seq(S)
    BY SMT
<1>1. 0 \in T
  <2> DEFINE g == [i \in 0..0 |-> <<>>]
  <2>1. g \in [0..0 -> Seq(S)] /\ AccumulatesTo(ss, g, 0)
    BY SMT DEF AccumulatesTo
  <2>2. QED
    BY <2>1
<1>2. ASSUME NEW m \in Nat, m \in T PROVE m + 1 \in T
  <2>1. ASSUME m + 1 <= n PROVE \E g \in [0..(m + 1) -> Seq(S)] : AccumulatesTo(ss, g, m + 1)
    <3>0. m <= n
      BY <1>0, <2>1, SMT
    <3>1. PICK g \in [0..m -> Seq(S)] : AccumulatesTo(ss, g, m)
      BY <1>2, <3>0
    <3> DEFINE h == [i \in 0..(m + 1) |-> IF i = m + 1 THEN g[m] \o ss[m + 1] ELSE g[i]]
    <3>2. g[m] \in Seq(S) /\ ss[m + 1] \in Seq(S)
      BY <1>0, <2>1, <3>1, SMT
    <3>3. g[m] \o ss[m + 1] \in Seq(S)
      BY <3>2
    <3>4. h \in [0..(m + 1) -> Seq(S)]
      BY <3>1, <3>3, SMT
    <3>5. h[0] = g[0] /\ h[m + 1] = g[m] \o ss[m + 1] /\ \A i \in 0..m : h[i] = g[i]
      BY SMT
    <3> HIDE DEF h
    <3>6. ASSUME NEW i \in 1..(m + 1) PROVE h[i] = h[i - 1] \o ss[i]
      <4>1. CASE i = m + 1
        <5>1. i - 1 = m /\ m \in 0..m
          BY <4>1, SMT
        <5>2. QED
          BY <3>5, <4>1, <5>1
      <4>2. CASE i \in 1..m
        <5>1. i \in 0..m /\ i - 1 \in 0..m
          BY <4>2, SMT
        <5>2. QED
          BY <3>1, <3>5, <4>2, <5>1 DEF AccumulatesTo
      <4>3. i = m + 1 \/ i \in 1..m
        BY SMT
      <4>4. QED
        BY <4>1, <4>2, <4>3
    <3>7. AccumulatesTo(ss, h, m + 1)
      BY <3>1, <3>5, <3>6 DEF AccumulatesTo
    <3>8. QED
      BY <3>4, <3>7
  <2>2. QED
    BY <2>1
<1>3. n \in T
  <2> HIDE DEF T
  <2>1. QED
    BY <1>0, <1>1, <1>2, SetInduction
<1>4. QED
    BY <1>0, <1>3 DEF Accumulates

\* FlattenSeq returns the last prefix.
LEMMA FlattenPrefixes ==
    ASSUME NEW S, NEW ss \in Seq(Seq(S))
    PROVE  \E g \in [0..Len(ss) -> Seq(S)] : Accumulates(ss, g) /\ FlattenSeq(ss) = g[Len(ss)]
<1> DEFINE n == Len(ss)
<1>0. n \in Nat /\ \A i \in 1..n : ss[i] \in Seq(S)
    BY SMT
<1>1. PICK g \in [0..n -> Seq(S)] : Accumulates(ss, g)
    BY PrefixesExist
<1>2. g[0] = <<>> /\ \A i \in 1..n : g[i] = g[i - 1] \o ss[i]
    BY <1>1 DEF Accumulates, AccumulatesTo
<1>3. CASE n = 0
    BY <1>1, <1>2, <1>3, SMT DEF FlattenSeq
<1>4. CASE n # 0
  <2> DEFINE f == [i \in 1..n |-> g[i]]
             h == CHOOSE h : Flattened(ss, h)
  <2>0. 1 \in 1..n /\ 1 - 1 = 0
    BY <1>0, <1>4, SMT
  <2>1. g[1] = ss[1]
    <3>1. g[1] = <<>> \o ss[1] /\ ss[1] \in Seq(S)
      BY <1>0, <1>2, <2>0
    <3>2. QED
      BY <3>1, SMT
  <2>2. Flattened(ss, f)
    <3>1. ASSUME NEW i \in 1..n PROVE g[i] = IF i = 1 THEN ss[i] ELSE f[i - 1] \o ss[i]
      <4>1. CASE i = 1
        BY <2>1, <4>1
      <4>2. CASE i # 1
        <5>1. i - 1 \in 1..n
          BY <4>2, SMT
        <5>2. QED
          BY <1>2, <4>2, <5>1
      <4>3. QED
        BY <4>1, <4>2
    <3>2. QED
      BY <3>1, Zenon DEF Flattened
  <2>3. Flattened(ss, h)
    BY <2>2
  <2>4. FlattenSeq(ss) = h[n]
    BY <1>4 DEF FlattenSeq, Flattened
  <2> HIDE DEF h, f
  <2>5. \A i \in 1..n : h[i] = IF i = 1 THEN ss[i] ELSE h[i - 1] \o ss[i]
    BY <2>3, Zenon DEF Flattened
  <2> DEFINE T == {m \in Nat : m + 1 \in 1..n => h[m + 1] = g[m + 1]}
  <2>6. 0 \in T
    BY <2>0, <2>1, <2>5, SMT
  <2>7. ASSUME NEW m \in Nat, m \in T PROVE m + 1 \in T
    <3>1. ASSUME (m + 1) + 1 \in 1..n PROVE h[(m + 1) + 1] = g[(m + 1) + 1]
      <4>1. m + 1 \in 1..n /\ ((m + 1) + 1) - 1 = m + 1 /\ (m + 1) + 1 # 1
        BY <3>1, SMT
      <4>2. h[m + 1] = g[m + 1]
        BY <2>7, <4>1
      <4>3. g[(m + 1) + 1] = g[m + 1] \o ss[(m + 1) + 1]
        BY <1>2, <3>1, <4>1, Zenon
      <4>4. h[(m + 1) + 1] = h[m + 1] \o ss[(m + 1) + 1]
        BY <2>5, <3>1, <4>1, Zenon
      <4>5. QED
        BY <4>2, <4>3, <4>4
    <3>2. QED
      BY <3>1
  <2>8. n - 1 \in T
    <3>1. n - 1 \in Nat
      BY <1>0, <1>4, SMT
    <3> HIDE DEF T
    <3>2. \A m \in Nat : m \in T
      BY <2>6, <2>7, SetInduction
    <3>3. QED
      BY <3>1, <3>2
  <2>9. (n - 1) + 1 = n /\ n \in 1..n
    BY <1>0, <1>4, SMT
  <2>10. h[n] = g[n]
    BY <2>8, <2>9
  <2>11. QED
    BY <1>1, <2>4, <2>10
<1>5. QED
    BY <1>3, <1>4

\* A prefix is a prefix of the later ones.
Grows(g, i, j) == Len(g[i]) <= Len(g[j]) /\ \A k \in 1..Len(g[i]) : g[j][k] = g[i][k]

LEMMA PrefixesGrow ==
    ASSUME NEW S, NEW ss \in Seq(Seq(S)), NEW g \in [0..Len(ss) -> Seq(S)], Accumulates(ss, g),
           NEW i \in 0..Len(ss), NEW j \in 0..Len(ss), i <= j
    PROVE  Grows(g, i, j)
<1> USE DEF Grows
<1> DEFINE n == Len(ss)
           Below(a) == Len(g[i]) <= Len(g[a]) /\ \A k \in 1..Len(g[i]) : g[a][k] = g[i][k]
           T == {m \in Nat : i + m <= n => Below(i + m)}
<1>0. /\ n \in Nat /\ \A a \in 1..n : ss[a] \in Seq(S)
      /\ \A a \in 1..n : g[a] = g[a - 1] \o ss[a]
      /\ \A a \in 0..n : g[a] \in Seq(S) /\ Len(g[a]) \in Nat
  <2>1. n \in Nat /\ \A a \in 1..n : ss[a] \in Seq(S)
    BY SMT
  <2>2. \A a \in 1..n : g[a] = g[a - 1] \o ss[a]
    BY DEF Accumulates, AccumulatesTo
  <2>3. \A a \in 0..n : g[a] \in Seq(S) /\ Len(g[a]) \in Nat
    BY LenNat
  <2>4. QED
    BY <2>1, <2>2, <2>3
<1>1. 0 \in T
  <2>1. i + 0 = i /\ Len(g[i]) <= Len(g[i])
    BY <1>0, SMT
  <2>2. QED
    BY <2>1
<1>2. ASSUME NEW m \in Nat, m \in T PROVE m + 1 \in T
  <2>1. ASSUME i + (m + 1) <= n PROVE Below(i + (m + 1))
    <3> DEFINE a == i + m
    <3>1. i + m <= n /\ i + (m + 1) = a + 1 /\ a \in 0..n /\ a + 1 \in 1..n /\ (a + 1) - 1 = a /\ a + 1 \in 0..n
      BY <1>0, <2>1, SMT
    <3>2. Below(a)
      BY <1>2, <3>1
    <3> HIDE DEF a
    <3>3. g[a + 1] = g[a] \o ss[a + 1] /\ g[a] \in Seq(S) /\ ss[a + 1] \in Seq(S)
      BY <1>0, <3>1
    <3>4. Len(g[a]) <= Len(g[a + 1]) /\ \A k \in 1..Len(g[a]) : g[a + 1][k] = g[a][k]
      <4> DEFINE s == g[a]  t == ss[a + 1]  u == g[a + 1]
      <4>1. s \in Seq(S) /\ t \in Seq(S) /\ u = s \o t
        BY <3>3
      <4> HIDE DEF s, t, u
      <4>2. Len(s) <= Len(s \o t) /\ \A k \in 1..Len(s) : (s \o t)[k] = s[k]
        BY <4>1, ConcatFacts
      <4>3. Len(s) <= Len(u) /\ \A k \in 1..Len(s) : u[k] = s[k]
        BY <4>1, <4>2
      <4> USE DEF s, t, u
      <4>4. QED
        BY <4>3
    <3>5. Len(g[i]) \in Nat /\ Len(g[a]) \in Nat /\ Len(g[a + 1]) \in Nat
      BY <1>0, <3>1
    <3>6. \A k \in 1..Len(g[i]) : k \in 1..Len(g[a])
      BY <3>2, <3>5, SMT
    <3>7. Len(g[i]) <= Len(g[a + 1])
      BY <3>2, <3>4, <3>5, SMT
    <3>8. Below(a + 1)
      BY <3>2, <3>4, <3>6, <3>7, Zenon
    <3>9. QED
      BY <3>1, <3>8
  <2>2. QED
    BY <2>1
<1>3. j - i \in T
  <2> HIDE DEF T
  <2>1. \A m \in Nat : m \in T
    BY <1>1, <1>2, SetInduction
  <2>2. QED
    BY <2>1, SMT
<1>4. i + (j - i) = j
    BY SMT
<1>5. QED
    BY <1>0, <1>3, <1>4, SMT

\* The pieces of a sequence that FlattenSeq makes lie one behind the other: off[i] is where
\* the i-th ends.
Parts(ss, off) ==
    /\ off \in [0..Len(ss) -> Nat] /\ off[0] = 0
    /\ \A i \in 1..Len(ss) : off[i] = off[i - 1] + Len(ss[i])
    /\ \A i, j \in 0..Len(ss) : i <= j => off[i] <= off[j]
    /\ Len(FlattenSeq(ss)) = off[Len(ss)]
    /\ \A i \in 1..Len(ss) : \A k \in 1..Len(ss[i]) : FlattenSeq(ss)[off[i - 1] + k] = ss[i][k]
    /\ \A x \in 1..off[Len(ss)] : \E i \in 1..Len(ss) : off[i - 1] < x /\ x <= off[i]

LEMMA FlattenParts ==
    ASSUME NEW S, NEW ss \in Seq(Seq(S))
    PROVE  FlattenSeq(ss) \in Seq(S) /\ \E off : Parts(ss, off)
<1> DEFINE n == Len(ss)
<1>1. PICK g \in [0..n -> Seq(S)] : Accumulates(ss, g) /\ FlattenSeq(ss) = g[n]
    BY FlattenPrefixes
<1> DEFINE off == [i \in 0..n |-> Len(g[i])]
<1>0. /\ n \in Nat /\ n \in 0..n /\ 0 \in 0..n /\ \A i \in 1..n : ss[i] \in Seq(S) /\ Len(ss[i]) \in Nat
      /\ g[0] = <<>> /\ \A i \in 1..n : g[i] = g[i - 1] \o ss[i]
      /\ \A i \in 0..n : g[i] \in Seq(S) /\ Len(g[i]) \in Nat
      /\ \A i \in 1..n : i \in 0..n /\ i - 1 \in 0..n
  <2>1. /\ n \in Nat /\ n \in 0..n /\ 0 \in 0..n /\ \A i \in 1..n : ss[i] \in Seq(S) /\ Len(ss[i]) \in Nat
    BY SMT
  <2>2. g[0] = <<>> /\ \A i \in 1..n : g[i] = g[i - 1] \o ss[i]
    BY <1>1 DEF Accumulates, AccumulatesTo
  <2>3. \A i \in 0..n : g[i] \in Seq(S) /\ Len(g[i]) \in Nat
    BY LenNat
  <2>4. \A i \in 1..n : i \in 0..n /\ i - 1 \in 0..n
    BY <2>1, SMT
  <2>5. QED
    BY <2>1, <2>2, <2>3, <2>4
<1>2. off \in [0..n -> Nat] /\ off[0] = 0 /\ \A i \in 0..n : off[i] = Len(g[i])
    BY <1>0, SMT
<1> HIDE DEF off
<1>3. ASSUME NEW i \in 1..n
      PROVE  /\ off[i] = off[i - 1] + Len(ss[i])
             /\ \A k \in 1..Len(ss[i]) : FlattenSeq(ss)[off[i - 1] + k] = ss[i][k]
  <2>1. g[i] = g[i - 1] \o ss[i] /\ g[i - 1] \in Seq(S) /\ ss[i] \in Seq(S) /\ i \in 0..n /\ i - 1 \in 0..n
    BY <1>0
  <2>2. Len(g[i]) = Len(g[i - 1]) + Len(ss[i])
    BY <2>1, SMT
  <2>3. ASSUME NEW k \in 1..Len(ss[i])
        PROVE  Len(g[i - 1]) + k \in 1..Len(g[i]) /\ g[i][Len(g[i - 1]) + k] = ss[i][k]
    BY <2>1, <2>2, SMT
  <2>4. \A x \in 1..Len(g[i]) : g[n][x] = g[i][x]
    <3>1. i <= n
      BY <1>0, SMT
    <3>2. Accumulates(ss, g) /\ i \in 0..Len(ss) /\ Len(ss) \in 0..Len(ss)
      BY <1>0, <1>1, <2>1
    <3>3. PICK j \in 0..Len(ss) : j = n
      BY <3>2
    <3>4. i <= j /\ i \in 0..Len(ss)
      BY <3>1, <3>2, <3>3
    <3>5. Grows(g, i, j)
      BY <3>2, <3>4, PrefixesGrow
    <3>6. QED
      BY <3>3, <3>5 DEF Grows
  <2>5. QED
    BY <1>1, <1>2, <2>1, <2>2, <2>3, <2>4
<1>4. ASSUME NEW i \in 0..n, NEW j \in 0..n, i <= j PROVE off[i] <= off[j]
  <2>1. Accumulates(ss, g)
    BY <1>1
  <2>2. Grows(g, i, j)
    BY <1>4, <2>1, PrefixesGrow
  <2>3. QED
    BY <1>2, <2>2 DEF Grows
<1>5. ASSUME NEW x \in 1..off[n] PROVE \E i \in 1..n : off[i - 1] < x /\ x <= off[i]
  <2> DEFINE A == {i \in 0..n : x <= off[i]}
             i == Min(A)
  <2>1. n \in A /\ A \subseteq Nat
    BY <1>0, <1>2, SMT
  <2>2. i \in A /\ \A y \in A : i <= y
    <3> HIDE DEF A
    <3>1. QED
      BY <2>1, MinFacts
  <2>3. i \in 0..n /\ x <= off[i]
    BY <2>2
  <2> HIDE DEF i
  <2>4. i # 0
    BY <1>2, <2>3, SMT
  <2>5. i \in 1..n /\ i - 1 \in 0..n /\ ~(i <= i - 1)
    BY <1>0, <2>3, <2>4, SMT
  <2>6. ~(x <= off[i - 1])
    BY <2>2, <2>5
  <2>7. off[i - 1] < x
    <3>1. off[i - 1] \in Nat /\ off[n] \in Nat
      BY <1>0, <1>2, <2>5
    <3>2. QED
      BY <2>6, <3>1, SMT
  <2>8. QED
    BY <2>3, <2>5, <2>7
<1>6. Parts(ss, off)
    BY <1>0, <1>1, <1>2, <1>3, <1>4, <1>5 DEF Parts
<1>7. QED
    BY <1>0, <1>1, <1>6

-----------------------------------------------------------------------------
(* Runs *)

\* The message whose run a position is in: what is between is results.
LEMMA RunHeadFacts ==
    ASSUME NEW conv, NEW i \in Nat \ {0}
    PROVE  /\ RunHead(conv, i) \in 0..(i - 1)
           /\ RunHead(conv, i) # 0 => ~IsResult(conv[RunHead(conv, i)])
           /\ \A j \in 1..(i - 1) : RunHead(conv, i) < j => IsResult(conv[j])
<1> DEFINE A == {0} \cup {j \in 1..(i - 1) : ~IsResult(conv[j])}
           n == i - 1
<1>1. n \in Nat /\ A \subseteq 0..n /\ A # {}
  BY SMT
<1>2. Max(A) \in A /\ \A y \in A : y <= Max(A)
  <2> HIDE DEF A, n
  <2>1. QED
    BY <1>1, MaxFacts
<1>3. RunHead(conv, i) = Max(A)
  BY DEF RunHead
<1> DEFINE h == Max(A)
<1>4. h \in A /\ \A y \in A : y <= h
  BY <1>2
<1> HIDE DEF h
<1>5. h \in 0..n /\ (h # 0 => ~IsResult(conv[h]))
  BY <1>1, <1>4
<1>6. ASSUME NEW j \in 1..n, h < j PROVE IsResult(conv[j])
  <2>1. ~(j <= h)
    BY <1>1, <1>5, <1>6, SMT
  <2>2. QED
    BY <1>4, <2>1
<1>7. RunHead(conv, i) = h
  BY <1>3 DEF h
<1>8. QED
  BY <1>5, <1>6, <1>7

-----------------------------------------------------------------------------
(* What the passes leave is made of what they were given *)

LEMMA KeepPieces ==
    ASSUME NEW S, NEW s \in Seq(S), NEW kept
    PROVE  /\ [i \in DOMAIN s |-> IF i \in kept THEN <<s[i]>> ELSE <<>>] \in Seq(Seq(S))
           /\ Len([i \in DOMAIN s |-> IF i \in kept THEN <<s[i]>> ELSE <<>>]) = Len(s)
<1> DEFINE n == Len(s)
           ss == [i \in DOMAIN s |-> IF i \in kept THEN <<s[i]>> ELSE <<>>]
<1>1. n \in Nat /\ DOMAIN s = 1..n /\ \A i \in 1..n : s[i] \in S
  BY SMT
<1>2. ASSUME NEW i \in 1..n PROVE (IF i \in kept THEN <<s[i]>> ELSE <<>>) \in Seq(S)
  <2>1. <<s[i]>> \in Seq(S) /\ <<>> \in Seq(S)
    BY <1>1, SMT
  <2>2. QED
    BY <2>1
<1>3. ss \in [1..n -> Seq(S)]
  BY <1>1, <1>2
<1>4. QED
  BY <1>1, <1>3, SMT

LEMMA KeepType ==
    ASSUME NEW S, NEW s \in Seq(S), NEW kept
    PROVE  Keep(s, kept) \in Seq(S)
BY KeepPieces, FlattenParts DEF Keep

\* The items of S may be answered: a synthetic answer to a call of one is one.
Answerable(S, reason) ==
    \A x \in S : x.calls \in Seq(ToSet(x.calls)) /\ \A id \in ToSet(x.calls) : Synthetic(id, reason) \in S

LEMMA MissingType ==
    ASSUME NEW S, NEW conv \in Seq(S), NEW reason, Answerable(S, reason), NEW i \in 1..Len(conv)
    PROVE  Missing(conv, i, reason) \in Seq(S)
<1> DEFINE h    == HeadOf(conv, i)
           ids  == conv[h].calls
           open == IF EndsRun(conv, i) /\ h # 0 THEN Unanswered(conv, h) ELSE <<>>
<1>0. Len(conv) \in Nat /\ i \in Nat \ {0}
  BY SMT
<1>1. h # 0 => h \in 1..Len(conv)
  <2>1. RunHead(conv, i) \in 0..(i - 1)
    BY <1>0, RunHeadFacts
  <2>2. QED
    BY <1>0, <2>1, SMT DEF HeadOf
<1> HIDE DEF h
<1>2. ASSUME h # 0 PROVE Unanswered(conv, h) \in Seq(ToSet(ids)) /\ \A id \in ToSet(ids) : Synthetic(id, reason) \in S
  <2>1. conv[h] \in S
    BY <1>1, <1>2
  <2>2. ids \in Seq(ToSet(ids)) /\ \A id \in ToSet(ids) : Synthetic(id, reason) \in S
    BY <2>1 DEF Answerable
  <2>3. \E kept : Unanswered(conv, h) = Keep(ids, kept)
    BY DEF Unanswered
  <2>4. QED
    BY <2>2, <2>3, KeepType
<1>3. \E T : open \in Seq(T) /\ \A id \in T : Synthetic(id, reason) \in S
  <2>1. CASE EndsRun(conv, i) /\ h # 0
    BY <1>2, <2>1
  <2>2. CASE ~(EndsRun(conv, i) /\ h # 0)
    <3>1. open = <<>>
      BY <2>2, Zenon
    <3>2. \A T : <<>> \in Seq(T)
      BY SMT
    <3> HIDE DEF open
    <3>3. PICK T : T = {}
      OBVIOUS
    <3>4. open \in Seq(T) /\ \A id \in T : Synthetic(id, reason) \in S
      BY <3>1, <3>2, <3>3, Zenon
    <3>5. QED
      BY <3>4, Zenon
  <2>3. QED
    BY <2>1, <2>2
<1>4. Missing(conv, i, reason) = [k \in DOMAIN open |-> Synthetic(open[k], reason)]
  BY DEF Missing, h
<1> HIDE DEF open
<1>5. PICK T : open \in Seq(T) /\ \A id \in T : Synthetic(id, reason) \in S
  BY <1>3
<1>6. Len(open) \in Nat /\ DOMAIN open = 1..Len(open) /\ \A k \in 1..Len(open) : open[k] \in T
  BY <1>5, SMT
<1>7. \A k \in 1..Len(open) : Synthetic(open[k], reason) \in S
  BY <1>5, <1>6
<1>8. [k \in DOMAIN open |-> Synthetic(open[k], reason)] \in [1..Len(open) -> S]
  BY <1>6, <1>7
<1>9. [k \in DOMAIN open |-> Synthetic(open[k], reason)] \in Seq(S)
  BY <1>6, <1>8, SMT
<1>10. QED
  BY <1>4, <1>9

LEMMA RepairPieces ==
    ASSUME NEW S, NEW conv \in Seq(S), NEW reason, Answerable(S, reason)
    PROVE  /\ [i \in DOMAIN conv |-> <<conv[i]>> \o Missing(conv, i, reason)] \in Seq(Seq(S))
           /\ Len([i \in DOMAIN conv |-> <<conv[i]>> \o Missing(conv, i, reason)]) = Len(conv)
<1> DEFINE n == Len(conv)
           ss == [i \in DOMAIN conv |-> <<conv[i]>> \o Missing(conv, i, reason)]
<1>1. n \in Nat /\ DOMAIN conv = 1..n /\ \A i \in 1..n : conv[i] \in S
  BY SMT
<1>2. ASSUME NEW i \in 1..n PROVE <<conv[i]>> \o Missing(conv, i, reason) \in Seq(S)
  <2>1. Missing(conv, i, reason) \in Seq(S) /\ <<conv[i]>> \in Seq(S)
    BY <1>1, MissingType
  <2>2. QED
    BY <2>1, ConcatFacts
<1>3. ss \in [1..n -> Seq(S)]
  BY <1>1, <1>2
<1>4. QED
  BY <1>1, <1>3, SMT

LEMMA RepairType ==
    ASSUME NEW S, NEW conv \in Seq(S), NEW reason, Answerable(S, reason)
    PROVE  RepairDangling(conv, reason) \in Seq(S)
BY RepairPieces, FlattenParts DEF RepairDangling

LEMMA IntegrityType ==
    ASSUME NEW S, NEW conv \in Seq(S), NEW reason, Answerable(S, reason)
    PROVE  Dedup(conv) \in Seq(S) /\ Integrity(conv, reason) \in Seq(S)
<1>1. Dedup(conv) \in Seq(S)
  BY KeepType DEF Dedup
<1>2. QED
  BY <1>1, RepairType DEF Integrity

LEMMA RepairHistoryType ==
    ASSUME NEW S, NEW conv \in Seq(S), Answerable(S, "halted")
    PROVE  RepairHistory(conv) \in Seq(S)
<1>1. StripDisplaced(Dedup(conv)) \in Seq(S)
  BY KeepType DEF Dedup, StripDisplaced
<1>2. QED
  BY <1>1, RepairType DEF RepairHistory

-----------------------------------------------------------------------------
(* Positions: where the items of a pass's result come from *)

\* Two increasing enumerations of the same numbers are the same.
Increasing(a, m) == \A p, q \in 1..m : p < q => a[p] < a[q]
Within(a, m, b, n) == \A p \in 1..m : \E q \in 1..n : a[p] = b[q]

LEMMA NotLonger ==
    ASSUME NEW m \in Nat, NEW n \in Nat, NEW a \in [1..m -> Nat], NEW b \in [1..n -> Nat],
           Increasing(a, m), Increasing(b, n), Within(a, m, b, n), Within(b, n, a, m)
    PROVE  m <= n /\ \A p \in 1..m : a[p] = b[p]
<1> DEFINE T == {k \in Nat : \A p \in 1..k : p <= m => p <= n /\ a[p] = b[p]}
<1>1. 0 \in T
  BY SMT
<1>2. ASSUME NEW k \in Nat, k \in T PROVE k + 1 \in T
  <2>1. ASSUME k + 1 <= m PROVE k + 1 <= n /\ a[k + 1] = b[k + 1]
    <3>0. k + 1 \in 1..m /\ \A p \in 1..k : p \in 1..m /\ p \in 1..n /\ a[p] = b[p] /\ p < k + 1
      BY <1>2, <2>1, SMT
    <3>1. PICK q \in 1..n : a[k + 1] = b[q]
      BY <3>0 DEF Within
    <3>2. q >= k + 1
      <4>1. SUFFICES ASSUME q \in 1..k PROVE FALSE
        BY SMT
      <4>2. a[q] < a[k + 1] /\ a[q] = b[q]
        BY <3>0, <4>1 DEF Increasing
      <4>3. a[q] \in Nat /\ a[k + 1] \in Nat
        BY <3>0, <4>1
      <4>4. QED
        BY <3>1, <4>2, <4>3, SMT
    <3>3. k + 1 \in 1..n
      BY <3>2, SMT
    <3>4. PICK r \in 1..m : b[k + 1] = a[r]
      BY <3>3 DEF Within
    <3>5. r >= k + 1
      <4>1. SUFFICES ASSUME r \in 1..k PROVE FALSE
        BY SMT
      <4>2. b[r] < b[k + 1] /\ a[r] = b[r] /\ r \in 1..n
        BY <3>0, <3>3, <4>1 DEF Increasing
      <4>3. b[r] \in Nat /\ b[k + 1] \in Nat
        BY <3>3, <4>2
      <4>4. QED
        BY <3>4, <4>2, <4>3, SMT
    <3>6. b[k + 1] = b[q] \/ b[k + 1] < b[q]
      BY <3>2, <3>3, SMT DEF Increasing
    <3>7. a[k + 1] = a[r] \/ a[k + 1] < a[r]
      BY <3>0, <3>5, SMT DEF Increasing
    <3>8. a[k + 1] \in Nat /\ b[k + 1] \in Nat
      BY <3>0, <3>3
    <3>9. QED
      BY <3>1, <3>3, <3>4, <3>6, <3>7, <3>8, SMT
  <2>2. ASSUME NEW p \in 1..(k + 1), p <= m PROVE p <= n /\ a[p] = b[p]
    <3>1. CASE p = k + 1
      BY <2>1, <2>2, <3>1
    <3>2. CASE p # k + 1
      <4>1. p \in 1..k
        BY <3>2, SMT
      <4>2. QED
        BY <1>2, <2>2, <4>1
    <3>3. QED
      BY <3>1, <3>2
  <2>3. QED
    BY <2>2
<1>3. m \in T
  <2> HIDE DEF T
  <2>1. QED
    BY <1>1, <1>2, SetInduction
<1>4. QED
  BY <1>3, SMT

Enumerates(a, m, b, n) == a \in [1..m -> Nat] /\ Increasing(a, m) /\ Within(a, m, b, n)

LEMMA SameEnumeration ==
    ASSUME NEW m \in Nat, NEW n \in Nat, NEW a, NEW b, Enumerates(a, m, b, n), Enumerates(b, n, a, m)
    PROVE  m = n /\ \A p \in 1..m : a[p] = b[p]
<1>0. /\ a \in [1..m -> Nat] /\ Increasing(a, m) /\ Within(a, m, b, n)
      /\ b \in [1..n -> Nat] /\ Increasing(b, n) /\ Within(b, n, a, m)
  BY DEF Enumerates
<1>1. m <= n /\ \A p \in 1..m : a[p] = b[p]
  BY <1>0, NotLonger
<1>2. n <= m
  BY <1>0, NotLonger
<1>3. QED
  BY <1>1, <1>2, SMT

\* t is the items of s at the positions of kept, and f says which position each came from.
Picks(s, t, f, kept) ==
    /\ f \in [1..Len(t) -> 1..Len(s)]
    /\ Increasing(f, Len(t))
    /\ \A p \in 1..Len(t) : t[p] = s[f[p]] /\ f[p] \in kept
    /\ \A i \in 1..Len(s) : i \in kept => \E p \in 1..Len(t) : f[p] = i

LEMMA KeepPicks ==
    ASSUME NEW S, NEW s \in Seq(S), NEW kept
    PROVE  Keep(s, kept) \in Seq(S) /\ \E f : Picks(s, Keep(s, kept), f, kept)
<1> DEFINE ss == [i \in DOMAIN s |-> IF i \in kept THEN <<s[i]>> ELSE <<>>]
           t  == Keep(s, kept)
           n  == Len(s)
<1>1. ss \in Seq(Seq(S)) /\ Len(ss) = n
  BY KeepPieces
<1>2. t = FlattenSeq(ss)
  BY DEF Keep
<1>3. n \in Nat /\ DOMAIN s = 1..n
  BY SMT
<1>4. \A i \in 1..n : ss[i] = IF i \in kept THEN <<s[i]>> ELSE <<>>
  BY <1>3
<1> HIDE DEF ss, t
<1>5. t \in Seq(S) /\ \E off : Parts(ss, off)
  BY <1>1, <1>2, FlattenParts
<1>6. PICK off : Parts(ss, off)
  BY <1>5
<1>7. /\ off \in [0..n -> Nat] /\ off[0] = 0
      /\ \A i \in 1..n : off[i] = off[i - 1] + Len(ss[i])
      /\ \A i, j \in 0..n : i <= j => off[i] <= off[j]
      /\ Len(t) = off[n]
      /\ \A i \in 1..n : \A k \in 1..Len(ss[i]) : t[off[i - 1] + k] = ss[i][k]
      /\ \A x \in 1..off[n] : \E i \in 1..n : off[i - 1] < x /\ x <= off[i]
  BY <1>1, <1>2, <1>6 DEF Parts
<1>8. \A i \in 1..n : /\ i \in 0..n /\ i - 1 \in 0..n /\ off[i] \in Nat /\ off[i - 1] \in Nat
                      /\ off[i] <= off[n] /\ off[n] \in Nat
  <2>1. ASSUME NEW i \in 1..n PROVE i \in 0..n /\ i - 1 \in 0..n /\ n \in 0..n /\ i <= n
    BY <1>3, SMT
  <2>2. QED
    BY <1>7, <2>1
<1>9. ASSUME NEW i \in 1..n, i \in kept
      PROVE  off[i] = off[i - 1] + 1 /\ t[off[i]] = s[i] /\ off[i] \in 1..Len(t)
  <2>1. ss[i] = <<s[i]>>
    BY <1>4, <1>9
  <2>2. Len(ss[i]) = 1 /\ ss[i][1] = s[i]
    BY <2>1, SMT
  <2>3. off[i] = off[i - 1] + 1
    BY <1>7, <2>2
  <2>4. 1 \in 1..Len(ss[i])
    BY <2>2, SMT
  <2>5. t[off[i - 1] + 1] = s[i]
    BY <1>7, <2>2, <2>4
  <2>6. QED
    BY <1>7, <1>8, <2>3, <2>5, SMT
<1>10. ASSUME NEW i \in 1..n, i \notin kept PROVE off[i] = off[i - 1]
  <2>0. ss[i] = <<>>
    BY <1>4, <1>10
  <2>1. Len(ss[i]) = 0
    BY <2>0, SMT
  <2>2. QED
    BY <1>7, <1>8, <2>1, SMT
<1>11. ASSUME NEW x \in 1..Len(t) PROVE \E i \in 1..n : i \in kept /\ off[i] = x
  <2>1. PICK i \in 1..n : off[i - 1] < x /\ x <= off[i]
    BY <1>7
  <2>2. i \in kept
    BY <1>8, <1>10, <2>1, SMT
  <2>3. off[i] = x
    BY <1>8, <1>9, <2>1, <2>2, SMT
  <2>4. QED
    BY <2>2, <2>3
<1> DEFINE f == [x \in 1..Len(t) |-> CHOOSE i \in 1..n : i \in kept /\ off[i] = x]
<1>12. \A x \in 1..Len(t) : f[x] \in 1..n /\ f[x] \in kept /\ off[f[x]] = x
  BY <1>11
<1>13. f \in [1..Len(t) -> 1..n]
  BY <1>12
<1> HIDE DEF f
<1>14. ASSUME NEW p \in 1..Len(t), NEW q \in 1..Len(t), p < q PROVE f[p] < f[q]
  <2>0. off[f[p]] = p /\ off[f[q]] = q /\ f[p] \in 1..n /\ f[q] \in 1..n /\ f[p] \in 0..n /\ f[q] \in 0..n
    BY <1>8, <1>12
  <2>1. ~(f[q] <= f[p])
    <3>1. SUFFICES ASSUME f[q] <= f[p] PROVE FALSE
      OBVIOUS
    <3>2. off[f[q]] <= off[f[p]]
      BY <1>7, <2>0, <3>1
    <3>3. Len(t) \in Nat
      BY <1>7, <1>8, <2>0
    <3>4. QED
      BY <1>14, <2>0, <3>2, <3>3, SMT
  <2>2. QED
    BY <1>3, <2>0, <2>1, SMT
<1>15. \A p \in 1..Len(t) : t[p] = s[f[p]] /\ f[p] \in kept
  BY <1>9, <1>12
<1>16. ASSUME NEW i \in 1..n, i \in kept PROVE \E p \in 1..Len(t) : f[p] = i
  <2>1. off[i] \in 1..Len(t)
    BY <1>9, <1>16
  <2>2. PICK x \in 1..Len(t) : x = off[i]
    BY <2>1
  <2>3. PICK j \in 1..n : j = f[x]
    BY <1>12
  <2>4. off[j] = off[i] /\ j \in kept
    BY <1>12, <2>2, <2>3
  <2>5. off[i] = off[i - 1] + 1 /\ off[j] = off[j - 1] + 1
    BY <1>9, <1>16, <2>4
  <2>6. ~(i < j)
    <3>1. SUFFICES ASSUME i < j PROVE FALSE
      OBVIOUS
    <3>2. i <= j - 1 /\ i \in 0..n /\ j - 1 \in 0..n
      BY <1>3, <3>1, SMT
    <3>3. off[i] <= off[j - 1]
      BY <1>7, <3>2
    <3>4. QED
      BY <1>8, <2>4, <2>5, <3>3, SMT
  <2>7. ~(j < i)
    <3>1. SUFFICES ASSUME j < i PROVE FALSE
      OBVIOUS
    <3>2. j <= i - 1 /\ j \in 0..n /\ i - 1 \in 0..n
      BY <1>3, <3>1, SMT
    <3>3. off[j] <= off[i - 1]
      BY <1>7, <3>2
    <3>4. QED
      BY <1>8, <2>4, <2>5, <3>3, SMT
  <2>8. i = j
    BY <1>3, <2>6, <2>7, SMT
  <2>9. QED
    BY <2>3, <2>8
<1>17. Picks(s, t, f, kept)
  BY <1>13, <1>14, <1>15, <1>16 DEF Picks, Increasing
<1>18. QED
  BY <1>5, <1>17 DEF t

-----------------------------------------------------------------------------
(* A pass that only removes results keeps the runs *)

LEMMA RunHeadIs ==
    ASSUME NEW conv, NEW i \in Nat \ {0}, NEW h \in 0..(i - 1), h # 0 => ~IsResult(conv[h]),
           \A j \in 1..(i - 1) : h < j => IsResult(conv[j])
    PROVE  RunHead(conv, i) = h
<1>1. /\ RunHead(conv, i) \in 0..(i - 1)
      /\ RunHead(conv, i) # 0 => ~IsResult(conv[RunHead(conv, i)])
      /\ \A j \in 1..(i - 1) : RunHead(conv, i) < j => IsResult(conv[j])
  BY RunHeadFacts
<1>2. PICK g \in 0..(i - 1) : g = RunHead(conv, i)
  BY <1>1
<1>3. ~(h < g)
  <2>1. SUFFICES ASSUME h < g PROVE FALSE
    OBVIOUS
  <2>2. g \in 1..(i - 1) /\ g # 0
    BY <2>1, SMT
  <2>3. QED
    BY <1>1, <1>2, <2>1, <2>2
<1>4. ~(g < h)
  <2>1. SUFFICES ASSUME g < h PROVE FALSE
    OBVIOUS
  <2>2. h \in 1..(i - 1) /\ h # 0
    BY <2>1, SMT
  <2>3. QED
    BY <1>1, <1>2, <2>1, <2>2
<1>5. QED
  BY <1>2, <1>3, <1>4, SMT

\* kept leaves out nothing but results of s.
KeepsSpoken(s, kept) == \A i \in 1..Len(s) : ~IsResult(s[i]) => i \in kept

\* The position p of t is in the run of the same message as the position i of s.
SameRunAt(s, t, f, p, i) ==
    /\ RunHead(t, p) \in 0..Len(t)
    /\ RunHead(t, p) = 0 => RunHead(s, i) = 0
    /\ RunHead(t, p) # 0 => RunHead(t, p) \in 1..Len(t) /\ RunHead(s, i) = f[RunHead(t, p)]
    /\ RunCalls(t, p) = RunCalls(s, i)

LEMMA KeepRunsAt ==
    ASSUME NEW S, NEW s \in Seq(S), NEW t \in Seq(S), NEW f, NEW kept, Picks(s, t, f, kept),
           KeepsSpoken(s, kept), NEW p \in 1..(Len(t) + 1), NEW i \in 1..(Len(s) + 1),
           \A q \in 1..Len(t) : q < p <=> f[q] < i
    PROVE  SameRunAt(s, t, f, p, i)
<1> DEFINE h == RunHead(t, p)
           g == IF h = 0 THEN 0 ELSE f[h]
<1>0. /\ Len(s) \in Nat /\ Len(t) \in Nat /\ p \in Nat \ {0} /\ i \in Nat \ {0}
      /\ f \in [1..Len(t) -> 1..Len(s)] /\ Increasing(f, Len(t))
      /\ \A q \in 1..Len(t) : t[q] = s[f[q]] /\ f[q] \in kept
      /\ \A j \in 1..Len(s) : j \in kept => \E q \in 1..Len(t) : f[q] = j
  <2>1. Len(s) \in Nat /\ Len(t) \in Nat
    BY SMT
  <2>2. p \in Nat \ {0} /\ i \in Nat \ {0}
    BY <2>1, SMT
  <2>3. QED
    BY <2>1, <2>2, Zenon DEF Picks
<1>1. /\ h \in 0..(p - 1)
      /\ h # 0 => ~IsResult(t[h])
      /\ \A j \in 1..(p - 1) : h < j => IsResult(t[j])
  BY <1>0, RunHeadFacts
<1> HIDE DEF h
<1>3. h \in 0..Len(t) /\ (h # 0 => h \in 1..Len(t) /\ h < p)
  BY <1>0, <1>1, SMT
<1>4. g \in 0..(i - 1) /\ (h # 0 => g = f[h] /\ g # 0 /\ ~IsResult(s[g]))
  <2>1. CASE h = 0
    BY <1>0, <2>1, SMT
  <2>2. CASE h # 0
    <3>1. f[h] < i /\ f[h] \in 1..Len(s) /\ t[h] = s[f[h]]
      BY <1>0, <1>3, <2>2
    <3>2. QED
      BY <1>0, <1>1, <2>2, <3>1, SMT
  <2>3. QED
    BY <2>1, <2>2
<1>5. ASSUME NEW j \in 1..(i - 1), g < j PROVE IsResult(s[j])
  <2>1. SUFFICES ASSUME ~IsResult(s[j]) PROVE FALSE
    OBVIOUS
  <2>2. j \in 1..Len(s) /\ j < i
    BY <1>0, SMT
  <2>3. PICK q \in 1..Len(t) : f[q] = j
    BY <1>0, <2>1, <2>2 DEF KeepsSpoken
  <2>4. q < p
    BY <2>2, <2>3
  <2>5. h < q
    <3>1. CASE h = 0
      BY <1>0, <3>1, SMT
    <3>2. CASE h # 0
      <4>1. ~(q < h)
        <5>1. SUFFICES ASSUME q < h PROVE FALSE
          OBVIOUS
        <5>2. f[q] < f[h] /\ f[h] \in 1..Len(s)
          BY <1>0, <1>3, <3>2, <5>1 DEF Increasing
        <5>3. QED
          BY <1>0, <1>4, <1>5, <2>2, <2>3, <3>2, <5>2, SMT
      <4>2. q # h
        BY <1>0, <1>4, <1>5, <2>3, <3>2, SMT
      <4>3. QED
        BY <1>0, <1>3, <3>2, <4>1, <4>2, SMT
    <3>3. QED
      BY <3>1, <3>2
  <2>6. q \in 1..(p - 1)
    BY <1>0, <2>4, SMT
  <2>7. IsResult(t[q])
    BY <1>1, <2>5, <2>6
  <2>8. QED
    BY <1>0, <2>1, <2>3, <2>7
<1>6. RunHead(s, i) = g
  <2>1. g # 0 => ~IsResult(s[g])
    BY <1>4
  <2> HIDE DEF g
  <2>2. QED
    BY <1>0, <1>4, <1>5, <2>1, RunHeadIs
<1>7. (h = 0 => g = 0) /\ (h # 0 => g = f[h] /\ g # 0)
  BY <1>4
<1> HIDE DEF g
<1>8. RunCalls(t, p) = RunCalls(s, i)
  <2>1. CASE h = 0
    BY <1>6, <1>7, <2>1 DEF RunCalls, h
  <2>2. CASE h # 0
    <3>1. t[h] = s[g]
      BY <1>0, <1>3, <1>7, <2>2
    <3>2. QED
      BY <1>6, <1>7, <2>2, <3>1 DEF RunCalls, h
  <2>3. QED
    BY <2>1, <2>2
<1>9. QED
  BY <1>3, <1>6, <1>7, <1>8 DEF SameRunAt, h

\* A position is in the run of the same message as where it came from, and so is the end.
SameRun(s, t, f, p) == SameRunAt(s, t, f, p, f[p])

\* The calls a result at the end would answer.
LastCalls(conv) == RunCalls(conv, Len(conv) + 1)

LEMMA KeepRuns ==
    ASSUME NEW S, NEW s \in Seq(S), NEW t \in Seq(S), NEW f, NEW kept, Picks(s, t, f, kept),
           KeepsSpoken(s, kept)
    PROVE  /\ \A p \in 1..Len(t) : SameRun(s, t, f, p)
           /\ LastCalls(t) = LastCalls(s)
<1>0. /\ Len(s) \in Nat /\ Len(t) \in Nat
      /\ f \in [1..Len(t) -> 1..Len(s)] /\ Increasing(f, Len(t))
  <2>1. Len(s) \in Nat /\ Len(t) \in Nat
    BY SMT
  <2>2. QED
    BY <2>1, Zenon DEF Picks
<1>1. ASSUME NEW p \in 1..Len(t) PROVE SameRun(s, t, f, p)
  <2>1. PICK i \in 1..Len(s) : i = f[p]
    BY <1>0
  <2>2. p \in 1..(Len(t) + 1) /\ i \in 1..(Len(s) + 1)
    BY <1>0, SMT
  <2>3. ASSUME NEW q \in 1..Len(t) PROVE q < p <=> f[q] < i
    <3>1. f[q] \in 1..Len(s) /\ (q < p => f[q] < f[p]) /\ (p < q => f[p] < f[q])
      BY <1>0 DEF Increasing
    <3>2. QED
      BY <1>0, <2>1, <3>1, SMT
  <2>4. SameRunAt(s, t, f, p, i)
    BY <2>2, <2>3, KeepRunsAt
  <2>5. QED
    BY <2>1, <2>4 DEF SameRun, SameRunAt
<1>2. LastCalls(t) = LastCalls(s)
  <2>1. PICK p \in 1..(Len(t) + 1) : p = Len(t) + 1
    BY <1>0, SMT
  <2>2. PICK i \in 1..(Len(s) + 1) : i = Len(s) + 1
    BY <1>0, SMT
  <2>3. ASSUME NEW q \in 1..Len(t) PROVE q < p <=> f[q] < i
    <3>1. f[q] \in 1..Len(s)
      BY <1>0
    <3>2. QED
      BY <1>0, <2>1, <2>2, <3>1, SMT
  <2>4. SameRunAt(s, t, f, p, i)
    BY <2>3, KeepRunsAt
  <2>5. QED
    BY <2>1, <2>2, <2>4 DEF SameRunAt, LastCalls
<1>3. QED
  BY <1>1, <1>2

\* No two results of a run that has calls answer the same call.
AnsweredOnce(conv) ==
    \A p, q \in 1..Len(conv) :
        /\ p < q /\ IsResult(conv[p]) /\ IsResult(conv[q])
        /\ RunHead(conv, p) = RunHead(conv, q) /\ RunCalls(conv, p) # <<>>
        => conv[p].of # conv[q].of

\* Every result answers a call of its run.
Placed(conv) == \A p \in 1..Len(conv) : IsResult(conv[p]) => Contains(RunCalls(conv, p), conv[p].of)

\* What a removal of results leaves: the runs are the same.
Thinned(s, t, f, kept) ==
    /\ Picks(s, t, f, kept) /\ KeepsSpoken(s, kept)
    /\ Len(s) \in Nat /\ Len(t) \in Nat
    /\ \A p \in 1..Len(t) : SameRun(s, t, f, p)
    /\ LastCalls(t) = LastCalls(s)

LEMMA Thins ==
    ASSUME NEW S, NEW s \in Seq(S), NEW kept, KeepsSpoken(s, kept)
    PROVE  Keep(s, kept) \in Seq(S) /\ \E f : Thinned(s, Keep(s, kept), f, kept)
<1>1. Keep(s, kept) \in Seq(S) /\ \E f : Picks(s, Keep(s, kept), f, kept)
  BY KeepPicks
<1>2. PICK t \in Seq(S) : t = Keep(s, kept)
  BY <1>1
<1>3. PICK f : Picks(s, t, f, kept)
  BY <1>1, <1>2
<1>4. (\A p \in 1..Len(t) : SameRun(s, t, f, p)) /\ LastCalls(t) = LastCalls(s)
  BY <1>3, KeepRuns
<1>5. Len(s) \in Nat /\ Len(t) \in Nat
  BY SMT
<1>6. Thinned(s, t, f, kept)
  BY <1>3, <1>4, <1>5 DEF Thinned
<1>7. QED
  BY <1>1, <1>2, <1>6

\* Two positions in one run of t come from one run of s.
LEMMA SameHeads ==
    ASSUME NEW s, NEW t, NEW f, NEW kept, Thinned(s, t, f, kept),
           NEW p \in 1..Len(t), NEW q \in 1..Len(t), RunHead(t, p) = RunHead(t, q)
    PROVE  RunHead(s, f[p]) = RunHead(s, f[q])
<1>1. SameRun(s, t, f, p) /\ SameRun(s, t, f, q)
  BY DEF Thinned
<1>2. QED
  BY <1>1 DEF SameRun, SameRunAt

\* Positions left out by Dedup and by StripDisplaced.
KeptByDedup(conv) == {i \in DOMAIN conv : ~Superseded(conv, i)}
KeptByStrip(conv) == {i \in DOMAIN conv : IsResult(conv[i]) => Contains(RunCalls(conv, i), conv[i].of)}

LEMMA DedupThins ==
    ASSUME NEW S, NEW conv \in Seq(S)
    PROVE  /\ Dedup(conv) \in Seq(S) /\ AnsweredOnce(Dedup(conv))
           /\ \E f : Thinned(conv, Dedup(conv), f, KeptByDedup(conv))
<1>0. DOMAIN conv = 1..Len(conv) /\ Len(conv) \in Nat
  BY SMT
<1>1. PICK kept : kept = KeptByDedup(conv)
  OBVIOUS
<1>2. KeepsSpoken(conv, kept)
  BY <1>0, <1>1 DEF KeptByDedup, KeepsSpoken, Superseded
<1>3. Dedup(conv) = Keep(conv, kept)
  BY <1>1 DEF Dedup, KeptByDedup
<1>4. Keep(conv, kept) \in Seq(S) /\ \E f : Thinned(conv, Keep(conv, kept), f, kept)
  BY <1>2, Thins
<1>5. PICK t \in Seq(S) : t = Dedup(conv)
  BY <1>3, <1>4
<1>6. PICK f : Thinned(conv, t, f, kept)
  BY <1>3, <1>4, <1>5
<1>7. ASSUME NEW p \in 1..Len(t), NEW q \in 1..Len(t), p < q, IsResult(t[p]), IsResult(t[q]),
             RunHead(t, p) = RunHead(t, q), RunCalls(t, p) # <<>>, t[p].of = t[q].of
      PROVE  FALSE
  <2>1. /\ f[p] \in 1..Len(conv) /\ f[q] \in 1..Len(conv) /\ f[p] < f[q]
        /\ t[p] = conv[f[p]] /\ t[q] = conv[f[q]] /\ f[p] \in kept
    BY <1>6, <1>7 DEF Thinned, Picks, Increasing
  <2>2. RunHead(conv, f[p]) = RunHead(conv, f[q])
    BY <1>6, <1>7, SameHeads
  <2>3. RunCalls(conv, f[p]) # <<>>
    BY <1>6, <1>7 DEF Thinned, SameRun, SameRunAt
  <2>4. f[q] \in (f[p] + 1)..Len(conv)
    BY <1>0, <2>1, SMT
  <2>5. Superseded(conv, f[p])
    BY <1>7, <2>1, <2>2, <2>3, <2>4 DEF Superseded
  <2>6. QED
    BY <1>1, <2>1, <2>5 DEF KeptByDedup
<1>8. AnsweredOnce(t)
  BY <1>7 DEF AnsweredOnce
<1>9. QED
  BY <1>1, <1>5, <1>6, <1>8

LEMMA StripThins ==
    ASSUME NEW S, NEW conv \in Seq(S)
    PROVE  /\ StripDisplaced(conv) \in Seq(S) /\ Placed(StripDisplaced(conv))
           /\ AnsweredOnce(conv) => AnsweredOnce(StripDisplaced(conv))
           /\ \E f : Thinned(conv, StripDisplaced(conv), f, KeptByStrip(conv))
<1>0. DOMAIN conv = 1..Len(conv) /\ Len(conv) \in Nat
  BY SMT
<1>1. PICK kept : kept = KeptByStrip(conv)
  OBVIOUS
<1>2. KeepsSpoken(conv, kept)
  BY <1>0, <1>1 DEF KeptByStrip, KeepsSpoken
<1>3. StripDisplaced(conv) = Keep(conv, kept)
  BY <1>1 DEF StripDisplaced, KeptByStrip
<1>4. Keep(conv, kept) \in Seq(S) /\ \E f : Thinned(conv, Keep(conv, kept), f, kept)
  BY <1>2, Thins
<1>5. PICK t \in Seq(S) : t = StripDisplaced(conv)
  BY <1>3, <1>4
<1>6. PICK f : Thinned(conv, t, f, kept)
  BY <1>3, <1>4, <1>5
<1>7. ASSUME NEW p \in 1..Len(t), IsResult(t[p]) PROVE Contains(RunCalls(t, p), t[p].of)
  <2>1. f[p] \in kept /\ t[p] = conv[f[p]] /\ RunCalls(t, p) = RunCalls(conv, f[p])
    BY <1>6 DEF Thinned, Picks, SameRun, SameRunAt
  <2>2. QED
    BY <1>1, <1>7, <2>1 DEF KeptByStrip
<1>8. ASSUME AnsweredOnce(conv), NEW p \in 1..Len(t), NEW q \in 1..Len(t), p < q, IsResult(t[p]),
             IsResult(t[q]), RunHead(t, p) = RunHead(t, q), RunCalls(t, p) # <<>>
      PROVE  t[p].of # t[q].of
  <2>1. /\ f[p] \in 1..Len(conv) /\ f[q] \in 1..Len(conv) /\ f[p] < f[q]
        /\ t[p] = conv[f[p]] /\ t[q] = conv[f[q]]
    BY <1>6, <1>8 DEF Thinned, Picks, Increasing
  <2>2. RunHead(conv, f[p]) = RunHead(conv, f[q])
    BY <1>6, <1>8, SameHeads
  <2>3. RunCalls(conv, f[p]) # <<>>
    BY <1>6, <1>8 DEF Thinned, SameRun, SameRunAt
  <2>4. QED
    BY <1>8, <2>1, <2>2, <2>3 DEF AnsweredOnce
<1>9. Placed(t) /\ (AnsweredOnce(conv) => AnsweredOnce(t))
  BY <1>7, <1>8 DEF Placed, AnsweredOnce
<1>10. QED
  BY <1>1, <1>5, <1>6, <1>9

-----------------------------------------------------------------------------
(* What repair_dangling_tool_calls builds *)

\* The i-th item and the answers added behind it are at off[i - 1] + 1 .. off[i].
Blocks(conv, r, off, reason) ==
    /\ Len(conv) \in Nat /\ Len(r) \in Nat
    /\ off \in [0..Len(conv) -> Nat] /\ off[0] = 0 /\ off[Len(conv)] = Len(r)
    /\ \A i \in 1..Len(conv) :
          /\ off[i - 1] \in Nat /\ off[i] \in Nat /\ Len(Missing(conv, i, reason)) \in Nat
          /\ off[i] = off[i - 1] + 1 + Len(Missing(conv, i, reason))
          /\ off[i] <= Len(r)
    /\ \A i, j \in 0..Len(conv) : i <= j => off[i] <= off[j]
    /\ \A i \in 1..Len(conv) : r[off[i - 1] + 1] = conv[i]
    /\ \A i \in 1..Len(conv) : \A k \in 1..Len(Missing(conv, i, reason)) :
          r[off[i - 1] + 1 + k] = Missing(conv, i, reason)[k]
    /\ \A x \in 1..Len(r) : \E i \in 1..Len(conv) : off[i - 1] < x /\ x <= off[i]

LEMMA RepairBlocks ==
    ASSUME NEW S, NEW conv \in Seq(S), NEW reason, Answerable(S, reason)
    PROVE  /\ RepairDangling(conv, reason) \in Seq(S)
           /\ \E off : Blocks(conv, RepairDangling(conv, reason), off, reason)
<1> DEFINE n  == Len(conv)
           ss == [i \in DOMAIN conv |-> <<conv[i]>> \o Missing(conv, i, reason)]
<1>1. ss \in Seq(Seq(S)) /\ Len(ss) = n
  BY RepairPieces
<1>2. n \in Nat /\ DOMAIN conv = 1..n /\ \A i \in 1..n : conv[i] \in S
  BY SMT
<1>3. \A i \in 1..n : ss[i] = <<conv[i]>> \o Missing(conv, i, reason)
  BY <1>2
<1>4. PICK r : r = RepairDangling(conv, reason)
  OBVIOUS
<1>5. r = FlattenSeq(ss)
  BY <1>4 DEF RepairDangling
<1> HIDE DEF ss
<1>6. r \in Seq(S) /\ \E off : Parts(ss, off)
  BY <1>1, <1>5, FlattenParts
<1>7. PICK off : Parts(ss, off)
  BY <1>6
<1>8. /\ off \in [0..n -> Nat] /\ off[0] = 0
      /\ \A i \in 1..n : off[i] = off[i - 1] + Len(ss[i])
      /\ \A i, j \in 0..n : i <= j => off[i] <= off[j]
      /\ Len(r) = off[n]
      /\ \A i \in 1..n : \A k \in 1..Len(ss[i]) : r[off[i - 1] + k] = ss[i][k]
      /\ \A x \in 1..off[n] : \E i \in 1..n : off[i - 1] < x /\ x <= off[i]
  BY <1>1, <1>5, <1>7 DEF Parts
<1>9. ASSUME NEW i \in 1..n
      PROVE  /\ Len(Missing(conv, i, reason)) \in Nat
             /\ Len(ss[i]) = 1 + Len(Missing(conv, i, reason))
             /\ ss[i][1] = conv[i] /\ 1 \in 1..Len(ss[i])
             /\ \A k \in 1..Len(Missing(conv, i, reason)) :
                   ss[i][1 + k] = Missing(conv, i, reason)[k] /\ 1 + k \in 1..Len(ss[i])
  <2>1. PICK mm \in Seq(S) : mm = Missing(conv, i, reason)
    BY MissingType
  <2>2. ss[i] = <<conv[i]>> \o mm /\ conv[i] \in S
    BY <1>2, <1>3, <2>1
  <2>3. /\ Len(mm) \in Nat /\ Len(ss[i]) = 1 + Len(mm) /\ ss[i][1] = conv[i] /\ 1 \in 1..Len(ss[i])
        /\ \A k \in 1..Len(mm) : ss[i][1 + k] = mm[k] /\ 1 + k \in 1..Len(ss[i])
    BY <2>2, SMT
  <2>4. QED
    BY <2>1, <2>3
<1>10. ASSUME NEW i \in 1..n
       PROVE  i \in 0..n /\ i - 1 \in 0..n /\ n \in 0..n /\ i <= n
  BY <1>2, SMT
<1>11. ASSUME NEW i \in 1..n
       PROVE  /\ off[i - 1] \in Nat /\ off[i] \in Nat
              /\ off[i] = off[i - 1] + 1 + Len(Missing(conv, i, reason))
              /\ off[i] <= Len(r)
  <2>1. off[i - 1] \in Nat /\ off[i] \in Nat /\ off[i] <= Len(r)
    BY <1>8, <1>10
  <2>2. off[i] = off[i - 1] + (1 + Len(Missing(conv, i, reason)))
    BY <1>8, <1>9
  <2>3. QED
    BY <1>9, <2>1, <2>2, SMT
<1>12. ASSUME NEW i \in 1..n PROVE r[off[i - 1] + 1] = conv[i]
  BY <1>8, <1>9
<1>13. ASSUME NEW i \in 1..n, NEW k \in 1..Len(Missing(conv, i, reason))
       PROVE  r[off[i - 1] + 1 + k] = Missing(conv, i, reason)[k]
  <2>1. 1 + k \in 1..Len(ss[i]) /\ ss[i][1 + k] = Missing(conv, i, reason)[k]
    BY <1>9
  <2>2. r[off[i - 1] + (1 + k)] = Missing(conv, i, reason)[k]
    BY <1>8, <2>1
  <2>3. off[i - 1] + (1 + k) = off[i - 1] + 1 + k
    BY <1>9, <1>11, SMT
  <2>4. QED
    BY <2>2, <2>3
<1>14. Len(r) \in Nat
  BY <1>6, SMT
<1>15. Blocks(conv, r, off, reason)
  BY <1>2, <1>8, <1>9, <1>11, <1>12, <1>13, <1>14 DEF Blocks
<1>16. QED
  BY <1>4, <1>6, <1>15

\* Where the item at position i of the conversation is in the repaired one.
Start(off, i) == IF i = 0 THEN 0 ELSE off[i - 1] + 1

\* What is at a position of the repaired conversation: item i, or the k-th answer behind it.
LEMMA BlockAt ==
    ASSUME NEW conv, NEW r, NEW off, NEW reason, Blocks(conv, r, off, reason), NEW x \in 1..Len(r)
    PROVE  \E i \in 1..Len(conv) :
              \/ x = Start(off, i) /\ r[x] = conv[i]
              \/ \E k \in 1..Len(Missing(conv, i, reason)) :
                    x = Start(off, i) + k /\ r[x] = Missing(conv, i, reason)[k]
<1>1. PICK i \in 1..Len(conv) : off[i - 1] < x /\ x <= off[i]
  BY DEF Blocks
<1>2. /\ Len(conv) \in Nat /\ Len(r) \in Nat /\ off[i - 1] \in Nat /\ Len(Missing(conv, i, reason)) \in Nat
      /\ off[i] = off[i - 1] + 1 + Len(Missing(conv, i, reason))
  BY DEF Blocks
<1>3. i # 0
  BY <1>2, SMT
<1>4. Start(off, i) = off[i - 1] + 1
  BY <1>3 DEF Start
<1>5. CASE x = off[i - 1] + 1
  BY <1>4, <1>5 DEF Blocks
<1>6. CASE x # off[i - 1] + 1
  <2>1. PICK k \in 1..Len(Missing(conv, i, reason)) : x = off[i - 1] + 1 + k
    <3>1. x - (off[i - 1] + 1) \in 1..Len(Missing(conv, i, reason))
      BY <1>1, <1>2, <1>6, SMT
    <3>2. x = off[i - 1] + 1 + (x - (off[i - 1] + 1))
      BY <1>2, SMT
    <3>3. QED
      BY <3>1, <3>2
  <2>2. r[x] = Missing(conv, i, reason)[k]
    BY <2>1 DEF Blocks
  <2>3. QED
    BY <1>4, <2>1, <2>2
<1>7. QED
  BY <1>5, <1>6

\* The items keep their order.
LEMMA StartFacts ==
    ASSUME NEW conv, NEW r, NEW off, NEW reason, Blocks(conv, r, off, reason), NEW i \in 1..Len(conv)
    PROVE  /\ Start(off, i) \in 1..Len(r) /\ r[Start(off, i)] = conv[i]
           /\ \A k \in 1..Len(Missing(conv, i, reason)) :
                 /\ Start(off, i) + k \in 1..Len(r)
                 /\ r[Start(off, i) + k] = Missing(conv, i, reason)[k]
           /\ \A j \in 1..Len(conv) : i < j =>
                 /\ Start(off, i) < Start(off, j)
                 /\ \A k \in 1..Len(Missing(conv, i, reason)) : Start(off, i) + k < Start(off, j)
<1>1. /\ Len(conv) \in Nat /\ Len(r) \in Nat /\ off[i - 1] \in Nat /\ Len(Missing(conv, i, reason)) \in Nat
      /\ off[i] = off[i - 1] + 1 + Len(Missing(conv, i, reason)) /\ off[i] <= Len(r) /\ off[i] \in Nat
  BY DEF Blocks
<1>2. i # 0
  BY <1>1, SMT
<1>3. Start(off, i) = off[i - 1] + 1
  BY <1>2 DEF Start
<1>4. Start(off, i) \in 1..Len(r) /\ r[Start(off, i)] = conv[i]
  <2>1. r[Start(off, i)] = conv[i]
    BY <1>3 DEF Blocks
  <2>2. QED
    BY <1>1, <1>3, <2>1, SMT
<1>5. ASSUME NEW k \in 1..Len(Missing(conv, i, reason))
      PROVE  Start(off, i) + k \in 1..Len(r) /\ r[Start(off, i) + k] = Missing(conv, i, reason)[k]
  <2>1. r[Start(off, i) + k] = Missing(conv, i, reason)[k]
    BY <1>3 DEF Blocks
  <2>2. QED
    BY <1>1, <1>3, <2>1, SMT
<1>6. ASSUME NEW j \in 1..Len(conv), i < j
      PROVE  /\ Start(off, i) < Start(off, j)
             /\ \A k \in 1..Len(Missing(conv, i, reason)) : Start(off, i) + k < Start(off, j)
  <2>1. i <= j - 1 /\ i \in 0..Len(conv) /\ j - 1 \in 0..Len(conv) /\ j # 0
    BY <1>1, <1>6, SMT
  <2>2. off[i] <= off[j - 1] /\ off[j - 1] \in Nat
    BY <2>1 DEF Blocks
  <2>3. Start(off, j) = off[j - 1] + 1
    BY <2>1 DEF Start
  <2>4. Start(off, i) < Start(off, j)
    BY <1>1, <1>3, <2>2, <2>3, SMT
  <2>5. ASSUME NEW k \in 1..Len(Missing(conv, i, reason)) PROVE Start(off, i) + k < Start(off, j)
    BY <1>1, <1>3, <2>2, <2>3, SMT
  <2>6. QED
    BY <2>4, <2>5
<1>7. QED
  BY <1>4, <1>5, <1>6

-----------------------------------------------------------------------------
(* The answers that are missing *)

\* A result in the run of the message at h answers id.
IsAnswered(conv, h, id) ==
    \E j \in 1..Len(conv) : IsResult(conv[j]) /\ RunHead(conv, j) = h /\ conv[j].of = id

\* mm answers the calls of the message at h that are not answered, each once: the k-th
\* answers the call f[k].
FillsIn(conv, h, mm, f, reason) ==
    /\ f \in [1..Len(mm) -> 1..Len(conv[h].calls)] /\ Increasing(f, Len(mm))
    /\ Len(mm) \in Nat /\ Len(conv[h].calls) \in Nat
    /\ \A k \in 1..Len(mm) :
          mm[k] = Synthetic(conv[h].calls[f[k]], reason) /\ ~IsAnswered(conv, h, conv[h].calls[f[k]])
    /\ \A c \in 1..Len(conv[h].calls) :
          ~IsAnswered(conv, h, conv[h].calls[c]) => \E k \in 1..Len(mm) : f[k] = c

LEMMA UnansweredPicks ==
    ASSUME NEW S, NEW conv \in Seq(S), NEW reason, Answerable(S, reason), NEW h \in 1..Len(conv)
    PROVE  /\ Unanswered(conv, h) \in Seq(ToSet(conv[h].calls))
           /\ conv[h].calls \in Seq(ToSet(conv[h].calls))
           /\ \E f : Picks(conv[h].calls, Unanswered(conv, h), f,
                           {k \in DOMAIN conv[h].calls : ~IsAnswered(conv, h, conv[h].calls[k])})
<1> DEFINE answered == {conv[j].of : j \in {k \in (h + 1)..Len(conv) :
                                            IsResult(conv[k]) /\ RunHead(conv, k) = h}}
<1>0. Len(conv) \in Nat /\ conv[h] \in S
  BY SMT
<1>1. PICK ids : ids = conv[h].calls
  OBVIOUS
<1>2. ids \in Seq(ToSet(ids))
  BY <1>0, <1>1 DEF Answerable
<1>3. Unanswered(conv, h) = Keep(ids, {k \in DOMAIN ids : ids[k] \notin answered})
  BY <1>1 DEF Unanswered
<1>4. ASSUME NEW id PROVE id \in answered <=> IsAnswered(conv, h, id)
  <2>1. ASSUME NEW j \in 1..Len(conv), RunHead(conv, j) = h PROVE j \in (h + 1)..Len(conv)
    <3>1. j \in Nat \ {0}
      BY <1>0, SMT
    <3>2. RunHead(conv, j) \in 0..(j - 1)
      BY <3>1, RunHeadFacts
    <3>3. QED
      BY <1>0, <2>1, <3>2, SMT
  <2>2. ASSUME NEW j \in (h + 1)..Len(conv) PROVE j \in 1..Len(conv)
    BY <1>0, SMT
  <2>3. QED
    BY <2>1, <2>2 DEF IsAnswered
<1>5. {k \in DOMAIN ids : ids[k] \notin answered} = {k \in DOMAIN ids : ~IsAnswered(conv, h, ids[k])}
  BY <1>4
<1> HIDE DEF answered
<1>6. PICK kept : kept = {k \in DOMAIN ids : ~IsAnswered(conv, h, ids[k])}
  OBVIOUS
<1>7. Unanswered(conv, h) = Keep(ids, kept)
  BY <1>3, <1>5, <1>6
<1>8. Keep(ids, kept) \in Seq(ToSet(ids)) /\ \E f : Picks(ids, Keep(ids, kept), f, kept)
  BY <1>2, KeepPicks
<1>9. QED
  BY <1>1, <1>2, <1>6, <1>7, <1>8

\* At the end of the run of the message at h, its answers are added; elsewhere nothing.
LEMMA MissingFacts ==
    ASSUME NEW S, NEW conv \in Seq(S), NEW reason, Answerable(S, reason), NEW i \in 1..Len(conv)
    PROVE  /\ HeadOf(conv, i) \in 0..i
           /\ HeadOf(conv, i) # 0 => HeadOf(conv, i) \in 1..Len(conv) /\ ~IsResult(conv[HeadOf(conv, i)])
           /\ \A j \in 1..i : HeadOf(conv, i) < j => IsResult(conv[j])
           /\ ~(EndsRun(conv, i) /\ HeadOf(conv, i) # 0) => Missing(conv, i, reason) = <<>>
           /\ EndsRun(conv, i) /\ HeadOf(conv, i) # 0
                 => \E f : FillsIn(conv, HeadOf(conv, i), Missing(conv, i, reason), f, reason)
<1> DEFINE h == HeadOf(conv, i)
           g == RunHead(conv, i)
<1>0. Len(conv) \in Nat /\ i \in Nat \ {0}
  BY SMT
<1>1. /\ g \in 0..(i - 1) /\ (g # 0 => ~IsResult(conv[g]))
      /\ \A j \in 1..(i - 1) : g < j => IsResult(conv[j])
  BY <1>0, RunHeadFacts
<1>2. (IsResult(conv[i]) => h = g) /\ (~IsResult(conv[i]) => h = i)
  BY DEF HeadOf
<1> HIDE DEF g, h
<1>3. h \in 0..i /\ (h # 0 => h \in 1..Len(conv) /\ ~IsResult(conv[h]))
  <2>1. CASE IsResult(conv[i])
    BY <1>0, <1>1, <1>2, <2>1, SMT
  <2>2. CASE ~IsResult(conv[i])
    BY <1>0, <1>2, <2>2, SMT
  <2>3. QED
    BY <2>1, <2>2
<1>4. ASSUME NEW j \in 1..i, h < j PROVE IsResult(conv[j])
  <2>1. CASE IsResult(conv[i])
    <3>1. CASE j = i
      BY <2>1, <3>1
    <3>2. CASE j # i
      <4>1. j \in 1..(i - 1)
        BY <1>0, <3>2, SMT
      <4>2. QED
        BY <1>1, <1>2, <1>4, <2>1, <4>1
    <3>3. QED
      BY <3>1, <3>2
  <2>2. CASE ~IsResult(conv[i])
    BY <1>0, <1>2, <1>4, <2>2, SMT
  <2>3. QED
    BY <2>1, <2>2
<1> DEFINE open == IF EndsRun(conv, i) /\ h # 0 THEN Unanswered(conv, h) ELSE <<>>
<1>5. Missing(conv, i, reason) = [k \in DOMAIN open |-> Synthetic(open[k], reason)]
  BY DEF Missing, h
<1>6. ASSUME ~(EndsRun(conv, i) /\ h # 0) PROVE Missing(conv, i, reason) = <<>>
  <2>1. open = <<>>
    BY <1>6, Zenon
  <2> HIDE DEF open
  <2>2. DOMAIN open = {} /\ 1..0 = {}
    BY <2>1, SMT
  <2>3. Missing(conv, i, reason) \in [1..0 -> {}]
    BY <1>5, <2>2
  <2>4. QED
    BY <2>3, SMT
<1>7. ASSUME EndsRun(conv, i), h # 0
      PROVE  \E f : FillsIn(conv, h, Missing(conv, i, reason), f, reason)
  <2>1. open = Unanswered(conv, h)
    BY <1>7
  <2>2. h \in 1..Len(conv)
    BY <1>3, <1>7
  <2>3. PICK ids : ids = conv[h].calls
    OBVIOUS
  <2>4. PICK kept : kept = {k \in DOMAIN conv[h].calls : ~IsAnswered(conv, h, conv[h].calls[k])}
    OBVIOUS
  <2> HIDE DEF open
  <2>5. /\ open \in Seq(ToSet(ids)) /\ ids \in Seq(ToSet(ids))
        /\ \E f : Picks(ids, open, f, kept)
    BY <2>1, <2>2, <2>3, <2>4, UnansweredPicks
  <2>6. PICK f : Picks(ids, open, f, kept)
    BY <2>5
  <2>7. PICK mm : mm = Missing(conv, i, reason)
    OBVIOUS
  <2>8. Len(open) \in Nat /\ DOMAIN open = 1..Len(open) /\ Len(ids) \in Nat /\ DOMAIN ids = 1..Len(ids)
    BY <2>5, SMT
  <2>9. /\ mm = [k \in 1..Len(open) |-> Synthetic(open[k], reason)]
    BY <1>5, <2>7, <2>8
  <2>10. Len(mm) = Len(open) /\ \A k \in 1..Len(mm) : mm[k] = Synthetic(open[k], reason)
    BY <2>8, <2>9, SMT
  <2>11. /\ f \in [1..Len(open) -> 1..Len(ids)] /\ Increasing(f, Len(open))
         /\ \A k \in 1..Len(open) : open[k] = ids[f[k]] /\ f[k] \in kept
         /\ \A c \in 1..Len(ids) : c \in kept => \E k \in 1..Len(open) : f[k] = c
    BY <2>6 DEF Picks
  <2>12. \A c \in 1..Len(ids) : c \in kept <=> ~IsAnswered(conv, h, ids[c])
    BY <2>3, <2>4, <2>8
  <2>13. ASSUME NEW k \in 1..Len(mm)
         PROVE  mm[k] = Synthetic(ids[f[k]], reason) /\ ~IsAnswered(conv, h, ids[f[k]])
    BY <2>10, <2>11, <2>12
  <2>14. FillsIn(conv, h, mm, f, reason)
    BY <2>3, <2>8, <2>10, <2>11, <2>12, <2>13, Zenon DEF FillsIn
  <2>15. QED
    BY <2>7, <2>14
<1>8. QED
  BY <1>3, <1>4, <1>6, <1>7 DEF h

\* Every message has a position where its run ends, and only one.
LEMMA RunEnds ==
    ASSUME NEW S, NEW conv \in Seq(S), NEW h \in 1..Len(conv), ~IsResult(conv[h])
    PROVE  \E e \in 1..Len(conv) : EndsRun(conv, e) /\ HeadOf(conv, e) = h
<1> DEFINE n == Len(conv)
           A == {i \in h..n : \A j \in 1..i : h < j => IsResult(conv[j])}
           e == Max(A)
<1>0. n \in Nat /\ h \in Nat /\ h # 0
  BY SMT
<1>1. A \subseteq 0..n /\ h \in A
  BY <1>0, SMT
<1>2. e \in A /\ \A y \in A : y <= e
  <2> HIDE DEF A
  <2>1. A # {}
    BY <1>1
  <2>2. QED
    BY <1>0, <1>1, <2>1, MaxFacts
<1> HIDE DEF e
<1>3. e \in h..n /\ \A j \in 1..e : h < j => IsResult(conv[j])
  BY <1>2
<1>4. e \in 1..n /\ e \in Nat \ {0}
  BY <1>0, <1>3, SMT
<1>5. EndsRun(conv, e)
  <2>1. SUFFICES ASSUME e # n, IsResult(conv[e + 1]) PROVE FALSE
    BY DEF EndsRun
  <2>2. e + 1 \in h..n /\ \A j \in 1..(e + 1) : j = e + 1 \/ j \in 1..e
    BY <1>0, <1>3, <2>1, SMT
  <2>3. e + 1 \in A
    BY <1>3, <2>1, <2>2
  <2>4. QED
    BY <1>2, <1>4, <2>3, SMT
<1>6. HeadOf(conv, e) = h
  <2>1. CASE IsResult(conv[e])
    <3>1. e # h
      BY <2>1
    <3>2. h \in 0..(e - 1) /\ \A j \in 1..(e - 1) : j \in 1..e
      BY <1>0, <1>3, <3>1, SMT
    <3>3. RunHead(conv, e) = h
      BY <1>3, <1>4, <3>2, RunHeadIs
    <3>4. QED
      BY <2>1, <3>3 DEF HeadOf
  <2>2. CASE ~IsResult(conv[e])
    <3>1. e \in 1..e
      BY <1>4, SMT
    <3>2. ~(h < e)
      BY <1>3, <2>2, <3>1
    <3>3. e = h
      BY <1>0, <1>3, <3>2, SMT
    <3>4. QED
      BY <2>2, <3>3 DEF HeadOf
  <2>3. QED
    BY <2>1, <2>2
<1>7. QED
  BY <1>4, <1>5, <1>6

LEMMA OneRunEnd ==
    ASSUME NEW S, NEW conv \in Seq(S), NEW i \in 1..Len(conv), NEW j \in 1..Len(conv),
           EndsRun(conv, i), HeadOf(conv, i) = HeadOf(conv, j), i < j
    PROVE  FALSE
<1>0. Len(conv) \in Nat /\ i \in Nat /\ j \in Nat \ {0} /\ i # Len(conv)
  BY SMT
<1>1. ~IsResult(conv[i + 1]) /\ i + 1 \in 1..j /\ i + 1 \in Nat
  BY <1>0, SMT DEF EndsRun
<1>2. PICK h : h = HeadOf(conv, i)
  OBVIOUS
<1>3. h < i + 1
  <2>1. RunHead(conv, i) \in 0..(i - 1)
    BY RunHeadFacts
  <2>2. QED
    BY <1>0, <1>2, <2>1, SMT DEF HeadOf
<1>4. CASE IsResult(conv[j])
  <2>1. h = RunHead(conv, j)
    BY <1>2, <1>4 DEF HeadOf
  <2>2. i + 1 # j
    BY <1>1, <1>4
  <2>3. i + 1 \in 1..(j - 1)
    BY <1>0, <1>1, <2>2, SMT
  <2>4. \A k \in 1..(j - 1) : h < k => IsResult(conv[k])
    BY <1>0, <2>1, RunHeadFacts
  <2>5. QED
    BY <1>1, <1>3, <2>3, <2>4
<1>5. CASE ~IsResult(conv[j])
  <2>1. h = j
    BY <1>2, <1>5 DEF HeadOf
  <2>2. QED
    BY <1>0, <1>1, <1>3, <2>1, SMT
<1>6. QED
  BY <1>4, <1>5

-----------------------------------------------------------------------------
(* The repaired conversation is valid *)

LEMMA MissingAreResults ==
    ASSUME NEW S, NEW conv \in Seq(S), NEW reason, Answerable(S, reason), NEW i \in 1..Len(conv),
           NEW k \in 1..Len(Missing(conv, i, reason))
    PROVE  /\ EndsRun(conv, i) /\ HeadOf(conv, i) \in 1..Len(conv) /\ ~IsResult(conv[HeadOf(conv, i)])
           /\ IsResult(Missing(conv, i, reason)[k])
<1>1. EndsRun(conv, i) /\ HeadOf(conv, i) # 0
  <2>1. SUFFICES ASSUME Missing(conv, i, reason) = <<>> PROVE FALSE
    BY MissingFacts
  <2>2. k \in 1..0
    BY <2>1, SMT
  <2>3. QED
    BY <2>2, SMT
<1>2. HeadOf(conv, i) \in 1..Len(conv) /\ ~IsResult(conv[HeadOf(conv, i)])
  BY <1>1, MissingFacts
<1>3. PICK f : FillsIn(conv, HeadOf(conv, i), Missing(conv, i, reason), f, reason)
  BY <1>1, MissingFacts
<1>4. \E id : Missing(conv, i, reason)[k] = Synthetic(id, reason)
  BY <1>3 DEF FillsIn
<1>5. \A id : IsResult(Synthetic(id, reason))
  BY DEF IsResult, Synthetic, Item
<1>6. QED
  BY <1>1, <1>2, <1>4, <1>5

LEMMA BlockRun ==
    ASSUME NEW S, NEW conv \in Seq(S), NEW reason, Answerable(S, reason), NEW r, NEW off,
           Blocks(conv, r, off, reason), NEW h \in 0..Len(conv), h # 0 => ~IsResult(conv[h]),
           NEW x \in 1..(Len(r) + 1), Start(off, h) < x,
           \A j \in 1..Len(conv) : h < j /\ Start(off, j) < x => IsResult(conv[j])
    PROVE  RunHead(r, x) = Start(off, h)
<1>0. Len(conv) \in Nat /\ Len(r) \in Nat /\ x \in Nat \ {0} /\ h \in Nat
  <2>1. Len(conv) \in Nat /\ Len(r) \in Nat
    BY DEF Blocks
  <2>2. QED
    BY <2>1, SMT
<1>1. h # 0 => h \in 1..Len(conv) /\ Start(off, h) \in 1..Len(r) /\ r[Start(off, h)] = conv[h]
  <2>1. h # 0 => h \in 1..Len(conv)
    BY <1>0, SMT
  <2>2. QED
    BY <2>1, StartFacts
<1>2. PICK z : z = Start(off, h)
  OBVIOUS
<1>3. (h = 0 => z = 0) /\ z \in 0..(x - 1) /\ (z # 0 => ~IsResult(r[z]))
  <2>1. CASE h = 0
    <3>1. z = 0
      BY <1>2, <2>1 DEF Start
    <3>2. QED
      BY <1>0, <3>1, SMT
  <2>2. CASE h # 0
    <3>1. z \in 1..Len(r) /\ r[z] = conv[h] /\ z < x
      BY <1>1, <1>2, <2>2
    <3>2. QED
      BY <1>0, <2>2, <3>1, SMT
  <2>3. QED
    BY <2>1, <2>2
<1>4. ASSUME NEW y \in 1..(x - 1), z < y PROVE IsResult(r[y])
  <2>1. y \in 1..Len(r) /\ y < x
    BY <1>0, SMT
  <2>2. PICK j \in 1..Len(conv) :
              \/ y = Start(off, j) /\ r[y] = conv[j]
              \/ \E k \in 1..Len(Missing(conv, j, reason)) :
                    y = Start(off, j) + k /\ r[y] = Missing(conv, j, reason)[k]
    BY <2>1, BlockAt
  <2>3. CASE y = Start(off, j) /\ r[y] = conv[j]
    <3>1. h < j
      <4>1. CASE h = 0
        BY <1>0, <4>1, SMT
      <4>2. CASE h # 0
        <5>1. j # h
          BY <1>0, <1>2, <1>3, <1>4, <2>3, SMT
        <5>2. ~(j < h)
          <6>1. SUFFICES ASSUME j < h PROVE FALSE
            OBVIOUS
          <6>2. Start(off, j) < Start(off, h)
            BY <1>1, <4>2, <6>1, StartFacts
          <6>3. QED
            BY <1>0, <1>2, <1>3, <1>4, <2>3, <6>2, SMT
        <5>3. QED
          BY <1>0, <5>1, <5>2, SMT
      <4>3. QED
        BY <4>1, <4>2
    <3>2. QED
      BY <2>1, <2>3, <3>1
  <2>4. CASE \E k \in 1..Len(Missing(conv, j, reason)) :
                    y = Start(off, j) + k /\ r[y] = Missing(conv, j, reason)[k]
    BY <2>4, MissingAreResults
  <2>5. QED
    BY <2>2, <2>3, <2>4
<1>5. RunHead(r, x) = z
  BY <1>0, <1>3, <1>4, RunHeadIs
<1>6. QED
  BY <1>2, <1>5

\* The runs of the repaired conversation.
LEMMA RepairRuns ==
    ASSUME NEW S, NEW conv \in Seq(S), NEW reason, Answerable(S, reason), NEW r, NEW off,
           Blocks(conv, r, off, reason), NEW i \in 1..Len(conv)
    PROVE  /\ RunHead(r, Start(off, i)) = Start(off, RunHead(conv, i))
           /\ \A k \in 1..Len(Missing(conv, i, reason)) :
                 RunHead(r, Start(off, i) + k) = Start(off, HeadOf(conv, i))
<1>0. Len(conv) \in Nat /\ Len(r) \in Nat /\ i \in Nat \ {0}
  BY SMT DEF Blocks
<1>1. RunHead(r, Start(off, i)) = Start(off, RunHead(conv, i))
  <2>1. /\ RunHead(conv, i) \in 0..(i - 1)
        /\ RunHead(conv, i) # 0 => ~IsResult(conv[RunHead(conv, i)])
        /\ \A j \in 1..(i - 1) : RunHead(conv, i) < j => IsResult(conv[j])
    BY <1>0, RunHeadFacts
  <2>2. PICK h \in 0..(i - 1) : h = RunHead(conv, i)
    BY <2>1
  <2>3. PICK x \in 1..Len(r) : x = Start(off, i)
    BY StartFacts
  <2>4. h \in 0..Len(conv) /\ (h # 0 => ~IsResult(conv[h])) /\ h < i /\ (h # 0 => h \in 1..Len(conv))
    BY <1>0, <2>1, <2>2, SMT
  <2>5. Start(off, h) < x
    <3>1. CASE h = 0
      <4>1. Start(off, h) = 0
        BY <3>1 DEF Start
      <4>2. QED
        BY <1>0, <4>1, SMT
    <3>2. CASE h # 0
      BY <2>3, <2>4, <3>2, StartFacts
    <3>3. QED
      BY <3>1, <3>2
  <2>6. ASSUME NEW j \in 1..Len(conv), h < j, Start(off, j) < x PROVE IsResult(conv[j])
    <3>1. ~(i < j) /\ i # j
      <4>1. i < j => Start(off, i) < Start(off, j)
        BY StartFacts
      <4>2. Start(off, j) \in 1..Len(r)
        BY StartFacts
      <4>3. QED
        BY <1>0, <2>3, <2>6, <4>1, <4>2, SMT
    <3>2. j \in 1..(i - 1)
      BY <1>0, <3>1, SMT
    <3>3. QED
      BY <2>1, <2>2, <2>6, <3>2
  <2>7. RunHead(r, x) = Start(off, h)
    BY <2>4, <2>5, <2>6, BlockRun
  <2>8. QED
    BY <2>2, <2>3, <2>7
<1>2. ASSUME NEW k \in 1..Len(Missing(conv, i, reason))
      PROVE  RunHead(r, Start(off, i) + k) = Start(off, HeadOf(conv, i))
  <2>1. /\ HeadOf(conv, i) \in 0..i
        /\ \A j \in 1..i : HeadOf(conv, i) < j => IsResult(conv[j])
        /\ HeadOf(conv, i) \in 1..Len(conv) /\ ~IsResult(conv[HeadOf(conv, i)])
    BY MissingFacts, MissingAreResults
  <2>2. PICK h \in 1..Len(conv) : h = HeadOf(conv, i)
    BY <2>1
  <2>3. PICK x \in 1..Len(r) : x = Start(off, i) + k
    BY StartFacts
  <2>4. h \in 0..Len(conv) /\ ~IsResult(conv[h]) /\ (h = i \/ h < i)
    BY <1>0, <2>1, <2>2, SMT
  <2>5. Start(off, h) < x
    <3>1. Start(off, i) < x /\ Start(off, i) \in 1..Len(r)
      <4>1. Start(off, i) \in 1..Len(r)
        BY StartFacts
      <4>2. Len(Missing(conv, i, reason)) \in Nat
        BY DEF Blocks
      <4>3. QED
        BY <1>0, <2>3, <4>1, <4>2, SMT
    <3>2. CASE h = i
      BY <3>1, <3>2
    <3>3. CASE h < i
      <4>1. Start(off, h) < Start(off, i) /\ Start(off, h) \in 1..Len(r)
        BY <2>2, <3>3, StartFacts
      <4>2. QED
        BY <1>0, <3>1, <4>1, SMT
    <3>4. QED
      BY <2>4, <3>2, <3>3
  <2>6. ASSUME NEW j \in 1..Len(conv), h < j, Start(off, j) < x PROVE IsResult(conv[j])
    <3>1. ~(i < j)
      <4>1. i < j => Start(off, i) + k < Start(off, j)
        BY StartFacts
      <4>2. Start(off, j) \in 1..Len(r)
        BY StartFacts
      <4>3. QED
        BY <1>0, <2>3, <2>6, <4>1, <4>2, SMT
    <3>2. j \in 1..i
      BY <1>0, <3>1, SMT
    <3>3. QED
      BY <2>1, <2>2, <2>6, <3>2
  <2>7. RunHead(r, x) = Start(off, h)
    BY <2>4, <2>5, <2>6, BlockRun
  <2>8. QED
    BY <2>2, <2>3, <2>7
<1>3. QED
  BY <1>1, <1>2

\* Only messages call, and a message calls an id once.
WellFormed(S) ==
    \A x \in S : /\ IsResult(x) => x.calls = <<>>
                 /\ \A a, b \in 1..Len(x.calls) : a # b => x.calls[a] # x.calls[b]

\* A position of the repaired conversation in the run of the message h that answers id: a
\* result that was there, or an answer added at the end of the run.
Origin(conv, off, reason, x, h, id) ==
    \E i \in 1..Len(conv) :
        \/ /\ x = Start(off, i) /\ IsResult(conv[i]) /\ RunHead(conv, i) = h /\ conv[i].of = id
        \/ /\ EndsRun(conv, i) /\ HeadOf(conv, i) = h
           /\ \E k \in 1..Len(Missing(conv, i, reason)) :
                 x = Start(off, i) + k /\ Missing(conv, i, reason)[k].of = id

LEMMA StartInjective ==
    ASSUME NEW conv, NEW r, NEW off, NEW reason, Blocks(conv, r, off, reason),
           NEW g \in 0..Len(conv), NEW h \in 1..Len(conv), Start(off, g) = Start(off, h)
    PROVE  g = h
<1>0. Len(conv) \in Nat /\ Len(r) \in Nat
  BY DEF Blocks
<1>1. Start(off, h) \in 1..Len(r)
  BY StartFacts
<1>2. g # 0
  <2>1. SUFFICES ASSUME g = 0 PROVE FALSE
    OBVIOUS
  <2>2. Start(off, g) = 0
    BY <2>1 DEF Start
  <2>3. QED
    BY <1>0, <1>1, <2>2, SMT
<1>3. g \in 1..Len(conv)
  BY <1>0, <1>2, SMT
<1>4. (g < h => Start(off, g) < Start(off, h)) /\ (h < g => Start(off, h) < Start(off, g))
  BY <1>3, StartFacts
<1>5. QED
  BY <1>0, <1>1, <1>3, <1>4, SMT

LEMMA Origins ==
    ASSUME NEW S, NEW conv \in Seq(S), NEW reason, Answerable(S, reason), NEW r, NEW off,
           Blocks(conv, r, off, reason), NEW h \in 1..Len(conv), NEW x \in 1..Len(r), IsResult(r[x]),
           RunHead(r, x) = Start(off, h)
    PROVE  Origin(conv, off, reason, x, h, r[x].of)
<1>0. Len(conv) \in Nat
  BY DEF Blocks
<1>1. PICK i \in 1..Len(conv) :
              \/ x = Start(off, i) /\ r[x] = conv[i]
              \/ \E k \in 1..Len(Missing(conv, i, reason)) :
                    x = Start(off, i) + k /\ r[x] = Missing(conv, i, reason)[k]
  BY BlockAt
<1>2. CASE x = Start(off, i) /\ r[x] = conv[i]
  <2>1. i \in Nat \ {0}
    BY <1>0, SMT
  <2>2. RunHead(conv, i) \in 0..(i - 1)
    BY <2>1, RunHeadFacts
  <2>3. PICK g \in 0..Len(conv) : g = RunHead(conv, i)
    BY <1>0, <2>2, SMT
  <2>4. Start(off, g) = Start(off, h)
    BY <1>2, <2>3, RepairRuns
  <2>5. g = h
    BY <2>4, StartInjective
  <2>6. QED
    BY <1>2, <2>3, <2>5 DEF Origin
<1>3. CASE \E k \in 1..Len(Missing(conv, i, reason)) :
                    x = Start(off, i) + k /\ r[x] = Missing(conv, i, reason)[k]
  <2>1. PICK k \in 1..Len(Missing(conv, i, reason)) : x = Start(off, i) + k /\ r[x] = Missing(conv, i, reason)[k]
    BY <1>3
  <2>2. EndsRun(conv, i) /\ HeadOf(conv, i) \in 1..Len(conv)
    BY MissingAreResults
  <2>3. PICK g \in 1..Len(conv) : g = HeadOf(conv, i)
    BY <2>2
  <2>4. Start(off, g) = Start(off, h) /\ g \in 0..Len(conv)
    BY <1>0, <2>1, <2>3, RepairRuns
  <2>5. g = h
    BY <2>4, StartInjective
  <2>6. QED
    BY <2>1, <2>2, <2>3, <2>5 DEF Origin
<1>4. QED
  BY <1>1, <1>2, <1>3

\* Of the answers to a call in a run of the repaired conversation, there is only one.
LEMMA OneOrigin ==
    ASSUME NEW S, NEW conv \in Seq(S), NEW reason, Answerable(S, reason), WellFormed(S),
           AnsweredOnce(conv), NEW off, NEW h \in 1..Len(conv), NEW id, Contains(conv[h].calls, id),
           NEW x, NEW y, Origin(conv, off, reason, x, h, id), Origin(conv, off, reason, y, h, id)
    PROVE  x = y
<1>0. Len(conv) \in Nat /\ conv[h] \in S /\ h # 0
  BY SMT
<1>1. PICK ids : ids = conv[h].calls
  OBVIOUS
<1>2. PICK c \in 1..Len(ids) : ids[c] = id
  BY <1>1 DEF Contains
<1>3. ids # <<>>
  <2>1. SUFFICES ASSUME ids = <<>> PROVE FALSE
    OBVIOUS
  <2>2. c \in 1..0
    BY <2>1, SMT
  <2>3. QED
    BY <2>2, SMT
<1>4. \A a, b \in 1..Len(ids) : a # b => ids[a] # ids[b]
  BY <1>0, <1>1 DEF WellFormed
<1>5. ASSUME NEW i \in 1..Len(conv), IsResult(conv[i]), RunHead(conv, i) = h, conv[i].of = id,
             NEW j \in 1..Len(conv), EndsRun(conv, j), HeadOf(conv, j) = h,
             NEW k \in 1..Len(Missing(conv, j, reason)), Missing(conv, j, reason)[k].of = id
      PROVE  FALSE
  <2>1. IsAnswered(conv, h, id)
    BY <1>5 DEF IsAnswered
  <2>2. PICK f : FillsIn(conv, h, Missing(conv, j, reason), f, reason)
    BY <1>0, <1>5, MissingFacts
  <2>3. /\ Missing(conv, j, reason)[k] = Synthetic(ids[f[k]], reason)
        /\ ~IsAnswered(conv, h, ids[f[k]])
    BY <1>1, <2>2 DEF FillsIn
  <2>4. Missing(conv, j, reason)[k].of = ids[f[k]]
    BY <2>3 DEF Synthetic, Item
  <2>5. QED
    BY <1>5, <2>1, <2>3, <2>4
<1>6. ASSUME NEW i \in 1..Len(conv), IsResult(conv[i]), RunHead(conv, i) = h, conv[i].of = id,
             NEW j \in 1..Len(conv), IsResult(conv[j]), RunHead(conv, j) = h, conv[j].of = id,
             i < j
      PROVE  FALSE
  <2>1. RunCalls(conv, i) # <<>>
    BY <1>0, <1>1, <1>3, <1>6 DEF RunCalls
  <2>2. QED
    BY <1>6, <2>1 DEF AnsweredOnce
<1>7. ASSUME NEW i \in 1..Len(conv), EndsRun(conv, i), HeadOf(conv, i) = h,
             NEW j \in 1..Len(conv), EndsRun(conv, j), HeadOf(conv, j) = h
      PROVE  i = j
  <2>1. ~(i < j) /\ ~(j < i)
    BY <1>7, OneRunEnd
  <2>2. QED
    BY <1>0, <2>1, SMT
<1>8. ASSUME NEW i \in 1..Len(conv), EndsRun(conv, i), HeadOf(conv, i) = h,
             NEW k \in 1..Len(Missing(conv, i, reason)), Missing(conv, i, reason)[k].of = id,
             NEW m \in 1..Len(Missing(conv, i, reason)), Missing(conv, i, reason)[m].of = id
      PROVE  k = m
  <2>1. PICK f : FillsIn(conv, h, Missing(conv, i, reason), f, reason)
    BY <1>0, <1>8, MissingFacts
  <2>2. PICK mm : mm = Missing(conv, i, reason)
    OBVIOUS
  <2>3. /\ f \in [1..Len(mm) -> 1..Len(ids)] /\ Increasing(f, Len(mm)) /\ Len(mm) \in Nat /\ Len(ids) \in Nat
        /\ mm[k] = Synthetic(ids[f[k]], reason) /\ mm[m] = Synthetic(ids[f[m]], reason)
        /\ k \in 1..Len(mm) /\ m \in 1..Len(mm)
    BY <1>1, <2>1, <2>2 DEF FillsIn
  <2>4. ids[f[k]] = id /\ ids[f[m]] = id
    BY <1>8, <2>2, <2>3 DEF Synthetic, Item
  <2>5. f[k] = f[m] /\ f[k] \in 1..Len(ids) /\ f[m] \in 1..Len(ids)
    BY <1>4, <2>3, <2>4
  <2>6. ~(k < m) /\ ~(m < k)
    BY <2>3, <2>5, SMT DEF Increasing
  <2>7. QED
    BY <2>3, <2>6, SMT
<1>9. PICK i \in 1..Len(conv) :
        \/ /\ x = Start(off, i) /\ IsResult(conv[i]) /\ RunHead(conv, i) = h /\ conv[i].of = id
        \/ /\ EndsRun(conv, i) /\ HeadOf(conv, i) = h
           /\ \E k \in 1..Len(Missing(conv, i, reason)) :
                 x = Start(off, i) + k /\ Missing(conv, i, reason)[k].of = id
  BY DEF Origin
<1>10. PICK j \in 1..Len(conv) :
        \/ /\ y = Start(off, j) /\ IsResult(conv[j]) /\ RunHead(conv, j) = h /\ conv[j].of = id
        \/ /\ EndsRun(conv, j) /\ HeadOf(conv, j) = h
           /\ \E k \in 1..Len(Missing(conv, j, reason)) :
                 y = Start(off, j) + k /\ Missing(conv, j, reason)[k].of = id
  BY DEF Origin
<1>11. CASE x = Start(off, i) /\ IsResult(conv[i]) /\ RunHead(conv, i) = h /\ conv[i].of = id
  <2>1. y = Start(off, j) /\ IsResult(conv[j]) /\ RunHead(conv, j) = h /\ conv[j].of = id
    BY <1>5, <1>10, <1>11, Zenon
  <2>2. ~(i < j) /\ ~(j < i)
    BY <1>6, <1>11, <2>1, Zenon
  <2>3. i = j
    BY <1>0, <2>2, SMT
  <2>4. QED
    BY <1>11, <2>1, <2>3
<1>12. CASE /\ EndsRun(conv, i) /\ HeadOf(conv, i) = h
            /\ \E k \in 1..Len(Missing(conv, i, reason)) :
                 x = Start(off, i) + k /\ Missing(conv, i, reason)[k].of = id
  <2>1. /\ EndsRun(conv, j) /\ HeadOf(conv, j) = h
        /\ \E k \in 1..Len(Missing(conv, j, reason)) :
                 y = Start(off, j) + k /\ Missing(conv, j, reason)[k].of = id
    BY <1>5, <1>10, <1>12, Zenon
  <2>2. i = j
    BY <1>7, <1>12, <2>1, Zenon
  <2>3. PICK k \in 1..Len(Missing(conv, i, reason)) :
                 x = Start(off, i) + k /\ Missing(conv, i, reason)[k].of = id
    BY <1>12
  <2>4. PICK m \in 1..Len(Missing(conv, i, reason)) :
                 y = Start(off, i) + m /\ Missing(conv, i, reason)[m].of = id
    BY <2>1, <2>2
  <2>5. k = m
    BY <1>8, <1>12, <2>3, <2>4, Zenon
  <2>6. QED
    BY <2>3, <2>4, <2>5
<1>13. QED
  BY <1>9, <1>11, <1>12

\* Every call has an answer in the repaired conversation.
LEMMA HasOrigin ==
    ASSUME NEW S, NEW conv \in Seq(S), NEW reason, Answerable(S, reason), NEW r, NEW off,
           Blocks(conv, r, off, reason), NEW h \in 1..Len(conv), ~IsResult(conv[h]),
           NEW c \in 1..Len(conv[h].calls)
    PROVE  \E x \in 1..Len(r) :
              IsResult(r[x]) /\ RunHead(r, x) = Start(off, h) /\ r[x].of = conv[h].calls[c]
<1>1. PICK id : id = conv[h].calls[c]
  OBVIOUS
<1>2. CASE IsAnswered(conv, h, id)
  <2>1. PICK j \in 1..Len(conv) : IsResult(conv[j]) /\ RunHead(conv, j) = h /\ conv[j].of = id
    BY <1>2 DEF IsAnswered
  <2>2. Start(off, j) \in 1..Len(r) /\ r[Start(off, j)] = conv[j]
    BY StartFacts
  <2>3. RunHead(r, Start(off, j)) = Start(off, h)
    BY <2>1, RepairRuns
  <2>4. QED
    BY <1>1, <2>1, <2>2, <2>3
<1>3. CASE ~IsAnswered(conv, h, id)
  <2>1. PICK e \in 1..Len(conv) : EndsRun(conv, e) /\ HeadOf(conv, e) = h
    BY RunEnds
  <2>2. h # 0
    BY SMT
  <2>3. PICK f : FillsIn(conv, h, Missing(conv, e, reason), f, reason)
    BY <2>1, <2>2, MissingFacts
  <2>4. PICK k \in 1..Len(Missing(conv, e, reason)) : f[k] = c
    BY <1>1, <1>3, <2>3 DEF FillsIn
  <2>5. Missing(conv, e, reason)[k] = Synthetic(id, reason)
    BY <1>1, <2>3, <2>4 DEF FillsIn
  <2>6. IsResult(Synthetic(id, reason)) /\ Synthetic(id, reason).of = id
    BY DEF Synthetic, Item, IsResult
  <2>7. Start(off, e) + k \in 1..Len(r) /\ r[Start(off, e) + k] = Missing(conv, e, reason)[k]
    BY StartFacts
  <2>8. RunHead(r, Start(off, e) + k) = Start(off, h)
    BY <2>1, RepairRuns
  <2>9. QED
    BY <1>1, <2>5, <2>6, <2>7, <2>8
<1>4. QED
  BY <1>2, <1>3

\* A conversation whose results are in their runs, one for each call, needs only the answers
\* that are missing.
LEMMA RepairedValid ==
    ASSUME NEW S, NEW conv \in Seq(S), NEW reason, Answerable(S, reason), WellFormed(S),
           Placed(conv), AnsweredOnce(conv)
    PROVE  ProviderValid(RepairDangling(conv, reason))
<1>1. PICK r \in Seq(S) : r = RepairDangling(conv, reason)
  BY RepairBlocks
<1>2. PICK off : Blocks(conv, r, off, reason)
  BY <1>1, RepairBlocks
<1>0. Len(conv) \in Nat /\ Len(r) \in Nat /\ DOMAIN r = 1..Len(r)
  BY SMT
<1>3. ASSUME NEW h \in 1..Len(conv), NEW x \in 1..Len(r), RunHead(r, x) = Start(off, h)
      PROVE  RunCalls(r, x) = conv[h].calls
  <2>1. Start(off, h) \in 1..Len(r) /\ r[Start(off, h)] = conv[h]
    BY <1>2, StartFacts
  <2>2. Start(off, h) # 0
    BY <1>0, <2>1, SMT
  <2>3. QED
    BY <1>3, <2>1, <2>2 DEF RunCalls
<1>4. ASSUME NEW x \in 1..Len(r), IsResult(r[x]) PROVE Contains(RunCalls(r, x), r[x].of)
  <2>1. PICK i \in 1..Len(conv) :
              \/ x = Start(off, i) /\ r[x] = conv[i]
              \/ \E k \in 1..Len(Missing(conv, i, reason)) :
                    x = Start(off, i) + k /\ r[x] = Missing(conv, i, reason)[k]
    BY <1>2, BlockAt
  <2>2. CASE x = Start(off, i) /\ r[x] = conv[i]
    <3>1. Contains(RunCalls(conv, i), conv[i].of)
      BY <1>4, <2>2 DEF Placed
    <3>2. RunHead(conv, i) # 0
      <4>1. SUFFICES ASSUME RunHead(conv, i) = 0 PROVE FALSE
        OBVIOUS
      <4>2. RunCalls(conv, i) = <<>>
        BY <4>1 DEF RunCalls
      <4>3. PICK b \in 1..Len(RunCalls(conv, i)) : TRUE
        BY <3>1 DEF Contains
      <4>4. b \in 1..0
        BY <4>2, SMT
      <4>5. QED
        BY <4>4, SMT
    <3>3. i \in Nat \ {0}
      BY <1>0, SMT
    <3>4. RunHead(conv, i) \in 0..(i - 1)
      BY <3>3, RunHeadFacts
    <3>5. PICK h \in 1..Len(conv) : h = RunHead(conv, i)
      BY <1>0, <3>2, <3>4, SMT
    <3>6. RunHead(r, x) = Start(off, h)
      BY <1>2, <2>2, <3>5, RepairRuns
    <3>7. RunCalls(r, x) = conv[h].calls
      BY <1>3, <3>6
    <3>8. RunCalls(conv, i) = conv[h].calls
      BY <3>2, <3>5 DEF RunCalls
    <3>9. QED
      BY <2>2, <3>1, <3>7, <3>8
  <2>3. CASE \E k \in 1..Len(Missing(conv, i, reason)) :
                    x = Start(off, i) + k /\ r[x] = Missing(conv, i, reason)[k]
    <3>1. PICK k \in 1..Len(Missing(conv, i, reason)) :
                    x = Start(off, i) + k /\ r[x] = Missing(conv, i, reason)[k]
      BY <2>3
    <3>2. EndsRun(conv, i) /\ HeadOf(conv, i) \in 1..Len(conv)
      BY MissingAreResults
    <3>3. PICK h \in 1..Len(conv) : h = HeadOf(conv, i)
      BY <3>2
    <3>4. h # 0
      BY SMT
    <3>5. PICK f : FillsIn(conv, h, Missing(conv, i, reason), f, reason)
      BY <3>2, <3>3, <3>4, MissingFacts
    <3>6. f[k] \in 1..Len(conv[h].calls) /\ r[x] = Synthetic(conv[h].calls[f[k]], reason)
      BY <3>1, <3>5 DEF FillsIn
    <3>7. r[x].of = conv[h].calls[f[k]]
      BY <3>6 DEF Synthetic, Item
    <3>8. RunHead(r, x) = Start(off, h)
      BY <1>2, <3>1, <3>3, RepairRuns
    <3>9. QED
      BY <1>3, <3>6, <3>7, <3>8 DEF Contains
  <2>4. QED
    BY <2>1, <2>2, <2>3
<1>5. ASSUME NEW g \in 1..Len(r), NEW c \in DOMAIN r[g].calls
      PROVE  Cardinality({j \in 1..Len(r) : /\ IsResult(r[j]) /\ RunHead(r, j) = g
                                            /\ r[j].of = r[g].calls[c]}) = 1
  <2>0. r[g] \in S
    BY SMT
  <2>1. ~IsResult(r[g])
    <3>1. SUFFICES ASSUME r[g].calls = <<>> PROVE FALSE
      BY <2>0 DEF WellFormed
    <3>2. QED
      BY <1>5, <3>1, SMT
  <2>2. PICK h \in 1..Len(conv) : g = Start(off, h) /\ r[g] = conv[h]
    <3>1. PICK i \in 1..Len(conv) :
              \/ g = Start(off, i) /\ r[g] = conv[i]
              \/ \E k \in 1..Len(Missing(conv, i, reason)) :
                    g = Start(off, i) + k /\ r[g] = Missing(conv, i, reason)[k]
      BY <1>2, BlockAt
    <3>2. QED
      BY <2>1, <3>1, MissingAreResults
  <2>3. PICK ids : ids = r[g].calls
    OBVIOUS
  <2>4. ids = conv[h].calls /\ ids \in Seq(ToSet(ids)) /\ ~IsResult(conv[h])
    BY <2>0, <2>1, <2>2, <2>3 DEF Answerable
  <2>5. c \in 1..Len(ids)
    BY <1>5, <2>3, <2>4, SMT
  <2>6. PICK id : id = ids[c]
    OBVIOUS
  <2>7. Contains(conv[h].calls, id)
    BY <2>4, <2>5, <2>6 DEF Contains
  <2> DEFINE J == {j \in 1..Len(r) : IsResult(r[j]) /\ RunHead(r, j) = g /\ r[j].of = id}
  <2>8. PICK x \in J : TRUE
    BY <1>2, <2>2, <2>4, <2>5, <2>6, HasOrigin
  <2>9. ASSUME NEW y \in J PROVE y = x
    <3>1. Origin(conv, off, reason, x, h, r[x].of) /\ Origin(conv, off, reason, y, h, r[y].of)
      <4>1. /\ x \in 1..Len(r) /\ IsResult(r[x]) /\ RunHead(r, x) = Start(off, h)
            /\ y \in 1..Len(r) /\ IsResult(r[y]) /\ RunHead(r, y) = Start(off, h)
        BY <2>2, <2>8, <2>9
      <4> HIDE DEF J
      <4>2. QED
        BY <1>2, <4>1, Origins
    <3>2. Origin(conv, off, reason, x, h, id) /\ Origin(conv, off, reason, y, h, id)
      BY <2>8, <2>9, <3>1
    <3> HIDE DEF J
    <3>3. QED
      BY <2>7, <3>2, OneOrigin
  <2>10. J = {x}
    <3> HIDE DEF J
    <3>1. QED
      BY <2>8, <2>9
  <2>11. Cardinality({x}) = 1
    BY FS_Singleton
  <2>12. {j \in 1..Len(r) : /\ IsResult(r[j]) /\ RunHead(r, j) = g /\ r[j].of = r[g].calls[c]} = J
    BY <2>3, <2>6
  <2>13. QED
    BY <2>10, <2>11, <2>12
<1>6. ProviderValid(r)
  BY <1>0, <1>4, <1>5 DEF ProviderValid
<1>7. QED
  BY <1>1, <1>6

-----------------------------------------------------------------------------
(* The passes change nothing else *)

LEMMA SameSeq ==
    ASSUME NEW S, NEW s \in Seq(S), NEW t \in Seq(S), Len(s) = Len(t),
           \A i \in 1..Len(s) : s[i] = t[i]
    PROVE  s = t
<1>1. DOMAIN s = 1..Len(s) /\ DOMAIN t = 1..Len(t)
  BY SMT
<1>2. s = [i \in 1..Len(s) |-> s[i]] /\ t = [i \in 1..Len(t) |-> t[i]]
  BY <1>1, SMT
<1>3. QED
  BY <1>2

\* Two ways to pick the same items of a conversation.
Selects(s, t, f) ==
    /\ f \in [1..Len(t) -> 1..Len(s)] /\ Increasing(f, Len(t))
    /\ \A p \in 1..Len(t) : t[p] = s[f[p]]

LEMMA SamePicks ==
    ASSUME NEW S, NEW s \in Seq(S), NEW t \in Seq(S), NEW u \in Seq(S), NEW f, NEW g,
           Selects(s, t, f), Selects(s, u, g),
           Within(f, Len(t), g, Len(u)), Within(g, Len(u), f, Len(t))
    PROVE  t = u
<1>1. PICK m \in Nat : m = Len(t)
  BY SMT
<1>2. PICK n \in Nat : n = Len(u)
  BY SMT
<1>3. f \in [1..m -> Nat] /\ g \in [1..n -> Nat]
  <2>1. 1..Len(s) \subseteq Nat
    BY SMT
  <2>2. QED
    BY <1>1, <1>2, <2>1 DEF Selects
<1>4. Increasing(f, m) /\ Increasing(g, n) /\ Within(f, m, g, n) /\ Within(g, n, f, m)
  BY <1>1, <1>2 DEF Selects
<1>5. m = n /\ \A p \in 1..m : f[p] = g[p]
  <2>1. Enumerates(f, m, g, n) /\ Enumerates(g, n, f, m)
    BY <1>3, <1>4 DEF Enumerates
  <2>2. QED
    BY <2>1, SameEnumeration
<1>6. Len(t) = Len(u) /\ \A p \in 1..Len(t) : t[p] = u[p]
  BY <1>1, <1>2, <1>5 DEF Selects
<1>7. QED
  BY <1>6, SameSeq

LEMMA KeepAll ==
    ASSUME NEW S, NEW s \in Seq(S), NEW kept, \A i \in 1..Len(s) : i \in kept
    PROVE  Keep(s, kept) = s
<1>1. PICK t \in Seq(S) : t = Keep(s, kept)
  BY KeepPicks
<1>2. PICK f : Picks(s, t, f, kept)
  BY <1>1, KeepPicks
<1>3. PICK b : b = [i \in 1..Len(s) |-> i]
  OBVIOUS
<1>4. Len(s) \in Nat
  BY SMT
<1>5. Selects(s, s, b) /\ \A i \in 1..Len(s) : b[i] = i
  <2>1. b \in [1..Len(s) -> 1..Len(s)] /\ \A i \in 1..Len(s) : b[i] = i
    BY <1>3
  <2>2. QED
    BY <2>1 DEF Selects, Increasing
<1>6. Selects(s, t, f)
  BY <1>2 DEF Picks, Selects
<1>7. Within(f, Len(t), b, Len(s)) /\ Within(b, Len(s), f, Len(t))
  BY <1>2, <1>5 DEF Picks, Within
<1>8. t = s
  BY <1>5, <1>6, <1>7, SamePicks
<1>9. QED
  BY <1>1, <1>8

LEMMA NothingMissing ==
    ASSUME NEW S, NEW conv \in Seq(S), NEW reason, Answerable(S, reason),
           \A i \in 1..Len(conv) : Missing(conv, i, reason) = <<>>
    PROVE  RepairDangling(conv, reason) = conv
<1>1. PICK r \in Seq(S) : r = RepairDangling(conv, reason)
  BY RepairBlocks
<1>2. PICK off : Blocks(conv, r, off, reason)
  BY <1>1, RepairBlocks
<1>3. PICK n \in Nat : n = Len(conv)
  BY SMT
<1>4. \A i \in 1..n : Len(Missing(conv, i, reason)) = 0
  <2>1. \A e : e = <<>> => Len(e) = 0
    BY SMT
  <2>2. QED
    BY <1>3, <2>1
<1>5. ASSUME NEW i \in 1..n PROVE off[i] = off[i - 1] + 1 /\ off[i - 1] \in Nat
  BY <1>2, <1>3, <1>4, SMT DEF Blocks
<1> DEFINE T == {m \in Nat : m <= n => off[m] = m}
<1>6. 0 \in T
  BY <1>2 DEF Blocks
<1>7. ASSUME NEW m \in Nat, m \in T PROVE m + 1 \in T
  <2>1. ASSUME m + 1 <= n PROVE off[m + 1] = m + 1
    <3>1. m + 1 \in 1..n /\ m <= n /\ (m + 1) - 1 = m
      BY <2>1, SMT
    <3>2. off[m + 1] = off[m] + 1
      BY <1>5, <3>1
    <3>3. QED
      BY <1>7, <3>1, <3>2
  <2>2. QED
    BY <2>1
<1>8. \A m \in Nat : m \in T
  <2> HIDE DEF T
  <2>1. QED
    BY <1>6, <1>7, SetInduction
<1>9. off[n] = n /\ \A i \in 1..n : off[i] = i
  BY <1>8, SMT
<1>10. Len(r) = n
  BY <1>2, <1>3, <1>9 DEF Blocks
<1>11. ASSUME NEW i \in 1..n PROVE r[i] = conv[i]
  <2>1. r[off[i - 1] + 1] = conv[i]
    BY <1>2, <1>3 DEF Blocks
  <2>2. QED
    BY <1>5, <1>9, <2>1
<1>12. r = conv
  BY <1>3, <1>10, <1>11, SameSeq
<1>13. QED
  BY <1>1, <1>12

LEMMA SomethingMissing ==
    ASSUME NEW S, NEW conv \in Seq(S), NEW reason, Answerable(S, reason),
           NEW e \in 1..Len(conv), Missing(conv, e, reason) # <<>>
    PROVE  RepairDangling(conv, reason) # conv
<1>1. PICK r \in Seq(S) : r = RepairDangling(conv, reason)
  BY RepairBlocks
<1>2. PICK off : Blocks(conv, r, off, reason)
  BY <1>1, RepairBlocks
<1>3. PICK n \in Nat : n = Len(conv)
  BY SMT
<1>4. Len(Missing(conv, e, reason)) \in Nat /\ Len(Missing(conv, e, reason)) # 0
  <2>1. PICK mm \in Seq(S) : mm = Missing(conv, e, reason)
    BY MissingType
  <2>2. QED
    BY <2>1, SMT
<1>5. ASSUME NEW i \in 1..n
      PROVE  off[i - 1] \in Nat /\ off[i] \in Nat /\ off[i] >= off[i - 1] + 1 /\ (i = e => off[i] >= off[i - 1] + 2)
  <2>1. /\ off[i - 1] \in Nat /\ off[i] \in Nat /\ Len(Missing(conv, i, reason)) \in Nat
        /\ off[i] = off[i - 1] + 1 + Len(Missing(conv, i, reason))
    BY <1>2, <1>3 DEF Blocks
  <2>2. QED
    BY <1>4, <2>1, SMT
<1> DEFINE T == {m \in Nat : m <= n => off[m] >= m /\ (e <= m => off[m] >= m + 1)}
<1>0. e \in 1..n /\ e \in Nat /\ e # 0
  BY <1>3, SMT
<1>6. 0 \in T
  <2>1. off[0] = 0
    BY <1>2 DEF Blocks
  <2>2. QED
    BY <1>0, <2>1, SMT
<1>7. ASSUME NEW m \in Nat, m \in T PROVE m + 1 \in T
  <2>1. ASSUME m + 1 <= n PROVE off[m + 1] >= m + 1 /\ (e <= m + 1 => off[m + 1] >= (m + 1) + 1)
    <3>1. m + 1 \in 1..n /\ m <= n /\ (m + 1) - 1 = m
      BY <2>1, SMT
    <3>2. off[m] \in Nat /\ off[m + 1] \in Nat /\ off[m + 1] >= off[m] + 1 /\ (m + 1 = e => off[m + 1] >= off[m] + 2)
      BY <1>5, <3>1
    <3>3. off[m] >= m /\ (e <= m => off[m] >= m + 1)
      BY <1>7, <3>1
    <3>4. QED
      BY <1>0, <3>2, <3>3, SMT
  <2>2. QED
    BY <2>1
<1>8. n \in T
  <2> HIDE DEF T
  <2>1. QED
    BY <1>6, <1>7, SetInduction
<1>9. off[n] >= n + 1
  BY <1>0, <1>8, SMT
<1>10. Len(r) # n
  <2>1. off[n] = Len(r) /\ Len(r) \in Nat
    BY <1>2, <1>3 DEF Blocks
  <2>2. QED
    BY <1>9, <2>1, SMT
<1>11. QED
  BY <1>1, <1>3, <1>10

\* has_dangling_tool_calls says whether repair_dangling_tool_calls adds anything.
LEMMA DanglingFacts ==
    ASSUME NEW S, NEW conv \in Seq(S), NEW reason, Answerable(S, reason)
    PROVE  HasDangling(conv) <=> RepairDangling(conv, reason) # conv
<1>0. DOMAIN conv = 1..Len(conv) /\ Len(conv) \in Nat
  BY SMT
<1>1. ASSUME NEW i \in 1..Len(conv), EndsRun(conv, i), HeadOf(conv, i) # 0
      PROVE  /\ HeadOf(conv, i) \in 1..Len(conv) /\ ~IsResult(conv[HeadOf(conv, i)])
             /\ Unanswered(conv, HeadOf(conv, i)) = <<>> <=> Missing(conv, i, reason) = <<>>
  <2>1. HeadOf(conv, i) \in 1..Len(conv) /\ ~IsResult(conv[HeadOf(conv, i)])
    BY <1>1, MissingFacts
  <2>2. PICK h \in 1..Len(conv) : h = HeadOf(conv, i)
    BY <2>1
  <2>3. PICK open : open = Unanswered(conv, h)
    OBVIOUS
  <2>4. \E T : open \in Seq(T)
    BY <2>3, UnansweredPicks
  <2>5. Missing(conv, i, reason) = [k \in DOMAIN open |-> Synthetic(open[k], reason)]
    BY <1>1, <2>2, <2>3 DEF Missing
  <2>6. DOMAIN open = 1..Len(open) /\ Len(open) \in Nat /\ (open = <<>> <=> Len(open) = 0)
    BY <2>4, SMT
  <2>7. PICK mm : mm = [k \in 1..Len(open) |-> Synthetic(open[k], reason)]
    OBVIOUS
  <2>8. mm = Missing(conv, i, reason)
    BY <2>5, <2>6, <2>7
  <2>9. Len(mm) = Len(open) /\ (mm = <<>> <=> Len(open) = 0)
    <3>1. mm \in Seq({Synthetic(open[k], reason) : k \in 1..Len(open)})
      BY <2>6, <2>7, SMT
    <3>2. Len(mm) = Len(open)
      BY <2>6, <2>7, SMT
    <3>3. QED
      BY <3>1, <3>2, SMT
  <2>10. QED
    BY <2>1, <2>2, <2>3, <2>6, <2>8, <2>9
<1>2. ASSUME HasDangling(conv) PROVE RepairDangling(conv, reason) # conv
  <2>1. PICK h \in 1..Len(conv) : ~IsResult(conv[h]) /\ Unanswered(conv, h) # <<>>
    BY <1>0, <1>2 DEF HasDangling
  <2>2. PICK e \in 1..Len(conv) : EndsRun(conv, e) /\ HeadOf(conv, e) = h
    BY <2>1, RunEnds
  <2>3. h # 0
    BY SMT
  <2>4. Missing(conv, e, reason) # <<>>
    BY <1>1, <2>1, <2>2, <2>3
  <2>5. QED
    BY <2>4, SomethingMissing
<1>3. ASSUME ~HasDangling(conv) PROVE RepairDangling(conv, reason) = conv
  <2>1. ASSUME NEW i \in 1..Len(conv) PROVE Missing(conv, i, reason) = <<>>
    <3>1. CASE EndsRun(conv, i) /\ HeadOf(conv, i) # 0
      BY <1>0, <1>1, <1>3, <3>1 DEF HasDangling
    <3>2. CASE ~(EndsRun(conv, i) /\ HeadOf(conv, i) # 0)
      BY <3>2, MissingFacts
    <3>3. QED
      BY <3>1, <3>2
  <2>2. QED
    BY <2>1, NothingMissing
<1>4. QED
  BY <1>2, <1>3

\* Taking results out leaves what was said.
LEMMA ThinnedSpoken ==
    ASSUME NEW S, NEW s \in Seq(S), NEW t \in Seq(S), NEW f, NEW kept, Picks(s, t, f, kept),
           KeepsSpoken(s, kept)
    PROVE  Spoken(t) = Spoken(s)
<1>0. Len(s) \in Nat /\ Len(t) \in Nat /\ DOMAIN s = 1..Len(s) /\ DOMAIN t = 1..Len(t)
  BY SMT
<1>1. PICK ks : ks = {i \in DOMAIN s : ~IsResult(s[i])}
  OBVIOUS
<1>2. PICK kt : kt = {i \in DOMAIN t : ~IsResult(t[i])}
  OBVIOUS
<1>3. Spoken(s) = Keep(s, ks) /\ Spoken(t) = Keep(t, kt)
  BY <1>1, <1>2 DEF Spoken
<1>4. PICK u \in Seq(S) : u = Keep(s, ks)
  BY KeepPicks
<1>5. PICK v \in Seq(S) : v = Keep(t, kt)
  BY KeepPicks
<1>6. PICK g : Picks(s, u, g, ks)
  BY <1>4, KeepPicks
<1>7. PICK e : Picks(t, v, e, kt)
  BY <1>5, KeepPicks
<1>8. Len(u) \in Nat /\ Len(v) \in Nat
  BY SMT
<1> DEFINE d == [p \in 1..Len(v) |-> f[e[p]]]
<1>9. /\ f \in [1..Len(t) -> 1..Len(s)] /\ Increasing(f, Len(t))
      /\ \A p \in 1..Len(t) : t[p] = s[f[p]]
      /\ \A i \in 1..Len(s) : i \in kept => \E p \in 1..Len(t) : f[p] = i
  BY DEF Picks
<1>10. /\ e \in [1..Len(v) -> 1..Len(t)] /\ Increasing(e, Len(v))
       /\ \A p \in 1..Len(v) : v[p] = t[e[p]] /\ e[p] \in kt
       /\ \A i \in 1..Len(t) : i \in kt => \E p \in 1..Len(v) : e[p] = i
  BY <1>7 DEF Picks
<1>11. /\ g \in [1..Len(u) -> 1..Len(s)] /\ Increasing(g, Len(u))
       /\ \A p \in 1..Len(u) : u[p] = s[g[p]] /\ g[p] \in ks
       /\ \A i \in 1..Len(s) : i \in ks => \E p \in 1..Len(u) : g[p] = i
  BY <1>6 DEF Picks
<1>12. /\ d \in [1..Len(v) -> 1..Len(s)]
       /\ \A p \in 1..Len(v) : d[p] = f[e[p]] /\ v[p] = s[d[p]] /\ e[p] \in 1..Len(t)
  BY <1>9, <1>10
<1> HIDE DEF d
<1>13. ASSUME NEW p \in 1..Len(v), NEW q \in 1..Len(v), p < q PROVE d[p] < d[q]
  <2>1. e[p] < e[q]
    BY <1>10, <1>13 DEF Increasing
  <2>2. f[e[p]] < f[e[q]]
    BY <1>9, <1>12, <2>1 DEF Increasing
  <2>3. QED
    BY <1>12, <2>2
<1>14. ASSUME NEW p \in 1..Len(v) PROVE \E q \in 1..Len(u) : d[p] = g[q]
  <2>1. ~IsResult(v[p])
    BY <1>2, <1>10
  <2>2. d[p] \in ks /\ d[p] \in 1..Len(s)
    BY <1>0, <1>1, <1>12, <2>1
  <2>3. PICK q \in 1..Len(u) : g[q] = d[p]
    BY <1>11, <2>2
  <2>4. QED
    BY <2>3
<1>15. ASSUME NEW q \in 1..Len(u) PROVE \E p \in 1..Len(v) : g[q] = d[p]
  <2>1. g[q] \in 1..Len(s) /\ ~IsResult(s[g[q]])
    BY <1>1, <1>11
  <2>2. PICK i \in 1..Len(t) : f[i] = g[q]
    BY <1>9, <2>1 DEF KeepsSpoken
  <2>3. i \in kt
    BY <1>0, <1>2, <1>9, <2>1, <2>2
  <2>4. PICK p \in 1..Len(v) : e[p] = i
    BY <1>10, <2>3
  <2>5. QED
    BY <1>12, <2>2, <2>4
<1>16. Increasing(d, Len(v)) /\ Within(d, Len(v), g, Len(u)) /\ Within(g, Len(u), d, Len(v))
  BY <1>13, <1>14, <1>15 DEF Increasing, Within
<1>17. v = u
  <2>1. Selects(s, v, d) /\ Selects(s, u, g)
    BY <1>11, <1>12, <1>16 DEF Selects
  <2>2. QED
    BY <1>16, <2>1, SamePicks
<1>18. QED
  BY <1>3, <1>4, <1>5, <1>17

\* So does adding some.
LEMMA RepairSpoken ==
    ASSUME NEW S, NEW conv \in Seq(S), NEW reason, Answerable(S, reason)
    PROVE  Spoken(RepairDangling(conv, reason)) = Spoken(conv)
<1>1. PICK r \in Seq(S) : r = RepairDangling(conv, reason)
  BY RepairBlocks
<1>2. PICK off : Blocks(conv, r, off, reason)
  BY <1>1, RepairBlocks
<1>3. Len(conv) \in Nat /\ Len(r) \in Nat /\ DOMAIN conv = 1..Len(conv)
  BY SMT
\* The positions of the conversation's own items pick the conversation out of the repaired one.
<1> DEFINE f    == [i \in 1..Len(conv) |-> Start(off, i)]
           kept == {Start(off, i) : i \in 1..Len(conv)}
<1>4. f \in [1..Len(conv) -> 1..Len(r)] /\ \A i \in 1..Len(conv) : f[i] = Start(off, i)
  BY <1>2, StartFacts
<1>5. ASSUME NEW i \in 1..Len(conv), NEW j \in 1..Len(conv), i < j PROVE f[i] < f[j]
  <2>1. Start(off, i) < Start(off, j)
    BY <1>2, <1>5, StartFacts
  <2>2. QED
    BY <1>4, <2>1
<1>6. ASSUME NEW i \in 1..Len(conv) PROVE conv[i] = r[f[i]] /\ f[i] \in kept
  <2>1. r[Start(off, i)] = conv[i]
    BY <1>2, StartFacts
  <2>2. QED
    BY <1>4, <2>1
<1>7. ASSUME NEW x \in 1..Len(r), x \in kept PROVE \E i \in 1..Len(conv) : f[i] = x
  BY <1>4, <1>7
<1>8. ASSUME NEW x \in 1..Len(r), ~IsResult(r[x]) PROVE x \in kept
  <2>1. PICK i \in 1..Len(conv) :
              \/ x = Start(off, i) /\ r[x] = conv[i]
              \/ \E k \in 1..Len(Missing(conv, i, reason)) :
                    x = Start(off, i) + k /\ r[x] = Missing(conv, i, reason)[k]
    BY <1>2, BlockAt
  <2>2. x = Start(off, i)
    BY <1>8, <2>1, MissingAreResults
  <2>3. QED
    BY <2>2
<1> HIDE DEF f, kept
<1>9. Picks(r, conv, f, kept) /\ KeepsSpoken(r, kept)
  BY <1>4, <1>5, <1>6, <1>7, <1>8 DEF Picks, KeepsSpoken, Increasing
<1>10. Spoken(conv) = Spoken(r)
  BY <1>9, ThinnedSpoken
<1>11. QED
  BY <1>1, <1>10

\* The results of a run for a call: a conversation a provider accepts has one.
AnswersOf(conv, h, id) ==
    {j \in 1..Len(conv) : /\ IsResult(conv[j]) /\ RunHead(conv, j) = h
                          /\ conv[j].of = id}

HasCall(conv, h, id) ==
    h \in 1..Len(conv) /\ \E k \in DOMAIN conv[h].calls : conv[h].calls[k] = id

LEMMA OneAnswer ==
    ASSUME NEW S, NEW conv \in Seq(S), ProviderValid(conv), NEW h, NEW id, HasCall(conv, h, id)
    PROVE  \E x : AnswersOf(conv, h, id) = {x}
<1>0. Len(conv) \in Nat /\ DOMAIN conv = 1..Len(conv)
  BY SMT
<1>1. Cardinality(AnswersOf(conv, h, id)) = 1
  <2>1. PICK k : h \in 1..Len(conv) /\ k \in DOMAIN conv[h].calls /\ id = conv[h].calls[k]
    BY DEF HasCall
  <2>2. Cardinality({j \in DOMAIN conv : /\ IsResult(conv[j]) /\ RunHead(conv, j) = h
                                         /\ conv[j].of = conv[h].calls[k]}) = 1
    BY <1>0, <2>1 DEF ProviderValid
  <2>3. QED
    BY <1>0, <2>1, <2>2 DEF AnswersOf
<1>2. PICK J : J = AnswersOf(conv, h, id)
  OBVIOUS
<1>3. IsFiniteSet(J)
  <2>1. IsFiniteSet(1..Len(conv))
    BY <1>0, FS_Interval
  <2>2. J \subseteq 1..Len(conv)
    BY <1>2 DEF AnswersOf
  <2>3. QED
    BY <2>1, <2>2, FS_Subset
<1>4. \E x : J = {x}
  BY <1>1, <1>2, <1>3, FS_Singleton
<1>5. QED
  BY <1>2, <1>4

\* Nothing is missing from a conversation a provider accepts, and nothing in it is too much.
LEMMA ValidUntouched ==
    ASSUME NEW S, NEW conv \in Seq(S), NEW reason, Answerable(S, reason), ProviderValid(conv)
    PROVE  Dedup(conv) = conv /\ StripDisplaced(conv) = conv /\ RepairDangling(conv, reason) = conv
<1>0. Len(conv) \in Nat /\ DOMAIN conv = 1..Len(conv)
  BY SMT
<1>1. \A i \in 1..Len(conv) : IsResult(conv[i]) => Contains(RunCalls(conv, i), conv[i].of)
  BY <1>0 DEF ProviderValid
<1>3. ASSUME NEW h \in 1..Len(conv), NEW k \in 1..Len(conv[h].calls)
      PROVE  \E x : {j \in 1..Len(conv) : /\ IsResult(conv[j]) /\ RunHead(conv, j) = h
                                          /\ conv[j].of = conv[h].calls[k]} = {x}
  <2>1. conv[h] \in S
    BY SMT
  <2>2. conv[h].calls \in Seq(ToSet(conv[h].calls))
    BY <2>1 DEF Answerable
  <2>3. k \in DOMAIN conv[h].calls
    BY <2>2, SMT
  <2>4. PICK id : id = conv[h].calls[k] /\ HasCall(conv, h, id)
    BY <2>3 DEF HasCall
  <2>5. \E x : AnswersOf(conv, h, id) = {x}
    BY <2>4, OneAnswer
  <2>6. QED
    BY <2>4, <2>5 DEF AnswersOf
<1>4. ASSUME NEW i \in 1..Len(conv) PROVE ~Superseded(conv, i)
  <2>1. SUFFICES ASSUME Superseded(conv, i) PROVE FALSE
    OBVIOUS
  <2>2. PICK j \in (i + 1)..Len(conv) : /\ IsResult(conv[j]) /\ RunHead(conv, j) = RunHead(conv, i)
                                        /\ conv[j].of = conv[i].of
    BY <2>1 DEF Superseded
  <2>3. IsResult(conv[i]) /\ RunCalls(conv, i) # <<>>
    BY <2>1 DEF Superseded
  <2>4. j \in 1..Len(conv) /\ i # j /\ i \in Nat \ {0}
    BY <1>0, SMT
  <2>5. RunHead(conv, i) # 0
    BY <2>3 DEF RunCalls
  <2>6. RunHead(conv, i) \in 0..(i - 1)
    BY <2>4, RunHeadFacts
  <2>7. PICK h \in 1..Len(conv) : h = RunHead(conv, i)
    BY <1>0, <2>5, <2>6, SMT
  <2>8. Contains(conv[h].calls, conv[i].of)
    BY <1>1, <2>3, <2>5, <2>7 DEF RunCalls
  <2>9. PICK k \in 1..Len(conv[h].calls) : conv[h].calls[k] = conv[i].of
    BY <2>8 DEF Contains
  <2>10. PICK x : {m \in 1..Len(conv) : /\ IsResult(conv[m]) /\ RunHead(conv, m) = h
                                        /\ conv[m].of = conv[h].calls[k]} = {x}
    BY <1>3
  <2>11. i \in {x} /\ j \in {x}
    BY <2>2, <2>3, <2>4, <2>7, <2>9, <2>10
  <2>12. QED
    BY <2>4, <2>11
<1>5. Dedup(conv) = conv
  <2>1. PICK kept : kept = KeptByDedup(conv)
    OBVIOUS
  <2>2. \A i \in 1..Len(conv) : i \in kept
    BY <1>0, <1>4, <2>1 DEF KeptByDedup
  <2>3. Keep(conv, kept) = conv
    BY <2>2, KeepAll
  <2>4. QED
    BY <2>1, <2>3 DEF Dedup, KeptByDedup
<1>6. StripDisplaced(conv) = conv
  <2>1. PICK kept : kept = KeptByStrip(conv)
    OBVIOUS
  <2>2. \A i \in 1..Len(conv) : i \in kept
    BY <1>0, <1>1, <2>1 DEF KeptByStrip
  <2>3. Keep(conv, kept) = conv
    BY <2>2, KeepAll
  <2>4. QED
    BY <2>1, <2>3 DEF StripDisplaced, KeptByStrip
<1>7. ASSUME NEW i \in 1..Len(conv) PROVE Missing(conv, i, reason) = <<>>
  <2>1. PICK mm \in Seq(S) : mm = Missing(conv, i, reason)
    BY MissingType
  <2>2. SUFFICES ASSUME mm # <<>> PROVE FALSE
    BY <2>1
  <2>3. 1 \in 1..Len(mm)
    BY <2>2, SMT
  <2>4. EndsRun(conv, i) /\ HeadOf(conv, i) \in 1..Len(conv)
    BY <2>1, <2>3, MissingAreResults
  <2>5. PICK h \in 1..Len(conv) : h = HeadOf(conv, i)
    BY <2>4
  <2>6. h # 0
    BY SMT
  <2>7. PICK f : FillsIn(conv, h, mm, f, reason)
    BY <2>1, <2>4, <2>5, <2>6, MissingFacts
  <2>8. PICK k \in 1..Len(conv[h].calls) : ~IsAnswered(conv, h, conv[h].calls[k])
    BY <2>3, <2>7 DEF FillsIn
  <2>9. PICK x : {m \in 1..Len(conv) : /\ IsResult(conv[m]) /\ RunHead(conv, m) = h
                                       /\ conv[m].of = conv[h].calls[k]} = {x}
    BY <1>3
  <2>10. IsAnswered(conv, h, conv[h].calls[k])
    BY <2>9 DEF IsAnswered
  <2>11. QED
    BY <2>8, <2>10
<1>8. RepairDangling(conv, reason) = conv
  BY <1>7, NothingMissing
<1>9. QED
  BY <1>5, <1>6, <1>8

-----------------------------------------------------------------------------
(* Results that stay in their runs *)

\* Two conversations with the same messages and results, but for their texts, up to i.
Alike(s, t, n) ==
    \A j \in 1..n : /\ IsResult(s[j]) <=> IsResult(t[j])
                    /\ s[j].calls = t[j].calls /\ s[j].of = t[j].of

LEMMA AlikeRuns ==
    ASSUME NEW s, NEW t, NEW n \in Nat, Alike(s, t, n), NEW i \in 1..(n + 1)
    PROVE  RunHead(t, i) = RunHead(s, i) /\ RunCalls(t, i) = RunCalls(s, i)
<1>0. i \in Nat \ {0} /\ \A j \in 1..(i - 1) : j \in 1..n
  BY SMT
<1>1. /\ RunHead(s, i) \in 0..(i - 1)
      /\ RunHead(s, i) # 0 => ~IsResult(s[RunHead(s, i)])
      /\ \A j \in 1..(i - 1) : RunHead(s, i) < j => IsResult(s[j])
  BY <1>0, RunHeadFacts
<1>2. PICK h \in 0..(i - 1) : h = RunHead(s, i)
  BY <1>1
<1>3. h # 0 => h \in 1..n
  BY <1>0, <1>2, SMT
<1>4. h # 0 => ~IsResult(t[h]) /\ t[h].calls = s[h].calls
  BY <1>1, <1>2, <1>3 DEF Alike
<1>5. ASSUME NEW j \in 1..(i - 1), h < j PROVE IsResult(t[j])
  BY <1>0, <1>1, <1>2, <1>5 DEF Alike
<1>6. RunHead(t, i) = h
  BY <1>0, <1>4, <1>5, RunHeadIs
<1>7. QED
  BY <1>2, <1>4, <1>6 DEF RunCalls

LEMMA AlikePlaced ==
    ASSUME NEW s, NEW t, Len(s) \in Nat, Len(t) = Len(s), Alike(s, t, Len(s))
    PROVE  (Placed(s) => Placed(t)) /\ LastCalls(t) = LastCalls(s)
<1>1. PICK n \in Nat : n = Len(s)
  OBVIOUS
<1>2. ASSUME NEW i \in 1..(n + 1) PROVE RunCalls(t, i) = RunCalls(s, i)
  BY <1>1, AlikeRuns
<1>3. LastCalls(t) = LastCalls(s)
  <2>1. n + 1 \in 1..(n + 1)
    BY SMT
  <2>2. QED
    BY <1>1, <1>2, <2>1 DEF LastCalls
<1>4. ASSUME Placed(s), NEW p \in 1..Len(t), IsResult(t[p]) PROVE Contains(RunCalls(t, p), t[p].of)
  <2>1. p \in 1..(n + 1) /\ p \in 1..Len(s)
    BY <1>1, SMT
  <2>2. IsResult(s[p]) /\ s[p].of = t[p].of
    BY <1>4, <2>1 DEF Alike
  <2>3. QED
    BY <1>2, <1>4, <2>1, <2>2 DEF Placed
<1>5. QED
  BY <1>3, <1>4 DEF Placed

\* A message or a result at the end: the runs before it are the same.
LEMMA AppendPlaced ==
    ASSUME NEW S, NEW s \in Seq(S), NEW x \in S
    PROVE  /\ Placed(s) /\ (IsResult(x) => Contains(LastCalls(s), x.of)) => Placed(Append(s, x))
           /\ IsResult(x) => LastCalls(Append(s, x)) = LastCalls(s)
           /\ ~IsResult(x) => LastCalls(Append(s, x)) = x.calls
<1>0. Append(s, x) \in Seq(S)
  BY SMT
<1>1. PICK t \in Seq(S) : t = Append(s, x)
  BY <1>0
<1>2. PICK n \in Nat : n = Len(s)
  BY SMT
<1>3. Len(t) = n + 1 /\ t[n + 1] = x /\ \A j \in 1..n : t[j] = s[j]
  BY <1>1, <1>2, SMT
<1>4. ASSUME NEW i \in 1..(n + 1) PROVE RunHead(t, i) = RunHead(s, i) /\ RunCalls(t, i) = RunCalls(s, i)
  <2>1. Alike(s, t, n)
    BY <1>3 DEF Alike
  <2>2. QED
    BY <2>1, AlikeRuns
<1>5. ASSUME Placed(s), IsResult(x) => Contains(LastCalls(s), x.of), NEW p \in 1..Len(t), IsResult(t[p])
      PROVE  Contains(RunCalls(t, p), t[p].of)
  <2>1. p \in 1..(n + 1) /\ (p \in 1..n \/ p = n + 1)
    BY <1>3, SMT
  <2>2. CASE p \in 1..n
    BY <1>2, <1>3, <1>4, <1>5, <2>1, <2>2 DEF Placed
  <2>3. CASE p = n + 1
    BY <1>2, <1>3, <1>4, <1>5, <2>1, <2>3 DEF LastCalls
  <2>4. QED
    BY <2>1, <2>2, <2>3
<1>6. PICK e \in Nat \ {0} : e = n + 2
  BY SMT
<1>7. Len(t) + 1 = e /\ \A j \in 1..(e - 1) : j \in 1..(n + 1)
  BY <1>3, <1>6, SMT
<1>8. ASSUME IsResult(x) PROVE LastCalls(t) = LastCalls(s)
  <2>1. PICK i \in 1..(n + 1) : i = n + 1
    BY SMT
  <2>2. /\ RunHead(s, i) \in 0..(i - 1)
        /\ RunHead(s, i) # 0 => ~IsResult(s[RunHead(s, i)])
        /\ \A j \in 1..(i - 1) : RunHead(s, i) < j => IsResult(s[j])
    BY <2>1, RunHeadFacts
  <2>3. PICK h \in 0..(i - 1) : h = RunHead(s, i)
    BY <2>2
  <2>4. h \in 0..(e - 1) /\ (h # 0 => h \in 1..n)
    BY <1>6, <2>1, SMT
  <2>5. h # 0 => ~IsResult(t[h]) /\ t[h] = s[h]
    BY <1>3, <2>2, <2>3, <2>4
  <2>6. ASSUME NEW j \in 1..(e - 1), h < j PROVE IsResult(t[j])
    <3>1. (j \in 1..(i - 1) /\ j \in 1..n) \/ j = n + 1
      BY <1>7, <2>1, SMT
    <3>2. CASE j \in 1..(i - 1) /\ j \in 1..n
      BY <1>3, <2>2, <2>3, <2>6, <3>2
    <3>3. CASE j = n + 1
      BY <1>3, <1>8, <3>3
    <3>4. QED
      BY <3>1, <3>2, <3>3
  <2>7. RunHead(t, e) = h
    BY <2>4, <2>5, <2>6, RunHeadIs
  <2>8. RunCalls(t, e) = RunCalls(s, i)
    BY <2>3, <2>5, <2>7 DEF RunCalls
  <2>9. QED
    BY <1>2, <1>7, <2>1, <2>8 DEF LastCalls
<1>9. ASSUME ~IsResult(x) PROVE LastCalls(t) = x.calls
  <2>1. PICK h \in 0..(e - 1) : h = n + 1
    BY <1>6, SMT
  <2>2. h # 0 /\ t[h] = x /\ ~(\E j \in 1..(e - 1) : h < j)
    BY <1>3, <1>6, <2>1, SMT
  <2>3. RunHead(t, e) = h
    BY <1>9, <2>2, RunHeadIs
  <2>4. QED
    BY <1>7, <2>2, <2>3 DEF LastCalls, RunCalls
<1>10. QED
  BY <1>1, <1>5, <1>8, <1>9 DEF Placed

\* A message without calls in front: every position moves by one.
LEMMA PrependRuns ==
    ASSUME NEW s, NEW t, NEW x, NEW n \in Nat, t[1] = x, ~IsResult(x), x.calls = <<>>,
           \A j \in 1..n : t[j + 1] = s[j], NEW i \in 1..(n + 1)
    PROVE  RunHead(t, i + 1) = RunHead(s, i) + 1 /\ RunCalls(t, i + 1) = RunCalls(s, i)
<1>1. /\ RunHead(s, i) \in 0..(i - 1)
      /\ RunHead(s, i) # 0 => ~IsResult(s[RunHead(s, i)])
      /\ \A j \in 1..(i - 1) : RunHead(s, i) < j => IsResult(s[j])
  BY RunHeadFacts
<1>2. PICK h \in 0..(i - 1) : h = RunHead(s, i)
  BY <1>1
<1>3. PICK g \in 0..i : g = h + 1
  BY SMT
<1>4. PICK e \in Nat \ {0} : e = i + 1
  BY SMT
<1>5. g \in 0..(e - 1) /\ g # 0 /\ (h # 0 => h \in 1..n) /\ (h = 0 => g = 1)
  BY <1>3, <1>4, SMT
<1>6. (h = 0 => t[g] = x) /\ (h # 0 => t[g] = s[h])
  BY <1>3, <1>5
<1>7. ~IsResult(t[g])
  BY <1>1, <1>2, <1>6
<1>8. ASSUME NEW j \in 1..(e - 1), g < j PROVE IsResult(t[j])
  <2>1. PICK k \in 1..(i - 1) : j = k + 1 /\ h < k /\ k \in 1..n
    <3>1. j - 1 \in 1..(i - 1) /\ j = (j - 1) + 1 /\ h < j - 1 /\ j - 1 \in 1..n
      BY <1>3, <1>4, <1>8, SMT
    <3>2. QED
      BY <3>1
  <2>2. QED
    BY <1>1, <1>2, <2>1
<1>9. RunHead(t, e) = g
  BY <1>5, <1>7, <1>8, RunHeadIs
<1>10. RunCalls(t, e) = t[g].calls
  BY <1>5, <1>9 DEF RunCalls
<1>11. RunCalls(t, e) = RunCalls(s, i)
  BY <1>2, <1>6, <1>10 DEF RunCalls
<1>12. QED
  BY <1>2, <1>3, <1>4, <1>9, <1>11

LEMMA PrependPlaced ==
    ASSUME NEW S, NEW s \in Seq(S), NEW x \in S, ~IsResult(x), x.calls = <<>>
    PROVE  (Placed(s) => Placed(<<x>> \o s)) /\ LastCalls(<<x>> \o s) = LastCalls(s)
<1>0. <<x>> \o s \in Seq(S)
  BY SMT
<1>1. PICK t \in Seq(S) : t = <<x>> \o s
  BY <1>0
<1>2. PICK n \in Nat : n = Len(s)
  BY SMT
<1>3. Len(t) = n + 1 /\ t[1] = x /\ \A j \in 1..n : t[j + 1] = s[j]
  BY <1>1, <1>2, SMT
<1>4. ASSUME NEW i \in 1..(n + 1) PROVE RunCalls(t, i + 1) = RunCalls(s, i)
  BY <1>3, PrependRuns
<1>5. LastCalls(t) = LastCalls(s)
  <2>1. n + 1 \in 1..(n + 1) /\ Len(t) + 1 = (n + 1) + 1
    BY <1>3, SMT
  <2>2. QED
    BY <1>2, <1>4, <2>1 DEF LastCalls
<1>6. ASSUME Placed(s), NEW p \in 1..Len(t), IsResult(t[p]) PROVE Contains(RunCalls(t, p), t[p].of)
  <2>1. p # 1
    BY <1>3, <1>6
  <2>2. PICK k \in 1..n : p = k + 1 /\ k \in 1..(n + 1)
    <3>1. p - 1 \in 1..n /\ p = (p - 1) + 1 /\ p - 1 \in 1..(n + 1)
      BY <1>3, <2>1, SMT
    <3>2. QED
      BY <3>1
  <2>3. t[p] = s[k] /\ RunCalls(t, p) = RunCalls(s, k)
    BY <1>3, <1>4, <2>2
  <2>4. QED
    BY <1>2, <1>6, <2>3 DEF Placed
<1>7. QED
  BY <1>1, <1>5, <1>6 DEF Placed

\* Neither the texts nor a message without calls in front matter to what a provider accepts.
LEMMA AlikeValid ==
    ASSUME NEW S, NEW s \in Seq(S), NEW t \in Seq(S), Len(t) = Len(s), Alike(s, t, Len(s)), ProviderValid(s)
    PROVE  ProviderValid(t)
<1>1. PICK n \in Nat : n = Len(s) /\ n = Len(t) /\ DOMAIN s = 1..n /\ DOMAIN t = 1..n
  BY SMT
<1>2. ASSUME NEW i \in 1..n
      PROVE  /\ IsResult(s[i]) <=> IsResult(t[i])
             /\ s[i].calls = t[i].calls /\ s[i].of = t[i].of
             /\ RunHead(t, i) = RunHead(s, i) /\ RunCalls(t, i) = RunCalls(s, i)
  <2>1. i \in 1..(n + 1)
    BY SMT
  <2>2. QED
    BY <1>1, <2>1, AlikeRuns DEF Alike
<1>3. ASSUME NEW i \in 1..n, IsResult(t[i]) PROVE Contains(RunCalls(t, i), t[i].of)
  BY <1>1, <1>2, <1>3 DEF ProviderValid
<1>4. ASSUME NEW h \in 1..n, NEW k \in DOMAIN t[h].calls
      PROVE  Cardinality({j \in 1..n : /\ IsResult(t[j]) /\ RunHead(t, j) = h
                                       /\ t[j].of = t[h].calls[k]}) = 1
  <2>1. {j \in 1..n : IsResult(t[j]) /\ RunHead(t, j) = h /\ t[j].of = t[h].calls[k]}
          = {j \in 1..n : IsResult(s[j]) /\ RunHead(s, j) = h /\ s[j].of = s[h].calls[k]}
    BY <1>2
  <2>2. k \in DOMAIN s[h].calls
    BY <1>2
  <2>3. Cardinality({j \in 1..n : /\ IsResult(s[j]) /\ RunHead(s, j) = h
                                  /\ s[j].of = s[h].calls[k]}) = 1
    BY <1>1, <2>2 DEF ProviderValid
  <2>4. QED
    BY <2>1, <2>3
<1>5. QED
  BY <1>1, <1>3, <1>4 DEF ProviderValid

LEMMA PrependValid ==
    ASSUME NEW S, NEW s \in Seq(S), NEW x \in S, ~IsResult(x), x.calls = <<>>, ProviderValid(s)
    PROVE  ProviderValid(<<x>> \o s)
<1>0. <<x>> \o s \in Seq(S)
  BY SMT
<1>1. PICK t \in Seq(S) : t = <<x>> \o s
  BY <1>0
<1>2. PICK n \in Nat : n = Len(s) /\ DOMAIN s = 1..n
  BY SMT
<1>3. DOMAIN t = 1..(n + 1) /\ t[1] = x /\ \A j \in 1..n : t[j + 1] = s[j]
  BY <1>1, <1>2, SMT
<1>4. ASSUME NEW i \in 1..n
      PROVE  RunHead(t, i + 1) = RunHead(s, i) + 1 /\ RunCalls(t, i + 1) = RunCalls(s, i)
  <2>1. i \in 1..(n + 1)
    BY SMT
  <2>2. QED
    BY <1>3, <2>1, PrependRuns
<1>5. ASSUME NEW p \in 1..(n + 1), p # 1 PROVE \E k \in 1..n : p = k + 1
  <2>1. p - 1 \in 1..n /\ p = (p - 1) + 1
    BY <1>5, SMT
  <2>2. QED
    BY <2>1
<1>6. ASSUME NEW p \in 1..(n + 1), IsResult(t[p]) PROVE Contains(RunCalls(t, p), t[p].of)
  <2>1. PICK k \in 1..n : p = k + 1
    BY <1>3, <1>5, <1>6
  <2>2. QED
    BY <1>2, <1>3, <1>4, <1>6, <2>1 DEF ProviderValid
<1>7. ASSUME NEW p \in 1..(n + 1), NEW c \in DOMAIN t[p].calls
      PROVE  Cardinality({j \in 1..(n + 1) : /\ IsResult(t[j]) /\ RunHead(t, j) = p
                                             /\ t[j].of = t[p].calls[c]}) = 1
  <2>1. p # 1
    <3>1. DOMAIN <<>> = {}
      BY SMT
    <3>2. QED
      BY <1>3, <1>7, <3>1
  <2>2. PICK h \in 1..n : p = h + 1
    BY <1>5, <2>1
  <2>3. t[p] = s[h] /\ c \in DOMAIN s[h].calls
    BY <1>3, <1>7, <2>2
  <2>4. PICK id : id = s[h].calls[c]
    OBVIOUS
  <2>5. PICK y : {j \in 1..n : IsResult(s[j]) /\ RunHead(s, j) = h /\ s[j].of = id} = {y}
    <3>1. HasCall(s, h, id)
      BY <1>2, <2>3, <2>4 DEF HasCall
    <3>2. \E y : AnswersOf(s, h, id) = {y}
      BY <3>1, OneAnswer
    <3>3. QED
      BY <1>2, <2>4, <3>1, <3>2 DEF AnswersOf
  <2>6. /\ y \in 1..n /\ IsResult(s[y]) /\ RunHead(s, y) = h /\ s[y].of = id
        /\ \A j \in 1..n : IsResult(s[j]) /\ RunHead(s, j) = h /\ s[j].of = id => j = y
    BY <2>5
  <2>7. PICK z \in 1..(n + 1) : z = y + 1
    BY <2>6, SMT
  <2>8. t[z] = s[y] /\ RunHead(t, z) = p
    BY <1>3, <1>4, <2>2, <2>6, <2>7
  <2>9. ASSUME NEW j \in 1..(n + 1), IsResult(t[j]), RunHead(t, j) = p, t[j].of = id PROVE j = z
    <3>1. PICK k \in 1..n : j = k + 1
      BY <1>3, <1>5, <2>9
    <3>2. t[j] = s[k] /\ RunHead(t, j) = RunHead(s, k) + 1
      BY <1>3, <1>4, <3>1
    <3>3. RunHead(s, k) \in 0..(k - 1)
      BY <3>1, RunHeadFacts
    <3>4. RunHead(s, k) = h
      BY <2>2, <2>9, <3>2, <3>3, SMT
    <3>5. QED
      BY <2>6, <2>7, <2>9, <3>1, <3>2, <3>4
  <2>10. {j \in 1..(n + 1) : IsResult(t[j]) /\ RunHead(t, j) = p /\ t[j].of = t[p].calls[c]} = {z}
    BY <2>3, <2>4, <2>6, <2>8, <2>9
  <2>11. QED
    BY <2>10, FS_Singleton
<1>8. PICK m : m = 1..(n + 1)
  OBVIOUS
<1>9. ProviderValid(t)
  <2>1. \A p \in m : IsResult(t[p]) => Contains(RunCalls(t, p), t[p].of)
    BY <1>6, <1>8
  <2>2. \A p \in m : \A c \in DOMAIN t[p].calls :
           Cardinality({j \in m : /\ IsResult(t[j]) /\ RunHead(t, j) = p
                                  /\ t[j].of = t[p].calls[c]}) = 1
    BY <1>7, <1>8
  <2>3. DOMAIN t = m
    BY <1>3, <1>8
  <2>4. QED
    BY <2>1, <2>2, <2>3 DEF ProviderValid
<1>10. QED
  BY <1>1, <1>9

\* A removal of results leaves the others where they belong.
LEMMA ThinnedPlaced ==
    ASSUME NEW s, NEW t, NEW f, NEW kept, Thinned(s, t, f, kept), Placed(s)
    PROVE  Placed(t)
<1>1. ASSUME NEW p \in 1..Len(t), IsResult(t[p]) PROVE Contains(RunCalls(t, p), t[p].of)
  <2>1. f[p] \in 1..Len(s) /\ t[p] = s[f[p]] /\ RunCalls(t, p) = RunCalls(s, f[p])
    BY DEF Thinned, Picks, SameRun, SameRunAt
  <2>2. QED
    BY <1>1, <2>1 DEF Placed
<1>2. QED
  BY <1>1 DEF Placed

\* The answers added at the end of the last run are in it.
LEMMA RepairLast ==
    ASSUME NEW S, NEW conv \in Seq(S), NEW reason, Answerable(S, reason)
    PROVE  LastCalls(RepairDangling(conv, reason)) = LastCalls(conv)
<1>1. PICK r \in Seq(S) : r = RepairDangling(conv, reason)
  BY RepairBlocks
<1>2. PICK off : Blocks(conv, r, off, reason)
  BY <1>1, RepairBlocks
<1>3. Len(conv) \in Nat /\ Len(r) \in Nat
  BY SMT
<1>4. PICK i \in Nat \ {0} : i = Len(conv) + 1
  BY <1>3, SMT
<1>5. /\ RunHead(conv, i) \in 0..(i - 1)
      /\ RunHead(conv, i) # 0 => ~IsResult(conv[RunHead(conv, i)])
      /\ \A j \in 1..(i - 1) : RunHead(conv, i) < j => IsResult(conv[j])
  BY RunHeadFacts
<1>6. PICK h \in 0..(i - 1) : h = RunHead(conv, i)
  BY <1>5
<1>7. h \in 0..Len(conv) /\ (h # 0 => h \in 1..Len(conv)) /\ 1..(i - 1) = 1..Len(conv)
  BY <1>3, <1>4, SMT
<1>8. h # 0 => Start(off, h) \in 1..Len(r) /\ r[Start(off, h)] = conv[h]
  BY <1>2, <1>7, StartFacts
<1>9. PICK x \in 1..(Len(r) + 1) : x = Len(r) + 1
  BY <1>3, SMT
<1>10. Start(off, h) < x /\ (h = 0 => Start(off, h) = 0) /\ (h # 0 => Start(off, h) # 0)
  <2>1. CASE h = 0
    <3>1. Start(off, h) = 0
      BY <2>1 DEF Start
    <3>2. QED
      BY <1>3, <2>1, <3>1, SMT
  <2>2. CASE h # 0
    BY <1>3, <1>8, <1>9, <2>2, SMT
  <2>3. QED
    BY <2>1, <2>2
<1>11. \A j \in 1..Len(conv) : h < j /\ Start(off, j) < x => IsResult(conv[j])
  BY <1>5, <1>6, <1>7
<1>12. h # 0 => ~IsResult(conv[h])
  BY <1>5, <1>6
<1>13. RunHead(r, x) = Start(off, h)
  BY <1>2, <1>7, <1>10, <1>11, <1>12, BlockRun
<1>14. RunCalls(r, x) = RunCalls(conv, i)
  BY <1>6, <1>8, <1>10, <1>13 DEF RunCalls
<1>15. QED
  BY <1>1, <1>4, <1>9, <1>14 DEF LastCalls

\* The rewrites made before a message is added and before a request is built.
LEMMA IntegrityPlaced ==
    ASSUME NEW S, NEW conv \in Seq(S), NEW reason, Answerable(S, reason), WellFormed(S), Placed(conv)
    PROVE  /\ ProviderValid(Integrity(conv, reason)) /\ Placed(Integrity(conv, reason))
           /\ LastCalls(Integrity(conv, reason)) = LastCalls(conv)
<1>1. PICK t \in Seq(S) : t = Dedup(conv)
  BY DedupThins
<1>2. AnsweredOnce(t) /\ \E f : Thinned(conv, t, f, KeptByDedup(conv))
  BY <1>1, DedupThins
<1>3. PICK f, kept : Thinned(conv, t, f, kept)
  BY <1>2
<1>4. Placed(t) /\ LastCalls(t) = LastCalls(conv)
  <2>1. Placed(t)
    BY <1>3, ThinnedPlaced
  <2>2. QED
    BY <1>3, <2>1 DEF Thinned
<1>5. PICK r \in Seq(S) : r = RepairDangling(t, reason)
  BY RepairType
<1>6. ProviderValid(r) /\ LastCalls(r) = LastCalls(conv)
  BY <1>2, <1>4, <1>5, RepairedValid, RepairLast
<1>7. DOMAIN r = 1..Len(r)
  BY SMT
<1>8. Placed(r)
  BY <1>6, <1>7 DEF ProviderValid, Placed
<1>9. Integrity(conv, reason) = r
  BY <1>1, <1>5 DEF Integrity
<1>10. QED
  BY <1>6, <1>8, <1>9

\* The repair a client asks for puts every result in its place.
LEMMA RepairHistoryPlaced ==
    ASSUME NEW S, NEW conv \in Seq(S), Answerable(S, "halted"), WellFormed(S)
    PROVE  Placed(RepairHistory(conv)) /\ LastCalls(RepairHistory(conv)) = LastCalls(conv)
<1>1. PICK t \in Seq(S) : t = Dedup(conv)
  BY DedupThins
<1>2. AnsweredOnce(t) /\ LastCalls(t) = LastCalls(conv)
  <2>1. PICK f : Thinned(conv, t, f, KeptByDedup(conv))
    BY <1>1, DedupThins
  <2>2. LastCalls(t) = LastCalls(conv)
    BY <2>1 DEF Thinned
  <2>3. QED
    BY <1>1, <2>2, DedupThins
<1>3. PICK u \in Seq(S) : u = StripDisplaced(t)
  BY StripThins
<1>4. AnsweredOnce(u) /\ Placed(u) /\ LastCalls(u) = LastCalls(t)
  <2>1. PICK f : Thinned(t, u, f, KeptByStrip(t))
    BY <1>3, StripThins
  <2>2. LastCalls(u) = LastCalls(t)
    BY <2>1 DEF Thinned
  <2>3. QED
    BY <1>2, <1>3, <2>2, StripThins
<1>5. PICK r \in Seq(S) : r = RepairDangling(u, "halted")
  BY RepairType
<1>6. ProviderValid(r) /\ LastCalls(r) = LastCalls(conv)
  BY <1>2, <1>4, <1>5, RepairedValid, RepairLast
<1>7. DOMAIN r = 1..Len(r)
  BY SMT
<1>8. Placed(r)
  BY <1>6, <1>7 DEF ProviderValid, Placed
<1>9. RepairHistory(conv) = r
  BY <1>1, <1>3, <1>5 DEF RepairHistory
<1>10. QED
  BY <1>6, <1>8, <1>9
=============================================================================
