----------------------- MODULE ChatDurability_proofs ------------------------
(***************************************************************************)
(* Proofs about a conversation and its file, for any number of turns,      *)
(* failures, crashes and switches: what is on disk and on its way there is *)
(* the conversation in memory, what was written survives torn appends, a   *)
(* switch is recorded once, a tool result without its text has its turns   *)
(* behind it, and a stripped image can be found again.                     *)
(***************************************************************************)
EXTENDS ChatDurability, Conversation_proofs

----------------------------------------------------------------------------
(* Types *)

\* What a conversation is made of, and what is posted to the persistence actor.
Bodies == {"head", "reminded", "text", "image", "stripped", "summary", "interjection", "real"}
              \cup SwitchTexts \cup Reasons \cup {Cleared}
Said == [kind : Kinds, calls : Seq(Nat), of : Nat, by : Nat, body : Bodies]
Msgs == [op : {"chat", "replace", "strip", "switch", "flush"}, items : Seq(Said)]

Single(msg) == msg.op \in {"chat", "switch"} => Len(msg.items) = 1

LEMMA SaidFacts ==
    /\ Torn \notin Said /\ System("head") \in Said /\ System(Reminded) \in Said
    /\ \A n \in Nat, b \in Bodies : User(n, b) \in Said
    /\ \A n \in Nat, ids \in Seq(Nat) : Assistant(n, ids) \in Said
    /\ \A n, id \in Nat : Result(id, n) \in Said
    /\ \A id \in Nat, r \in Bodies : Synthetic(id, r) \in Said
    /\ \A x \in Said, b \in Bodies : [x EXCEPT !.body = b] \in Said
<1> USE DEF Said, Item, Kinds, NoCall, Bodies
<1>1. <<>> \in Seq(Nat)
  BY SMT
<1>2. Torn \notin Said
  BY SMT DEF Torn
<1>3. System("head") \in Said /\ System(Reminded) \in Said
  BY <1>1, SMT DEF System, Reminded
<1>4. \A n \in Nat, b \in Bodies : User(n, b) \in Said
  BY <1>1, SMT DEF User
<1>5. \A n \in Nat, ids \in Seq(Nat) : Assistant(n, ids) \in Said
  BY SMT DEF Assistant
<1>6. \A n, id \in Nat : Result(id, n) \in Said
  BY <1>1, SMT DEF Result
<1>7. \A id \in Nat, r \in Bodies : Synthetic(id, r) \in Said
  BY <1>1, SMT DEF Synthetic
<1>8. \A x \in Said, b \in Bodies : [x EXCEPT !.body = b] \in Said
  BY SMT
<1>9. QED
  BY <1>2, <1>3, <1>4, <1>5, <1>6, <1>7, <1>8

LEMMA SaidAnswerable == \A reason \in Bodies : Answerable(Said, reason)
<1>1. ASSUME NEW reason \in Bodies, NEW x \in Said
      PROVE  x.calls \in Seq(ToSet(x.calls)) /\ \A id \in ToSet(x.calls) : Synthetic(id, reason) \in Said
  <2>1. PICK ids \in Seq(Nat) : ids = x.calls
    BY DEF Said
  <2>2. Len(ids) \in Nat /\ DOMAIN ids = 1..Len(ids) /\ \A i \in 1..Len(ids) : ids[i] \in Nat
    BY <2>1, SMT
  <2>3. \A i \in 1..Len(ids) : ids[i] \in ToSet(ids)
    BY <2>2 DEF ToSet
  <2>4. ids \in Seq(ToSet(ids))
    BY <2>2, <2>3, SMT
  <2>5. \A id \in ToSet(ids) : id \in Nat
    BY <2>2 DEF ToSet
  <2>6. \A id \in ToSet(ids) : Synthetic(id, reason) \in Said
    BY <2>5, SaidFacts
  <2>7. QED
    BY <2>1, <2>4, <2>6
<1>2. QED
  BY <1>1 DEF Answerable

\* What the handlers make of a conversation is a conversation.
LEMMA PassTypes ==
    ASSUME NEW conv \in Seq(Said)
    PROVE  /\ Integrity(conv, "cancelled") \in Seq(Said)
           /\ RepairHistory(conv) \in Seq(Said)
           /\ StripImages(conv) \in Seq(Said) /\ Len(StripImages(conv)) = Len(conv)
           /\ \A prompt, age : /\ PruneRetained(conv, prompt, age) \in Seq(Said)
                               /\ Len(PruneRetained(conv, prompt, age)) = Len(conv)
<1>1. Answerable(Said, "cancelled") /\ Answerable(Said, "halted")
  BY SaidAnswerable DEF Bodies, Reasons
<1>2. Integrity(conv, "cancelled") \in Seq(Said) /\ RepairHistory(conv) \in Seq(Said)
  BY <1>1, IntegrityType, RepairHistoryType
<1>3. Len(conv) \in Nat /\ DOMAIN conv = 1..Len(conv) /\ \A i \in 1..Len(conv) : conv[i] \in Said
  BY SMT
<1>4. \A x \in Said : [x EXCEPT !.body = "stripped"] \in Said /\ [x EXCEPT !.body = Cleared] \in Said
  BY SaidFacts DEF Bodies
<1>5. StripImages(conv) \in [1..Len(conv) -> Said]
  BY <1>3, <1>4 DEF StripImages
<1>6. StripImages(conv) \in Seq(Said) /\ Len(StripImages(conv)) = Len(conv)
  BY <1>3, <1>5, SMT
<1>7. ASSUME NEW prompt, NEW age
      PROVE  /\ PruneRetained(conv, prompt, age) \in Seq(Said)
             /\ Len(PruneRetained(conv, prompt, age)) = Len(conv)
  <2>1. CASE prompt < age
    BY <2>1 DEF PruneRetained
  <2>2. CASE ~(prompt < age)
    <3>1. PruneRetained(conv, prompt, age) \in [1..Len(conv) -> Said]
      BY <1>3, <1>4, <2>2 DEF PruneRetained
    <3>2. QED
      BY <1>3, <3>1, SMT
  <2>3. QED
    BY <2>1, <2>2
<1>8. QED
  BY <1>2, <1>6, <1>7

----------------------------------------------------------------------------
(* Replaying what was posted *)

\* h[n] is what is read after the first n messages.
Traces(h, items, msgs, m) ==
    /\ h \in [0..m -> Seq(Said)] /\ h[0] = items
    /\ \A n \in 1..m : h[n] = Applied(h[n - 1], msgs[n])

Replayed(items, msgs, after) ==
    after = [n \in 0..Len(msgs) |-> IF n = 0 THEN items ELSE Applied(after[n - 1], msgs[n])]

LEMMA AppliedType ==
    ASSUME NEW items \in Seq(Said), NEW msg \in Msgs
    PROVE  Applied(items, msg) \in Seq(Said)
<1>1. msg.items \in Seq(Said)
  BY DEF Msgs
<1>2. items \o msg.items \in Seq(Said)
  BY <1>1, ConcatFacts
<1>3. CASE msg.op = "chat"
  BY <1>2, <1>3 DEF Applied
<1>4. CASE msg.op # "chat" /\ msg.op \in {"replace", "strip"}
  BY <1>1, <1>4 DEF Applied
<1>5. CASE msg.op # "chat" /\ msg.op \notin {"replace", "strip"}
  BY <1>5 DEF Applied
<1>6. QED
  BY <1>3, <1>4, <1>5

LEMMA TraceExists ==
    ASSUME NEW items \in Seq(Said), NEW msgs \in Seq(Msgs)
    PROVE  \E h : Traces(h, items, msgs, Len(msgs))
<1> DEFINE T == {m \in Nat : m <= Len(msgs) => \E h : Traces(h, items, msgs, m)}
<1>0. Len(msgs) \in Nat /\ \A n \in 1..Len(msgs) : msgs[n] \in Msgs
  BY SMT
<1>1. 0 \in T
  <2>1. PICK h : h = [n \in 0..0 |-> items]
    OBVIOUS
  <2>2. h \in [0..0 -> Seq(Said)] /\ h[0] = items /\ 1..0 = {}
    BY <2>1, SMT
  <2>3. Traces(h, items, msgs, 0)
    BY <2>2 DEF Traces
  <2>4. QED
    BY <2>3
<1>2. ASSUME NEW m \in Nat, m \in T PROVE m + 1 \in T
  <2>1. ASSUME m + 1 <= Len(msgs) PROVE \E h : Traces(h, items, msgs, m + 1)
    <3>0. m <= Len(msgs) /\ m + 1 \in 1..Len(msgs) /\ m \in 0..m /\ m + 1 \in 0..(m + 1) /\ 0 \in 0..m
      BY <1>0, <2>1, SMT
    <3>1. PICK g : Traces(g, items, msgs, m)
      BY <1>2, <3>0
    <3>2. PICK last \in Seq(Said) : last = Applied(g[m], msgs[m + 1])
      BY <1>0, <3>0, <3>1, AppliedType DEF Traces
    <3>3. PICK h : h = [n \in 0..(m + 1) |-> IF n = m + 1 THEN last ELSE g[n]]
      OBVIOUS
    <3>4. \A n \in 0..(m + 1) : n = m + 1 \/ n \in 0..m
      BY SMT
    <3>5. h \in [0..(m + 1) -> Seq(Said)]
      BY <3>1, <3>2, <3>3, <3>4 DEF Traces
    <3>6. h[m + 1] = last /\ \A n \in 0..m : h[n] = g[n]
      BY <3>3, SMT
    <3>7. ASSUME NEW n \in 1..(m + 1) PROVE h[n] = Applied(h[n - 1], msgs[n])
      <4>1. n - 1 \in 0..m /\ (n = m + 1 => n - 1 = m) /\ (n # m + 1 => n \in 1..m /\ n \in 0..m)
        BY SMT
      <4>2. CASE n = m + 1
        BY <3>2, <3>6, <4>1, <4>2
      <4>3. CASE n # m + 1
        BY <3>1, <3>6, <4>1, <4>3 DEF Traces
      <4>4. QED
        BY <4>2, <4>3
    <3>8. Traces(h, items, msgs, m + 1)
      BY <3>0, <3>1, <3>5, <3>6, <3>7 DEF Traces
    <3>9. QED
      BY <3>8
  <2>2. QED
    BY <2>1
<1>3. Len(msgs) \in T
  <2> HIDE DEF T
  <2>1. QED
    BY <1>0, <1>1, <1>2, SetInduction
<1>4. QED
  BY <1>0, <1>3, SMT

\* Replay returns the last of the trace.
LEMMA ReplayTrace ==
    ASSUME NEW items \in Seq(Said), NEW msgs \in Seq(Msgs), NEW h, Traces(h, items, msgs, Len(msgs))
    PROVE  Replay(items, msgs) = h[Len(msgs)]
<1>0. Len(msgs) \in Nat
  BY SMT
<1>1. PICK n \in Nat : n = Len(msgs)
  BY <1>0
<1>2. Replayed(items, msgs, h)
  <2>1. h = [k \in 0..n |-> h[k]]
    BY <1>1 DEF Traces
  <2>2. ASSUME NEW k \in 0..n PROVE h[k] = IF k = 0 THEN items ELSE Applied(h[k - 1], msgs[k])
    <3>1. k = 0 \/ k \in 1..n
      BY SMT
    <3>2. QED
      BY <1>1, <3>1 DEF Traces
  <2>3. h = [k \in 0..n |-> IF k = 0 THEN items ELSE Applied(h[k - 1], msgs[k])]
    BY <2>1, <2>2
  <2>4. QED
    BY <1>1, <2>3 DEF Replayed
<1>3. PICK g : g = CHOOSE after : Replayed(items, msgs, after)
  OBVIOUS
<1>4. Replayed(items, msgs, g)
  BY <1>2, <1>3
<1>5. Replay(items, msgs) = g[n]
  BY <1>1, <1>3 DEF Replay, Replayed
<1>6. \A k \in 0..n : g[k] = IF k = 0 THEN items ELSE Applied(g[k - 1], msgs[k])
  BY <1>1, <1>4, Zenon DEF Replayed
<1> DEFINE T == {k \in Nat : k <= n => g[k] = h[k]}
<1>7. 0 \in T
  <2>1. 0 \in 0..n
    BY SMT
  <2>2. QED
    BY <1>6, <2>1 DEF Traces
<1>8. ASSUME NEW k \in Nat, k \in T PROVE k + 1 \in T
  <2>1. ASSUME k + 1 <= n PROVE g[k + 1] = h[k + 1]
    <3>1. k <= n /\ k + 1 \in 0..n /\ k + 1 \in 1..n /\ (k + 1) - 1 = k /\ k + 1 # 0
      BY <2>1, SMT
    <3>2. g[k] = h[k]
      BY <1>8, <3>1
    <3>3. g[k + 1] = Applied(g[k], msgs[k + 1])
      BY <1>6, <3>1
    <3>4. h[k + 1] = Applied(h[k], msgs[k + 1])
      BY <1>1, <3>1 DEF Traces
    <3>5. QED
      BY <3>2, <3>3, <3>4
  <2>2. QED
    BY <2>1
<1>9. n \in T
  <2> HIDE DEF T
  <2>1. QED
    BY <1>7, <1>8, SetInduction
<1>10. g[n] = h[n]
  BY <1>9, SMT
<1>11. QED
  BY <1>1, <1>5, <1>10

LEMMA ReplayType ==
    ASSUME NEW items \in Seq(Said), NEW msgs \in Seq(Msgs)
    PROVE  Replay(items, msgs) \in Seq(Said)
<1>1. PICK h : Traces(h, items, msgs, Len(msgs))
  BY TraceExists
<1>2. Len(msgs) \in 0..Len(msgs)
  BY SMT
<1>3. QED
  BY <1>1, <1>2, ReplayTrace DEF Traces

LEMMA ReplayFew ==
    ASSUME NEW items \in Seq(Said)
    PROVE  Replay(items, <<>>) = items /\ \A m \in Msgs : Replay(items, <<m>>) = Applied(items, m)
<1>1. Replay(items, <<>>) = items
  <2>0. <<>> \in Seq(Msgs)
    BY SMT
  <2>1. PICK msgs \in Seq(Msgs) : msgs = <<>>
    BY <2>0
  <2>2. PICK h : Traces(h, items, msgs, Len(msgs))
    BY TraceExists
  <2>3. Len(msgs) = 0
    BY <2>1, SMT
  <2>4. QED
    BY <2>1, <2>2, <2>3, ReplayTrace DEF Traces
<1>2. ASSUME NEW m \in Msgs PROVE Replay(items, <<m>>) = Applied(items, m)
  <2>1. <<m>> \in Seq(Msgs)
    BY SMT
  <2>2. PICK msgs \in Seq(Msgs) : msgs = <<m>>
    BY <2>1
  <2>3. PICK h : Traces(h, items, msgs, Len(msgs))
    BY TraceExists
  <2>4. Len(msgs) = 1 /\ msgs[1] = m /\ 1 \in 1..1 /\ 1 - 1 = 0
    BY <2>2, SMT
  <2>5. h[1] = Applied(items, m)
    BY <2>3, <2>4 DEF Traces
  <2>6. QED
    BY <2>2, <2>3, <2>4, <2>5, ReplayTrace
<1>3. QED
  BY <1>1, <1>2

\* One batch after the other.
LEMMA ReplayConcat ==
    ASSUME NEW items \in Seq(Said), NEW a \in Seq(Msgs), NEW b \in Seq(Msgs)
    PROVE  Replay(items, a \o b) = Replay(Replay(items, a), b)
<1>1. PICK c \in Seq(Msgs) : c = a \o b
  BY ConcatFacts
<1>2. PICK m \in Nat : m = Len(a)
  BY SMT
<1>3. PICK k \in Nat : k = Len(b)
  BY SMT
<1>4. Len(c) = m + k /\ (\A n \in 1..m : c[n] = a[n]) /\ (\A n \in 1..k : c[m + n] = b[n])
  BY <1>1, <1>2, <1>3, ConcatFacts
<1>5. PICK h : Traces(h, items, c, m + k)
  BY <1>4, TraceExists
<1>6. PICK g : g = [n \in 0..m |-> h[n]]
  OBVIOUS
<1>7. PICK e : e = [n \in 0..k |-> h[m + n]]
  OBVIOUS
<1>8. m + k \in Nat /\ 0 \in 0..m /\ 0 \in 0..k /\ m \in 0..m /\ k \in 0..k /\ m + 0 = m
  BY SMT
<1>9. /\ \A n \in 0..m : n \in 0..(m + k)
      /\ \A n \in 0..k : m + n \in 0..(m + k)
  BY SMT
<1>10. /\ \A n \in 1..m : n \in 1..(m + k) /\ n \in 0..m /\ n - 1 \in 0..m
       /\ \A n \in 1..k : m + n \in 1..(m + k) /\ n \in 0..k /\ n - 1 \in 0..k /\ (m + n) - 1 = m + (n - 1)
  BY SMT
<1>11. Traces(g, items, a, m)
  <2>1. g \in [0..m -> Seq(Said)] /\ g[0] = items
    BY <1>5, <1>6, <1>8, <1>9 DEF Traces
  <2>2. ASSUME NEW n \in 1..m PROVE g[n] = Applied(g[n - 1], a[n])
    <3>1. h[n] = Applied(h[n - 1], c[n])
      BY <1>5, <1>10 DEF Traces
    <3>2. QED
      BY <1>4, <1>6, <1>10, <3>1
  <2>3. QED
    BY <2>1, <2>2 DEF Traces
<1>12. Replay(items, a) = h[m]
  <2>1. Replay(items, a) = g[m]
    BY <1>2, <1>11, ReplayTrace
  <2>2. QED
    BY <1>6, <1>8, <2>1
<1>13. PICK mid \in Seq(Said) : mid = h[m]
  BY <1>5, <1>8, <1>9 DEF Traces
<1>14. Traces(e, mid, b, k)
  <2>1. e \in [0..k -> Seq(Said)] /\ e[0] = mid
    BY <1>5, <1>7, <1>8, <1>9, <1>13 DEF Traces
  <2>2. ASSUME NEW n \in 1..k PROVE e[n] = Applied(e[n - 1], b[n])
    <3>1. h[m + n] = Applied(h[(m + n) - 1], c[m + n])
      BY <1>5, <1>10 DEF Traces
    <3>2. e[n] = h[m + n] /\ e[n - 1] = h[m + (n - 1)]
      BY <1>7, <1>10
    <3>3. QED
      BY <1>4, <1>10, <3>1, <3>2
  <2>3. QED
    BY <2>1, <2>2 DEF Traces
<1>15. Replay(mid, b) = h[m + k]
  <2>1. Replay(mid, b) = e[k]
    BY <1>3, <1>14, ReplayTrace
  <2>2. QED
    BY <1>7, <1>8, <2>1
<1>16. Replay(items, c) = h[m + k]
  BY <1>4, <1>5, ReplayTrace
<1>17. QED
  BY <1>1, <1>12, <1>13, <1>15, <1>16

LEMMA ReplayHead ==
    ASSUME NEW items \in Seq(Said), NEW msgs \in Seq(Msgs), msgs # <<>>
    PROVE  /\ Head(msgs) \in Msgs /\ Tail(msgs) \in Seq(Msgs)
           /\ Replay(items, msgs) = Replay(Applied(items, Head(msgs)), Tail(msgs))
<1>1. Head(msgs) \in Msgs /\ Tail(msgs) \in Seq(Msgs) /\ msgs = <<Head(msgs)>> \o Tail(msgs)
  BY SMT
<1>2. PICK m \in Msgs : m = Head(msgs)
  BY <1>1
<1>3. PICK rest \in Seq(Msgs) : rest = Tail(msgs)
  BY <1>1
<1>4. PICK one \in Seq(Msgs) : one = <<m>>
  <2>1. <<m>> \in Seq(Msgs)
    BY SMT
  <2>2. QED
    BY <2>1
<1>5. Replay(items, one \o rest) = Replay(Replay(items, one), rest)
  BY ReplayConcat
<1>6. Replay(items, one) = Applied(items, m)
  BY <1>4, ReplayFew
<1>7. QED
  BY <1>1, <1>2, <1>3, <1>4, <1>5, <1>6

\* Behind a rewrite it does not matter what the file was.
IsRewrite(msg) == msg.op \in {"replace", "strip"}
HasRewrite(msgs) == \E n \in 1..Len(msgs) : IsRewrite(msgs[n])

LEMMA ReplayAny ==
    ASSUME NEW items \in Seq(Said), NEW others \in Seq(Said), NEW msgs \in Seq(Msgs), HasRewrite(msgs)
    PROVE  Replay(items, msgs) = Replay(others, msgs)
<1>1. PICK n \in Nat : n = Len(msgs)
  BY SMT
<1>2. PICK k \in 1..n : IsRewrite(msgs[k])
  BY <1>1 DEF HasRewrite
<1>3. PICK g : Traces(g, items, msgs, n)
  BY <1>1, TraceExists
<1>4. PICK h : Traces(h, others, msgs, n)
  BY <1>1, TraceExists
<1> DEFINE T == {m \in Nat : k + m <= n => g[k + m] = h[k + m]}
<1>5. 0 \in T
  <2>1. \A items1 : Applied(items1, msgs[k]) = msgs[k].items
    BY <1>2, Zenon DEF Applied, IsRewrite
  <2>2. g[k] = h[k]
    BY <1>3, <1>4, <2>1 DEF Traces
  <2>3. k + 0 = k
    BY SMT
  <2>4. QED
    BY <2>2, <2>3
<1>6. ASSUME NEW m \in Nat, m \in T PROVE m + 1 \in T
  <2>1. ASSUME k + (m + 1) <= n PROVE g[k + (m + 1)] = h[k + (m + 1)]
    <3>1. k + m <= n /\ k + (m + 1) \in 1..n /\ (k + (m + 1)) - 1 = k + m
      BY <2>1, SMT
    <3>2. g[k + m] = h[k + m]
      BY <1>6, <3>1
    <3>3. QED
      BY <1>3, <1>4, <3>1, <3>2 DEF Traces
  <2>2. QED
    BY <2>1
<1>7. n - k \in T
  <2>1. n - k \in Nat
    BY SMT
  <2> HIDE DEF T
  <2>2. QED
    BY <1>5, <1>6, <2>1, SetInduction
<1>8. g[n] = h[n]
  <2>1. k + (n - k) = n
    BY SMT
  <2>2. QED
    BY <1>7, <2>1, SMT
<1>9. QED
  BY <1>1, <1>3, <1>4, <1>8, ReplayTrace

----------------------------------------------------------------------------
(* Reading the file *)

Lines == Said \cup {Torn}
Files == [lines : Seq(Lines), open : BOOLEAN]

LEMMA KeepSame ==
    ASSUME NEW S, NEW s \in Seq(S), NEW k, NEW l, \A i \in 1..Len(s) : i \in k <=> i \in l
    PROVE  Keep(s, k) = Keep(s, l)
<1>1. DOMAIN s = 1..Len(s)
  BY SMT
<1>2. [i \in DOMAIN s |-> IF i \in k THEN <<s[i]>> ELSE <<>>]
        = [i \in DOMAIN s |-> IF i \in l THEN <<s[i]>> ELSE <<>>]
  BY <1>1, Zenon
<1>3. QED
  BY <1>2, Zenon DEF Keep

LEMMA KeepAppend ==
    ASSUME NEW S, NEW s \in Seq(S), NEW x \in S, NEW kept
    PROVE  Keep(Append(s, x), kept)
             = IF Len(s) + 1 \in kept THEN Append(Keep(s, kept), x) ELSE Keep(s, kept)
<1>0. Append(s, x) \in Seq(S)
  BY SMT
<1>1. PICK u \in Seq(S) : u = Append(s, x)
  BY <1>0
<1>2. PICK n \in Nat : n = Len(s)
  BY SMT
<1>3. Len(u) = n + 1 /\ u[n + 1] = x /\ \A j \in 1..n : u[j] = s[j]
  BY <1>1, <1>2, SMT
<1>4. PICK t \in Seq(S) : t = Keep(s, kept)
  BY KeepPicks
<1>5. PICK f : Picks(s, t, f, kept)
  BY <1>4, KeepPicks
<1>6. PICK v \in Seq(S) : v = Keep(u, kept)
  BY KeepPicks
<1>7. PICK g : Picks(u, v, g, kept)
  BY <1>6, KeepPicks
<1>8. PICK m \in Nat : m = Len(t)
  BY SMT
<1>9. PICK l \in Nat : l = Len(v)
  BY SMT
<1>10. /\ f \in [1..m -> 1..n] /\ Increasing(f, m)
       /\ \A p \in 1..m : t[p] = s[f[p]] /\ f[p] \in kept
       /\ \A i \in 1..n : i \in kept => \E p \in 1..m : f[p] = i
  BY <1>2, <1>5, <1>8 DEF Picks
<1>11. /\ g \in [1..l -> 1..(n + 1)] /\ Increasing(g, l)
       /\ \A p \in 1..l : v[p] = u[g[p]] /\ g[p] \in kept
       /\ \A i \in 1..(n + 1) : i \in kept => \E p \in 1..l : g[p] = i
  BY <1>3, <1>7, <1>9 DEF Picks
<1>12. Selects(u, v, g)
  BY <1>3, <1>9, <1>11 DEF Selects
<1>13. \A i \in 1..n : i \in 1..(n + 1) /\ i < n + 1
  BY SMT
<1>14. \A i \in 1..(n + 1) : i # n + 1 => i \in 1..n
  BY SMT
<1>15. n + 1 \in 1..(n + 1)
  BY SMT
<1>16. CASE n + 1 \notin kept
  <2>1. f \in [1..m -> 1..(n + 1)]
    BY <1>10, <1>13
  <2>2. \A p \in 1..m : t[p] = u[f[p]]
    BY <1>3, <1>10
  <2>3. Selects(u, t, f)
    BY <1>3, <1>8, <1>10, <2>1, <2>2 DEF Selects
  <2>4. Within(f, m, g, l)
    <3>1. ASSUME NEW p \in 1..m PROVE \E q \in 1..l : f[p] = g[q]
      <4>1. f[p] \in 1..(n + 1) /\ f[p] \in kept
        BY <1>10, <2>1
      <4>2. PICK q \in 1..l : g[q] = f[p]
        BY <1>11, <4>1
      <4>3. QED
        BY <4>2
    <3>2. QED
      BY <3>1 DEF Within
  <2>5. Within(g, l, f, m)
    <3>1. ASSUME NEW q \in 1..l PROVE \E p \in 1..m : g[q] = f[p]
      <4>1. g[q] \in 1..n /\ g[q] \in kept
        BY <1>11, <1>14, <1>16
      <4>2. PICK p \in 1..m : f[p] = g[q]
        BY <1>10, <4>1
      <4>3. QED
        BY <4>2
    <3>2. QED
      BY <3>1 DEF Within
  <2>6. t = v
    BY <1>8, <1>9, <1>12, <2>3, <2>4, <2>5, SamePicks
  <2>7. QED
    BY <1>1, <1>2, <1>4, <1>6, <1>16, <2>6
<1>17. CASE n + 1 \in kept
  <2>0. Append(t, x) \in Seq(S)
    BY SMT
  <2>1. PICK w \in Seq(S) : w = Append(t, x)
    BY <2>0
  <2>2. Len(w) = m + 1 /\ w[m + 1] = x /\ \A j \in 1..m : w[j] = t[j]
    BY <1>8, <2>1, SMT
  <2>3. PICK e : e = [p \in 1..(m + 1) |-> IF p = m + 1 THEN n + 1 ELSE f[p]]
    OBVIOUS
  <2>4. \A p \in 1..(m + 1) : p # m + 1 => p \in 1..m
    BY SMT
  <2>5. m + 1 \in 1..(m + 1) /\ \A p \in 1..m : p \in 1..(m + 1) /\ p # m + 1
    BY SMT
  <2>6. e[m + 1] = n + 1 /\ \A p \in 1..m : e[p] = f[p]
    BY <2>3, <2>5
  <2>7. e \in [1..(m + 1) -> 1..(n + 1)]
    BY <1>10, <1>13, <1>15, <2>3, <2>4
  <2>8. Increasing(e, m + 1)
    <3>1. ASSUME NEW p \in 1..(m + 1), NEW q \in 1..(m + 1), p < q PROVE e[p] < e[q]
      <4>1. p \in 1..m
        BY <3>1, SMT
      <4>2. CASE q = m + 1
        BY <1>10, <1>13, <2>6, <4>1, <4>2
      <4>3. CASE q # m + 1
        BY <1>10, <2>4, <2>6, <3>1, <4>1, <4>3 DEF Increasing
      <4>4. QED
        BY <4>2, <4>3
    <3>2. QED
      BY <3>1 DEF Increasing
  <2>9. ASSUME NEW p \in 1..(m + 1) PROVE w[p] = u[e[p]]
    <3>1. CASE p = m + 1
      BY <1>3, <2>2, <2>6, <3>1
    <3>2. CASE p # m + 1
      <4>1. p \in 1..m /\ f[p] \in 1..n
        BY <1>10, <2>4, <3>2
      <4>2. w[p] = t[p] /\ e[p] = f[p]
        BY <2>2, <2>6, <4>1
      <4>3. t[p] = s[f[p]]
        BY <1>10, <4>1
      <4>4. s[f[p]] = u[f[p]]
        BY <1>3, <4>1
      <4>5. QED
        BY <4>2, <4>3, <4>4, Zenon
    <3>3. QED
      BY <3>1, <3>2
  <2>10. Selects(u, w, e)
    BY <1>3, <2>2, <2>7, <2>8, <2>9 DEF Selects
  <2>11. Within(e, m + 1, g, l)
    <3>1. ASSUME NEW p \in 1..(m + 1) PROVE \E q \in 1..l : e[p] = g[q]
      <4>1. e[p] \in 1..(n + 1) /\ e[p] \in kept
        BY <1>10, <1>17, <2>4, <2>6, <2>7
      <4>2. PICK q \in 1..l : g[q] = e[p]
        BY <1>11, <4>1
      <4>3. QED
        BY <4>2
    <3>2. QED
      BY <3>1 DEF Within
  <2>12. Within(g, l, e, m + 1)
    <3>1. ASSUME NEW q \in 1..l PROVE \E p \in 1..(m + 1) : g[q] = e[p]
      <4>1. CASE g[q] = n + 1
        BY <2>5, <2>6, <4>1
      <4>2. CASE g[q] # n + 1
        <5>1. g[q] \in 1..n /\ g[q] \in kept
          BY <1>11, <1>14, <4>2
        <5>2. PICK p \in 1..m : f[p] = g[q]
          BY <1>10, <5>1
        <5>3. QED
          BY <2>5, <2>6, <5>2
      <4>3. QED
        BY <4>1, <4>2
    <3>2. QED
      BY <3>1 DEF Within
  <2>13. w = v
    BY <1>9, <1>12, <2>2, <2>10, <2>11, <2>12, SamePicks
  <2>14. QED
    BY <1>1, <1>2, <1>4, <1>6, <1>17, <2>1, <2>13
<1>18. QED
  BY <1>16, <1>17

\* The positions of the lines that parse.
Parses(lines) == {i \in DOMAIN lines : lines[i] # Torn}

LEMMA ReadPicks ==
    ASSUME NEW lines \in Seq(Lines), NEW open
    PROVE  /\ ReadChat(File(lines, open)) \in Seq(Said)
           /\ \E f : Picks(lines, ReadChat(File(lines, open)), f, Parses(lines))
<1>1. ReadChat(File(lines, open)) = Keep(lines, Parses(lines))
  BY DEF ReadChat, File, Parses
<1>2. PICK read \in Seq(Lines) : read = Keep(lines, Parses(lines))
  BY KeepPicks
<1>3. PICK f : Picks(lines, read, f, Parses(lines))
  BY <1>2, KeepPicks
<1>4. Len(read) \in Nat /\ DOMAIN lines = 1..Len(lines)
  BY SMT
<1>5. ASSUME NEW p \in 1..Len(read) PROVE read[p] \in Said
  <2>1. f[p] \in 1..Len(lines) /\ read[p] = lines[f[p]] /\ f[p] \in Parses(lines)
    BY <1>3 DEF Picks
  <2>2. lines[f[p]] \in Lines /\ lines[f[p]] # Torn
    BY <1>4, <2>1 DEF Parses
  <2>3. QED
    BY <2>1, <2>2 DEF Lines
<1>6. read \in Seq(Said)
  BY <1>4, <1>5, SMT
<1>7. QED
  BY <1>1, <1>2, <1>3, <1>6

LEMMA ReadAll ==
    ASSUME NEW lines \in Seq(Said), NEW open
    PROVE  lines \in Seq(Lines) /\ ReadChat(File(lines, open)) = lines
<1>1. lines \in Seq(Lines)
  BY SMT DEF Lines
<1>2. DOMAIN lines = 1..Len(lines) /\ \A i \in 1..Len(lines) : lines[i] \in Said
  BY SMT
<1>3. \A i \in 1..Len(lines) : i \in Parses(lines)
  BY <1>2, SaidFacts DEF Parses
<1>4. Keep(lines, Parses(lines)) = lines
  BY <1>1, <1>3, KeepAll
<1>5. QED
  BY <1>1, <1>4 DEF ReadChat, File, Parses

LEMMA ReadAppend ==
    ASSUME NEW lines \in Seq(Lines), NEW x \in Lines, NEW open, NEW open1
    PROVE  /\ Append(lines, x) \in Seq(Lines)
           /\ ReadChat(File(Append(lines, x), open1))
                = IF x = Torn THEN ReadChat(File(lines, open)) ELSE Append(ReadChat(File(lines, open)), x)
<1>1. Append(lines, x) \in Seq(Lines)
  BY SMT
<1>2. PICK more \in Seq(Lines) : more = Append(lines, x)
  BY <1>1
<1>3. PICK n \in Nat : n = Len(lines)
  BY SMT
<1>4. /\ Len(more) = n + 1 /\ more[n + 1] = x /\ \A j \in 1..n : more[j] = lines[j]
      /\ DOMAIN more = 1..(n + 1) /\ DOMAIN lines = 1..n
      /\ n + 1 \in 1..(n + 1) /\ \A j \in 1..n : j \in 1..(n + 1)
  BY <1>2, <1>3, SMT
<1>5. PICK kept : kept = Parses(more)
  OBVIOUS
<1>6. n + 1 \in kept <=> x # Torn
  BY <1>4, <1>5 DEF Parses
<1>7. \A i \in 1..Len(lines) : i \in kept <=> i \in Parses(lines)
  BY <1>3, <1>4, <1>5 DEF Parses
<1>8. Keep(lines, kept) = Keep(lines, Parses(lines))
  BY <1>7, KeepSame
<1>9. Keep(more, kept) = IF n + 1 \in kept THEN Append(Keep(lines, kept), x) ELSE Keep(lines, kept)
  BY <1>2, <1>3, KeepAppend
<1>10. ReadChat(File(lines, open)) = Keep(lines, Parses(lines))
  BY DEF ReadChat, File, Parses
<1>11. ReadChat(File(more, open1)) = Keep(more, kept)
  BY <1>5 DEF ReadChat, File, Parses
<1>12. QED
  BY <1>1, <1>2, <1>6, <1>8, <1>9, <1>10, <1>11

----------------------------------------------------------------------------
(* What a repair pass does, whatever it is about *)

\* t is s with some results removed and some synthetic ones added: f says which item each
\* one was, 0 for the new ones.
IsSynthetic(x) == IsResult(x) /\ x.by = 0 /\ x.body \in Reasons

Moves(s, t, f) ==
    /\ f \in [1..Len(t) -> 0..Len(s)]
    /\ \A p \in 1..Len(t) : IF f[p] = 0 THEN IsSynthetic(t[p]) ELSE t[p] = s[f[p]]
    /\ \A p, q \in 1..Len(t) : p < q /\ f[p] # 0 /\ f[q] # 0 => f[p] < f[q]
    /\ \A i \in 1..Len(s) : ~IsResult(s[i]) => \E p \in 1..Len(t) : f[p] = i

Reworks(s, t) == \E f : Moves(s, t, f)

LEMMA ThinnedReworks ==
    ASSUME NEW s, NEW t, Len(s) \in Nat, NEW f, NEW kept, Picks(s, t, f, kept), KeepsSpoken(s, kept)
    PROVE  Reworks(s, t)
<1>1. PICK n \in Nat : n = Len(s)
  OBVIOUS
<1>2. \A i \in 1..n : i \in 0..n /\ i # 0
  BY SMT
<1>3. f \in [1..Len(t) -> 0..n] /\ \A p \in 1..Len(t) : f[p] # 0
  BY <1>1, <1>2 DEF Picks
<1>4. Moves(s, t, f)
  BY <1>1, <1>3 DEF Moves, Picks, KeepsSpoken, Increasing
<1>5. QED
  BY <1>4 DEF Reworks

LEMMA MissingSynthetic ==
    ASSUME NEW S, NEW conv \in Seq(S), NEW reason \in Reasons, Answerable(S, reason),
           NEW i \in 1..Len(conv), NEW k \in 1..Len(Missing(conv, i, reason))
    PROVE  IsSynthetic(Missing(conv, i, reason)[k])
<1>1. PICK mm \in Seq(S) : mm = Missing(conv, i, reason)
  BY MissingType
<1>2. k \in DOMAIN mm
  BY <1>1, SMT
<1>3. \E open : mm = [j \in DOMAIN open |-> Synthetic(open[j], reason)]
  BY <1>1 DEF Missing
<1>4. PICK open : mm = [j \in DOMAIN open |-> Synthetic(open[j], reason)]
  BY <1>3
<1>5. mm[k] = Synthetic(open[k], reason)
  BY <1>2, <1>4
<1>6. QED
  BY <1>1, <1>5 DEF IsSynthetic, Synthetic, Item, IsResult

LEMMA RepairReworks ==
    ASSUME NEW S, NEW conv \in Seq(S), NEW reason \in Reasons, Answerable(S, reason)
    PROVE  Reworks(conv, RepairDangling(conv, reason))
<1>1. PICK r \in Seq(S) : r = RepairDangling(conv, reason)
  BY RepairBlocks
<1>2. PICK off : Blocks(conv, r, off, reason)
  BY <1>1, RepairBlocks
<1>3. PICK n \in Nat : n = Len(conv)
  BY SMT
<1>4. PICK m \in Nat : m = Len(r)
  BY SMT
<1> DEFINE Own(x) == {i \in 1..n : x = Start(off, i)}
           f == [x \in 1..m |-> IF Own(x) = {} THEN 0 ELSE CHOOSE i \in Own(x) : TRUE]
<1>5. ASSUME NEW x \in 1..m
      PROVE  /\ f[x] \in 0..n
             /\ f[x] # 0 => f[x] \in 1..n /\ x = Start(off, f[x])
             /\ f[x] = 0 => Own(x) = {}
  <2>1. CASE Own(x) = {}
    <3>1. f[x] = 0 /\ 0 \in 0..n
      BY <2>1
    <3>2. QED
      BY <2>1, <3>1
  <2>2. CASE Own(x) # {}
    <3>1. f[x] \in Own(x)
      <4>1. f[x] = CHOOSE i \in Own(x) : TRUE
        BY <2>2
      <4> HIDE DEF Own
      <4>2. \E i \in Own(x) : TRUE
        BY <2>2
      <4>3. (CHOOSE i \in Own(x) : TRUE) \in Own(x)
        BY <4>2, Zenon
      <4>4. QED
        BY <4>1, <4>3
    <3>2. f[x] \in 1..n /\ x = Start(off, f[x])
      BY <3>1
    <3>3. f[x] \in 0..n /\ f[x] # 0
      <4> HIDE DEF f, Own
      <4>1. QED
        BY <3>2, SMT
    <3>4. QED
      BY <3>2, <3>3
  <2>3. QED
    BY <2>1, <2>2
<1>6. f \in [1..m -> 0..n]
  BY <1>5
<1>7. \A x \in 1..m : \A i \in 1..n : x = Start(off, i) => i \in Own(x)
  OBVIOUS
<1> HIDE DEF Own, f
<1>8. ASSUME NEW i \in 1..n, NEW j \in 1..n, i < j PROVE Start(off, i) < Start(off, j)
  BY <1>2, <1>3, <1>8, StartFacts
<1>9. \A i \in 1..n : Start(off, i) \in 1..m /\ r[Start(off, i)] = conv[i]
  BY <1>2, <1>3, <1>4, StartFacts
<1>10. ASSUME NEW x \in 1..m, NEW y \in 1..m, x < y, f[x] # 0, f[y] # 0 PROVE f[x] < f[y]
  <2>1. f[x] \in 1..n /\ f[y] \in 1..n /\ x = Start(off, f[x]) /\ y = Start(off, f[y])
    BY <1>5, <1>10
  <2>2. f[y] < f[x] \/ f[y] = f[x] \/ f[x] < f[y]
    BY <2>1, SMT
  <2>3. ~(f[y] < f[x])
    <3>1. SUFFICES ASSUME f[y] < f[x] PROVE FALSE
      OBVIOUS
    <3>2. y < x
      BY <1>8, <2>1, <3>1
    <3>3. QED
      BY <1>10, <3>2, SMT
  <2>4. f[y] # f[x]
    <3>1. x # y
      BY <1>10, SMT
    <3>2. QED
      BY <2>1, <3>1
  <2>5. QED
    BY <2>2, <2>3, <2>4
<1>11. ASSUME NEW x \in 1..m PROVE IF f[x] = 0 THEN IsSynthetic(r[x]) ELSE r[x] = conv[f[x]]
  <2>1. CASE f[x] = 0
    <3>1. PICK i \in 1..Len(conv) :
              \/ x = Start(off, i) /\ r[x] = conv[i]
              \/ \E k \in 1..Len(Missing(conv, i, reason)) :
                    x = Start(off, i) + k /\ r[x] = Missing(conv, i, reason)[k]
      BY <1>2, <1>4, BlockAt
    <3>2. x # Start(off, i)
      BY <1>3, <1>5, <1>7, <2>1
    <3>3. PICK k \in 1..Len(Missing(conv, i, reason)) : r[x] = Missing(conv, i, reason)[k]
      BY <3>1, <3>2
    <3>4. QED
      BY <2>1, <3>3, MissingSynthetic
  <2>2. CASE f[x] # 0
    BY <1>5, <1>9, <2>2
  <2>3. QED
    BY <2>1, <2>2
<1>12. ASSUME NEW i \in 1..n PROVE \E x \in 1..m : f[x] = i
  <2>1. PICK x \in 1..m : x = Start(off, i)
    BY <1>9
  <2>2. f[x] # 0
    BY <1>5, <1>7, <2>1
  <2>3. f[x] \in 1..n /\ Start(off, f[x]) = Start(off, i)
    BY <1>5, <2>1, <2>2
  <2>4. f[x] < i \/ f[x] = i \/ i < f[x]
    BY <2>3, SMT
  <2>5. Start(off, i) \in Nat
    BY <1>9, SMT
  <2>6. ~(Start(off, i) < Start(off, i))
    BY <2>5, SMT
  <2>7. f[x] = i
    BY <1>8, <2>3, <2>4, <2>6
  <2>8. QED
    BY <2>7
<1>13. Moves(conv, r, f)
  BY <1>3, <1>4, <1>6, <1>10, <1>11, <1>12 DEF Moves
<1>14. QED
  BY <1>1, <1>13 DEF Reworks

LEMMA ReworksTwice ==
    ASSUME NEW s, NEW t, NEW u, Len(s) \in Nat, Len(t) \in Nat, Reworks(s, t), Reworks(t, u)
    PROVE  Reworks(s, u)
<1>1. PICK f : Moves(s, t, f)
  BY DEF Reworks
<1>2. PICK g : Moves(t, u, g)
  BY DEF Reworks
<1>3. PICK n \in Nat : n = Len(s)
  OBVIOUS
<1>4. PICK m \in Nat : m = Len(t)
  OBVIOUS
<1>5. PICK h : h = [p \in 1..Len(u) |-> IF g[p] = 0 THEN 0 ELSE f[g[p]]]
  OBVIOUS
<1>6. 0 \in 0..n /\ \A i \in 0..m : i # 0 => i \in 1..m
  BY SMT
<1>7. /\ f \in [1..m -> 0..n] /\ g \in [1..Len(u) -> 0..m]
      /\ \A p \in 1..m : IF f[p] = 0 THEN IsSynthetic(t[p]) ELSE t[p] = s[f[p]]
      /\ \A p \in 1..Len(u) : IF g[p] = 0 THEN IsSynthetic(u[p]) ELSE u[p] = t[g[p]]
  BY <1>1, <1>2, <1>3, <1>4 DEF Moves
<1>8. \A p \in 1..Len(u) : g[p] # 0 => g[p] \in 1..m /\ h[p] = f[g[p]]
  BY <1>5, <1>6, <1>7
<1>9. \A p \in 1..Len(u) : g[p] = 0 => h[p] = 0
  BY <1>5
<1>10. h \in [1..Len(u) -> 0..n]
  BY <1>5, <1>6, <1>7
<1>11. ASSUME NEW p \in 1..Len(u) PROVE IF h[p] = 0 THEN IsSynthetic(u[p]) ELSE u[p] = s[h[p]]
  <2>1. CASE g[p] = 0
    BY <1>7, <1>9, <2>1
  <2>2. CASE g[p] # 0
    <3>1. u[p] = t[g[p]] /\ g[p] \in 1..m /\ h[p] = f[g[p]]
      BY <1>7, <1>8, <2>2
    <3>2. QED
      BY <1>7, <3>1
  <2>3. QED
    BY <2>1, <2>2
<1>12. ASSUME NEW p \in 1..Len(u), NEW q \in 1..Len(u), p < q, h[p] # 0, h[q] # 0 PROVE h[p] < h[q]
  <2>1. g[p] # 0 /\ g[q] # 0
    BY <1>9, <1>12
  <2>2. g[p] < g[q]
    BY <1>2, <1>12, <2>1 DEF Moves
  <2>3. QED
    BY <1>1, <1>4, <1>8, <1>12, <2>1, <2>2 DEF Moves
<1>13. ASSUME NEW i \in 1..n, ~IsResult(s[i]) PROVE \E p \in 1..Len(u) : h[p] = i
  <2>1. PICK j \in 1..m : f[j] = i
    BY <1>1, <1>3, <1>4, <1>13 DEF Moves
  <2>2. i # 0 /\ j # 0
    BY SMT
  <2>3. t[j] = s[i]
    BY <1>7, <2>1, <2>2
  <2>4. PICK p \in 1..Len(u) : g[p] = j
    BY <1>2, <1>4, <1>13, <2>3 DEF Moves
  <2>5. h[p] = i
    BY <1>8, <2>1, <2>2, <2>4
  <2>6. QED
    BY <2>5
<1>14. Moves(s, u, h)
  BY <1>3, <1>10, <1>11, <1>12, <1>13 DEF Moves
<1>15. QED
  BY <1>14 DEF Reworks

LEMMA PassReworks ==
    ASSUME NEW conv \in Seq(Said)
    PROVE  Reworks(conv, Integrity(conv, "cancelled")) /\ Reworks(conv, RepairHistory(conv))
<1>1. Answerable(Said, "cancelled") /\ Answerable(Said, "halted") /\ "cancelled" \in Reasons /\ "halted" \in Reasons
  BY SaidAnswerable DEF Bodies, Reasons
<1>2. PICK t \in Seq(Said) : t = Dedup(conv)
  BY DedupThins
<1>3. Len(conv) \in Nat /\ Len(t) \in Nat
  BY SMT
<1>4. Reworks(conv, t)
  <2>1. PICK f : Thinned(conv, t, f, KeptByDedup(conv))
    BY <1>2, DedupThins
  <2>2. QED
    BY <1>3, <2>1, ThinnedReworks DEF Thinned
<1>5. PICK u \in Seq(Said) : u = StripDisplaced(t)
  BY StripThins
<1>6. Len(u) \in Nat
  BY SMT
<1>7. Reworks(t, u)
  <2>1. PICK f : Thinned(t, u, f, KeptByStrip(t))
    BY <1>5, StripThins
  <2>2. QED
    BY <1>3, <2>1, ThinnedReworks DEF Thinned
<1>8. Reworks(conv, u)
  BY <1>3, <1>4, <1>7, ReworksTwice
<1>9. Reworks(t, RepairDangling(t, "cancelled")) /\ Reworks(u, RepairDangling(u, "halted"))
  BY <1>1, RepairReworks
<1>10. Reworks(conv, RepairDangling(t, "cancelled"))
  BY <1>3, <1>4, <1>9, ReworksTwice
<1>11. Reworks(conv, RepairDangling(u, "halted"))
  BY <1>3, <1>6, <1>8, <1>9, ReworksTwice
<1>12. QED
  BY <1>2, <1>5, <1>10, <1>11 DEF Integrity, RepairHistory

----------------------------------------------------------------------------
(* Switches *)

IsSwitch(x) == GenerationOf(x) = 1

\* The only switch there may be is s, and it is there at most once.
OneSwitch(items, s) ==
    \A i, j \in 1..Len(items) :
        IsSwitch(items[i]) => items[i] = s /\ (IsSwitch(items[j]) => i = j)

NoSwitch(items) == \A i \in 1..Len(items) : ~IsSwitch(items[i])

LEMMA NotSwitch ==
    ASSUME NEW x, IsResult(x) \/ x.kind # "user" \/ x.body \notin SwitchTexts
    PROVE  ~IsSwitch(x)
BY DEF IsSwitch, GenerationOf, IsUser, IsResult

LEMMA OneSwitchReworks ==
    ASSUME NEW c, NEW d, Len(c) \in Nat, Len(d) \in Nat, Reworks(c, d), NEW s, OneSwitch(c, s)
    PROVE  OneSwitch(d, s)
<1>1. PICK f : Moves(c, d, f)
  BY DEF Reworks
<1>2. PICK n \in Nat : n = Len(c)
  OBVIOUS
<1>3. PICK m \in Nat : m = Len(d)
  OBVIOUS
<1>4. ASSUME NEW p \in 1..m, IsSwitch(d[p]) PROVE f[p] \in 1..n /\ d[p] = c[f[p]] /\ f[p] # 0
  <2>1. f[p] # 0
    BY <1>1, <1>3, <1>4, NotSwitch DEF Moves, IsSynthetic
  <2>2. f[p] \in 0..n /\ d[p] = c[f[p]]
    BY <1>1, <1>2, <1>3, <2>1 DEF Moves
  <2>3. QED
    BY <2>1, <2>2, SMT
<1>5. ASSUME NEW p \in 1..m, NEW q \in 1..m, IsSwitch(d[p]), IsSwitch(d[q]), p < q PROVE FALSE
  <2>1. f[p] < f[q]
    BY <1>1, <1>3, <1>4, <1>5 DEF Moves
  <2>2. f[p] = f[q]
    BY <1>2, <1>4, <1>5 DEF OneSwitch
  <2>3. f[p] \in Nat
    BY <1>4, <1>5, SMT
  <2>4. QED
    BY <2>1, <2>2, <2>3, SMT
<1>6. \A p, q \in 1..m : p < q \/ p = q \/ q < p
  BY SMT
<1>7. \A p \in 1..m : IsSwitch(d[p]) => d[p] = s
  BY <1>2, <1>4 DEF OneSwitch
<1>8. QED
  BY <1>3, <1>5, <1>6, <1>7 DEF OneSwitch

LEMMA OneSwitchSame ==
    ASSUME NEW c, NEW d, Len(d) = Len(c), \A i \in 1..Len(c) : IsSwitch(d[i]) => d[i] = c[i],
           NEW s, OneSwitch(c, s)
    PROVE  OneSwitch(d, s)
<1>1. \A i \in 1..Len(c) : IsSwitch(d[i]) => IsSwitch(c[i]) /\ d[i] = c[i]
  BY Zenon
<1>2. QED
  BY <1>1, Zenon DEF OneSwitch

LEMMA OneSwitchAppend ==
    ASSUME NEW S, NEW c \in Seq(S), NEW x \in S, NEW s, OneSwitch(c, s),
           ~IsSwitch(x) \/ (x = s /\ NoSwitch(c))
    PROVE  OneSwitch(Append(c, x), s)
<1>1. PICK n \in Nat : n = Len(c)
  BY SMT
<1>2. PICK d : d = Append(c, x)
  OBVIOUS
<1>3. Len(d) = n + 1 /\ d[n + 1] = x /\ \A j \in 1..n : d[j] = c[j]
  BY <1>1, <1>2, SMT
<1>4. \A i \in 1..(n + 1) : i = n + 1 \/ i \in 1..n
  BY SMT
<1>5. ASSUME NEW i \in 1..(n + 1), NEW j \in 1..(n + 1), IsSwitch(d[i])
      PROVE  d[i] = s /\ (IsSwitch(d[j]) => i = j)
  <2>1. CASE ~IsSwitch(x)
    BY <1>1, <1>3, <1>4, <1>5, <2>1 DEF OneSwitch
  <2>2. CASE x = s /\ NoSwitch(c)
    BY <1>1, <1>3, <1>4, <1>5, <2>2 DEF NoSwitch
  <2>3. QED
    BY <2>1, <2>2
<1>6. QED
  BY <1>2, <1>3, <1>5 DEF OneSwitch

LEMMA OneSwitchPicks ==
    ASSUME NEW c, NEW d, Len(d) \in Nat, Len(c) \in Nat, NEW f, NEW kept, Picks(c, d, f, kept),
           NEW s, OneSwitch(c, s)
    PROVE  OneSwitch(d, s)
<1>1. PICK m \in Nat : m = Len(d)
  OBVIOUS
<1>2. /\ f \in [1..m -> 1..Len(c)] /\ \A p \in 1..m : d[p] = c[f[p]]
      /\ \A p, q \in 1..m : p < q => f[p] < f[q]
  BY <1>1 DEF Picks, Increasing
<1>3. ASSUME NEW p \in 1..m, NEW q \in 1..m, IsSwitch(d[p]), IsSwitch(d[q]), p < q PROVE FALSE
  <2>1. f[p] < f[q]
    BY <1>2, <1>3
  <2>2. f[p] = f[q]
    BY <1>2, <1>3 DEF OneSwitch
  <2>3. f[p] \in Nat
    BY <1>2, SMT
  <2>4. QED
    BY <2>1, <2>2, <2>3, SMT
<1>4. \A p, q \in 1..m : p < q \/ p = q \/ q < p
  BY SMT
<1>5. \A p \in 1..m : IsSwitch(d[p]) => d[p] = s
  BY <1>2 DEF OneSwitch
<1>6. QED
  BY <1>1, <1>3, <1>4, <1>5 DEF OneSwitch

\* What find_cwd_switch_generation finds.
LEMMA SwitchesFound ==
    ASSUME NEW S, NEW items \in Seq(S), NEW s, OneSwitch(items, s)
    PROVE  /\ SwitchesOf(items, 1) = <<>> \/ SwitchesOf(items, 1) = <<s>>
           /\ SwitchesOf(items, 1) = <<>> <=> NoSwitch(items)
<1>0. DOMAIN items = 1..Len(items) /\ Len(items) \in Nat
  BY SMT
<1>1. PICK kept : kept = {i \in DOMAIN items : IsSwitch(items[i])}
  OBVIOUS
<1>2. PICK t \in Seq(S) : t = Keep(items, kept)
  BY KeepPicks
<1>3. SwitchesOf(items, 1) = t
  BY <1>1, <1>2 DEF SwitchesOf, IsSwitch
<1>4. PICK f : Picks(items, t, f, kept)
  BY <1>2, KeepPicks
<1>5. PICK m \in Nat : m = Len(t)
  BY SMT
<1>6. /\ f \in [1..m -> 1..Len(items)] /\ \A p, q \in 1..m : p < q => f[p] < f[q]
      /\ \A p \in 1..m : t[p] = items[f[p]] /\ IsSwitch(items[f[p]])
      /\ \A i \in 1..Len(items) : IsSwitch(items[i]) => \E p \in 1..m : f[p] = i
  BY <1>0, <1>1, <1>4, <1>5 DEF Picks, Increasing
<1>7. ~(m >= 2)
  <2>1. SUFFICES ASSUME m >= 2 PROVE FALSE
    OBVIOUS
  <2>2. 1 \in 1..m /\ 2 \in 1..m /\ 1 < 2
    BY <2>1, SMT
  <2>3. f[1] < f[2] /\ f[1] = f[2] /\ f[1] \in 1..Len(items)
    BY <1>6, <2>2 DEF OneSwitch
  <2>4. QED
    BY <2>3, SMT
<1>8. m = 0 \/ m = 1
  BY <1>7, SMT
<1>9. ASSUME m = 0 PROVE t = <<>>
  <2>1. <<>> \in Seq(S) /\ Len(<<>>) = Len(t) /\ 1..Len(t) = {}
    BY <1>5, <1>9, SMT
  <2>2. QED
    BY <2>1, SameSeq
<1>10. ASSUME m = 1 PROVE t = <<s>> /\ t # <<>>
  <2>1. 1 \in 1..m
    BY <1>10, SMT
  <2>2. t[1] = s
    BY <1>6, <2>1 DEF OneSwitch
  <2>3. Len(t) = 1
    BY <1>5, <1>10
  <2>4. QED
    BY <2>2, <2>3, SMT
<1>11. m = 0 <=> NoSwitch(items)
  <2>1. m = 0 => 1..m = {}
    BY SMT
  <2>2. m = 1 => 1 \in 1..m
    BY SMT
  <2>3. QED
    BY <1>6, <1>8, <2>1, <2>2 DEF NoSwitch
<1>12. QED
  BY <1>3, <1>8, <1>9, <1>10, <1>11

----------------------------------------------------------------------------
(* The actor's commands *)

States == [conv : Seq(Said), prompt : Nat, capture : {NoCapture}]

\* A command makes d of the conversation c and posts out: written behind each other, the
\* messages make d of a file of c; none has a switch that was not there, and none takes
\* away one that stays.
Posts(c, d, out) ==
    /\ d \in Seq(Said) /\ out \in Seq(Msgs)
    /\ \A k \in 1..Len(out) :
          /\ Single(out[k]) /\ out[k].op # "switch"
          /\ out[k].op = "chat" => ~IsSwitch(out[k].items[1])
    /\ Replay(c, out) = d
    /\ \A s : OneSwitch(c, s) => OneSwitch(d, s) /\ \A k \in 1..Len(out) : OneSwitch(out[k].items, s)
    /\ ~NoSwitch(d) => \A k \in 1..Len(out) : IsRewrite(out[k]) => ~NoSwitch(out[k].items)

LEMMA PostsNothing == ASSUME NEW c \in Seq(Said) PROVE Posts(c, c, <<>>)
<1>1. <<>> \in Seq(Msgs) /\ 1..Len(<<>>) = {}
  BY SMT
<1>2. Replay(c, <<>>) = c
  BY ReplayFew
<1>3. QED
  BY <1>1, <1>2 DEF Posts

LEMMA PostsOne ==
    ASSUME NEW c \in Seq(Said), NEW d \in Seq(Said), NEW m \in Msgs, Single(m), m.op # "switch",
           m.op = "chat" => ~IsSwitch(m.items[1]), Applied(c, m) = d,
           \A s : OneSwitch(c, s) => OneSwitch(d, s) /\ OneSwitch(m.items, s)
    PROVE  Posts(c, d, <<m>>)
<1>1. <<m>> \in Seq(Msgs)
  BY SMT
<1>2. PICK out \in Seq(Msgs) : out = <<m>>
  BY <1>1
<1>3. \A k \in 1..Len(out) : out[k] = m
  BY <1>2, SMT
<1>4. Replay(c, out) = d
  BY <1>2, ReplayFew
<1>5. IsRewrite(m) => m.items = d
  BY DEF Applied, IsRewrite
<1>6. Posts(c, d, out)
  BY <1>3, <1>4, <1>5 DEF Posts
<1>7. QED
  BY <1>2, <1>6

\* No handler makes a switch.
LEMMA NoNewSwitch ==
    ASSUME NEW c, NEW d, \A s : OneSwitch(c, s) => OneSwitch(d, s), NoSwitch(c)
    PROVE  NoSwitch(d)
<1>1. OneSwitch(c, 1) /\ OneSwitch(c, 2)
  BY DEF OneSwitch, NoSwitch
<1>2. OneSwitch(d, 1) /\ OneSwitch(d, 2)
  BY <1>1
<1>3. ASSUME NEW i \in 1..Len(d), IsSwitch(d[i]) PROVE FALSE
  <2>1. d[i] = 1 /\ d[i] = 2
    BY <1>2, <1>3 DEF OneSwitch
  <2>2. QED
    BY <2>1, SMT
<1>4. QED
  BY <1>3 DEF NoSwitch

LEMMA PostsBoth ==
    ASSUME NEW c \in Seq(Said), NEW d, NEW e, NEW a, NEW b, Posts(c, d, a), Posts(d, e, b)
    PROVE  Posts(c, e, a \o b)
<1>1. d \in Seq(Said) /\ e \in Seq(Said) /\ a \in Seq(Msgs) /\ b \in Seq(Msgs)
  BY DEF Posts
<1>2. PICK o \in Seq(Msgs) : o = a \o b
  BY <1>1, ConcatFacts
<1>3. \A k \in 1..Len(o) : (\E i \in 1..Len(a) : o[k] = a[i]) \/ (\E i \in 1..Len(b) : o[k] = b[i])
  <2>1. PICK n \in Nat : n = Len(a)
    BY <1>1, SMT
  <2>2. PICK l \in Nat : l = Len(b)
    BY <1>1, SMT
  <2>3. /\ Len(o) = n + l /\ \A k \in 1..n : o[k] = a[k]
        /\ \A k \in 1..l : o[n + k] = b[k]
    BY <1>1, <1>2, <2>1, <2>2, ConcatFacts
  <2>4. ASSUME NEW k \in 1..(n + l), k \notin 1..n PROVE \E i \in 1..l : o[k] = b[i]
    <3>1. k - n \in 1..l /\ n + (k - n) = k
      BY <2>4, SMT
    <3>2. QED
      BY <2>3, <3>1
  <2>5. QED
    BY <2>1, <2>2, <2>3, <2>4
<1>4. Replay(c, o) = e
  <2>1. Replay(c, o) = Replay(Replay(c, a), b)
    BY <1>1, <1>2, ReplayConcat
  <2>2. QED
    BY <2>1 DEF Posts
<1>5. ASSUME NEW k \in 1..Len(o)
      PROVE  /\ Single(o[k]) /\ o[k].op # "switch" /\ (o[k].op = "chat" => ~IsSwitch(o[k].items[1]))
             /\ \A s : OneSwitch(c, s) => OneSwitch(o[k].items, s)
             /\ ~NoSwitch(e) /\ IsRewrite(o[k]) => ~NoSwitch(o[k].items)
  <2> ~NoSwitch(e) => ~NoSwitch(d)
    BY NoNewSwitch DEF Posts
  <2>1. CASE \E i \in 1..Len(a) : o[k] = a[i]
    BY <2>1 DEF Posts
  <2>2. CASE \E i \in 1..Len(b) : o[k] = b[i]
    BY <2>2 DEF Posts
  <2>3. QED
    BY <1>3, <2>1, <2>2
<1>6. \A s : OneSwitch(c, s) => OneSwitch(e, s)
  BY DEF Posts
<1>7. Posts(c, e, o)
  BY <1>1, <1>4, <1>5, <1>6 DEF Posts
<1>8. QED
  BY <1>2, <1>7

\* A rewrite, with or without a copy, and one that is posted only if it changes anything.
LEMMA PostsRewrite ==
    ASSUME NEW c \in Seq(Said), NEW d \in Seq(Said), \A s : OneSwitch(c, s) => OneSwitch(d, s)
    PROVE  /\ Posts(c, d, <<Replace(d)>>) /\ Posts(c, d, <<Strip(d)>>)
           /\ Posts(c, d, IF d = c THEN <<>> ELSE <<Replace(d)>>)
           /\ Posts(c, d, IF d = c THEN <<>> ELSE <<Strip(d)>>)
<1>1. Replace(d) \in Msgs /\ Strip(d) \in Msgs
  BY DEF Msgs, Replace, Strip
<1>2. PICK m \in Msgs : m = Replace(d)
  BY <1>1
<1>3. PICK l \in Msgs : l = Strip(d)
  BY <1>1
<1>4. m.items = d /\ m.op = "replace" /\ l.items = d /\ l.op = "strip"
  BY <1>2, <1>3 DEF Replace, Strip
<1>5. Applied(c, m) = d /\ Applied(c, l) = d
  BY <1>4 DEF Applied
<1>6. Posts(c, d, <<m>>)
  BY <1>4, <1>5, PostsOne DEF Single
<1>7. Posts(c, d, <<l>>)
  BY <1>4, <1>5, PostsOne DEF Single
<1>8. d = c => Posts(c, d, <<>>)
  BY PostsNothing
<1>9. QED
  BY <1>2, <1>3, <1>6, <1>7, <1>8

LEMMA PostsPush ==
    ASSUME NEW c \in Seq(Said), NEW x \in Said, ~IsSwitch(x)
    PROVE  Posts(c, Append(c, x), <<Chat(x)>>)
<1>1. <<x>> \in Seq(Said) /\ Append(c, x) \in Seq(Said) /\ Append(c, x) = c \o <<x>>
  BY SMT
<1>2. Chat(x) \in Msgs
  BY <1>1 DEF Msgs, Chat
<1>3. PICK m \in Msgs : m = Chat(x)
  BY <1>2
<1>4. m.op = "chat" /\ m.items = <<x>>
  BY <1>3 DEF Chat
<1>5. Len(m.items) = 1 /\ m.items[1] = x /\ \A i \in 1..Len(m.items) : m.items[i] = x
  BY <1>4, SMT
<1>6. PICK d \in Seq(Said) : d = Append(c, x)
  BY <1>1
<1>7. Applied(c, m) = d
  BY <1>1, <1>4, <1>6 DEF Applied
<1>8. \A s : OneSwitch(m.items, s)
  BY <1>5 DEF OneSwitch
<1>9. \A s : OneSwitch(c, s) => OneSwitch(d, s)
  BY <1>6, OneSwitchAppend
<1>10. Posts(c, d, <<m>>)
  BY <1>4, <1>5, <1>7, <1>8, <1>9, PostsOne DEF Single
<1>11. QED
  BY <1>3, <1>6, <1>10

\* The passes bring no switch that was not there.
LEMMA SwitchThroughPass ==
    ASSUME NEW c \in Seq(Said), NEW s, OneSwitch(c, s)
    PROVE  /\ OneSwitch(Integrity(c, "cancelled"), s) /\ OneSwitch(RepairHistory(c), s)
           /\ OneSwitch(StripImages(c), s)
           /\ \A prompt, age : OneSwitch(PruneRetained(c, prompt, age), s)
<1>1. DOMAIN c = 1..Len(c) /\ Len(c) \in Nat /\ \A i \in 1..Len(c) : c[i] \in Said
  BY SMT
<1>2. Len(Integrity(c, "cancelled")) \in Nat /\ Len(RepairHistory(c)) \in Nat
  BY PassTypes, LenNat
<1>3. OneSwitch(Integrity(c, "cancelled"), s) /\ OneSwitch(RepairHistory(c), s)
  BY <1>1, <1>2, PassReworks, OneSwitchReworks
<1>4. OneSwitch(StripImages(c), s)
  <2>1. PICK d : d = StripImages(c)
    OBVIOUS
  <2>2. Len(d) = Len(c)
    BY <2>1, PassTypes
  <2>3. ASSUME NEW i \in 1..Len(c), IsSwitch(d[i]) PROVE d[i] = c[i]
    <3>1. d[i] = IF c[i].body = "image" THEN [c[i] EXCEPT !.body = "stripped"] ELSE c[i]
      BY <1>1, <2>1 DEF StripImages
    <3>2. [c[i] EXCEPT !.body = "stripped"].body = "stripped"
      BY <1>1 DEF Said
    <3>3. "stripped" \notin SwitchTexts
      BY DEF SwitchTexts
    <3>4. QED
      BY <2>3, <3>1, <3>2, <3>3, NotSwitch
  <2>4. QED
    BY <2>1, <2>2, <2>3, OneSwitchSame
<1>5. ASSUME NEW prompt, NEW age PROVE OneSwitch(PruneRetained(c, prompt, age), s)
  <2>1. PICK d : d = PruneRetained(c, prompt, age)
    OBVIOUS
  <2>2. Len(d) = Len(c)
    BY <2>1, PassTypes
  <2>3. ASSUME NEW i \in 1..Len(c), IsSwitch(d[i]) PROVE d[i] = c[i]
    <3>1. d[i] = c[i] \/ (IsResult(c[i]) /\ d[i] = [c[i] EXCEPT !.body = Cleared])
      BY <1>1, <2>1 DEF PruneRetained
    <3>2. [c[i] EXCEPT !.body = Cleared].body = Cleared
      BY <1>1 DEF Said
    <3>3. Cleared \notin SwitchTexts
      BY DEF SwitchTexts, Cleared
    <3>4. QED
      BY <2>3, <3>1, <3>2, <3>3, NotSwitch
  <2>4. QED
    BY <2>1, <2>2, <2>3, OneSwitchSame
<1>6. QED
  BY <1>3, <1>4, <1>5

\* d is c with a reminder in its first item, or with one more item that is the reminder.
RemindedAt(c, d, k) ==
    /\ Len(d) = Len(c) + k /\ 1 \in 1..Len(d)
    /\ d[1].kind = "system" /\ d[1].body = Reminded
    /\ \A j \in 1..Len(d) : j # 1 => j - k \in 1..Len(c) /\ d[j] = c[j - k]
    /\ \A i \in 1..Len(c) : i + k \in 1..Len(d) /\ (i + k = 1 => c[i].kind = "system")

LEMMA RemindFacts ==
    ASSUME NEW c \in Seq(Said)
    PROVE  SystemHead(c, Reminded) \in Seq(Said) /\ \E k \in {0, 1} : RemindedAt(c, SystemHead(c, Reminded), k)
<1>1. PICK n \in Nat : n = Len(c)
  BY SMT
<1>2. DOMAIN c = 1..n /\ \A i \in 1..n : c[i] \in Said
  BY <1>1, SMT
<1>3. CASE c # <<>> /\ c[1].kind = "system"
  <2>1. n > 0 /\ Tail(c) \in Seq(Said) /\ Len(Tail(c)) = n - 1 /\ \A i \in 1..(n - 1) : Tail(c)[i] = c[i + 1]
    BY <1>1, <1>3, SMT
  <2>2. 1 \in 1..n
    BY <2>1, SMT
  <2>3. PICK x \in Said : x = [c[1] EXCEPT !.body = Reminded]
    <3>1. Reminded \in Bodies
      BY DEF Reminded, Bodies
    <3>2. QED
      BY <1>2, <2>2, <3>1, SaidFacts
  <2>4. x.kind = "system" /\ x.body = Reminded
    BY <1>2, <1>3, <2>2, <2>3 DEF Said
  <2>5. PICK t \in Seq(Said) : t = Tail(c)
    BY <2>1
  <2>6. /\ <<x>> \o t \in Seq(Said) /\ Len(<<x>> \o t) = n /\ (<<x>> \o t)[1] = x
        /\ \A j \in 2..n : (<<x>> \o t)[j] = t[j - 1]
    BY <2>1, <2>5, SMT
  <2>7. PICK d \in Seq(Said) : d = <<x>> \o t
    BY <2>6
  <2>8. d = SystemHead(c, Reminded)
    BY <1>3, <2>3, <2>5, <2>7 DEF SystemHead
  <2>9. ASSUME NEW j \in 1..n, j # 1 PROVE d[j] = c[j]
    <3>1. j \in 2..n /\ j - 1 \in 1..(n - 1) /\ (j - 1) + 1 = j
      BY <2>9, SMT
    <3>2. d[j] = t[j - 1] /\ t[j - 1] = c[(j - 1) + 1]
      BY <2>1, <2>5, <2>6, <2>7, <3>1
    <3>3. QED
      BY <3>1, <3>2
  <2>10. n + 0 = n /\ \A j \in 1..n : j - 0 = j /\ j + 0 = j
    BY SMT
  <2>11. RemindedAt(c, d, 0)
    BY <1>1, <1>3, <2>2, <2>4, <2>6, <2>7, <2>9, <2>10 DEF RemindedAt
  <2>12. QED
    BY <2>8, <2>11
<1>4. CASE ~(c # <<>> /\ c[1].kind = "system")
  <2>1. PICK x \in Said : x = System(Reminded)
    BY SaidFacts
  <2>2. x.kind = "system" /\ x.body = Reminded
    BY <2>1 DEF System, Item
  <2>3. /\ <<x>> \o c \in Seq(Said) /\ Len(<<x>> \o c) = n + 1 /\ (<<x>> \o c)[1] = x
        /\ \A j \in 2..(n + 1) : (<<x>> \o c)[j] = c[j - 1]
    BY <1>1, SMT
  <2>4. PICK d \in Seq(Said) : d = <<x>> \o c
    BY <2>3
  <2>5. d = SystemHead(c, Reminded)
    BY <1>4, <2>1, <2>4 DEF SystemHead
  <2>6. ASSUME NEW j \in 1..(n + 1), j # 1 PROVE j - 1 \in 1..n /\ d[j] = c[j - 1]
    <3>1. j \in 2..(n + 1) /\ j - 1 \in 1..n
      BY <2>6, SMT
    <3>2. QED
      BY <2>3, <2>4, <3>1
  <2>7. 1 \in 1..(n + 1) /\ \A i \in 1..n : i + 1 \in 1..(n + 1) /\ i + 1 # 1
    BY SMT
  <2>8. RemindedAt(c, d, 1)
    BY <1>1, <2>2, <2>3, <2>4, <2>6, <2>7 DEF RemindedAt
  <2>9. QED
    BY <2>5, <2>8
<1>5. QED
  BY <1>3, <1>4

LEMMA SwitchThroughReminder ==
    ASSUME NEW c \in Seq(Said), NEW s, OneSwitch(c, s)
    PROVE  OneSwitch(SystemHead(c, Reminded), s)
<1>1. PICK d \in Seq(Said) : d = SystemHead(c, Reminded)
  BY RemindFacts
<1>2. PICK k \in {0, 1} : RemindedAt(c, d, k)
  BY <1>1, RemindFacts
<1>3. ~IsSwitch(d[1])
  BY <1>2, NotSwitch DEF RemindedAt
<1>4. \A j \in 1..Len(d) : IsSwitch(d[j]) => j - k \in 1..Len(c) /\ d[j] = c[j - k]
  BY <1>2, <1>3 DEF RemindedAt
<1>5. PICK n \in Nat : n = Len(d)
  BY SMT
<1>6. \A i, j \in 1..n : i - k = j - k => i = j
  BY SMT
<1>7. QED
  BY <1>1, <1>4, <1>5, <1>6 DEF OneSwitch

\* A handler's effect on the state s.
Handles(s, e) == e.st \in States /\ e.st.prompt = s.prompt /\ Posts(s.conv, e.st.conv, e.out)

\* Without a capture a rewrite only changes the conversation.
LEMMA RewrittenFacts ==
    ASSUME NEW s \in States, NEW c \in Seq(Said)
    PROVE  /\ Rewritten(s, c) = [s EXCEPT !.conv = c]
           /\ [s EXCEPT !.conv = c] \in States
           /\ [s EXCEPT !.conv = c].conv = c /\ [s EXCEPT !.conv = c].prompt = s.prompt
<1>1. s.capture.on = FALSE
  BY DEF States, NoCapture
<1>2. QED
  BY <1>1 DEF Rewritten, States

LEMMA HandlesBy ==
    ASSUME NEW s \in States, NEW c \in Seq(Said), NEW e, e.st = [s EXCEPT !.conv = c],
           Posts(s.conv, c, e.out)
    PROVE  Handles(s, e)
<1>1. PICK t : t = [s EXCEPT !.conv = c]
  OBVIOUS
<1>2. t \in States /\ t.conv = c /\ t.prompt = s.prompt
  BY <1>1, RewrittenFacts
<1>3. QED
  BY <1>1, <1>2 DEF Handles

LEMMA EnsureIntegrityHandles ==
    ASSUME NEW s \in States PROVE Handles(s, EnsureIntegrity(s, "cancelled"))
<1>1. s.conv \in Seq(Said)
  BY DEF States
<1>2. PICK c \in Seq(Said) : c = Integrity(s.conv, "cancelled")
  BY <1>1, PassTypes
<1>3. PICK e : e = EnsureIntegrity(s, "cancelled")
  OBVIOUS
<1>4. e.st = [s EXCEPT !.conv = c] /\ e.out = IF c = s.conv THEN <<>> ELSE <<Replace(c)>>
  BY <1>2, <1>3, RewrittenFacts DEF EnsureIntegrity, Effect
<1>5. \A x : OneSwitch(s.conv, x) => OneSwitch(c, x)
  BY <1>1, <1>2, SwitchThroughPass
<1>6. Posts(s.conv, c, IF c = s.conv THEN <<>> ELSE <<Replace(c)>>)
  BY <1>1, <1>5, PostsRewrite
<1>7. Posts(s.conv, c, e.out)
  BY <1>4, <1>6
<1>8. QED
  BY <1>3, <1>4, <1>7, HandlesBy

LEMMA InjectHandles ==
    ASSUME NEW s \in States
    PROVE  /\ Handles(s, InjectReminder(s))
           /\ InjectReminder(s).st.conv = SystemHead(s.conv, Reminded)
           /\ InjectReminder(s).out = IF SystemHead(s.conv, Reminded) = s.conv THEN <<>>
                                      ELSE <<Replace(SystemHead(s.conv, Reminded))>>
<1>1. PICK b \in Seq(Said) : b = s.conv
  BY DEF States
<1>2. PICK c \in Seq(Said) : c = SystemHead(b, Reminded)
  BY RemindFacts
<1>3. PICK e : e = InjectReminder(s)
  OBVIOUS
<1>4. e.st = [s EXCEPT !.conv = c] /\ e.out = IF c = b THEN <<>> ELSE <<Replace(c)>>
  BY <1>1, <1>2, <1>3, RewrittenFacts DEF InjectReminder, Effect
<1>5. \A x : OneSwitch(b, x) => OneSwitch(c, x)
  BY <1>2, SwitchThroughReminder
<1>6. Posts(b, c, IF c = b THEN <<>> ELSE <<Replace(c)>>)
  BY <1>5, PostsRewrite
<1>7. Handles(s, e)
  BY <1>1, <1>4, <1>6, HandlesBy
<1>8. e.st.conv = c
  BY <1>4, RewrittenFacts
<1>9. QED
  BY <1>1, <1>2, <1>3, <1>4, <1>7, <1>8

\* A request without and with a reminder.
LEMMA BuildSteps ==
    ASSUME NEW s, NEW a, a = EnsureIntegrity(s, "cancelled")
    PROVE  /\ BuildRequest(s, FALSE) = a
           /\ BuildRequest(s, TRUE).st = InjectReminder(a.st).st
           /\ BuildRequest(s, TRUE).out = a.out \o InjectReminder(a.st).out
BY DEF BuildRequest, Effect

LEMMA BuildHandles ==
    ASSUME NEW s \in States, NEW reminder \in BOOLEAN PROVE Handles(s, BuildRequest(s, reminder))
<1>1. PICK a : a = EnsureIntegrity(s, "cancelled")
  OBVIOUS
<1>2. PICK b : b = InjectReminder(a.st)
  OBVIOUS
<1>3. Handles(s, a) /\ a.st \in States
  BY <1>1, EnsureIntegrityHandles DEF Handles
<1>4. Handles(a.st, b)
  BY <1>2, <1>3, InjectHandles
<1>5. PICK c \in Seq(Said) : c = s.conv
  BY DEF States
<1>6. Posts(c, a.st.conv, a.out) /\ Posts(a.st.conv, b.st.conv, b.out)
  BY <1>3, <1>4, <1>5 DEF Handles
<1>7. Posts(c, b.st.conv, a.out \o b.out)
  BY <1>6, PostsBoth
<1>8. CASE reminder = FALSE
  <2>1. BuildRequest(s, FALSE) = a
    BY <1>1, BuildSteps
  <2>2. QED
    BY <1>3, <1>8, <2>1
<1>9. CASE reminder = TRUE
  <2>1. PICK e : e = BuildRequest(s, TRUE)
    OBVIOUS
  <2>2. e.st = b.st /\ e.out = a.out \o b.out
    BY <1>1, <1>2, <2>1, BuildSteps
  <2>3. Handles(s, e)
    BY <1>3, <1>4, <1>5, <1>7, <2>2 DEF Handles
  <2>4. QED
    BY <1>9, <2>1, <2>3
<1>10. QED
  BY <1>8, <1>9

LEMMA PushMessageHandles ==
    ASSUME NEW s \in States, NEW x \in Said, ~IsSwitch(x) PROVE Handles(s, PushMessage(s, x))
<1>1. s.conv \in Seq(Said)
  BY DEF States
<1>2. Append(s.conv, x) \in Seq(Said)
  BY <1>1, SMT
<1>3. PICK c \in Seq(Said) : c = Append(s.conv, x)
  BY <1>2
<1>4. PICK e : e = PushMessage(s, x)
  OBVIOUS
<1>5. e.st = [s EXCEPT !.conv = c] /\ e.out = <<Chat(x)>>
  BY <1>3, <1>4 DEF PushMessage, Effect
<1>6. Posts(s.conv, c, <<Chat(x)>>)
  BY <1>1, <1>3, PostsPush
<1>7. Posts(s.conv, c, e.out)
  BY <1>5, <1>6
<1>8. QED
  BY <1>4, <1>5, <1>7, HandlesBy

LEMMA PruneHandles ==
    ASSUME NEW s \in States PROVE Handles(s, Prune(s))
<1>1. s.conv \in Seq(Said)
  BY DEF States
<1>2. PICK c \in Seq(Said) : c = PruneRetained(s.conv, s.prompt, HardClearAge)
  BY <1>1, PassTypes
<1>3. PICK e : e = Prune(s)
  OBVIOUS
<1>4. e.st = [s EXCEPT !.conv = c] /\ e.out = IF c = s.conv THEN <<>> ELSE <<Replace(c)>>
  BY <1>2, <1>3 DEF Prune, Effect
<1>5. \A x : OneSwitch(s.conv, x) => OneSwitch(c, x)
  BY <1>1, <1>2, SwitchThroughPass
<1>6. Posts(s.conv, c, IF c = s.conv THEN <<>> ELSE <<Replace(c)>>)
  BY <1>1, <1>5, PostsRewrite
<1>7. Posts(s.conv, c, e.out)
  BY <1>4, <1>6
<1>8. QED
  BY <1>3, <1>4, <1>7, HandlesBy

LEMMA PushUserMessageHandles ==
    ASSUME NEW s \in States, NEW x \in Said, ~IsSwitch(x)
    PROVE  Handles(s, PushUserMessage(s, x, "cancelled"))
<1>1. PICK a : a = EnsureIntegrity(s, "cancelled")
  OBVIOUS
<1>2. Handles(s, a)
  BY <1>1, EnsureIntegrityHandles
<1>3. PICK b : b = PushMessage(a.st, x)
  OBVIOUS
<1>4. Handles(a.st, b)
  BY <1>2, <1>3, PushMessageHandles DEF Handles
<1>5. PICK d : d = Prune(b.st)
  OBVIOUS
<1>6. Handles(b.st, d)
  BY <1>4, <1>5, PruneHandles DEF Handles
<1>7. PICK e : e = PushUserMessage(s, x, "cancelled")
  OBVIOUS
<1>8. e.st = d.st /\ e.out = (a.out \o b.out) \o d.out
  BY <1>1, <1>3, <1>5, <1>7 DEF PushUserMessage, Effect
<1>9. s.conv \in Seq(Said)
  BY DEF States
<1>10. Posts(s.conv, b.st.conv, a.out \o b.out)
  BY <1>2, <1>4, <1>9, PostsBoth DEF Handles
<1>11. Posts(s.conv, d.st.conv, (a.out \o b.out) \o d.out)
  BY <1>6, <1>9, <1>10, PostsBoth DEF Handles
<1>12. QED
  BY <1>2, <1>4, <1>6, <1>7, <1>8, <1>11 DEF Handles

LEMMA ReplaceConversationFacts ==
    ASSUME NEW s \in States, NEW c \in Seq(Said), NEW b \in BOOLEAN
    PROVE  /\ ReplaceConversation(s, c, b).st = [s EXCEPT !.conv = c]
           /\ ReplaceConversation(s, c, b).out = <<Replace(c)>>
<1>1. s.capture = NoCapture /\ NoCapture.on = FALSE
  BY DEF States, NoCapture
<1>2. [NoCapture EXCEPT !.compacted = @ \/ (b /\ FALSE)] = NoCapture
  <2>1. (NoCapture.compacted \/ (b /\ FALSE)) = FALSE
    BY DEF NoCapture
  <2>2. NoCapture \in [on : {FALSE}, offset : {0}, pre : {<<>>}, compacted : {FALSE}]
    BY DEF NoCapture
  <2>3. PICK r \in [on : {FALSE}, offset : {0}, pre : {<<>>}, compacted : {FALSE}] : r = NoCapture
    BY <2>2
  <2>4. [r EXCEPT !.compacted = FALSE] = r
    OBVIOUS
  <2>5. QED
    BY <2>1, <2>3, <2>4
<1>3. PICK t \in States : t = [s EXCEPT !.conv = c]
  BY RewrittenFacts
<1>4. t.capture = NoCapture
  BY <1>3 DEF States
<1>5. [t EXCEPT !.capture.compacted = @ \/ (b /\ s.capture.on)] = t
  <2>1. [t EXCEPT !.capture = [t.capture EXCEPT !.compacted = @ \/ (b /\ s.capture.on)]] = [t EXCEPT !.capture = t.capture]
    BY <1>1, <1>2, <1>4
  <2>2. [t EXCEPT !.capture = t.capture] = t
    BY DEF States
  <2>3. QED
    BY <2>1, <2>2
<1>6. Rewritten(s, c) = t
  BY <1>3, RewrittenFacts
<1>7. QED
  BY <1>3, <1>5, <1>6 DEF ReplaceConversation, Effect

LEMMA ReplaceHandles ==
    ASSUME NEW s \in States, NEW c \in Seq(Said), NEW b \in BOOLEAN,
           \A x : OneSwitch(s.conv, x) => OneSwitch(c, x)
    PROVE  Handles(s, ReplaceConversation(s, c, b))
<1>1. s.conv \in Seq(Said)
  BY DEF States
<1>2. Posts(s.conv, c, <<Replace(c)>>)
  BY <1>1, PostsRewrite
<1>3. PICK e : e = ReplaceConversation(s, c, b)
  OBVIOUS
<1>4. e.st = [s EXCEPT !.conv = c] /\ Posts(s.conv, c, e.out)
  BY <1>2, <1>3, ReplaceConversationFacts
<1>5. QED
  BY <1>3, <1>4, HandlesBy

LEMMA RepairHandles ==
    ASSUME NEW s \in States
    PROVE  /\ Handles(s, DoRepairHistory(s))
           /\ DoRepairHistory(s).st.conv = RepairHistory(s.conv)
           /\ DoRepairHistory(s).out = <<>> \/ DoRepairHistory(s).out = <<Replace(DoRepairHistory(s).st.conv)>>
<1>1. s.conv \in Seq(Said)
  BY DEF States
<1>2. PICK c \in Seq(Said) : c = RepairHistory(s.conv)
  BY <1>1, PassTypes
<1>3. CASE c = s.conv
  <2>1. DoRepairHistory(s).st = s /\ DoRepairHistory(s).out = <<>>
    BY <1>2, <1>3 DEF DoRepairHistory, Effect
  <2>2. Posts(s.conv, s.conv, <<>>)
    BY <1>1, PostsNothing
  <2>3. QED
    BY <1>2, <1>3, <2>1, <2>2 DEF Handles
<1>4. CASE c # s.conv
  <2>1. <<>> \in Seq(Said)
    BY SMT
  <2>2. PICK t \in States : t = [s EXCEPT !.conv = <<>>]
    BY <2>1, RewrittenFacts
  <2>3. [t EXCEPT !.conv = c] = [s EXCEPT !.conv = c]
    BY <2>2 DEF States
  <2>4. DoRepairHistory(s) = ReplaceConversation(t, c, FALSE)
    BY <1>2, <1>4, <2>2 DEF DoRepairHistory
  <2>5. DoRepairHistory(s).st = [s EXCEPT !.conv = c] /\ DoRepairHistory(s).out = <<Replace(c)>>
    BY <2>3, <2>4, ReplaceConversationFacts
  <2>6. Posts(s.conv, c, <<Replace(c)>>)
    BY <1>1, <1>2, SwitchThroughPass, PostsRewrite
  <2>7. Handles(s, DoRepairHistory(s))
    BY <2>5, <2>6, HandlesBy
  <2>8. [s EXCEPT !.conv = c].conv = c
    BY RewrittenFacts
  <2>9. QED
    BY <1>2, <2>5, <2>7, <2>8
<1>5. QED
  BY <1>3, <1>4

LEMMA StripHandles ==
    ASSUME NEW s \in States PROVE Handles(s, StripConversationImages(s))
<1>1. s.conv \in Seq(Said)
  BY DEF States
<1>2. PICK c \in Seq(Said) : c = StripImages(s.conv)
  BY <1>1, PassTypes
<1>3. PICK e : e = StripConversationImages(s)
  OBVIOUS
<1>4. e.st = [s EXCEPT !.conv = c] /\ e.out = IF c = s.conv THEN <<>> ELSE <<Strip(c)>>
  BY <1>2, <1>3 DEF StripConversationImages, Effect
<1>5. \A x : OneSwitch(s.conv, x) => OneSwitch(c, x)
  BY <1>1, <1>2, SwitchThroughPass
<1>6. Posts(s.conv, c, IF c = s.conv THEN <<>> ELSE <<Strip(c)>>)
  BY <1>1, <1>5, PostsRewrite
<1>7. Posts(s.conv, c, e.out)
  BY <1>4, <1>6
<1>8. QED
  BY <1>3, <1>4, <1>7, HandlesBy

----------------------------------------------------------------------------
(* Writes *)

LEMMA FileFacts ==
    ASSUME NEW fl \in Files
    PROVE  /\ fl.lines \in Seq(Lines) /\ fl = File(fl.lines, fl.open)
           /\ ReadChat(fl) \in Seq(Said)
           /\ \E f : Picks(fl.lines, ReadChat(fl), f, Parses(fl.lines))
<1>1. fl.lines \in Seq(Lines) /\ fl = File(fl.lines, fl.open)
  BY DEF Files, File
<1>2. PICK lines \in Seq(Lines) : lines = fl.lines
  BY <1>1
<1>3. PICK open : open = fl.open
  OBVIOUS
<1>4. QED
  BY <1>1, <1>2, <1>3, ReadPicks

LEMMA AppendFacts ==
    ASSUME NEW fl \in Files, NEW x \in Said, NEW how
    PROVE  /\ AppendLine(fl, x, how) \in Files
           /\ ReadChat(AppendLine(fl, x, how))
                = IF how \in {"none", "torn"} THEN ReadChat(fl) ELSE Append(ReadChat(fl), x)
           /\ \/ AppendLine(fl, x, how).lines = fl.lines
              \/ AppendLine(fl, x, how).lines = Append(fl.lines, Torn)
              \/ how \notin {"none", "torn"} /\ AppendLine(fl, x, how).lines = Append(fl.lines, x)
<1>1. PICK lines \in Seq(Lines) : lines = fl.lines
  BY FileFacts
<1>2. PICK open : open = fl.open
  OBVIOUS
<1>3. fl = File(lines, open)
  BY <1>1, <1>2, FileFacts
<1>4. CASE how = "none"
  BY <1>4 DEF AppendLine
<1>5. CASE how # "none"
  <2>1. PICK y \in Lines : y = IF how = "torn" THEN Torn ELSE x
    BY DEF Lines
  <2>2. PICK open1 \in BOOLEAN : open1 = ~Written(how)
    OBVIOUS
  <2>3. PICK more \in Seq(Lines) : more = Append(lines, y)
    BY ReadAppend
  <2>4. AppendLine(fl, x, how) = File(more, open1)
    BY <1>1, <1>5, <2>1, <2>2, <2>3 DEF AppendLine
  <2>5. File(more, open1) \in Files /\ File(more, open1).lines = more
    BY DEF Files, File
  <2>6. ReadChat(File(more, open1))
          = IF y = Torn THEN ReadChat(File(lines, open)) ELSE Append(ReadChat(File(lines, open)), y)
    BY <2>3, ReadAppend
  <2>7. y = Torn <=> how = "torn"
    BY <2>1, SaidFacts
  <2>8. QED
    BY <1>1, <1>3, <1>5, <2>1, <2>3, <2>4, <2>5, <2>6, <2>7
<1>6. QED
  BY <1>4, <1>5

LEMMA RewriteFacts ==
    ASSUME NEW fl \in Files, NEW items \in Seq(Said), NEW how
    PROVE  /\ RewriteFile(fl, items, how) \in Files
           /\ ReadChat(RewriteFile(fl, items, how)) = IF Written(how) THEN items ELSE ReadChat(fl)
           /\ RewriteFile(fl, items, how).lines = IF Written(how) THEN items ELSE fl.lines
<1>1. CASE Written(how)
  <2>1. RewriteFile(fl, items, how) = File(items, FALSE)
    BY <1>1 DEF RewriteFile
  <2>2. items \in Seq(Lines) /\ ReadChat(File(items, FALSE)) = items
    BY ReadAll
  <2>3. File(items, FALSE) \in Files /\ File(items, FALSE).lines = items
    BY <2>2 DEF Files, File
  <2>4. QED
    BY <1>1, <2>1, <2>2, <2>3
<1>2. CASE ~Written(how)
  BY <1>2 DEF RewriteFile
<1>3. QED
  BY <1>1, <1>2

----------------------------------------------------------------------------
(* The type of the state, and what a step of the actor does *)

TypeInv ==
    /\ up \in BOOLEAN /\ awaiting \in BOOLEAN /\ lost \in BOOLEAN
    /\ st \in States /\ pending \subseteq Nat
    /\ queue \in Seq(Msgs)
    /\ file \in Files /\ backup \in [made : BOOLEAN, items : Seq(Said)]
    /\ durable \in Seq(Said) /\ left \in [OpNames -> Nat]

\* A switch is alone at the end of the channel, since the actor waits for it.
ChannelInv ==
    /\ ~up => queue = <<>> /\ ~awaiting
    /\ \A k \in 1..Len(queue) :
          /\ Single(queue[k])
          /\ queue[k].op = "chat" => ~IsSwitch(queue[k].items[1])
          /\ queue[k].op = "switch" => /\ k = Len(queue) /\ awaiting
                                       /\ \E text \in SwitchTexts : queue[k].items[1] = Switch(1, text)

\* A command of the turn.
Command ==
    /\ up /\ ~awaiting /\ st' \in States
    /\ \E out : Posts(st.conv, st'.conv, out) /\ queue' = queue \o out
    /\ UNCHANGED <<up, awaiting, file, backup, report, durable, lost>>

LEMMA UseType ==
    ASSUME left \in [OpNames -> Nat], NEW op \in OpNames, Use(op)
    PROVE  left' \in [OpNames -> Nat]
<1>1. left[op] \in Nat /\ left[op] > 0
  BY DEF Use
<1>2. left[op] - 1 \in Nat
  BY <1>1, SMT
<1>3. QED
  BY <1>2 DEF Use

LEMMA HandleIsCommand ==
    ASSUME NEW e, Handle(e), NEW s \in States, s.conv = st.conv, Handles(s, e)
    PROVE  Command
<1>1. st' = e.st /\ queue' = queue \o e.out /\ up /\ ~awaiting
  BY DEF Handle
<1>2. Posts(st.conv, st'.conv, e.out) /\ st' \in States
  BY <1>1 DEF Handles
<1>3. UNCHANGED <<up, awaiting, file, backup, report, durable, lost>>
  BY DEF Handle, disk, history
<1>4. QED
  BY <1>1, <1>2, <1>3 DEF Command

LEMMA UserMessageIsCommand ==
    ASSUME TypeInv, NEW body \in {"text", "image"}, UserMessage(body)
    PROVE  Command /\ pending' \subseteq Nat /\ left' \in [OpNames -> Nat]
<1>1. st \in States /\ st.prompt \in Nat /\ left \in [OpNames -> Nat]
  BY DEF TypeInv, States
<1>2. PICK s : s = IncrementPromptIndex(st).st
  OBVIOUS
<1>3. s = [st EXCEPT !.prompt = @ + 1]
  BY <1>2 DEF IncrementPromptIndex, Effect
<1>4. st.prompt + 1 \in Nat
  BY <1>1, SMT
<1>5. s \in States /\ s.conv = st.conv
  BY <1>1, <1>3, <1>4 DEF States
<1>6. body \in Bodies /\ body \notin SwitchTexts
  BY DEF Bodies, SwitchTexts
<1>7. PICK x : x = User(st.prompt + 1, body)
  OBVIOUS
<1>8. x \in Said
  BY <1>4, <1>6, <1>7, SaidFacts
<1>9. x.body = body
  BY <1>7 DEF User, Item
<1>10. ~IsSwitch(x)
  BY <1>6, <1>9, NotSwitch
<1>11. PICK e : e = PushUserMessage(s, x, "cancelled")
  OBVIOUS
<1>12. Handles(s, e) /\ Handle(e)
  BY <1>2, <1>5, <1>7, <1>8, <1>10, <1>11, PushUserMessageHandles DEF UserMessage
<1>13. Command
  BY <1>5, <1>12, HandleIsCommand
<1>14. left["user"] \in Nat /\ left["image"] \in Nat /\ left["user"] > 0 /\ (body = "image" => left["image"] > 0)
  BY <1>1 DEF UserMessage, OpNames
<1>15. left["user"] - 1 \in Nat /\ (IF body = "image" THEN left["image"] - 1 ELSE left["image"]) \in Nat
  BY <1>14, SMT
<1>16. left' = [left EXCEPT !["user"] = left["user"] - 1,
                            !["image"] = IF body = "image" THEN left["image"] - 1 ELSE left["image"]]
  BY <1>1 DEF UserMessage, OpNames
<1>17. left' \in [OpNames -> Nat]
  BY <1>1, <1>15, <1>16
<1>18. QED
  BY <1>13, <1>17 DEF UserMessage

LEMMA AssistantReplyIsCommand ==
    ASSUME TypeInv, NEW calls \in Seq(Nat), AssistantReply(calls)
    PROVE  Command /\ pending' \subseteq Nat /\ left' \in [OpNames -> Nat]
<1>1. st \in States /\ st.prompt \in Nat /\ left \in [OpNames -> Nat]
  BY DEF TypeInv, States
<1>2. PICK x : x = Assistant(st.prompt, calls)
  OBVIOUS
<1>3. x \in Said /\ x.kind = "assistant"
  BY <1>1, <1>2, SaidFacts DEF Assistant, Item
<1>4. ~IsSwitch(x)
  BY <1>3, NotSwitch
<1>5. PICK e : e = PushMessage(st, x)
  OBVIOUS
<1>6. Handles(st, e) /\ Handle(e)
  BY <1>1, <1>2, <1>3, <1>4, <1>5, PushMessageHandles DEF AssistantReply
<1>7. Command
  BY <1>1, <1>6, HandleIsCommand
<1>8. left' \in [OpNames -> Nat]
  BY <1>1, UseType DEF AssistantReply, OpNames
<1>9. ToSet(calls) \subseteq Nat
  <2>1. DOMAIN calls = 1..Len(calls) /\ \A i \in 1..Len(calls) : calls[i] \in Nat
    BY SMT
  <2>2. QED
    BY <2>1 DEF ToSet
<1>10. QED
  BY <1>7, <1>8, <1>9 DEF AssistantReply

LEMMA ToolResultIsCommand ==
    ASSUME TypeInv, NEW id \in pending, ToolResult(id)
    PROVE  Command /\ pending' \subseteq Nat /\ left' \in [OpNames -> Nat]
<1>1. st \in States /\ st.prompt \in Nat /\ id \in Nat /\ left \in [OpNames -> Nat] /\ pending \subseteq Nat
  BY DEF TypeInv, States
<1>2. PICK x : x = Result(id, st.prompt)
  OBVIOUS
<1>3. x \in Said /\ x.kind = "tool_result"
  BY <1>1, <1>2, SaidFacts DEF Result, Item
<1>4. ~IsSwitch(x)
  BY <1>3, NotSwitch
<1>5. PICK e : e = PushMessage(st, x)
  OBVIOUS
<1>6. Handles(st, e) /\ Handle(e)
  BY <1>1, <1>2, <1>3, <1>4, <1>5, PushMessageHandles DEF ToolResult
<1>7. Command
  BY <1>1, <1>6, HandleIsCommand
<1>8. QED
  BY <1>1, <1>7 DEF ToolResult

LEMMA InterjectIsCommand ==
    ASSUME TypeInv, Interject
    PROVE  Command /\ pending' \subseteq Nat /\ left' \in [OpNames -> Nat]
<1>1. st \in States /\ st.prompt \in Nat /\ left \in [OpNames -> Nat] /\ pending \subseteq Nat
  BY DEF TypeInv, States
<1>2. PICK x : x = User(st.prompt, "interjection")
  OBVIOUS
<1>3. x \in Said /\ x.body = "interjection"
  BY <1>1, <1>2, SaidFacts DEF User, Item, Bodies
<1>4. ~IsSwitch(x)
  BY <1>3, NotSwitch DEF SwitchTexts
<1>5. PICK e : e = PushUserMessage(st, x, "cancelled")
  OBVIOUS
<1>6. Handles(st, e) /\ Handle(e)
  BY <1>1, <1>2, <1>3, <1>4, <1>5, PushUserMessageHandles DEF Interject
<1>7. Command
  BY <1>1, <1>6, HandleIsCommand
<1>8. left' \in [OpNames -> Nat]
  BY <1>1, UseType DEF Interject, OpNames
<1>9. QED
  BY <1>1, <1>7, <1>8 DEF Interject

LEMMA CompactedFacts == Compacted \in Seq(Said) /\ \A s : OneSwitch(Compacted, s)
<1>1. PICK x : x = System("head")
  OBVIOUS
<1>2. PICK y : y = User(0, "summary")
  OBVIOUS
<1>3. x \in Said /\ y \in Said /\ x.kind = "system" /\ y.body = "summary"
  BY <1>1, <1>2, SaidFacts DEF User, System, Item, Bodies
<1>4. ~IsSwitch(x) /\ ~IsSwitch(y)
  BY <1>3, NotSwitch DEF SwitchTexts
<1>5. Compacted = <<x, y>>
  BY <1>1, <1>2 DEF Compacted
<1>6. <<x, y>> \in Seq(Said) /\ \A i \in 1..Len(<<x, y>>) : <<x, y>>[i] = x \/ <<x, y>>[i] = y
  BY <1>3, SMT
<1>7. QED
  BY <1>4, <1>5, <1>6 DEF OneSwitch

LEMMA CompactIsCommand ==
    ASSUME TypeInv, Compact
    PROVE  Command /\ pending' \subseteq Nat /\ left' \in [OpNames -> Nat]
<1>1. st \in States /\ left \in [OpNames -> Nat] /\ pending \subseteq Nat
  BY DEF TypeInv
<1>2. PICK e : e = ReplaceConversation(st, Compacted, TRUE)
  OBVIOUS
<1>3. Handles(st, e) /\ Handle(e)
  BY <1>1, <1>2, CompactedFacts, ReplaceHandles DEF Compact
<1>4. Command
  BY <1>1, <1>3, HandleIsCommand
<1>5. left' \in [OpNames -> Nat]
  BY <1>1, UseType DEF Compact, OpNames
<1>6. QED
  BY <1>1, <1>4, <1>5 DEF Compact

LEMMA StripIsCommand ==
    ASSUME TypeInv, StripRejectedImages
    PROVE  Command /\ pending' \subseteq Nat /\ left' \in [OpNames -> Nat]
<1>1. st \in States /\ left \in [OpNames -> Nat] /\ pending \subseteq Nat
  BY DEF TypeInv
<1>2. PICK e : e = StripConversationImages(st)
  OBVIOUS
<1>3. Handles(st, e) /\ Handle(e)
  BY <1>1, <1>2, StripHandles DEF StripRejectedImages
<1>4. Command
  BY <1>1, <1>3, HandleIsCommand
<1>5. left' \in [OpNames -> Nat]
  BY <1>1, UseType DEF StripRejectedImages, OpNames
<1>6. QED
  BY <1>1, <1>4, <1>5 DEF StripRejectedImages

LEMMA RepairIsCommand ==
    ASSUME TypeInv, Repair
    PROVE  Command /\ pending' \subseteq Nat /\ left' \in [OpNames -> Nat]
<1>1. st \in States /\ left \in [OpNames -> Nat] /\ pending \subseteq Nat
  BY DEF TypeInv
<1>2. PICK e : e = DoRepairHistory(st)
  OBVIOUS
<1>3. Handles(st, e) /\ (e.out = <<>> \/ e.out = <<Replace(e.st.conv)>>)
  BY <1>1, <1>2, RepairHandles
<1>4. e.st \in States /\ Posts(st.conv, e.st.conv, e.out) /\ st.conv \in Seq(Said) /\ e.st.conv \in Seq(Said)
  BY <1>1, <1>3 DEF Handles, States
<1>5. PICK flush : flush = IF e.out = <<>> THEN <<>> ELSE <<[op |-> "flush", items |-> e.st.conv]>>
  OBVIOUS
<1>6. Posts(st.conv, e.st.conv, e.out \o flush)
  <2>1. CASE e.out = <<>>
    <3>1. <<>> \o <<>> = <<>>
      BY SMT
    <3>2. e.out \o flush = e.out
      BY <1>5, <2>1, <3>1
    <3>3. QED
      BY <1>4, <3>2
  <2>2. CASE e.out # <<>>
    <3>1. PICK m : m = [op |-> "flush", items |-> e.st.conv]
      OBVIOUS
    <3>2. m \in Msgs /\ m.op = "flush" /\ m.items = e.st.conv
      BY <1>4, <3>1 DEF Msgs
    <3>3. Applied(e.st.conv, m) = e.st.conv
      BY <3>2 DEF Applied
    <3>4. Posts(e.st.conv, e.st.conv, <<m>>)
      BY <1>4, <3>2, <3>3, PostsOne DEF Single
    <3>5. flush = <<m>>
      BY <1>5, <2>2, <3>1
    <3>6. QED
      BY <1>4, <3>4, <3>5, PostsBoth
  <2>3. QED
    BY <2>1, <2>2
<1>7. PICK g : g = Effect(e.st, e.out \o flush)
  OBVIOUS
<1>8. g.st = e.st /\ g.out = e.out \o flush
  BY <1>7 DEF Effect
<1>9. Handle(g)
  BY <1>2, <1>5, <1>7 DEF Repair
<1>10. Handles(st, g)
  BY <1>3, <1>6, <1>8 DEF Handles
<1>11. Command
  BY <1>1, <1>9, <1>10, HandleIsCommand
<1>12. left' \in [OpNames -> Nat]
  BY <1>1, UseType DEF Repair, OpNames
<1>13. QED
  BY <1>1, <1>11, <1>12 DEF Repair

LEMMA NewCallsType ==
    ASSUME left \in [OpNames -> Nat] PROVE <<>> \in Seq(Nat) /\ NewCalls \in Seq(Nat)
<1>1. left["reply"] \in Nat
  BY DEF OpNames
<1>2. PICK n \in Nat : n = 2 * left["reply"]
  BY <1>1, SMT
<1>3. <<>> \in Seq(Nat) /\ <<n + 1, n + 2>> \in Seq(Nat)
  BY SMT
<1>4. QED
  BY <1>2, <1>3 DEF NewCalls

LEMMA ActorStepFacts ==
    ASSUME TypeInv, ActorStep
    PROVE  /\ Command \/ \E text \in SwitchTexts : PostSwitch(1, text)
           /\ pending' \subseteq Nat /\ left' \in [OpNames -> Nat]
<1>1. st \in States /\ left \in [OpNames -> Nat] /\ pending \subseteq Nat
  BY DEF TypeInv
<1>2. ASSUME NEW reminder \in BOOLEAN, BuildConversationRequest(reminder)
      PROVE  Command /\ pending' \subseteq Nat /\ left' \in [OpNames -> Nat]
  <2>1. PICK e : e = BuildRequest(st, reminder)
    OBVIOUS
  <2>2. Handles(st, e) /\ Handle(e)
    BY <1>1, <1>2, <2>1, BuildHandles DEF BuildConversationRequest
  <2>3. Command
    BY <1>1, <2>2, HandleIsCommand
  <2>4. left' \in [OpNames -> Nat]
    BY <1>1, <1>2, UseType DEF BuildConversationRequest, OpNames
  <2>5. QED
    BY <1>1, <1>2, <2>3, <2>4 DEF BuildConversationRequest
<1>3. CASE GiveUp
  <2>1. PICK e : e = Effect(st, <<>>)
    OBVIOUS
  <2>2. e.st = st /\ e.out = <<>> /\ Handle(e)
    BY <1>3, <2>1 DEF GiveUp, Effect
  <2>3. st.conv \in Seq(Said)
    BY <1>1 DEF States
  <2>4. Handles(st, e)
    BY <1>1, <2>2, <2>3, PostsNothing DEF Handles
  <2>5. Command
    BY <1>1, <2>2, <2>4, HandleIsCommand
  <2>6. QED
    BY <1>1, <1>3, <2>5 DEF GiveUp
<1>4. ASSUME NEW text \in SwitchTexts, PostSwitch(1, text)
      PROVE  pending' \subseteq Nat /\ left' \in [OpNames -> Nat]
  BY <1>1, <1>4, UseType DEF PostSwitch, OpNames
<1>5. <<>> \in Seq(Nat) /\ NewCalls \in Seq(Nat)
  BY <1>1, NewCallsType
<1>6. QED
  BY <1>2, <1>3, <1>4, <1>5, UserMessageIsCommand, AssistantReplyIsCommand, ToolResultIsCommand,
     InterjectIsCommand, CompactIsCommand, StripIsCommand, RepairIsCommand
     DEF ActorStep

----------------------------------------------------------------------------
(* The invariant *)

\* What is on disk and on its way there is the conversation, also after a failed write if a
\* rewrite is on its way.
FaithInv == up /\ (~lost \/ HasRewrite(queue)) => Replay(ReadChat(file), queue) = st.conv

\* Memory, the file and what is on its way have at most one switch, and the same one.
SwitchInv ==
    \E s : /\ OneSwitch(file.lines, s) /\ OneSwitch(st.conv, s)
           /\ \A k \in 1..Len(queue) : queue[k].op # "switch" => OneSwitch(queue[k].items, s)

\* A switch that is in memory is in the file, and no rewrite on its way takes it out.
KeptInv ==
    ~NoSwitch(st.conv) => /\ ~NoSwitch(file.lines)
                          /\ \A k \in 1..Len(queue) : IsRewrite(queue[k]) => ~NoSwitch(queue[k].items)

DurInv == TypeInv /\ ChannelInv /\ FaithInv /\ SwitchInv /\ KeptInv /\ DurableSurvives

LEMMA TakeFacts ==
    ASSUME NEW items \in Seq(Said), NEW q \in Seq(Msgs), q # <<>>
    PROVE  /\ Head(q) \in Msgs /\ Tail(q) \in Seq(Msgs) /\ Head(q) = q[1]
           /\ Len(q) \in Nat /\ 1 \in 1..Len(q) /\ Len(Tail(q)) = Len(q) - 1
           /\ \A k \in 1..Len(Tail(q)) : k + 1 \in 1..Len(q) /\ Tail(q)[k] = q[k + 1]
           /\ Replay(items, q) = Replay(Applied(items, Head(q)), Tail(q))
           /\ HasRewrite(Tail(q)) => HasRewrite(q)
           /\ IsRewrite(Head(q)) => HasRewrite(q)
<1>1. /\ Head(q) = q[1] /\ Len(q) \in Nat /\ 1 \in 1..Len(q) /\ Len(Tail(q)) = Len(q) - 1
      /\ \A k \in 1..Len(Tail(q)) : k + 1 \in 1..Len(q) /\ Tail(q)[k] = q[k + 1]
  BY SMT
<1>2. HasRewrite(Tail(q)) => HasRewrite(q)
  BY <1>1 DEF HasRewrite
<1>3. IsRewrite(Head(q)) => HasRewrite(q)
  BY <1>1 DEF HasRewrite
<1>4. QED
  BY <1>1, <1>2, <1>3, ReplayHead

LEMMA OneItem == ASSUME NEW S, NEW l \in Seq(S), Len(l) = 1 PROVE l[1] \in S /\ l = <<l[1]>>
<1>1. \A i \in 1..Len(l) : l[i] \in S
  BY SMT
<1>2. 1 \in 1..1
  BY SMT
<1>3. l[1] \in S
  BY <1>1, <1>2
<1>4. PICK x \in S : x = l[1]
  BY <1>3
<1>5. <<x>> \in Seq(S) /\ Len(<<x>>) = 1 /\ \A i \in 1..1 : <<x>>[i] = x
  BY SMT
<1>6. \A i \in 1..1 : l[i] = x
  BY <1>4, SMT
<1>7. l = <<x>>
  BY <1>5, <1>6, SameSeq
<1>8. QED
  BY <1>3, <1>4, <1>7

LEMMA AppendIsConcat == \A S : \A s \in Seq(S) : \A x \in S : s \o <<x>> = Append(s, x)
BY SMT

LEMMA SwitchStays ==
    ASSUME NEW S, NEW c \in Seq(S), NEW x \in S
    PROVE  /\ ~NoSwitch(c) => ~NoSwitch(Append(c, x))
           /\ IsSwitch(x) => ~NoSwitch(Append(c, x))
<1>1. PICK d : d = Append(c, x)
  OBVIOUS
<1>2. Len(c) \in Nat /\ Len(d) = Len(c) + 1 /\ d[Len(c) + 1] = x /\ Len(c) + 1 \in 1..Len(d)
      /\ \A i \in 1..Len(c) : i \in 1..Len(d) /\ d[i] = c[i]
  BY <1>1, SMT
<1>3. QED
  BY <1>1, <1>2 DEF NoSwitch

LEMMA TornFacts == Torn \in Lines /\ ~IsSwitch(Torn)
BY NotSwitch DEF Torn, Item, Lines

LEMMA DurableAppend ==
    ASSUME NEW read \in Seq(Said), NEW x \in Said, NEW kept \in SUBSET DOMAIN read
    PROVE  \E k1, k2 \in SUBSET DOMAIN Append(read, x) :
              /\ Keep(Append(read, x), k1) = Keep(read, kept)
              /\ Keep(Append(read, x), k2) = Append(Keep(read, kept), x)
<1>1. /\ Len(read) \in Nat /\ DOMAIN read = 1..Len(read) /\ DOMAIN Append(read, x) = 1..(Len(read) + 1)
      /\ Len(read) + 1 \notin 1..Len(read) /\ Len(read) + 1 \in 1..(Len(read) + 1)
      /\ \A i \in 1..Len(read) : i \in 1..(Len(read) + 1) /\ i # Len(read) + 1
  <2>1. Len(read) \in Nat /\ DOMAIN read = 1..Len(read) /\ DOMAIN Append(read, x) = 1..(Len(read) + 1)
    BY SMT
  <2>2. ASSUME NEW n \in Nat
        PROVE  /\ n + 1 \notin 1..n /\ n + 1 \in 1..(n + 1)
               /\ \A i \in 1..n : i \in 1..(n + 1) /\ i # n + 1
    BY SMT
  <2>3. QED
    BY <2>1, <2>2
<1>2. Len(read) + 1 \notin kept
  BY <1>1
<1>3. Keep(Append(read, x), kept) = Keep(read, kept)
  BY <1>2, KeepAppend
<1>4. PICK k2 : k2 = kept \cup {Len(read) + 1}
  OBVIOUS
<1>5. Keep(read, k2) = Keep(read, kept)
  BY <1>1, <1>4, KeepSame
<1>6. Keep(Append(read, x), k2) = Append(Keep(read, kept), x)
  <2>1. Len(read) + 1 \in k2
    BY <1>4
  <2>2. Keep(Append(read, x), k2) = Append(Keep(read, k2), x)
    BY <2>1, KeepAppend
  <2>3. QED
    BY <1>5, <2>2
<1>7. kept \in SUBSET DOMAIN Append(read, x) /\ k2 \in SUBSET DOMAIN Append(read, x)
  BY <1>1, <1>4
<1>8. QED
  BY <1>3, <1>6, <1>7

LEMMA DurableAll ==
    ASSUME NEW read \in Seq(Said)
    PROVE  \E kept \in SUBSET DOMAIN read : Keep(read, kept) = read
<1>1. \A i \in 1..Len(read) : i \in DOMAIN read
  BY SMT
<1>2. Keep(read, DOMAIN read) = read
  BY <1>1, KeepAll
<1>3. QED
  BY <1>2

\* What became of the message at the head of the channel, when it is no switch: nothing that
\* can be read, a line, or the whole file.
NothingRead(m) ==
    /\ ReadChat(file') = ReadChat(file) /\ durable' = durable
    /\ file'.lines = file.lines \/ file'.lines = Append(file.lines, Torn)
    /\ lost' \/ (m.op = "flush" /\ lost' = lost)
LineRead(m) ==
    /\ m.op = "chat"
    /\ file'.lines = Append(file.lines, m.items[1])
    /\ ReadChat(file') = Append(ReadChat(file), m.items[1])
    /\ (durable' = Append(durable, m.items[1]) /\ lost' = lost) \/ (durable' = durable /\ lost')
AllRead(m) ==
    IsRewrite(m) /\ file'.lines = m.items /\ ReadChat(file') = m.items /\ durable' = m.items

Wrote(m) ==
    /\ up /\ queue # <<>> /\ m = Head(queue) /\ m.op # "switch" /\ queue' = Tail(queue)
    /\ UNCHANGED <<up, st, awaiting>>
    /\ NothingRead(m) \/ LineRead(m) \/ AllRead(m)

LEMMA WroteFacts ==
    ASSUME DurInv, NEW m, Wrote(m), file' \in Files
    PROVE  FaithInv' /\ DurableSurvives'
<1>1. PICK read \in Seq(Said) : read = ReadChat(file)
  BY FileFacts DEF DurInv, TypeInv
<1>2. PICK read1 \in Seq(Said) : read1 = ReadChat(file')
  BY FileFacts
<1>3. PICK q \in Seq(Msgs) : q = queue /\ q # <<>>
  BY DEF DurInv, TypeInv, Wrote
<1>4. PICK r \in Seq(Msgs) : r = Tail(q)
  BY <1>1, <1>3, TakeFacts
<1>5. /\ m \in Msgs /\ m = q[1] /\ Replay(read, q) = Replay(Applied(read, m), r)
      /\ HasRewrite(r) => HasRewrite(q)
      /\ IsRewrite(m) => HasRewrite(q)
  BY <1>1, <1>3, <1>4, TakeFacts DEF Wrote
<1>6. queue' = r /\ up' = up /\ st' = st
  BY <1>3, <1>4 DEF Wrote
<1>7. PICK a \in Seq(Said) : a = Applied(read, m)
  BY <1>5, AppliedType
<1>8. m.op = "chat" => m.items[1] \in Said /\ m.items = <<m.items[1]>> /\ read \o <<m.items[1]>> = Append(read, m.items[1])
  <2>1. m.op = "chat" => Len(m.items) = 1 /\ m.items \in Seq(Said)
    <3>1. Len(q) \in Nat /\ 1 \in 1..Len(q)
      BY <1>1, <1>3, TakeFacts
    <3>2. Single(m) /\ m.items \in Seq(Said)
      BY <1>3, <1>5, <3>1 DEF DurInv, ChannelInv, Msgs
    <3>3. QED
      BY <3>2 DEF Single
  <2>2. ASSUME NEW l \in Seq(Said), Len(l) = 1
        PROVE  l[1] \in Said /\ l = <<l[1]>> /\ read \o <<l[1]>> = Append(read, l[1])
    BY <2>2, OneItem, AppendIsConcat
  <2>3. QED
    BY <2>1, <2>2
<1>9. ~lost' => a = read1 /\ (~lost \/ IsRewrite(m))
  <2>1. CASE NothingRead(m)
    BY <1>1, <1>2, <1>7, <2>1 DEF NothingRead, Applied
  <2>2. CASE LineRead(m)
    <3>1. a = read \o m.items
      BY <1>7, <2>2 DEF LineRead, Applied
    <3>2. a = Append(read, m.items[1])
      BY <1>8, <2>2, <3>1 DEF LineRead
    <3>3. QED
      BY <1>1, <1>2, <2>2, <3>2 DEF LineRead
  <2>3. CASE AllRead(m)
    BY <1>1, <1>2, <1>7, <2>3 DEF AllRead, Applied, IsRewrite
  <2>4. QED
    BY <2>1, <2>2, <2>3 DEF Wrote
<1>10. FaithInv'
  <2>1. SUFFICES ASSUME up', ~lost' \/ HasRewrite(r) PROVE Replay(read1, r) = st.conv
    BY <1>2, <1>6 DEF FaithInv
  <2>2. Replay(read, q) = st.conv
    <3>1. ~lost \/ HasRewrite(q)
      BY <1>5, <1>9, <2>1
    <3>2. QED
      BY <1>1, <1>3, <1>6, <2>1, <3>1 DEF DurInv, FaithInv
  <2>3. CASE HasRewrite(r)
    <3>1. Replay(read1, r) = Replay(a, r)
      BY <2>3, ReplayAny
    <3>2. QED
      BY <1>5, <1>7, <2>2, <3>1
  <2>4. CASE ~lost'
    BY <1>5, <1>7, <1>9, <2>2, <2>4
  <2>5. QED
    BY <2>1, <2>3, <2>4
<1>11. DurableSurvives'
  <2>1. PICK kept \in SUBSET DOMAIN read : Keep(read, kept) = durable
    BY <1>1 DEF DurInv, DurableSurvives
  <2>2. CASE NothingRead(m)
    <3>1. ReadChat(file') = read /\ durable' = durable
      BY <1>1, <2>2 DEF NothingRead
    <3>2. QED
      BY <2>1, <3>1 DEF DurableSurvives
  <2>3. CASE LineRead(m)
    <3>1. PICK x \in Said : x = m.items[1] /\ ReadChat(file') = Append(read, x) /\ durable' \in {durable, Append(durable, x)}
      BY <1>1, <1>8, <2>3 DEF LineRead
    <3>2. PICK k1, k2 \in SUBSET DOMAIN Append(read, x) :
              /\ Keep(Append(read, x), k1) = Keep(read, kept)
              /\ Keep(Append(read, x), k2) = Append(Keep(read, kept), x)
      BY DurableAppend
    <3>3. QED
      BY <2>1, <3>1, <3>2 DEF DurableSurvives
  <2>4. CASE AllRead(m)
    <3>1. durable' = read1
      BY <1>2, <2>4 DEF AllRead
    <3>2. QED
      BY <1>2, <3>1, DurableAll DEF DurableSurvives
  <2>5. QED
    BY <2>2, <2>3, <2>4 DEF Wrote
<1>12. QED
  BY <1>10, <1>11

LEMMA WroteSwitch ==
    ASSUME DurInv, NEW m, Wrote(m), file' \in Files
    PROVE  SwitchInv' /\ KeptInv' /\ ChannelInv'
<1>1. PICK read \in Seq(Said) : read = ReadChat(file)
  BY FileFacts DEF DurInv, TypeInv
<1>2. PICK q \in Seq(Msgs) : q = queue /\ q # <<>>
  BY DEF DurInv, TypeInv, Wrote
<1>3. PICK r \in Seq(Msgs) : r = Tail(q)
  BY <1>1, <1>2, TakeFacts
<1>4. /\ m \in Msgs /\ m = q[1] /\ 1 \in 1..Len(q) /\ Len(q) \in Nat /\ Len(r) = Len(q) - 1
      /\ \A k \in 1..Len(r) : k + 1 \in 1..Len(q) /\ r[k] = q[k + 1]
  BY <1>1, <1>2, <1>3, TakeFacts DEF Wrote
<1>5. queue' = r /\ up' = up /\ st' = st /\ awaiting' = awaiting /\ m.op # "switch" /\ up
  BY <1>2, <1>3 DEF Wrote
<1>6. PICK lines \in Seq(Lines) : lines = file.lines
  BY FileFacts DEF DurInv, TypeInv
<1>7. m.op = "chat" => m.items[1] \in Lines /\ ~IsSwitch(m.items[1])
  <2>1. m.items \in Seq(Said) /\ (m.op = "chat" => Len(m.items) = 1 /\ ~IsSwitch(m.items[1]))
    BY <1>2, <1>4 DEF DurInv, ChannelInv, Msgs, Single
  <2>2. ASSUME NEW l \in Seq(Said), Len(l) = 1 PROVE l[1] \in Said
    BY <2>2, OneItem
  <2>3. QED
    BY <2>1, <2>2 DEF Lines
<1>8. \/ file'.lines = lines
      \/ IsRewrite(m) /\ file'.lines = m.items
      \/ \E x \in Lines : ~IsSwitch(x) /\ file'.lines = Append(lines, x)
  BY <1>6, <1>7, TornFacts DEF Wrote, NothingRead, LineRead, AllRead
<1>9. SwitchInv'
  <2>1. PICK s : /\ OneSwitch(lines, s) /\ OneSwitch(st.conv, s)
                 /\ \A k \in 1..Len(q) : q[k].op # "switch" => OneSwitch(q[k].items, s)
    BY <1>2, <1>6 DEF DurInv, SwitchInv
  <2>2. OneSwitch(m.items, s)
    BY <1>4, <1>5, <2>1
  <2>3. OneSwitch(file'.lines, s)
    BY <1>8, <2>1, <2>2, OneSwitchAppend
  <2>4. QED
    BY <1>4, <1>5, <2>1, <2>3 DEF SwitchInv
<1>10. KeptInv'
  <2>1. SUFFICES ASSUME ~NoSwitch(st.conv)
                 PROVE  /\ ~NoSwitch(file'.lines)
                        /\ \A k \in 1..Len(r) : IsRewrite(r[k]) => ~NoSwitch(r[k].items)
    BY <1>5 DEF KeptInv
  <2>2. ~NoSwitch(lines) /\ \A k \in 1..Len(q) : IsRewrite(q[k]) => ~NoSwitch(q[k].items)
    BY <1>2, <1>6, <2>1 DEF DurInv, KeptInv
  <2>3. ~NoSwitch(file'.lines)
    BY <1>4, <1>8, <2>2, SwitchStays
  <2>4. QED
    BY <1>4, <2>2, <2>3
<1>11. ChannelInv'
  <2>1. ASSUME NEW k \in 1..Len(r)
        PROVE  /\ Single(r[k]) /\ (r[k].op = "chat" => ~IsSwitch(r[k].items[1]))
               /\ r[k].op = "switch" => /\ k = Len(r) /\ awaiting
                                        /\ \E text \in SwitchTexts : r[k].items[1] = Switch(1, text)
    <3>1. k + 1 \in 1..Len(q) /\ r[k] = q[k + 1]
      BY <1>4
    <3>2. /\ Single(q[k + 1]) /\ (q[k + 1].op = "chat" => ~IsSwitch(q[k + 1].items[1]))
          /\ q[k + 1].op = "switch" => /\ k + 1 = Len(q) /\ awaiting
                                       /\ \E text \in SwitchTexts : q[k + 1].items[1] = Switch(1, text)
      BY <1>2, <3>1 DEF DurInv, ChannelInv
    <3>3. k + 1 = Len(q) => k = Len(r)
      BY <1>4, SMT
    <3>4. QED
      BY <3>1, <3>2, <3>3
  <2>2. QED
    BY <1>5, <2>1 DEF ChannelInv
<1>12. QED
  BY <1>9, <1>10, <1>11

LEMMA ConvergeFacts ==
    ASSUME NEW conv \in Seq(Said), NEW x \in Said, IsSwitch(x), NEW y, OneSwitch(conv, x)
    PROVE  Converge(conv, x, y) = IF NoSwitch(conv) THEN Append(conv, x) ELSE conv
<1>1. DOMAIN conv = 1..Len(conv) /\ Len(conv) \in Nat
  BY SMT
<1>2. \A i : GenerationOf(conv[i]) = GenerationOf(x) <=> IsSwitch(conv[i])
  BY DEF IsSwitch
<1>3. CASE NoSwitch(conv)
  <2>1. ~\E i \in DOMAIN conv : GenerationOf(conv[i]) = GenerationOf(x)
    BY <1>1, <1>2, <1>3 DEF NoSwitch
  <2>2. QED
    BY <1>3, <2>1 DEF Converge
<1>4. CASE ~NoSwitch(conv)
  <2>1. PICK A : A = {i \in DOMAIN conv : GenerationOf(conv[i]) = GenerationOf(x)}
    OBVIOUS
  <2>2. A # {}
    BY <1>1, <1>2, <1>4, <2>1 DEF NoSwitch
  <2>3. A \subseteq Nat
    BY <1>1, <2>1, SMT
  <2>4. Min(A) \in A
    BY <2>2, <2>3, MinFacts
  <2>5. PICK i \in DOMAIN conv : i = Min(A)
    BY <2>1, <2>4
  <2>6. conv[i] = x
    BY <1>1, <1>2, <2>1, <2>4, <2>5 DEF OneSwitch
  <2>7. \E j \in DOMAIN conv : GenerationOf(conv[j]) = GenerationOf(x)
    BY <2>5, <2>6
  <2>8. Converge(conv, x, y) = [conv EXCEPT ![i] = x]
    BY <2>1, <2>5, <2>7 DEF Converge
  <2>9. PICK d : d = [conv EXCEPT ![i] = x]
    OBVIOUS
  <2>10. d \in Seq(Said) /\ Len(d) = Len(conv)
    BY <2>5, <2>9, SMT
  <2>11. \A j \in 1..Len(conv) : d[j] = conv[j]
    BY <1>1, <2>5, <2>6, <2>9
  <2>12. d = conv
    BY <2>10, <2>11, SameSeq
  <2>13. QED
    BY <1>4, <2>8, <2>9, <2>12
<1>5. QED
  BY <1>3, <1>4

\* The file has a switch if and only if one is read.
LEMMA SwitchRead ==
    ASSUME NEW fl \in Files
    PROVE  /\ NoSwitch(ReadChat(fl)) <=> NoSwitch(fl.lines)
           /\ \A s : OneSwitch(fl.lines, s) => OneSwitch(ReadChat(fl), s)
<1>1. PICK lines \in Seq(Lines) : lines = fl.lines
  BY FileFacts
<1>2. PICK read \in Seq(Said) : read = ReadChat(fl)
  BY FileFacts
<1>3. PICK f : Picks(lines, read, f, Parses(lines))
  BY <1>1, <1>2, FileFacts
<1>4. Len(lines) \in Nat /\ Len(read) \in Nat /\ DOMAIN lines = 1..Len(lines)
  BY SMT
<1>5. \A s : OneSwitch(lines, s) => OneSwitch(read, s)
  BY <1>3, <1>4, OneSwitchPicks
<1>6. ASSUME NEW i \in 1..Len(lines), IsSwitch(lines[i]) PROVE ~NoSwitch(read)
  <2>1. i \in Parses(lines)
    BY <1>4, <1>6, TornFacts DEF Parses
  <2>2. PICK p \in 1..Len(read) : f[p] = i
    BY <1>3, <2>1 DEF Picks
  <2>3. read[p] = lines[i]
    BY <1>3, <2>2 DEF Picks
  <2>4. QED
    BY <1>6, <2>3 DEF NoSwitch
<1>7. ASSUME NEW p \in 1..Len(read), IsSwitch(read[p]) PROVE ~NoSwitch(lines)
  <2>1. f[p] \in 1..Len(lines) /\ read[p] = lines[f[p]]
    BY <1>3 DEF Picks
  <2>2. QED
    BY <1>7, <2>1 DEF NoSwitch
<1>8. QED
  BY <1>1, <1>2, <1>5, <1>6, <1>7 DEF NoSwitch

\* What a switch finds that is taken from the channel.
SwitchFinds(m, item, s) ==
    /\ m = Head(queue) /\ m.op = "switch" /\ item = m.items[1] /\ IsSwitch(item)
    /\ GenerationOf(item) = 1
    /\ queue' = <<>> /\ Replay(ReadChat(file), queue) = ReadChat(file)
    /\ OneSwitch(file.lines, s) /\ OneSwitch(st.conv, s)
    /\ \/ /\ SwitchOnFile(file, 1) = <<>>
          /\ NoSwitch(file.lines) /\ NoSwitch(st.conv)
       \/ /\ SwitchOnFile(file, 1) = <<s>> /\ s \in Said /\ IsSwitch(s)
          /\ ~NoSwitch(file.lines) /\ ~NoSwitch(ReadChat(file))

LEMMA SwitchTaken ==
    ASSUME DurInv, Take("switch")
    PROVE  \E m \in Msgs, item \in Said : \E s : SwitchFinds(m, item, s)
<1>1. PICK fl \in Files : fl = file
  BY DEF DurInv, TypeInv
<1>2. PICK read \in Seq(Said) : read = ReadChat(fl)
  BY FileFacts
<1>3. PICK q \in Seq(Msgs) : q = queue /\ q # <<>>
  BY DEF DurInv, TypeInv, Take
<1>4. PICK r \in Seq(Msgs) : r = Tail(q)
  BY <1>2, <1>3, TakeFacts
<1>5. PICK m \in Msgs : m = Head(q)
  BY <1>2, <1>3, TakeFacts
<1>6. /\ m = q[1] /\ 1 \in 1..Len(q) /\ Len(q) \in Nat /\ Len(r) = Len(q) - 1
      /\ Replay(read, q) = Replay(Applied(read, m), r)
  BY <1>2, <1>3, <1>4, <1>5, TakeFacts
<1>7. m.op = "switch" /\ queue' = r /\ up
  BY <1>3, <1>4, <1>5 DEF Take
<1>8. /\ 1 = Len(q) /\ Len(m.items) = 1 /\ m.items \in Seq(Said)
      /\ \E text \in SwitchTexts : m.items[1] = Switch(1, text)
  BY <1>3, <1>6, <1>7 DEF DurInv, ChannelInv, Single, Msgs
<1>9. r = <<>>
  <2>1. Len(r) = 0
    BY <1>6, <1>8, SMT
  <2>2. <<>> \in Seq(Msgs) /\ Len(<<>>) = 0 /\ 1..0 = {}
    BY SMT
  <2>3. \A i \in 1..0 : r[i] = <<>>[i]
    BY <2>2
  <2>4. QED
    BY <2>1, <2>2, <2>3, SameSeq
<1>10. PICK item \in Said : item = m.items[1]
  BY <1>8, OneItem
<1>11. GenerationOf(item) = 1
  <2>1. PICK text \in SwitchTexts : item = Switch(1, text)
    BY <1>8, <1>10
  <2>2. item.kind = "user" /\ item.body = text /\ item.by = 1
    BY <2>1 DEF Switch, User, Item
  <2>3. QED
    BY <2>2 DEF GenerationOf, IsUser
<1>12. Replay(read, q) = read
  <2>1. Applied(read, m) = read
    BY <1>7 DEF Applied
  <2>2. QED
    BY <1>6, <1>9, <2>1, ReplayFew
<1>13. PICK s : OneSwitch(fl.lines, s) /\ OneSwitch(st.conv, s)
  BY <1>1 DEF DurInv, SwitchInv
<1>14. OneSwitch(read, s) /\ (NoSwitch(read) <=> NoSwitch(fl.lines))
  BY <1>2, <1>13, SwitchRead
<1>15. PICK found : found = SwitchesOf(read, 1)
  OBVIOUS
<1>16. (found = <<>> \/ found = <<s>>) /\ (found = <<>> <=> NoSwitch(read))
  BY <1>14, <1>15, SwitchesFound
<1>17. found = SwitchOnFile(fl, 1)
  BY <1>2, <1>15 DEF SwitchOnFile
<1>18. NoSwitch(fl.lines) => NoSwitch(st.conv)
  BY <1>1 DEF DurInv, KeptInv
<1>19. ~NoSwitch(read) => s \in Said /\ IsSwitch(s)
  <2>1. \A i \in 1..Len(read) : read[i] \in Said
    BY SMT
  <2>2. QED
    BY <1>14, <2>1 DEF NoSwitch, OneSwitch
<1>20. IsSwitch(item)
  BY <1>11 DEF IsSwitch
<1>21. QED
  BY <1>1, <1>2, <1>3, <1>5, <1>7, <1>9, <1>10, <1>11, <1>12, <1>13, <1>14, <1>16, <1>17, <1>18, <1>19, <1>20
     DEF SwitchFinds

LEMMA NoItems == /\ <<>> \in Seq(Msgs) /\ <<>> \in Seq(Said) /\ 1..Len(<<>>) = {}
                 /\ ~HasRewrite(<<>>) /\ \A s : OneSwitch(<<>>, s) /\ NoSwitch(<<>>)
<1>1. <<>> \in Seq(Msgs) /\ <<>> \in Seq(Said) /\ 1..Len(<<>>) = {}
  BY SMT
<1>2. QED
  BY <1>1 DEF HasRewrite, OneSwitch, NoSwitch

LEMMA StateConv ==
    ASSUME NEW s \in States, NEW c \in Seq(Said)
    PROVE  [s EXCEPT !.conv = c] \in States /\ [s EXCEPT !.conv = c].conv = c
BY DEF States

LEMMA FailsType ==
    ASSUME left \in [OpNames -> Nat], NEW how, Fails(how)
    PROVE  left' \in [OpNames -> Nat]
BY UseType DEF Fails, OpNames

LEMMA PersistSwitchKeeps ==
    ASSUME DurInv, NEW how \in AppendOutcomes, PersistSwitch(how)
    PROVE  DurInv'
<1>0. PICK m \in Msgs, item \in Said : \E s : SwitchFinds(m, item, s)
  BY SwitchTaken DEF PersistSwitch
<1>1. PICK s :
              /\ m = Head(queue) /\ m.op = "switch" /\ item = m.items[1] /\ IsSwitch(item)
              /\ GenerationOf(item) = 1
              /\ queue' = <<>> /\ Replay(ReadChat(file), queue) = ReadChat(file)
              /\ OneSwitch(file.lines, s) /\ OneSwitch(st.conv, s)
              /\ \/ /\ SwitchOnFile(file, 1) = <<>>
                    /\ NoSwitch(file.lines) /\ NoSwitch(st.conv)
                 \/ /\ SwitchOnFile(file, 1) = <<s>> /\ s \in Said /\ IsSwitch(s)
                    /\ ~NoSwitch(file.lines) /\ ~NoSwitch(ReadChat(file))
  BY <1>0 DEF SwitchFinds
<1>2. PICK found : found = SwitchOnFile(file, 1)
  OBVIOUS
<1>3. /\ Fails(how) /\ awaiting' = FALSE /\ up /\ up' = up /\ pending' = pending /\ backup' = backup
      /\ IF found # <<>>
         THEN UNCHANGED <<file, durable, lost>>
         ELSE /\ file' = AppendLine(file, item, how)
              /\ durable' = IF Written(how) THEN Append(durable, item) ELSE durable
              /\ lost' = (lost \/ how = "unterminated")
      /\ st' = IF Written(how)
               THEN [st EXCEPT !.conv = Converge(@, (found \o <<item>>)[1], item)] ELSE st
  BY <1>1, <1>2 DEF PersistSwitch, Take
<1>4. /\ file \in Files /\ st \in States /\ durable \in Seq(Said) /\ lost \in BOOLEAN
      /\ left \in [OpNames -> Nat] /\ pending \subseteq Nat /\ backup \in [made : BOOLEAN, items : Seq(Said)]
      /\ up \in BOOLEAN
  BY DEF DurInv, TypeInv
<1>5. left' \in [OpNames -> Nat]
  BY <1>3, <1>4, FailsType
<1>6. PICK conv \in Seq(Said) : conv = st.conv
  BY <1>4 DEF States
<1>7. PICK read \in Seq(Said) : read = ReadChat(file)
  BY <1>4, FileFacts
<1>8. ~lost => conv = read
  BY <1>1, <1>3, <1>6, <1>7 DEF DurInv, FaithInv
<1>9. ChannelInv'
  BY <1>1, <1>3, NoItems DEF ChannelInv
<1>10. SUFFICES ASSUME TRUE
                PROVE  /\ file' \in Files /\ st' \in States /\ durable' \in Seq(Said) /\ lost' \in BOOLEAN
                       /\ ~lost' => ReadChat(file') = st'.conv
                       /\ \E x : OneSwitch(file'.lines, x) /\ OneSwitch(st'.conv, x)
                       /\ ~NoSwitch(st'.conv) => ~NoSwitch(file'.lines)
                       /\ DurableSurvives'
  <2>1. TypeInv'
    BY <1>1, <1>3, <1>4, <1>5, <1>10, NoItems DEF TypeInv
  <2>2. FaithInv'
    <3>1. ReadChat(file') \in Seq(Said)
      BY <1>10, FileFacts
    <3>2. Replay(ReadChat(file'), <<>>) = ReadChat(file')
      BY <3>1, ReplayFew
    <3>3. QED
      BY <1>1, <1>10, <3>2, NoItems DEF FaithInv
  <2>3. SwitchInv'
    BY <1>1, <1>10, NoItems DEF SwitchInv
  <2>4. KeptInv'
    BY <1>1, <1>10, NoItems DEF KeptInv
  <2>5. QED
    BY <1>9, <1>10, <2>1, <2>2, <2>3, <2>4 DEF DurInv
<1>11. CASE found = <<s>> /\ s \in Said /\ IsSwitch(s) /\ ~NoSwitch(file.lines) /\ ~NoSwitch(read)
  <2>1. found # <<>> /\ (found \o <<item>>)[1] = s
    <3>1. ASSUME NEW a, NEW b PROVE <<a>> # <<>> /\ (<<a>> \o <<b>>)[1] = a
      BY SMT
    <3>2. QED
      BY <1>11, <3>1
  <2>2. UNCHANGED <<file, durable, lost>>
    BY <1>3, <2>1
  <2>3. PICK c \in Seq(Said) : c = IF NoSwitch(conv) THEN Append(conv, s) ELSE conv
    <3>1. Append(conv, s) \in Seq(Said)
      BY <1>11, SMT
    <3>2. QED
      BY <3>1
  <2>4. Converge(conv, s, item) = c
    <3>1. OneSwitch(conv, s)
      BY <1>1, <1>6, Zenon
    <3>2. s \in Said /\ IsSwitch(s)
      BY <1>11, Zenon
    <3>3. Converge(conv, s, item) = IF NoSwitch(conv) THEN Append(conv, s) ELSE conv
      BY <3>1, <3>2, ConvergeFacts, Zenon
    <3>4. QED
      BY <2>3, <3>3, Zenon
  <2>5. st' = IF Written(how) THEN [st EXCEPT !.conv = c] ELSE st
    BY <1>3, <1>6, <2>1, <2>4
  <2>6. st' \in States /\ (st'.conv = c \/ st'.conv = conv)
    <3>1. PICK t : t = [st EXCEPT !.conv = c]
      OBVIOUS
    <3>2. t \in States /\ t.conv = c
      BY <1>4, <3>1, StateConv
    <3>3. QED
      BY <1>4, <1>6, <2>5, <3>1, <3>2
  <2>7. ~lost => c = conv
    BY <1>8, <1>11, <2>3
  <2>8. OneSwitch(c, s)
    BY <1>1, <1>6, <1>11, <2>3, OneSwitchAppend
  <2>9. DurableSurvives'
    BY <2>2 DEF DurInv, DurableSurvives
  <2>10. QED
    BY <1>1, <1>4, <1>6, <1>7, <1>8, <1>11, <2>2, <2>6, <2>7, <2>8, <2>9
<1>12. CASE found = <<>> /\ NoSwitch(file.lines) /\ NoSwitch(st.conv)
  <2>1. (found \o <<item>>)[1] = item
    <3>1. ASSUME NEW b PROVE (<<>> \o <<b>>)[1] = b
      BY SMT
    <3>2. QED
      BY <1>12, <3>1
  <2>2. /\ file' = AppendLine(file, item, how)
        /\ durable' = IF Written(how) THEN Append(durable, item) ELSE durable
        /\ lost' = (lost \/ how = "unterminated")
    BY <1>3, <1>12
  <2>3. PICK c \in Seq(Said) : c = Append(conv, item)
    <3>1. Append(conv, item) \in Seq(Said)
      BY SMT
    <3>2. QED
      BY <3>1
  <2>4. OneSwitch(conv, item) /\ OneSwitch(file.lines, item)
    BY <1>6, <1>12 DEF NoSwitch, OneSwitch
  <2>5. Converge(conv, item, item) = c
    BY <1>1, <1>6, <1>12, <2>3, <2>4, ConvergeFacts
  <2>6. st' = IF Written(how) THEN [st EXCEPT !.conv = c] ELSE st
    BY <1>3, <1>6, <2>1, <2>5
  <2>7. st' \in States /\ st'.conv = IF Written(how) THEN c ELSE conv
    <3>1. PICK t : t = [st EXCEPT !.conv = c]
      OBVIOUS
    <3>2. t \in States /\ t.conv = c
      BY <1>4, <3>1, StateConv
    <3>3. QED
      BY <1>4, <1>6, <2>6, <3>1, <3>2
  <2>8. OneSwitch(c, item)
    BY <1>6, <1>12, <2>3, <2>4, OneSwitchAppend
  <2>9. PICK lines \in Seq(Lines) : lines = file.lines
    BY <1>4, FileFacts
  <2>10. /\ file' \in Files
         /\ ReadChat(file') = IF how \in {"none", "torn"} THEN read ELSE Append(read, item)
         /\ \/ file'.lines = lines
            \/ file'.lines = Append(lines, Torn)
            \/ how \notin {"none", "torn"} /\ file'.lines = Append(lines, item)
    BY <1>4, <1>7, <2>2, <2>9, AppendFacts
  <2>11. OneSwitch(file'.lines, item)
    BY <1>12, <2>4, <2>9, <2>10, OneSwitchAppend, TornFacts DEF Lines
  <2>12. Written(how) => how \notin {"none", "torn"}
    BY DEF Written
  <2>13. how \in {"none", "torn", "unterminated"} \/ Written(how)
    BY DEF AppendOutcomes, Written
  <2>14. ASSUME Written(how) PROVE ~NoSwitch(file'.lines)
    <3>1. ReadChat(file') = Append(read, item)
      BY <2>10, <2>12, <2>14
    <3>2. ~NoSwitch(ReadChat(file'))
      BY <1>1, <3>1, SwitchStays
    <3>3. QED
      BY <2>10, <3>2, SwitchRead
  <2>15. DurableSurvives'
    <3>1. PICK kept \in SUBSET DOMAIN read : Keep(read, kept) = durable
      BY <1>7 DEF DurInv, DurableSurvives
    <3>2. PICK k1, k2 \in SUBSET DOMAIN Append(read, item) :
              /\ Keep(Append(read, item), k1) = Keep(read, kept)
              /\ Keep(Append(read, item), k2) = Append(Keep(read, kept), item)
      BY DurableAppend
    <3>3. CASE how \in {"none", "torn"}
      <4>1. ReadChat(file') = read /\ durable' = durable
        BY <2>2, <2>10, <2>12, <3>3
      <4>2. QED
        BY <3>1, <4>1 DEF DurableSurvives
    <3>4. CASE how \notin {"none", "torn"}
      <4>1. ReadChat(file') = Append(read, item) /\ durable' \in {durable, Append(durable, item)}
        BY <2>2, <2>10, <3>4
      <4>2. QED
        BY <3>1, <3>2, <4>1 DEF DurableSurvives
    <3>5. QED
      BY <3>3, <3>4
  <2>16. durable' \in Seq(Said)
    <3>1. Append(durable, item) \in Seq(Said)
      BY <1>4, SMT
    <3>2. QED
      BY <1>4, <2>2, <3>1
  <2>17. ~lost' => ReadChat(file') = st'.conv
    BY <1>8, <2>2, <2>3, <2>7, <2>10, <2>12, <2>13
  <2>18. lost' \in BOOLEAN
    BY <1>4, <2>2
  <2>19. OneSwitch(st'.conv, item)
    BY <2>4, <2>7, <2>8
  <2>20. ~NoSwitch(st'.conv) => ~NoSwitch(file'.lines)
    BY <1>6, <1>12, <2>7, <2>14
  <2>21. QED
    BY <2>7, <2>10, <2>11, <2>15, <2>16, <2>17, <2>18, <2>19, <2>20
<1>13. QED
  BY <1>1, <1>2, <1>7, <1>11, <1>12

\* A message taken from the channel that is no switch.
LEMMA WroteKeeps ==
    ASSUME DurInv, NEW m, Wrote(m), file' \in Files, durable' \in Seq(Said), lost' \in BOOLEAN,
           backup' \in [made : BOOLEAN, items : Seq(Said)], left' \in [OpNames -> Nat],
           pending' = pending
    PROVE  DurInv'
<1>1. queue' \in Seq(Msgs) /\ UNCHANGED <<up, st, awaiting>>
  <2>1. ReadChat(file) \in Seq(Said) /\ queue \in Seq(Msgs)
    BY FileFacts DEF DurInv, TypeInv
  <2>2. QED
    BY <2>1, TakeFacts DEF Wrote
<1>2. TypeInv'
  BY <1>1 DEF TypeInv, DurInv
<1>3. QED
  BY <1>2, WroteFacts, WroteSwitch DEF DurInv

LEMMA HeadTyped ==
    ASSUME DurInv, NEW op, Take(op)
    PROVE  /\ Head(queue) \in Msgs /\ Head(queue).items \in Seq(Said) /\ Head(queue).op = op /\ up
           /\ queue # <<>> /\ queue' = Tail(queue)
           /\ op = "chat" => Head(queue).items[1] \in Said
<1>1. queue \in Seq(Msgs) /\ queue # <<>> /\ ReadChat(file) \in Seq(Said)
  BY FileFacts DEF DurInv, TypeInv, Take
<1>2. Head(queue) \in Msgs /\ Head(queue) = queue[1] /\ 1 \in 1..Len(queue)
  BY <1>1, TakeFacts
<1>3. Head(queue).items \in Seq(Said)
  BY <1>2 DEF Msgs
<1>4. Head(queue).op = "chat" => Len(Head(queue).items) = 1
  BY <1>2 DEF DurInv, ChannelInv, Single
<1>5. QED
  BY <1>1, <1>2, <1>3, <1>4, OneItem DEF Take

LEMMA PersistChatKeeps ==
    ASSUME DurInv, NEW how \in AppendOutcomes, PersistChat(how)
    PROVE  DurInv'
<1>1. PICK m \in Msgs : m = Head(queue)
  BY HeadTyped DEF PersistChat
<1>2. PICK item \in Said : item = m.items[1]
  BY <1>1, HeadTyped DEF PersistChat
<1>3. m.op = "chat" /\ up /\ queue # <<>> /\ queue' = Tail(queue)
  BY <1>1, HeadTyped DEF PersistChat
<1>4. /\ Fails(how)
      /\ file' = AppendLine(file, item, how)
      /\ durable' = IF Written(how) THEN Append(durable, item) ELSE durable
      /\ lost' = (lost \/ ~Written(how))
      /\ UNCHANGED <<up, st, pending, awaiting, backup>>
  BY <1>1, <1>2 DEF PersistChat, actor
<1>5. /\ file \in Files /\ durable \in Seq(Said) /\ lost \in BOOLEAN
      /\ left \in [OpNames -> Nat] /\ backup \in [made : BOOLEAN, items : Seq(Said)]
  BY DEF DurInv, TypeInv
<1>6. /\ file' \in Files
      /\ ReadChat(file') = IF how \in {"none", "torn"} THEN ReadChat(file) ELSE Append(ReadChat(file), item)
      /\ how = "none" => file'.lines = file.lines
      /\ how = "torn" => file'.lines = Append(file.lines, Torn)
      /\ how \notin {"none", "torn"} => file'.lines = Append(file.lines, item)
  <2>1. /\ file' \in Files
        /\ ReadChat(file') = IF how \in {"none", "torn"} THEN ReadChat(file) ELSE Append(ReadChat(file), item)
    BY <1>4, <1>5, AppendFacts
  <2>2. /\ how = "none" => file'.lines = file.lines
        /\ how = "torn" => file'.lines = Append(file.lines, Torn)
        /\ how \notin {"none", "torn"} => file'.lines = Append(file.lines, item)
    BY <1>4 DEF AppendLine, File
  <2>3. QED
    BY <2>1, <2>2
<1>7. Append(durable, item) \in Seq(Said)
  BY <1>5, SMT
<1>8. durable' \in Seq(Said) /\ lost' \in BOOLEAN /\ left' \in [OpNames -> Nat]
  BY <1>4, <1>5, <1>7, FailsType
<1>9. how \in {"none", "torn"} => ~Written(how)
  BY DEF Written
<1>10. NothingRead(m) \/ LineRead(m)
  <2>1. CASE how \in {"none", "torn"}
    BY <1>4, <1>6, <1>9, <2>1 DEF NothingRead
  <2>2. CASE how \notin {"none", "torn"}
    <3>1. (durable' = Append(durable, item) /\ lost' = lost) \/ (durable' = durable /\ lost')
      BY <1>4, <1>5
    <3>2. QED
      BY <1>2, <1>3, <1>6, <2>2, <3>1 DEF LineRead
  <2>3. QED
    BY <2>1, <2>2
<1>11. Wrote(m)
  BY <1>1, <1>3, <1>4, <1>10 DEF Wrote
<1>12. QED
  BY <1>4, <1>5, <1>6, <1>8, <1>11, WroteKeeps

LEMMA RewriteKeeps ==
    ASSUME DurInv, NEW m, m = Head(queue), m.op \in {"replace", "strip"}, Take(m.op), NEW how,
           Rewrite(m.items, how), UNCHANGED <<up, st, pending, awaiting>>,
           backup' \in [made : BOOLEAN, items : Seq(Said)], left' \in [OpNames -> Nat]
    PROVE  DurInv'
<1>1. m.items \in Seq(Said) /\ up /\ queue # <<>> /\ queue' = Tail(queue)
  BY HeadTyped
<1>2. file \in Files /\ durable \in Seq(Said)
  BY DEF DurInv, TypeInv
<1>3. /\ file' = RewriteFile(file, m.items, how)
      /\ durable' = IF Written(how) THEN m.items ELSE durable
      /\ lost' = ~Written(how)
  BY DEF Rewrite
<1>4. /\ file' \in Files
      /\ ReadChat(file') = IF Written(how) THEN m.items ELSE ReadChat(file)
      /\ file'.lines = IF Written(how) THEN m.items ELSE file.lines
  BY <1>1, <1>2, <1>3, RewriteFacts
<1>5. NothingRead(m) \/ AllRead(m)
  BY <1>3, <1>4 DEF NothingRead, AllRead, IsRewrite
<1>6. Wrote(m)
  BY <1>1, <1>5 DEF Wrote
<1>7. durable' \in Seq(Said) /\ lost' \in BOOLEAN
  BY <1>1, <1>2, <1>3
<1>8. QED
  BY <1>4, <1>6, <1>7, WroteKeeps

LEMMA BackupType ==
    ASSUME file \in Files, backup \in [made : BOOLEAN, items : Seq(Said)]
    PROVE  Backup \in [made : BOOLEAN, items : Seq(Said)]
BY FileFacts DEF Backup

LEMMA PersistStepKeeps ==
    ASSUME DurInv, PersistStep
    PROVE  DurInv'
<1>1. /\ file \in Files /\ backup \in [made : BOOLEAN, items : Seq(Said)]
      /\ left \in [OpNames -> Nat] /\ durable \in Seq(Said) /\ lost \in BOOLEAN
  BY DEF DurInv, TypeInv
<1>2. ASSUME NEW how \in RewriteOutcomes, PersistReplace(how) PROVE DurInv'
  <2>1. PICK m : m = Head(queue)
    OBVIOUS
  <2>2. /\ m.op = "replace" /\ Take(m.op) /\ Rewrite(m.items, how) /\ Fails(how)
        /\ UNCHANGED <<up, st, pending, awaiting, backup>>
    BY <1>2, <2>1, HeadTyped DEF PersistReplace, actor
  <2>3. left' \in [OpNames -> Nat]
    BY <1>1, <2>2, FailsType
  <2>4. QED
    BY <1>1, <2>1, <2>2, <2>3, RewriteKeeps
<1>3. ASSUME NEW backedUp \in BOOLEAN, NEW how \in RewriteOutcomes, PersistStrip(backedUp, how)
      PROVE  DurInv'
  <2>1. PICK m : m = Head(queue)
    OBVIOUS
  <2>2. PICK h : h = IF backedUp THEN how ELSE "none"
    OBVIOUS
  <2>3. /\ m.op = "strip" /\ Take(m.op) /\ Rewrite(m.items, h)
        /\ backup' = (IF backedUp THEN Backup ELSE backup)
        /\ IF backedUp THEN Fails(how) ELSE Use("fail_copy")
        /\ UNCHANGED <<up, st, pending, awaiting>>
    BY <1>3, <2>1, <2>2, HeadTyped DEF PersistStrip, actor
  <2>4. left' \in [OpNames -> Nat]
    BY <1>1, <2>3, FailsType, UseType DEF OpNames
  <2>5. backup' \in [made : BOOLEAN, items : Seq(Said)]
    BY <1>1, <2>3, BackupType
  <2>6. QED
    BY <2>1, <2>3, <2>4, <2>5, RewriteKeeps
<1>4. ASSUME PersistFlush PROVE DurInv'
  <2>1. PICK m \in Msgs : m = Head(queue)
    BY <1>4, HeadTyped DEF PersistFlush
  <2>2. /\ m.op = "flush" /\ up /\ queue # <<>> /\ queue' = Tail(queue)
        /\ UNCHANGED <<up, st, pending, awaiting, file, backup, durable, lost, left>>
    BY <1>4, <2>1, HeadTyped DEF PersistFlush, actor, disk
  <2>3. NothingRead(m)
    BY <2>2 DEF NothingRead
  <2>4. Wrote(m)
    BY <2>1, <2>2, <2>3 DEF Wrote
  <2>5. QED
    BY <1>1, <2>2, <2>4, WroteKeeps
<1>5. QED
  BY <1>2, <1>3, <1>4, PersistChatKeeps, PersistSwitchKeeps DEF PersistStep

LEMMA ConcatItems ==
    ASSUME NEW S, NEW a \in Seq(S), NEW b \in Seq(S), NEW k \in 1..Len(a \o b)
    PROVE  (k \in 1..Len(a) /\ (a \o b)[k] = a[k]) \/ \E i \in 1..Len(b) : (a \o b)[k] = b[i]
<1>1. PICK o : o = a \o b
  OBVIOUS
<1>2. PICK n \in Nat : n = Len(a)
  BY SMT
<1>3. PICK l \in Nat : l = Len(b)
  BY SMT
<1>4. /\ Len(o) = n + l /\ \A i \in 1..n : o[i] = a[i]
      /\ \A i \in 1..l : o[n + i] = b[i]
  BY <1>1, <1>2, <1>3, ConcatFacts
<1>5. k \in 1..(n + l)
  BY <1>1, <1>4
<1>6. k \in 1..n \/ (k - n \in 1..l /\ n + (k - n) = k)
  BY <1>5, SMT
<1>7. QED
  BY <1>1, <1>2, <1>3, <1>4, <1>6

LEMMA CommandKeeps ==
    ASSUME DurInv, Command, pending' \subseteq Nat, left' \in [OpNames -> Nat]
    PROVE  DurInv'
<1>1. PICK out : Posts(st.conv, st'.conv, out) /\ queue' = queue \o out
  BY DEF Command
<1>2. /\ up /\ ~awaiting /\ st' \in States
      /\ UNCHANGED <<up, awaiting, file, backup, durable, lost>>
  BY DEF Command
<1>3. PICK c \in Seq(Said) : c = st.conv
  BY DEF DurInv, TypeInv, States
<1>4. PICK d \in Seq(Said) : d = st'.conv
  BY <1>1 DEF Posts
<1>5. out \in Seq(Msgs) /\ Replay(c, out) = d
  BY <1>1, <1>3, <1>4 DEF Posts
<1>6. PICK q \in Seq(Msgs) : q = queue
  BY DEF DurInv, TypeInv
<1>7. PICK r \in Seq(Msgs) : r = q \o out
  BY <1>5, ConcatFacts
<1>8. queue' = r
  BY <1>1, <1>6, <1>7
<1>9. PICK read \in Seq(Said) : read = ReadChat(file)
  BY FileFacts DEF DurInv, TypeInv
<1>10. \A k \in 1..Len(r) : (k \in 1..Len(q) /\ r[k] = q[k]) \/ \E i \in 1..Len(out) : r[k] = out[i]
  <2>1. PICK o \in Seq(Msgs) : o = out
    BY <1>5
  <2>2. ASSUME NEW k \in 1..Len(q \o o)
        PROVE  (k \in 1..Len(q) /\ (q \o o)[k] = q[k]) \/ \E i \in 1..Len(o) : (q \o o)[k] = o[i]
    BY ConcatItems
  <2>3. r = q \o o
    BY <1>7, <2>1
  <2>4. QED
    BY <2>1, <2>2, <2>3
<1>11. TypeInv'
  BY <1>2, <1>8 DEF TypeInv, DurInv
<1>12. ChannelInv'
  <2>1. \A k \in 1..Len(q) : Single(q[k]) /\ q[k].op # "switch" /\ (q[k].op = "chat" => ~IsSwitch(q[k].items[1]))
    BY <1>2, <1>6 DEF DurInv, ChannelInv
  <2>2. \A k \in 1..Len(out) : Single(out[k]) /\ out[k].op # "switch" /\ (out[k].op = "chat" => ~IsSwitch(out[k].items[1]))
    BY <1>1 DEF Posts
  <2>3. \A k \in 1..Len(r) : Single(r[k]) /\ r[k].op # "switch" /\ (r[k].op = "chat" => ~IsSwitch(r[k].items[1]))
    BY <1>10, <2>1, <2>2
  <2>4. QED
    BY <1>2, <1>8, <2>3 DEF ChannelInv
<1>13. FaithInv'
  <2>1. SUFFICES ASSUME ~lost \/ HasRewrite(r) PROVE Replay(read, r) = d
    BY <1>2, <1>4, <1>8, <1>9 DEF FaithInv
  <2>2. PICK mid \in Seq(Said) : mid = Replay(read, q)
    BY ReplayType
  <2>3. Replay(read, r) = Replay(mid, out)
    BY <1>5, <1>7, <2>2, ReplayConcat
  <2>4. CASE ~lost \/ HasRewrite(q)
    <3>1. mid = c
      BY <1>2, <1>3, <1>6, <1>9, <2>2, <2>4 DEF DurInv, FaithInv
    <3>2. QED
      BY <1>5, <2>3, <3>1
  <2>5. CASE HasRewrite(out)
    BY <1>5, <2>3, <2>5, ReplayAny
  <2>6. HasRewrite(r) => HasRewrite(q) \/ HasRewrite(out)
    BY <1>10 DEF HasRewrite
  <2>7. QED
    BY <2>1, <2>4, <2>5, <2>6
<1>14. SwitchInv'
  <2>1. PICK s : /\ OneSwitch(file.lines, s) /\ OneSwitch(c, s)
                 /\ \A k \in 1..Len(q) : q[k].op # "switch" => OneSwitch(q[k].items, s)
    BY <1>3, <1>6 DEF DurInv, SwitchInv
  <2>2. OneSwitch(d, s) /\ \A k \in 1..Len(out) : OneSwitch(out[k].items, s)
    BY <1>1, <1>3, <1>4, <2>1 DEF Posts
  <2>3. \A k \in 1..Len(r) : r[k].op # "switch" => OneSwitch(r[k].items, s)
    BY <1>10, <2>1, <2>2
  <2>4. QED
    BY <1>2, <1>4, <1>8, <2>1, <2>2, <2>3 DEF SwitchInv
<1>15. KeptInv'
  <2>1. SUFFICES ASSUME ~NoSwitch(d)
                 PROVE  /\ ~NoSwitch(file.lines)
                        /\ \A k \in 1..Len(r) : IsRewrite(r[k]) => ~NoSwitch(r[k].items)
    BY <1>2, <1>4, <1>8 DEF KeptInv
  <2>2. ~NoSwitch(c)
    BY <1>1, <1>3, <1>4, <2>1, NoNewSwitch DEF Posts
  <2>3. ~NoSwitch(file.lines) /\ \A k \in 1..Len(q) : IsRewrite(q[k]) => ~NoSwitch(q[k].items)
    BY <1>3, <1>6, <2>2 DEF DurInv, KeptInv
  <2>4. \A k \in 1..Len(out) : IsRewrite(out[k]) => ~NoSwitch(out[k].items)
    BY <1>1, <1>4, <2>1 DEF Posts
  <2>5. QED
    BY <1>10, <2>3, <2>4
<1>16. DurableSurvives'
  BY <1>2 DEF DurInv, DurableSurvives
<1>17. QED
  BY <1>11, <1>12, <1>13, <1>14, <1>15, <1>16 DEF DurInv

LEMMA PostSwitchKeeps ==
    ASSUME DurInv, NEW text \in SwitchTexts, PostSwitch(1, text)
    PROVE  DurInv'
<1>1. PICK x \in Said : x = Switch(1, text)
  BY SaidFacts DEF Switch, Bodies
<1>2. <<x>> \in Seq(Said) /\ Len(<<x>>) = 1 /\ <<x>>[1] = x
  BY SMT
<1>3. PICK m \in Msgs : m = [op |-> "switch", items |-> <<x>>]
  BY <1>2 DEF Msgs
<1>4. m.op = "switch" /\ Len(m.items) = 1 /\ m.items[1] = x
  BY <1>2, <1>3
<1>5. PICK q \in Seq(Msgs) : q = queue
  BY DEF DurInv, TypeInv
<1>6. <<m>> \in Seq(Msgs) /\ Append(q, m) = q \o <<m>> /\ Append(q, m) \in Seq(Msgs)
  BY SMT
<1>7. PICK r \in Seq(Msgs) : r = Append(q, m)
  BY <1>6
<1>8. /\ up /\ ~awaiting /\ awaiting' = TRUE /\ queue' = r
      /\ UNCHANGED <<up, st, pending, file, backup, durable, lost>>
  BY <1>1, <1>3, <1>5, <1>7 DEF PostSwitch, disk, history
<1>9. left' \in [OpNames -> Nat]
  BY UseType DEF DurInv, TypeInv, PostSwitch, OpNames
<1>10. \A k \in 1..Len(r) : (k \in 1..Len(q) /\ r[k] = q[k]) \/ (k = Len(r) /\ r[k] = m)
  BY <1>7, SMT
<1>11. PICK read \in Seq(Said) : read = ReadChat(file)
  BY FileFacts DEF DurInv, TypeInv
<1>12. TypeInv'
  BY <1>8, <1>9 DEF TypeInv, DurInv
<1>13. ChannelInv'
  <2>1. \A k \in 1..Len(q) : Single(q[k]) /\ q[k].op # "switch" /\ (q[k].op = "chat" => ~IsSwitch(q[k].items[1]))
    BY <1>5, <1>8 DEF DurInv, ChannelInv
  <2>2. Single(m) /\ m.op # "chat"
    BY <1>4 DEF Single
  <2>3. QED
    BY <1>1, <1>4, <1>8, <1>10, <2>1, <2>2 DEF ChannelInv
<1>14. ~IsRewrite(m)
  BY <1>4 DEF IsRewrite
<1>15. FaithInv'
  <2>1. HasRewrite(r) => HasRewrite(q)
    BY <1>10, <1>14 DEF HasRewrite
  <2>2. PICK mid \in Seq(Said) : mid = Replay(read, q)
    BY ReplayType
  <2>3. Applied(mid, m) = mid
    BY <1>4 DEF Applied
  <2>4. Replay(read, r) = mid
    <3>1. PICK one \in Seq(Msgs) : one = <<m>>
      BY <1>6
    <3>2. Replay(read, q \o one) = Replay(mid, one)
      BY <2>2, ReplayConcat
    <3>3. Replay(mid, one) = mid
      BY <2>3, <3>1, ReplayFew
    <3>4. QED
      BY <1>6, <1>7, <3>1, <3>2, <3>3
  <2>5. QED
    BY <1>5, <1>8, <1>11, <2>1, <2>2, <2>4 DEF DurInv, FaithInv
<1>16. SwitchInv'
  BY <1>4, <1>5, <1>8, <1>10 DEF DurInv, SwitchInv
<1>17. KeptInv'
  BY <1>5, <1>8, <1>10, <1>14 DEF DurInv, KeptInv
<1>18. DurableSurvives'
  BY <1>8 DEF DurInv, DurableSurvives
<1>19. QED
  BY <1>12, <1>13, <1>15, <1>16, <1>17, <1>18 DEF DurInv

\* What a kill may leave.
LEMMA InterruptedFacts ==
    ASSUME DurInv, NEW remains \in Interrupted, up
    PROVE  /\ remains[1] \in Files /\ remains[2] \in [made : BOOLEAN, items : Seq(Said)]
           /\ \E s : OneSwitch(remains[1].lines, s)
<1>1. file \in Files /\ backup \in [made : BOOLEAN, items : Seq(Said)] /\ queue \in Seq(Msgs)
  BY DEF DurInv, TypeInv
<1>2. Backup \in [made : BOOLEAN, items : Seq(Said)]
  BY <1>1, BackupType
<1>3. PICK s : /\ OneSwitch(file.lines, s)
               /\ \A k \in 1..Len(queue) : queue[k].op # "switch" => OneSwitch(queue[k].items, s)
  BY DEF DurInv, SwitchInv
<1>4. CASE remains = <<file, backup>>
  BY <1>1, <1>3, <1>4
<1>5. CASE queue # <<>>
  <2>1. PICK m \in Msgs : m = Head(queue)
    BY <1>1, <1>5, FileFacts, TakeFacts
  <2>2. m = queue[1] /\ 1 \in 1..Len(queue) /\ m.items \in Seq(Said)
    BY <1>1, <1>5, <2>1, FileFacts, TakeFacts DEF Msgs
  <2>3. /\ Single(m) /\ (m.op = "chat" => ~IsSwitch(m.items[1]))
        /\ m.op # "switch" => OneSwitch(m.items, s)
    BY <1>3, <2>2 DEF DurInv, ChannelInv
  <2>4. PICK lines \in Seq(Lines) : lines = file.lines
    BY <1>1, FileFacts
  <2>5. ASSUME NEW how \in AppendOutcomes, remains = <<AppendLine(file, m.items[1], how), backup>>,
               \/ m.op = "chat"
               \/ m.op = "switch" /\ NoSwitch(lines)
        PROVE  /\ remains[1] \in Files /\ remains[2] \in [made : BOOLEAN, items : Seq(Said)]
               /\ \E x : OneSwitch(remains[1].lines, x)
    <3>1. PICK item \in Said : item = m.items[1]
      BY <2>2, <2>3, <2>5, OneItem DEF Single
    <3>2. PICK fl : fl = AppendLine(file, item, how)
      OBVIOUS
    <3>3. /\ fl \in Files
          /\ fl.lines = lines \/ fl.lines = Append(lines, Torn) \/ fl.lines = Append(lines, item)
      BY <1>1, <2>4, <3>2, AppendFacts
    <3>4. PICK x : OneSwitch(lines, x) /\ (~IsSwitch(item) \/ (item = x /\ NoSwitch(lines)))
      <4>1. CASE m.op = "chat"
        BY <1>3, <2>3, <2>4, <3>1, <4>1
      <4>2. CASE m.op = "switch"
        <5>1. OneSwitch(lines, item)
          BY <2>5, <4>2 DEF NoSwitch, OneSwitch
        <5>2. QED
          BY <2>5, <4>2, <5>1
      <4>3. QED
        BY <2>5, <4>1, <4>2
    <3>5. OneSwitch(fl.lines, x)
      BY <3>3, <3>4, OneSwitchAppend, TornFacts DEF Lines
    <3>6. remains[1] = fl /\ remains[2] = backup
      BY <2>5, <3>1, <3>2
    <3>7. QED
      BY <1>1, <3>3, <3>5, <3>6
  <2>6. ASSUME NEW b \in [made : BOOLEAN, items : Seq(Said)], remains = <<File(m.items, FALSE), b>>,
               m.op # "switch"
        PROVE  /\ remains[1] \in Files /\ remains[2] \in [made : BOOLEAN, items : Seq(Said)]
               /\ \E x : OneSwitch(remains[1].lines, x)
    <3>1. m.items \in Seq(Lines)
      BY <2>2, ReadAll
    <3>2. File(m.items, FALSE) \in Files /\ File(m.items, FALSE).lines = m.items
      BY <3>1 DEF File, Files
    <3>3. QED
      BY <2>3, <2>6, <3>2
  <2>7. CASE m.op = "chat"
    BY <1>4, <1>5, <2>1, <2>5, <2>7 DEF Interrupted
  <2>8. CASE m.op = "switch"
    <3>1. PICK found : found = SwitchOnFile(file, GenerationOf(m.items[1]))
      OBVIOUS
    <3>2. found = <<>> => NoSwitch(lines)
      <4>1. PICK text \in SwitchTexts : m.items[1] = Switch(1, text)
        BY <2>2, <2>8 DEF DurInv, ChannelInv
      <4>2. GenerationOf(m.items[1]) = 1
        BY <4>1 DEF GenerationOf, Switch, User, Item, IsUser
      <4>3. ReadChat(file) \in Seq(Said) /\ OneSwitch(ReadChat(file), s)
        BY <1>1, <1>3, FileFacts, SwitchRead
      <4>4. found = <<>> => NoSwitch(ReadChat(file))
        BY <3>1, <4>2, <4>3, SwitchesFound DEF SwitchOnFile
      <4>5. QED
        BY <1>1, <2>4, <4>4, SwitchRead
    <3>3. \/ remains = <<file, backup>>
          \/ found = <<>> /\ \E how \in AppendOutcomes : remains = <<AppendLine(file, m.items[1], how), backup>>
      BY <1>5, <2>1, <2>8, <3>1 DEF Interrupted
    <3>4. QED
      BY <1>4, <2>5, <2>8, <3>2, <3>3
  <2>9. CASE m.op = "replace"
    BY <1>1, <1>4, <1>5, <2>1, <2>6, <2>9 DEF Interrupted
  <2>10. CASE m.op = "strip"
    <3>1. remains = <<file, backup>> \/ remains = <<file, Backup>> \/ remains = <<File(m.items, FALSE), Backup>>
      BY <1>5, <2>1, <2>10 DEF Interrupted
    <3>2. CASE remains = <<file, Backup>>
      BY <1>1, <1>2, <1>3, <3>2
    <3>3. QED
      BY <1>2, <1>4, <2>6, <2>10, <3>1, <3>2
  <2>11. CASE m.op = "flush"
    BY <1>4, <1>5, <2>1, <2>11 DEF Interrupted
  <2>12. QED
    BY <2>7, <2>8, <2>9, <2>10, <2>11 DEF Msgs
<1>6. CASE queue = <<>>
  <2>1. Interrupted = {<<file, backup>>} \cup {}
    BY <1>6 DEF Interrupted
  <2>2. QED
    BY <1>4, <2>1
<1>7. QED
  BY <1>5, <1>6

LEMMA CrashKeeps == ASSUME DurInv, Crash PROVE DurInv'
<1>1. PICK remains \in Interrupted : file' = remains[1] /\ backup' = remains[2]
  BY DEF Crash
<1>2. /\ up /\ up' = FALSE /\ st' = State(<<>>, st.prompt, NoCapture)
      /\ pending' = {} /\ awaiting' = FALSE /\ queue' = <<>> /\ lost' = FALSE
      /\ durable' = ReadChat(file') /\ Use("crash")
  BY DEF Crash
<1>3. /\ file' \in Files /\ backup' \in [made : BOOLEAN, items : Seq(Said)]
      /\ \E s : OneSwitch(file'.lines, s)
  BY <1>1, <1>2, InterruptedFacts
<1>4. st \in States /\ st.prompt \in Nat /\ left \in [OpNames -> Nat]
  BY DEF DurInv, TypeInv, States
<1>5. st' \in States /\ st'.conv = <<>>
  BY <1>2, <1>4, NoItems DEF State, States
<1>6. ReadChat(file') \in Seq(Said)
  BY <1>3, FileFacts
<1>7. left' \in [OpNames -> Nat]
  BY <1>2, <1>4, UseType DEF OpNames
<1>8. TypeInv'
  BY <1>2, <1>3, <1>5, <1>6, <1>7, NoItems DEF TypeInv
<1>9. ChannelInv' /\ FaithInv'
  BY <1>2, NoItems DEF ChannelInv, FaithInv
<1>10. SwitchInv' /\ KeptInv'
  BY <1>2, <1>3, <1>5, NoItems DEF SwitchInv, KeptInv
<1>11. DurableSurvives'
  BY <1>2, <1>6, DurableAll DEF DurableSurvives
<1>12. QED
  BY <1>8, <1>9, <1>10, <1>11 DEF DurInv

\* What Resume makes of the file.
LEMMA ResumeFacts ==
    ASSUME TypeInv, NEW how, Resume(how)
    PROVE  /\ st' \in States /\ st'.conv = ReadChat(file) /\ st'.prompt = st.prompt
           /\ queue' = <<Replace(ReadChat(file))>>
           /\ ReadChat(file') = ReadChat(file) /\ file' \in Files
           /\ file'.lines = file.lines \/ file'.lines = ReadChat(file)
<1>1. file \in Files /\ st \in States /\ st.prompt \in Nat
  BY DEF TypeInv, States
<1>2. PICK loaded \in Seq(Said) : loaded = ReadChat(file)
  BY <1>1, FileFacts
<1>3. PICK new : new = NewState(loaded)
  OBVIOUS
<1>4. Integrity(loaded, "cancelled") \in Seq(Said)
  BY PassTypes
<1>5. new \in States
  BY <1>3, <1>4 DEF NewState, State, States
<1>6. PICK effect : effect = ReplaceConversation(new, loaded, FALSE)
  OBVIOUS
<1>7. effect.st = [new EXCEPT !.conv = loaded] /\ effect.out = <<Replace(loaded)>>
  BY <1>5, <1>6, ReplaceConversationFacts
<1>8. effect.st \in States /\ effect.st.conv = loaded
  BY <1>5, <1>7, StateConv
<1>9. /\ file' = RewriteFile(file, loaded, how)
      /\ st' = [effect.st EXCEPT !.prompt = st.prompt]
      /\ queue' = effect.out
  BY <1>2, <1>3, <1>6 DEF Resume
<1>10. st' \in States /\ st'.conv = loaded /\ st'.prompt = st.prompt
  <2>1. PICK t \in States : t = effect.st
    BY <1>8
  <2>2. [t EXCEPT !.prompt = st.prompt] \in States /\ [t EXCEPT !.prompt = st.prompt].conv = t.conv
        /\ [t EXCEPT !.prompt = st.prompt].prompt = st.prompt
    BY <1>1 DEF States
  <2>3. QED
    BY <1>8, <1>9, <2>1, <2>2
<1>11. /\ file' \in Files /\ ReadChat(file') = IF Written(how) THEN loaded ELSE ReadChat(file)
       /\ file'.lines = IF Written(how) THEN loaded ELSE file.lines
  BY <1>1, <1>9, RewriteFacts
<1>12. QED
  BY <1>2, <1>7, <1>9, <1>10, <1>11

LEMMA ResumeKeeps == ASSUME DurInv, NEW how \in RewriteOutcomes, Resume(how) PROVE DurInv'
<1>1. PICK loaded \in Seq(Said) : loaded = ReadChat(file)
  BY FileFacts DEF DurInv, TypeInv
<1>2. PICK m : m = Replace(loaded)
  OBVIOUS
<1>3. m \in Msgs /\ m.op = "replace" /\ m.items = loaded
  BY <1>2 DEF Replace, Msgs
<1>4. /\ st' \in States /\ st'.conv = loaded /\ queue' = <<m>>
      /\ ReadChat(file') = loaded /\ file' \in Files
      /\ file'.lines = file.lines \/ file'.lines = loaded
  BY <1>1, <1>2, ResumeFacts DEF DurInv
<1>5. ~up /\ up' = TRUE /\ Fails(how) /\ UNCHANGED <<pending, awaiting, backup, durable, lost>>
  BY DEF Resume, history
<1>6. <<m>> \in Seq(Msgs) /\ \A k \in 1..Len(<<m>>) : <<m>>[k] = m
  BY <1>3, SMT
<1>7. left' \in [OpNames -> Nat]
  BY <1>5, FailsType DEF DurInv, TypeInv
<1>8. TypeInv'
  BY <1>4, <1>5, <1>6, <1>7 DEF TypeInv, DurInv
<1>9. ChannelInv'
  BY <1>3, <1>4, <1>5, <1>6 DEF ChannelInv, Single
<1>10. FaithInv'
  <2>1. Applied(loaded, m) = loaded
    BY <1>3 DEF Applied
  <2>2. Replay(loaded, <<m>>) = loaded
    BY <1>3, <2>1, ReplayFew
  <2>3. QED
    BY <1>4, <2>2 DEF FaithInv
<1>11. PICK s : OneSwitch(file.lines, s)
  BY DEF DurInv, SwitchInv
<1>12. OneSwitch(loaded, s) /\ (NoSwitch(loaded) <=> NoSwitch(file.lines))
  BY <1>1, <1>11, SwitchRead DEF DurInv, TypeInv
<1>13. SwitchInv'
  BY <1>3, <1>4, <1>6, <1>11, <1>12 DEF SwitchInv
<1>14. KeptInv'
  BY <1>3, <1>4, <1>6, <1>12 DEF KeptInv
<1>15. DurableSurvives'
  <2>1. ReadChat(file') = ReadChat(file) /\ durable' = durable
    BY <1>1, <1>4, <1>5
  <2>2. QED
    BY <2>1 DEF DurInv, DurableSurvives
<1>16. QED
  BY <1>8, <1>9, <1>10, <1>13, <1>14, <1>15 DEF DurInv

\* There is nothing to repair in an empty session.
LEMMA HeadUntouched ==
    ASSUME NEW c \in Seq(Said), Len(c) = 1, c[1] = System("head")
    PROVE  Integrity(c, "cancelled") = c
<1>1. c[1].kind = "system" /\ c[1].calls = <<>> /\ DOMAIN c = {1} /\ DOMAIN <<>> = {}
  <2>1. c[1].kind = "system" /\ c[1].calls = <<>>
    BY DEF System, Item
  <2>2. DOMAIN c = 1..1 /\ 1..1 = {1} /\ DOMAIN <<>> = {}
    BY SMT
  <2>3. QED
    BY <2>1, <2>2
<1>2. ~IsResult(c[1])
  BY <1>1 DEF IsResult
<1>3. ProviderValid(c)
  BY <1>1, <1>2 DEF ProviderValid
<1>4. Answerable(Said, "cancelled")
  BY SaidAnswerable DEF Bodies, Reasons
<1>5. Dedup(c) = c /\ RepairDangling(c, "cancelled") = c
  BY <1>3, <1>4, ValidUntouched
<1>6. QED
  BY <1>5 DEF Integrity

LEMMA InitKeeps == ASSUME Init PROVE DurInv
<1>1. PICK x \in Said : x = System("head")
  BY SaidFacts
<1>2. <<x>> \in Seq(Said) /\ Len(<<x>>) = 1 /\ <<x>>[1] = x /\ \A i \in 1..Len(<<x>>) : <<x>>[i] = x
  BY SMT
<1>3. PICK c \in Seq(Said) : c = <<x>>
  BY <1>2
<1>4. Integrity(c, "cancelled") = c
  BY <1>1, <1>2, <1>3, HeadUntouched
<1>5. st = NewState(c) /\ file = File(c, FALSE) /\ durable = c
  BY <1>1, <1>3 DEF Init
<1>6. st \in States /\ st.conv = c
  BY <1>4, <1>5 DEF NewState, State, States
<1>7. c \in Seq(Lines) /\ ReadChat(file) = c
  BY <1>5, ReadAll
<1>8. file \in Files /\ file.lines = c
  BY <1>5, <1>7 DEF Files, File
<1>9. backup \in [made : BOOLEAN, items : Seq(Said)]
  BY NoItems DEF Init, NoBackup
<1>10. left \in [OpNames -> Nat]
  BY DurabilityAssumption DEF Init
<1>11. TypeInv
  BY <1>5, <1>6, <1>8, <1>9, <1>10, NoItems DEF TypeInv, Init
<1>12. ChannelInv
  BY NoItems DEF ChannelInv, Init
<1>13. FaithInv
  BY <1>6, <1>7, ReplayFew DEF FaithInv, Init
<1>14. x.kind = "system"
  BY <1>1 DEF System, Item
<1>15. NoSwitch(c)
  BY <1>2, <1>3, <1>14, NotSwitch DEF NoSwitch
<1>16. OneSwitch(c, x)
  BY <1>15 DEF NoSwitch, OneSwitch
<1>17. SwitchInv /\ KeptInv
  BY <1>6, <1>8, <1>15, <1>16, NoItems DEF SwitchInv, KeptInv, Init
<1>18. DurableSurvives
  BY <1>5, <1>7, DurableAll DEF DurableSurvives
<1>19. QED
  BY <1>11, <1>12, <1>13, <1>17, <1>18 DEF DurInv

----------------------------------------------------------------------------
(* Theorems *)

\* Every state of a session has what is on disk, on its way there and in memory agree: the
\* inductive invariant behind what the theorems below say of a reload, of what was written and of
\* a switch.
THEOREM DurabilityInvariant == Spec => []DurInv
<1>1. Init => DurInv
  BY InitKeeps
<1>2. DurInv /\ [Next]_vars => DurInv'
  <2>1. SUFFICES ASSUME DurInv, [Next]_vars PROVE DurInv'
    OBVIOUS
  <2>2. CASE ActorStep
    <3>1. /\ Command \/ \E text \in SwitchTexts : PostSwitch(1, text)
          /\ pending' \subseteq Nat /\ left' \in [OpNames -> Nat]
      BY <2>1, <2>2, ActorStepFacts DEF DurInv
    <3>2. QED
      BY <2>1, <3>1, CommandKeeps, PostSwitchKeeps
  <2>3. CASE UNCHANGED vars
    BY <2>1, <2>3 DEF vars, actor, disk, history, DurInv, TypeInv, ChannelInv, FaithInv, SwitchInv,
       KeptInv, DurableSurvives
  <2>4. QED
    BY <2>1, <2>2, <2>3, PersistStepKeeps, CrashKeeps, ResumeKeeps DEF Next
<1>3. QED
  BY <1>1, <1>2, PTL DEF Spec

\* What is on disk and on its way there is the conversation in memory, in every session,
\* whatever was written late, failed before a later rewrite, or was killed.
THEOREM ReloadFaithful == Spec => []ReloadIsFaithful
<1>1. DurInv => ReloadIsFaithful
  BY DEF DurInv, FaithInv, ReloadIsFaithful
<1>2. QED
  BY <1>1, DurabilityInvariant, PTL

\* What was written without an error can be read until it is rewritten, whatever later
\* appends left in the file.
THEOREM DurableKept == Spec => []DurableSurvives
<1>1. DurInv => DurableSurvives
  BY DEF DurInv
<1>2. QED
  BY <1>1, DurabilityInvariant, PTL

\* A switch is recorded once, in memory and in the file, however often it is retried.
THEOREM SwitchRecordedOnce == Spec => []SwitchOnce
<1>1. DurInv => SwitchOnce
  <2>1. SUFFICES ASSUME DurInv PROVE SwitchOnce
    OBVIOUS
  <2>2. PICK s : OneSwitch(file.lines, s) /\ OneSwitch(st.conv, s)
    BY <2>1 DEF DurInv, SwitchInv
  <2>3. ReadChat(file) \in Seq(Said) /\ OneSwitch(ReadChat(file), s) /\ st.conv \in Seq(Said)
    BY <2>1, <2>2, FileFacts, SwitchRead DEF DurInv, TypeInv, States
  <2>4. PICK inFile : inFile = SwitchOnFile(file, 1)
    OBVIOUS
  <2>5. PICK inMemory : inMemory = SwitchesOf(st.conv, 1)
    OBVIOUS
  <2>6. inFile \in {<<>>, <<s>>} /\ inMemory \in {<<>>, <<s>>}
    BY <2>2, <2>3, <2>4, <2>5, SwitchesFound DEF SwitchOnFile
  <2>7. Len(<<>>) <= 1 /\ Len(<<s>>) <= 1
    BY SMT
  <2>8. QED
    BY <2>4, <2>5, <2>6, <2>7 DEF SwitchOnce
<1>2. QED
  BY <1>1, DurabilityInvariant, PTL

----------------------------------------------------------------------------
(* The age of a tool result *)

\* What lost its text has its turns behind it.
Behind(c) == \A i \in 1..Len(c) : c[i].body = Cleared => TurnFromEnd(c, i) >= HardClearAge

\* f says which item of c each item of d was, 0 for the new ones: the order stays, so do the
\* user messages, and what loses its text is old enough.
Follows(c, d, f) ==
    /\ f \in [1..Len(d) -> 0..Len(c)]
    /\ \A x, y \in 1..Len(d) : x < y /\ f[x] # 0 /\ f[y] # 0 => f[x] < f[y]
    /\ \A i \in 1..Len(c) : IsUser(c[i]) => \E x \in 1..Len(d) : f[x] = i /\ IsUser(d[x])
    /\ \A x \in 1..Len(d) :
          d[x].body = Cleared => /\ f[x] # 0
                                 /\ c[f[x]].body = Cleared \/ TurnFromEnd(c, f[x]) >= HardClearAge

LEMMA TurnTypes ==
    ASSUME NEW c \in Seq(Said), NEW i \in Nat
    PROVE  CountUsers(c, i) \in Nat /\ TurnFromEnd(c, i) \in Nat
<1>1. PICK m \in Nat : m = Len(c)
  BY LenNat
<1>2. ASSUME NEW j \in Nat PROVE CountUsers(c, j) \in Nat
  <2>1. PICK s : s = {k \in j..m : IsUser(c[k])}
    OBVIOUS
  <2>2. IsFiniteSet(j..m) /\ s \in SUBSET (j..m)
    BY <2>1, FS_Interval
  <2>3. IsFiniteSet(s)
    BY <2>2, FS_Subset
  <2>4. QED
    BY <1>1, <2>1, <2>3, FS_CardinalityType DEF CountUsers
<1>3. i + 1 \in Nat
  BY SMT
<1>4. PICK n \in Nat : n = CountUsers(c, i + 1)
  BY <1>2, <1>3
<1>5. (IF n = 0 THEN 0 ELSE n - 1) \in Nat
  BY SMT
<1>6. QED
  BY <1>2, <1>4, <1>5 DEF TurnFromEnd

\* No item has fewer turns behind it.
LEMMA UsersFollow ==
    ASSUME NEW c \in Seq(Said), NEW d \in Seq(Said), NEW f, Follows(c, d, f),
           NEW x \in 1..Len(d), f[x] # 0
    PROVE  /\ f[x] \in 1..Len(c) /\ TurnFromEnd(c, f[x]) \in Nat /\ TurnFromEnd(d, x) \in Nat
           /\ TurnFromEnd(d, x) >= TurnFromEnd(c, f[x])
<1>1. PICK m \in Nat : m = Len(c)
  BY LenNat
<1>2. PICK n \in Nat : n = Len(d)
  BY LenNat
<1>3. /\ f \in [1..n -> 0..m]
      /\ \A y, z \in 1..n : y < z /\ f[y] # 0 /\ f[z] # 0 => f[y] < f[z]
      /\ \A j \in 1..m : IsUser(c[j]) => \E y \in 1..n : f[y] = j /\ IsUser(d[y])
  BY <1>1, <1>2 DEF Follows
<1>4. x \in 1..n /\ x \in Nat /\ x + 1 \in Nat
  BY <1>2, SMT
<1>5. PICK i \in 1..m : i = f[x]
  <2>1. f[x] \in 0..m
    BY <1>3, <1>4
  <2>2. f[x] \in 1..m
    BY <2>1, SMT
  <2>3. QED
    BY <2>2
<1>6. i \in Nat /\ i + 1 \in Nat
  BY SMT
<1>7. PICK after : after = {j \in (i + 1)..m : IsUser(c[j])}
  OBVIOUS
<1>8. PICK later : later = {y \in (x + 1)..n : IsUser(d[y])}
  OBVIOUS
<1>9. \A j \in after : j \in 1..m /\ i < j /\ j # 0 /\ IsUser(c[j])
  <2>1. \A j \in (i + 1)..m : j \in 1..m /\ i < j /\ j # 0
    BY SMT
  <2>2. QED
    BY <1>7, <2>1
<1>10. ASSUME NEW j \in after, NEW y \in 1..n, f[y] = j, IsUser(d[y]) PROVE y \in later
  <2>1. y < x => j < i
    BY <1>3, <1>4, <1>5, <1>9, <1>10
  <2>2. y # x /\ i < j
    <3>1. i < j /\ (i = j => FALSE)
      BY <1>9, SMT
    <3>2. QED
      BY <1>5, <1>10, <3>1
  <2>3. ~(y < x)
    BY <1>9, <2>1, <2>2, SMT
  <2>4. y \in (x + 1)..n
    BY <1>4, <2>2, <2>3, SMT
  <2>5. QED
    BY <1>8, <1>10, <2>4
<1>11. PICK g : g = [j \in after |-> CHOOSE y \in 1..n : f[y] = j /\ IsUser(d[y])]
  OBVIOUS
<1>12. ASSUME NEW j \in after PROVE g[j] \in later /\ f[g[j]] = j
  <2>1. \E y \in 1..n : f[y] = j /\ IsUser(d[y])
    BY <1>3, <1>9
  <2>2. g[j] \in 1..n /\ f[g[j]] = j /\ IsUser(d[g[j]])
    BY <1>11, <2>1
  <2>3. QED
    BY <1>10, <2>2
<1>13. g \in Injection(after, later)
  <2>1. g \in [after -> later]
    BY <1>11, <1>12
  <2>2. ASSUME NEW j \in after, NEW k \in after, g[j] = g[k] PROVE j = k
    <3>1. f[g[j]] = j /\ f[g[k]] = k
      BY <1>12
    <3>2. QED
      BY <2>2, <3>1
  <2>3. \A j, k \in after : g[j] = g[k] => j = k
    BY <2>2
  <2>4. QED
    BY <2>1, <2>3 DEF Injection, IsInjective
<1>14. IsFiniteSet(later)
  <2>1. PICK k \in Nat : k = x + 1
    BY <1>4
  <2>2. IsFiniteSet(k..n)
    BY FS_Interval
  <2>3. later \in SUBSET (k..n)
    BY <1>8, <2>1
  <2>4. QED
    BY <2>2, <2>3, FS_Subset
<1>15. Cardinality(after) <= Cardinality(later)
  BY <1>13, <1>14, FS_Injection
<1>16. Cardinality(after) = CountUsers(c, i + 1) /\ Cardinality(later) = CountUsers(d, x + 1)
  BY <1>1, <1>2, <1>7, <1>8 DEF CountUsers
<1>17. PICK a \in Nat : a = CountUsers(c, i + 1)
  BY <1>6, TurnTypes
<1>18. PICK b \in Nat : b = CountUsers(d, x + 1)
  BY <1>4, TurnTypes
<1>19. a <= b
  BY <1>15, <1>16, <1>17, <1>18
<1>20. TurnFromEnd(c, i) = (IF a = 0 THEN 0 ELSE a - 1) /\ TurnFromEnd(d, x) = (IF b = 0 THEN 0 ELSE b - 1)
  BY <1>17, <1>18 DEF TurnFromEnd
<1>21. (IF b = 0 THEN 0 ELSE b - 1) >= (IF a = 0 THEN 0 ELSE a - 1)
  BY <1>19, SMT
<1>22. TurnFromEnd(c, i) \in Nat /\ TurnFromEnd(d, x) \in Nat
  BY <1>4, <1>6, TurnTypes
<1>23. QED
  BY <1>1, <1>5, <1>20, <1>21, <1>22

LEMMA BehindFollows ==
    ASSUME NEW c \in Seq(Said), NEW d \in Seq(Said), NEW f, Follows(c, d, f), Behind(c)
    PROVE  Behind(d)
<1>1. ASSUME NEW x \in 1..Len(d), d[x].body = Cleared PROVE TurnFromEnd(d, x) >= HardClearAge
  <2>1. f[x] # 0 /\ (c[f[x]].body = Cleared \/ TurnFromEnd(c, f[x]) >= HardClearAge)
    BY <1>1 DEF Follows
  <2>2. /\ f[x] \in 1..Len(c) /\ TurnFromEnd(c, f[x]) \in Nat /\ TurnFromEnd(d, x) \in Nat
        /\ TurnFromEnd(d, x) >= TurnFromEnd(c, f[x])
    BY <2>1, UsersFollow
  <2>3. TurnFromEnd(c, f[x]) >= HardClearAge
    BY <2>1, <2>2 DEF Behind
  <2>4. HardClearAge \in Nat
    BY DurabilityAssumption
  <2>5. QED
    BY <2>2, <2>3, <2>4, SMT
<1>2. QED
  BY <1>1 DEF Behind

LEMMA BehindPasses ==
    ASSUME NEW c \in Seq(Said), Behind(c)
    PROVE  Behind(Integrity(c, "cancelled")) /\ Behind(RepairHistory(c))
<1>1. ASSUME NEW d \in Seq(Said), Reworks(c, d) PROVE Behind(d)
  <2>1. PICK f : Moves(c, d, f)
    BY <1>1 DEF Reworks
  <2>2. PICK m \in Nat : m = Len(c)
    BY LenNat
  <2>3. PICK n \in Nat : n = Len(d)
    BY LenNat
  <2>4. /\ f \in [1..n -> 0..m]
        /\ \A x \in 1..n : IF f[x] = 0 THEN IsSynthetic(d[x]) ELSE d[x] = c[f[x]]
        /\ \A x, y \in 1..n : x < y /\ f[x] # 0 /\ f[y] # 0 => f[x] < f[y]
        /\ \A i \in 1..m : ~IsResult(c[i]) => \E x \in 1..n : f[x] = i
    BY <2>1, <2>2, <2>3 DEF Moves
  <2>5. ASSUME NEW i \in 1..m, IsUser(c[i]) PROVE \E x \in 1..n : f[x] = i /\ IsUser(d[x])
    <3>1. ~IsResult(c[i])
      BY <2>5 DEF IsUser, IsResult
    <3>2. PICK x \in 1..n : f[x] = i
      BY <2>4, <2>5, <3>1
    <3>3. i # 0
      BY SMT
    <3>4. d[x] = c[i]
      BY <2>4, <3>2, <3>3
    <3>5. QED
      BY <2>5, <3>2, <3>4
  <2>6. ASSUME NEW x \in 1..n, d[x].body = Cleared PROVE f[x] # 0 /\ c[f[x]].body = Cleared
    <3>1. ~IsSynthetic(d[x])
      BY <2>6 DEF IsSynthetic, Reasons, Cleared
    <3>2. QED
      BY <2>4, <2>6, <3>1
  <2>7. Follows(c, d, f)
    BY <2>2, <2>3, <2>4, <2>5, <2>6 DEF Follows
  <2>8. QED
    BY <2>7, BehindFollows
<1>2. QED
  BY <1>1, PassTypes, PassReworks

\* Items change in place.
LEMMA BehindSame ==
    ASSUME NEW c \in Seq(Said), NEW d \in Seq(Said), Behind(c), Len(d) = Len(c),
           \A i \in 1..Len(c) :
              /\ d[i].kind = c[i].kind
              /\ d[i].body = Cleared => c[i].body = Cleared \/ TurnFromEnd(c, i) >= HardClearAge
    PROVE  Behind(d)
<1>1. PICK n \in Nat : n = Len(c)
  BY LenNat
<1>2. PICK f : f = [x \in 1..n |-> x]
  OBVIOUS
<1>3. f \in [1..n -> 0..n] /\ \A x \in 1..n : f[x] = x /\ f[x] # 0
  BY <1>2, SMT
<1>4. \A i \in 1..n : IsUser(c[i]) => IsUser(d[i])
  BY <1>1 DEF IsUser
<1>5. Follows(c, d, f)
  BY <1>1, <1>3, <1>4 DEF Follows
<1>6. QED
  BY <1>5, BehindFollows

LEMMA BehindPrune ==
    ASSUME NEW c \in Seq(Said), NEW p \in Nat, Behind(c)
    PROVE  Behind(PruneRetained(c, p, HardClearAge))
<1>1. PICK d \in Seq(Said) : d = PruneRetained(c, p, HardClearAge) /\ Len(d) = Len(c)
  <2>1. \A prompt, age : PruneRetained(c, prompt, age) \in Seq(Said) /\ Len(PruneRetained(c, prompt, age)) = Len(c)
    BY PassTypes
  <2>2. PruneRetained(c, p, HardClearAge) \in Seq(Said) /\ Len(PruneRetained(c, p, HardClearAge)) = Len(c)
    BY <2>1, Zenon
  <2>3. QED
    BY <2>2
<1>2. DOMAIN c = 1..Len(c) /\ \A i \in 1..Len(c) : c[i] \in Said /\ i \in Nat
  BY SMT
<1>3. HardClearAge \in Nat
  BY DurabilityAssumption
<1>4. CASE p < HardClearAge
  BY <1>1, <1>4 DEF PruneRetained
<1>5. CASE ~(p < HardClearAge)
  <2>1. ASSUME NEW i \in 1..Len(c)
        PROVE  /\ d[i].kind = c[i].kind
               /\ d[i].body = Cleared => c[i].body = Cleared \/ TurnFromEnd(c, i) >= HardClearAge
    <3>1. d[i] = IF IsResult(c[i]) /\ TurnFromEnd(c, i) >= ClearAge(c, p, HardClearAge)
                 THEN [c[i] EXCEPT !.body = Cleared] ELSE c[i]
      BY <1>1, <1>2, <1>5 DEF PruneRetained
    <3>2. CASE IsResult(c[i]) /\ TurnFromEnd(c, i) >= ClearAge(c, p, HardClearAge)
      <4>1. PICK u \in Nat : u = CountUsers(c, 1)
        <5>1. 1 \in Nat
          BY SMT
        <5>2. QED
          BY <5>1, TurnTypes
      <4>2. PICK t \in Nat : t = TurnFromEnd(c, i)
        BY <1>2, TurnTypes
      <4>3. t >= HardClearAge + (IF u > p THEN u - p ELSE 0)
        BY <3>2, <4>1, <4>2 DEF ClearAge
      <4>4. t >= HardClearAge
        BY <1>3, <4>3, SMT
      <4>5. [c[i] EXCEPT !.body = Cleared].kind = c[i].kind
        BY <1>2 DEF Said
      <4>6. QED
        BY <3>1, <3>2, <4>2, <4>4, <4>5
    <3>3. CASE ~(IsResult(c[i]) /\ TurnFromEnd(c, i) >= ClearAge(c, p, HardClearAge))
      BY <3>1, <3>3
    <3>4. QED
      BY <3>2, <3>3
  <2>2. Behind(d)
    BY <1>1, <2>1, BehindSame
  <2>3. QED
    BY <1>1, <2>2
<1>6. QED
  BY <1>4, <1>5

LEMMA BehindStrip ==
    ASSUME NEW c \in Seq(Said), Behind(c)
    PROVE  Behind(StripImages(c))
<1>1. PICK d \in Seq(Said) : d = StripImages(c) /\ Len(d) = Len(c)
  BY PassTypes
<1>2. DOMAIN c = 1..Len(c) /\ \A i \in 1..Len(c) : c[i] \in Said
  BY SMT
<1>3. ASSUME NEW i \in 1..Len(c)
      PROVE  d[i].kind = c[i].kind /\ (d[i].body = Cleared => c[i].body = Cleared)
  <2>1. d[i] = IF c[i].body = "image" THEN [c[i] EXCEPT !.body = "stripped"] ELSE c[i]
    BY <1>1, <1>2 DEF StripImages
  <2>2. PICK x \in Said : x = c[i]
    BY <1>2
  <2>3. /\ [x EXCEPT !.body = "stripped"].kind = x.kind
        /\ [x EXCEPT !.body = "stripped"].body = "stripped"
    BY DEF Said
  <2>4. "stripped" # Cleared
    BY DEF Cleared
  <2>5. QED
    BY <2>1, <2>2, <2>3, <2>4
<1>4. QED
  BY <1>1, <1>3, BehindSame

LEMMA BehindReminder ==
    ASSUME NEW c \in Seq(Said), Behind(c)
    PROVE  Behind(SystemHead(c, Reminded))
<1>1. PICK d \in Seq(Said) : d = SystemHead(c, Reminded)
  BY RemindFacts
<1>2. PICK k \in {0, 1} : RemindedAt(c, d, k)
  BY <1>1, RemindFacts
<1>3. PICK m \in Nat : m = Len(c)
  BY LenNat
<1>4. Len(d) = m + k
  BY <1>2, <1>3 DEF RemindedAt
<1>5. PICK n \in Nat : n = Len(d) /\ n = m + k
  BY <1>4, LenNat
<1>6. PICK f : f = [j \in 1..n |-> j - k]
  OBVIOUS
<1>7. f \in [1..n -> 0..m] /\ \A j \in 1..n : f[j] = j - k
  BY <1>5, <1>6, SMT
<1>8. \A x, y \in 1..n : x < y => x - k < y - k
  BY SMT
<1>9. ASSUME NEW i \in 1..m, IsUser(c[i]) PROVE \E x \in 1..n : f[x] = i /\ IsUser(d[x])
  <2>1. PICK x \in 1..n : x = i + k /\ x - k = i
    BY <1>5, SMT
  <2>2. x # 1
    BY <1>2, <1>3, <1>9, <2>1 DEF RemindedAt, IsUser
  <2>3. d[x] = c[i]
    BY <1>2, <1>5, <2>1, <2>2 DEF RemindedAt
  <2>4. QED
    BY <1>7, <1>9, <2>1, <2>3
<1>10. ASSUME NEW x \in 1..n, d[x].body = Cleared PROVE f[x] # 0 /\ c[f[x]].body = Cleared
  <2>1. x # 1
    BY <1>2, <1>10 DEF RemindedAt, Reminded, Cleared
  <2>2. x - k \in 1..m /\ d[x] = c[x - k]
    BY <1>2, <1>3, <1>5, <2>1 DEF RemindedAt
  <2>3. x - k # 0
    BY <2>2, SMT
  <2>4. QED
    BY <1>7, <1>10, <2>2, <2>3
<1>11. Follows(c, d, f)
  BY <1>3, <1>5, <1>7, <1>8, <1>9, <1>10 DEF Follows
<1>12. QED
  BY <1>1, <1>11, BehindFollows

LEMMA BehindAppend ==
    ASSUME NEW c \in Seq(Said), NEW x \in Said, Behind(c), x.body # Cleared
    PROVE  Append(c, x) \in Seq(Said) /\ Behind(Append(c, x))
<1>1. PICK m \in Nat : m = Len(c)
  BY LenNat
<1>2. PICK d : d = Append(c, x)
  OBVIOUS
<1>3. d \in Seq(Said) /\ Len(d) = m + 1 /\ d[m + 1] = x /\ \A i \in 1..m : d[i] = c[i]
  BY <1>1, <1>2, SMT
<1>4. PICK f : f = [y \in 1..(m + 1) |-> IF y = m + 1 THEN 0 ELSE y]
  OBVIOUS
<1>5. /\ f \in [1..(m + 1) -> 0..m]
      /\ \A y \in 1..(m + 1) : IF f[y] = 0 THEN y = m + 1 ELSE f[y] = y /\ y \in 1..m
      /\ \A y \in 1..m : y \in 1..(m + 1) /\ f[y] = y /\ f[y] # 0
  BY <1>4, SMT
<1>6. \A y, z \in 1..(m + 1) : y < z /\ f[y] # 0 /\ f[z] # 0 => f[y] < f[z]
  BY <1>5
<1>7. \A i \in 1..m : IsUser(c[i]) => \E y \in 1..(m + 1) : f[y] = i /\ IsUser(d[y])
  BY <1>3, <1>5
<1>8. ASSUME NEW y \in 1..(m + 1), d[y].body = Cleared PROVE f[y] # 0 /\ c[f[y]].body = Cleared
  BY <1>3, <1>5, <1>8
<1>9. Follows(c, d, f)
  BY <1>1, <1>3, <1>5, <1>6, <1>7, <1>8 DEF Follows
<1>10. QED
  BY <1>2, <1>3, <1>9, BehindFollows

LEMMA StateWith ==
    ASSUME NEW s \in States, NEW c \in Seq(Said), NEW t, t = [s EXCEPT !.conv = c]
    PROVE  t \in States /\ t.conv = c /\ t.prompt = s.prompt
BY RewrittenFacts

LEMMA IntegrityConv ==
    ASSUME NEW s \in States
    PROVE  /\ EnsureIntegrity(s, "cancelled").st \in States
           /\ EnsureIntegrity(s, "cancelled").st.conv = Integrity(s.conv, "cancelled")
           /\ EnsureIntegrity(s, "cancelled").st.prompt = s.prompt
<1>1. PICK c \in Seq(Said) : c = Integrity(s.conv, "cancelled")
  BY PassTypes DEF States
<1>2. PICK e : e = EnsureIntegrity(s, "cancelled")
  OBVIOUS
<1>3. e.st = [s EXCEPT !.conv = c]
  BY <1>1, <1>2, RewrittenFacts DEF EnsureIntegrity, Effect
<1>4. PICK t : t = [s EXCEPT !.conv = c]
  OBVIOUS
<1>5. t \in States /\ t.conv = c /\ t.prompt = s.prompt
  BY <1>4, RewrittenFacts
<1>6. QED
  BY <1>1, <1>2, <1>3, <1>4, <1>5

LEMMA PushUserConv ==
    ASSUME NEW s \in States, NEW x \in Said
    PROVE  /\ PushUserMessage(s, x, "cancelled").st.conv
                = PruneRetained(Append(Integrity(s.conv, "cancelled"), x), s.prompt, HardClearAge)
           /\ PushUserMessage(s, x, "cancelled").st.prompt = s.prompt
<1>1. PICK a : a = EnsureIntegrity(s, "cancelled")
  OBVIOUS
<1>2. a.st \in States /\ a.st.conv = Integrity(s.conv, "cancelled") /\ a.st.prompt = s.prompt
  BY <1>1, IntegrityConv
<1>3. PICK t \in States : t = a.st
  BY <1>2
<1>4. PICK c \in Seq(Said) : c = Append(t.conv, x)
  <2>1. t.conv \in Seq(Said)
    BY DEF States
  <2>2. Append(t.conv, x) \in Seq(Said)
    BY <2>1, SMT
  <2>3. QED
    BY <2>2
<1>5. PICK b : b = PushMessage(t, x)
  OBVIOUS
<1>6. b.st = [t EXCEPT !.conv = c]
  BY <1>4, <1>5 DEF PushMessage, Effect
<1>7. b.st \in States /\ b.st.conv = c /\ b.st.prompt = t.prompt
  BY <1>6, StateWith
<1>8. PICK v \in States : v = b.st
  BY <1>7
<1>9. PICK d \in Seq(Said) : d = PruneRetained(v.conv, v.prompt, HardClearAge)
  BY PassTypes DEF States
<1>10. PICK g : g = Prune(v)
  OBVIOUS
<1>11. g.st = [v EXCEPT !.conv = d]
  BY <1>9, <1>10 DEF Prune, Effect
<1>12. g.st.conv = d /\ g.st.prompt = v.prompt
  BY <1>11, RewrittenFacts
<1>13. PushUserMessage(s, x, "cancelled").st = g.st
  BY <1>1, <1>3, <1>5, <1>8, <1>10 DEF PushUserMessage, Effect
<1>14. d = PruneRetained(Append(Integrity(s.conv, "cancelled"), x), s.prompt, HardClearAge)
  BY <1>2, <1>3, <1>4, <1>7, <1>8, <1>9
<1>15. QED
  BY <1>2, <1>3, <1>7, <1>8, <1>12, <1>13, <1>14

\* What a switch does to memory.
LEMMA SwitchState ==
    ASSUME DurInv, NEW how \in AppendOutcomes, PersistSwitch(how)
    PROVE  /\ st'.prompt = st.prompt
           /\ \/ st'.conv = st.conv
              \/ \E x \in Said : IsSwitch(x) /\ st'.conv = Append(st.conv, x)
<1>0. PICK m \in Msgs, item \in Said : \E s : SwitchFinds(m, item, s)
  BY SwitchTaken DEF PersistSwitch
<1>1. PICK s :
              /\ m = Head(queue) /\ item = m.items[1] /\ IsSwitch(item) /\ GenerationOf(item) = 1
              /\ OneSwitch(st.conv, s)
              /\ \/ SwitchOnFile(file, 1) = <<>> /\ NoSwitch(st.conv)
                 \/ SwitchOnFile(file, 1) = <<s>> /\ s \in Said /\ IsSwitch(s)
  BY <1>0 DEF SwitchFinds
<1>2. PICK found : found = SwitchOnFile(file, 1)
  OBVIOUS
<1>3. st' = IF Written(how)
            THEN [st EXCEPT !.conv = Converge(@, (found \o <<item>>)[1], item)] ELSE st
  BY <1>1, <1>2 DEF PersistSwitch
<1>4. PICK conv \in Seq(Said) : conv = st.conv
  BY DEF DurInv, TypeInv, States
<1>5. PICK x \in Said : /\ x = (found \o <<item>>)[1] /\ IsSwitch(x) /\ OneSwitch(conv, x)
  <2>1. \A a, b : (<<a>> \o <<b>>)[1] = a /\ (<<>> \o <<b>>)[1] = b
    BY SMT
  <2>2. NoSwitch(conv) => OneSwitch(conv, item)
    BY DEF NoSwitch, OneSwitch
  <2>3. QED
    BY <1>1, <1>2, <1>4, <2>1, <2>2
<1>6. PICK c \in Seq(Said) : c = IF NoSwitch(conv) THEN Append(conv, x) ELSE conv
  <2>1. Append(conv, x) \in Seq(Said)
    BY SMT
  <2>2. QED
    BY <2>1
<1>7. Converge(conv, x, item) = c
  BY <1>5, <1>6, ConvergeFacts
<1>8. CASE Written(how)
  <2>1. st' = [st EXCEPT !.conv = c]
    BY <1>3, <1>4, <1>5, <1>7, <1>8
  <2>2. st'.conv = c /\ st'.prompt = st.prompt
    BY <2>1, StateWith DEF DurInv, TypeInv
  <2>3. QED
    BY <1>4, <1>5, <1>6, <2>2
<1>9. CASE ~Written(how)
  BY <1>3, <1>9
<1>10. QED
  BY <1>8, <1>9

\* A budget nobody uses stays.
LEMMA UseOther ==
    ASSUME left \in [OpNames -> Nat], NEW op \in OpNames, NEW other \in OpNames, op # other, Use(op)
    PROVE  left'[other] = left[other]
BY DEF Use

\* The bodies of items that are pushed.
LEMMA PushedBodies ==
    /\ \A n, b : User(n, b).body = b /\ IsUser(User(n, b)) /\ User(n, b).by = n
    /\ \A n, ids : Assistant(n, ids).body = "real" /\ ~IsResult(Assistant(n, ids))
    /\ \A n, id : Result(id, n).body = "real" /\ Result(id, n).by = n
    /\ "real" # Cleared /\ "text" # Cleared /\ "image" # Cleared /\ "interjection" # Cleared
BY DEF User, Assistant, Result, Item, IsUser, IsResult, Cleared

\* A message that leaves a file of such items one.
Fine(m) == /\ IsRewrite(m) => Behind(m.items)
           /\ m.op \in {"chat", "switch"} => m.items[1].body # Cleared

\* A command makes d and posts out.
Tells(d, out) == d \in Seq(Said) /\ out \in Seq(Msgs) /\ Behind(d) /\ \A k \in 1..Len(out) : Fine(out[k])

LEMMA TellsOne ==
    ASSUME NEW d \in Seq(Said), Behind(d)
    PROVE  Tells(d, <<>>) /\ \A m \in Msgs : Fine(m) => Tells(d, <<m>>)
<1>1. \A m \in Msgs : <<m>> \in Seq(Msgs) /\ \A k \in 1..Len(<<m>>) : <<m>>[k] = m
  BY SMT
<1>2. QED
  BY <1>1, NoItems DEF Tells

LEMMA TellsBoth ==
    ASSUME NEW d, NEW e, NEW a, NEW b, Tells(d, a), Tells(e, b)
    PROVE  Tells(e, a \o b)
<1>1. e \in Seq(Said) /\ a \in Seq(Msgs) /\ b \in Seq(Msgs)
  BY DEF Tells
<1>2. PICK o \in Seq(Msgs) : o = a \o b
  BY <1>1, ConcatFacts
<1>3. \A k \in 1..Len(o) : (k \in 1..Len(a) /\ o[k] = a[k]) \/ \E i \in 1..Len(b) : o[k] = b[i]
  BY <1>1, <1>2, ConcatItems
<1>4. \A k \in 1..Len(o) : Fine(o[k])
  BY <1>3 DEF Tells
<1>5. Tells(e, o)
  BY <1>1, <1>4 DEF Tells
<1>6. QED
  BY <1>2, <1>5

\* A rewrite, with or without a copy, and one that is posted only if it changes anything.
LEMMA TellsRewrite ==
    ASSUME NEW c, NEW d \in Seq(Said), Behind(d)
    PROVE  /\ Tells(d, <<Replace(d)>>)
           /\ Tells(d, IF d = c THEN <<>> ELSE <<Replace(d)>>)
           /\ Tells(d, IF d = c THEN <<>> ELSE <<Strip(d)>>)
<1>1. PICK m : m = Replace(d)
  OBVIOUS
<1>2. PICK l : l = Strip(d)
  OBVIOUS
<1>3. /\ m \in Msgs /\ m.op = "replace" /\ m.items = d
      /\ l \in Msgs /\ l.op = "strip" /\ l.items = d
  BY <1>1, <1>2 DEF Replace, Strip, Msgs
<1>4. Fine(m) /\ Fine(l)
  BY <1>3 DEF Fine
<1>5. Tells(d, <<m>>) /\ Tells(d, <<l>>) /\ Tells(d, <<>>)
  BY <1>3, <1>4, TellsOne
<1>6. QED
  BY <1>1, <1>2, <1>5

LEMMA TellsPush ==
    ASSUME NEW c \in Seq(Said), NEW x \in Said, Behind(c), x.body # Cleared
    PROVE  Append(c, x) \in Seq(Said) /\ Tells(Append(c, x), <<Chat(x)>>)
<1>1. PICK d \in Seq(Said) : d = Append(c, x) /\ Behind(d)
  BY BehindAppend
<1>2. PICK m : m = Chat(x)
  OBVIOUS
<1>3. <<x>> \in Seq(Said) /\ <<x>>[1] = x
  BY SMT
<1>4. m \in Msgs /\ m.op = "chat" /\ m.items = <<x>>
  BY <1>2, <1>3 DEF Chat, Msgs
<1>5. Fine(m)
  BY <1>3, <1>4 DEF Fine, IsRewrite
<1>6. Tells(d, <<m>>)
  BY <1>1, <1>4, <1>5, TellsOne
<1>7. QED
  BY <1>1, <1>2, <1>6

\* The handlers that commands are made of.
TellsBy(e) == e.st \in States /\ Tells(e.st.conv, e.out)

LEMMA TellsIntegrity ==
    ASSUME NEW s \in States, Behind(s.conv) PROVE TellsBy(EnsureIntegrity(s, "cancelled"))
<1>1. PICK c \in Seq(Said) : c = s.conv
  BY DEF States
<1>2. PICK d \in Seq(Said) : d = Integrity(c, "cancelled") /\ Behind(d)
  BY <1>1, PassTypes, BehindPasses
<1>3. PICK e : e = EnsureIntegrity(s, "cancelled")
  OBVIOUS
<1>4. e.st \in States /\ e.st.conv = d
  BY <1>1, <1>2, <1>3, IntegrityConv
<1>5. e.out = IF d = c THEN <<>> ELSE <<Replace(d)>>
  BY <1>1, <1>2, <1>3 DEF EnsureIntegrity, Effect
<1>6. Tells(d, e.out)
  BY <1>2, <1>5, TellsRewrite
<1>7. QED
  BY <1>3, <1>4, <1>6 DEF TellsBy

LEMMA TellsBuild ==
    ASSUME NEW s \in States, Behind(s.conv), NEW reminder \in BOOLEAN
    PROVE  TellsBy(BuildRequest(s, reminder))
<1>1. PICK a : a = EnsureIntegrity(s, "cancelled")
  OBVIOUS
<1>2. TellsBy(a)
  BY <1>1, TellsIntegrity
<1>3. PICK t \in States : t = a.st
  BY <1>2 DEF TellsBy
<1>4. PICK c \in Seq(Said) : c = t.conv /\ Behind(c)
  BY <1>2, <1>3 DEF TellsBy, Tells
<1>5. PICK d \in Seq(Said) : d = SystemHead(c, Reminded) /\ Behind(d)
  BY <1>4, RemindFacts, BehindReminder
<1>6. PICK b : b = InjectReminder(t)
  OBVIOUS
<1>7. b.st \in States /\ b.st.conv = d /\ b.out = IF d = c THEN <<>> ELSE <<Replace(d)>>
  BY <1>4, <1>5, <1>6, InjectHandles DEF Handles
<1>8. Tells(d, b.out)
  BY <1>5, <1>7, TellsRewrite
<1>9. Tells(d, a.out \o b.out)
  BY <1>2, <1>8, TellsBoth DEF TellsBy
<1>10. CASE reminder = FALSE
  <2>1. BuildRequest(s, FALSE) = a
    BY <1>1, BuildSteps
  <2>2. QED
    BY <1>2, <1>10, <2>1
<1>11. CASE reminder = TRUE
  <2>1. PICK e : e = BuildRequest(s, TRUE)
    OBVIOUS
  <2>2. e.st = b.st /\ e.out = a.out \o b.out
    BY <1>1, <1>3, <1>6, <2>1, BuildSteps
  <2>3. TellsBy(e)
    BY <1>7, <1>9, <2>2 DEF TellsBy
  <2>4. QED
    BY <1>11, <2>1, <2>3
<1>12. QED
  BY <1>10, <1>11

LEMMA TellsPushUser ==
    ASSUME NEW s \in States, NEW x \in Said, Behind(s.conv), x.body # Cleared
    PROVE  TellsBy(PushUserMessage(s, x, "cancelled"))
<1>1. PICK a : a = EnsureIntegrity(s, "cancelled")
  OBVIOUS
<1>2. TellsBy(a)
  BY <1>1, TellsIntegrity
<1>3. PICK t \in States : t = a.st
  BY <1>2 DEF TellsBy
<1>4. PICK c \in Seq(Said) : c = t.conv /\ Behind(c)
  BY <1>2, <1>3 DEF TellsBy, Tells
<1>5. PICK c2 \in Seq(Said) : c2 = Append(c, x) /\ Tells(c2, <<Chat(x)>>)
  BY <1>4, TellsPush
<1>6. PICK b : b = PushMessage(t, x)
  OBVIOUS
<1>7. b.st = [t EXCEPT !.conv = c2] /\ b.out = <<Chat(x)>>
  BY <1>4, <1>5, <1>6 DEF PushMessage, Effect
<1>8. PICK v \in States : v = b.st /\ v.conv = c2
  BY <1>7, StateWith
<1>9. Behind(c2) /\ v.prompt \in Nat
  BY <1>5 DEF Tells, States
<1>10. PICK c3 \in Seq(Said) : c3 = PruneRetained(c2, v.prompt, HardClearAge) /\ Behind(c3)
  BY <1>9, PassTypes, BehindPrune
<1>11. PICK g : g = Prune(v)
  OBVIOUS
<1>12. g.st = [v EXCEPT !.conv = c3] /\ g.out = IF c3 = c2 THEN <<>> ELSE <<Replace(c3)>>
  BY <1>8, <1>10, <1>11 DEF Prune, Effect
<1>13. g.st \in States /\ g.st.conv = c3
  BY <1>12, StateWith
<1>14. Tells(c3, g.out)
  BY <1>10, <1>12, TellsRewrite
<1>15. Tells(c2, a.out \o b.out)
  BY <1>2, <1>5, <1>7, TellsBoth DEF TellsBy
<1>16. Tells(c3, (a.out \o b.out) \o g.out)
  BY <1>14, <1>15, TellsBoth
<1>17. PICK e : e = PushUserMessage(s, x, "cancelled")
  OBVIOUS
<1>18. e.st = g.st /\ e.out = (a.out \o b.out) \o g.out
  BY <1>1, <1>3, <1>6, <1>8, <1>11, <1>17 DEF PushUserMessage, Effect
<1>19. TellsBy(e)
  BY <1>13, <1>16, <1>18 DEF TellsBy
<1>20. QED
  BY <1>17, <1>19

LEMMA TellsPushMessage ==
    ASSUME NEW s \in States, NEW x \in Said, Behind(s.conv), x.body # Cleared
    PROVE  TellsBy(PushMessage(s, x))
<1>1. PICK c \in Seq(Said) : c = s.conv /\ Behind(c)
  BY DEF States
<1>2. PICK d \in Seq(Said) : d = Append(c, x) /\ Tells(d, <<Chat(x)>>)
  BY <1>1, TellsPush
<1>3. PICK e : e = PushMessage(s, x)
  OBVIOUS
<1>4. e.st = [s EXCEPT !.conv = d] /\ e.out = <<Chat(x)>>
  BY <1>1, <1>2, <1>3 DEF PushMessage, Effect
<1>5. e.st \in States /\ e.st.conv = d
  BY <1>4, StateWith
<1>6. TellsBy(e)
  BY <1>2, <1>4, <1>5 DEF TellsBy
<1>7. QED
  BY <1>3, <1>6

\* In memory, in the file and on its way.
BehindInv ==
    Behind(st.conv) /\ Behind(ReadChat(file)) /\ \A k \in 1..Len(queue) : Fine(queue[k])

LEMMA ActorTells ==
    ASSUME DurInv, Behind(st.conv), ActorStep
    PROVE  \E out : queue' = queue \o out /\ Tells(st'.conv, out)
<1>1. st \in States /\ left \in [OpNames -> Nat] /\ pending \subseteq Nat
  BY DEF DurInv, TypeInv
<1>2. PICK c \in Seq(Said) : c = st.conv /\ Behind(c)
  BY <1>1 DEF States
<1>3. PICK p \in Nat : p = st.prompt
  BY <1>1 DEF States
<1> DEFINE Goal == \E out : queue' = queue \o out /\ Tells(st'.conv, out)
<1>4. ASSUME NEW e, Handle(e), TellsBy(e) PROVE Goal
  BY <1>4 DEF Handle, TellsBy
<1>5. ASSUME NEW body \in {"text", "image"}, UserMessage(body) PROVE Goal
  <2>1. PICK s : s = IncrementPromptIndex(st).st
    OBVIOUS
  <2>2. s = [st EXCEPT !.prompt = @ + 1]
    BY <2>1 DEF IncrementPromptIndex, Effect
  <2>3. p + 1 \in Nat
    BY SMT
  <2>4. s \in States /\ s.conv = c
    BY <1>1, <1>2, <1>3, <2>2, <2>3 DEF States
  <2>5. PICK x : x = User(p + 1, body)
    OBVIOUS
  <2>6. x \in Said
    <3>1. body \in Bodies
      BY DEF Bodies
    <3>2. QED
      BY <2>3, <2>5, <3>1, SaidFacts
  <2>7. x.body = body
    BY <2>5, PushedBodies
  <2>8. x.body # Cleared
    BY <2>7, PushedBodies
  <2>9. PICK e : e = PushUserMessage(s, x, "cancelled")
    OBVIOUS
  <2>10. Handle(e)
    BY <1>3, <1>5, <2>1, <2>5, <2>9 DEF UserMessage
  <2>11. TellsBy(e)
    BY <1>2, <2>4, <2>6, <2>8, <2>9, TellsPushUser
  <2>12. QED
    BY <1>4, <2>10, <2>11
<1>6. ASSUME NEW reminder \in BOOLEAN, BuildConversationRequest(reminder) PROVE Goal
  <2>1. PICK e : e = BuildRequest(st, reminder)
    OBVIOUS
  <2>2. Handle(e)
    BY <1>6, <2>1 DEF BuildConversationRequest
  <2>3. TellsBy(e)
    BY <1>1, <2>1, TellsBuild
  <2>4. QED
    BY <1>4, <2>2, <2>3
<1>7. ASSUME NEW calls \in Seq(Nat), AssistantReply(calls) PROVE Goal
  <2>1. PICK x : x = Assistant(p, calls)
    OBVIOUS
  <2>2. x \in Said /\ x.body # Cleared
    BY <2>1, SaidFacts, PushedBodies
  <2>3. PICK e : e = PushMessage(st, x)
    OBVIOUS
  <2>4. Handle(e)
    BY <1>3, <1>7, <2>1, <2>3 DEF AssistantReply
  <2>5. TellsBy(e)
    BY <1>1, <2>2, <2>3, TellsPushMessage
  <2>6. QED
    BY <1>4, <2>4, <2>5
<1>8. ASSUME NEW id \in pending, ToolResult(id) PROVE Goal
  <2>1. PICK x : x = Result(id, p)
    OBVIOUS
  <2>2. x \in Said /\ x.body # Cleared
    BY <1>1, <2>1, SaidFacts, PushedBodies
  <2>3. PICK e : e = PushMessage(st, x)
    OBVIOUS
  <2>4. Handle(e)
    BY <1>3, <1>8, <2>1, <2>3 DEF ToolResult
  <2>5. TellsBy(e)
    BY <1>1, <2>2, <2>3, TellsPushMessage
  <2>6. QED
    BY <1>4, <2>4, <2>5
<1>9. ASSUME Interject PROVE Goal
  <2>1. PICK x : x = User(p, "interjection")
    OBVIOUS
  <2>2. x \in Said
    <3>1. "interjection" \in Bodies
      BY DEF Bodies
    <3>2. QED
      BY <2>1, <3>1, SaidFacts
  <2>3. x.body # Cleared
    BY <2>1, PushedBodies
  <2>4. PICK e : e = PushUserMessage(st, x, "cancelled")
    OBVIOUS
  <2>5. Handle(e)
    BY <1>3, <1>9, <2>1, <2>4 DEF Interject
  <2>6. TellsBy(e)
    BY <1>1, <2>2, <2>3, <2>4, TellsPushUser
  <2>7. QED
    BY <1>4, <2>5, <2>6
<1>10. ASSUME Compact PROVE Goal
  <2>1. PICK d \in Seq(Said) : d = Compacted
    BY CompactedFacts
  <2>2. PICK e : e = ReplaceConversation(st, d, TRUE)
    OBVIOUS
  <2>3. Handle(e)
    BY <1>10, <2>1, <2>2 DEF Compact
  <2>4. e.st = [st EXCEPT !.conv = d] /\ e.out = <<Replace(d)>>
    BY <1>1, <2>2, ReplaceConversationFacts
  <2>5. e.st \in States /\ e.st.conv = d
    BY <1>1, <2>4, StateWith
  <2>6. \A i \in 1..Len(d) : d[i].body # Cleared
    <3>1. \A a, b : \A i \in 1..Len(<<a, b>>) : <<a, b>>[i] \in {a, b}
      BY SMT
    <3>2. System("head").body # Cleared /\ User(0, "summary").body # Cleared
      BY DEF System, User, Item, Cleared
    <3>3. QED
      BY <2>1, <3>1, <3>2 DEF Compacted
  <2>7. Behind(d)
    BY <2>6 DEF Behind
  <2>8. TellsBy(e)
    BY <2>4, <2>5, <2>7, TellsRewrite DEF TellsBy
  <2>9. QED
    BY <1>4, <2>3, <2>8
<1>11. ASSUME StripRejectedImages PROVE Goal
  <2>1. PICK d \in Seq(Said) : d = StripImages(c) /\ Behind(d)
    BY <1>2, PassTypes, BehindStrip
  <2>2. PICK e : e = StripConversationImages(st)
    OBVIOUS
  <2>3. Handle(e)
    BY <1>11, <2>2 DEF StripRejectedImages
  <2>4. e.st = [st EXCEPT !.conv = d] /\ e.out = IF d = c THEN <<>> ELSE <<Strip(d)>>
    BY <1>2, <2>1, <2>2 DEF StripConversationImages, Effect
  <2>5. e.st \in States /\ e.st.conv = d
    BY <1>1, <2>4, StateWith
  <2>6. Tells(d, e.out)
    BY <2>1, <2>4, TellsRewrite
  <2>7. QED
    BY <1>4, <2>3, <2>5, <2>6 DEF TellsBy
<1>12. ASSUME GiveUp PROVE Goal
  <2>1. PICK e : e = Effect(st, <<>>)
    OBVIOUS
  <2>2. Handle(e) /\ e.st = st /\ e.out = <<>>
    BY <1>12, <2>1 DEF GiveUp, Effect
  <2>3. TellsBy(e)
    BY <1>1, <1>2, <2>2, TellsOne DEF TellsBy
  <2>4. QED
    BY <1>4, <2>2, <2>3
<1>13. ASSUME Repair PROVE Goal
  <2>1. PICK e : e = DoRepairHistory(st)
    OBVIOUS
  <2>2. PICK d \in Seq(Said) : d = RepairHistory(c) /\ Behind(d)
    BY <1>2, PassTypes, BehindPasses
  <2>3. e.st \in States /\ e.st.conv = d /\ (e.out = <<>> \/ e.out = <<Replace(d)>>)
    BY <1>1, <1>2, <2>1, <2>2, RepairHandles DEF Handles
  <2>4. PICK flush : flush = IF e.out = <<>> THEN <<>> ELSE <<[op |-> "flush", items |-> d]>>
    OBVIOUS
  <2>5. PICK g : g = Effect(e.st, e.out \o flush)
    OBVIOUS
  <2>6. Handle(g) /\ g.st = e.st /\ g.out = e.out \o flush
    BY <1>13, <2>1, <2>3, <2>4, <2>5 DEF Repair, Effect
  <2>7. Tells(d, e.out)
    BY <2>2, <2>3, TellsOne, TellsRewrite
  <2>8. Tells(d, flush)
    <3>1. PICK m : m = [op |-> "flush", items |-> d]
      OBVIOUS
    <3>2. m \in Msgs /\ m.op = "flush"
      BY <3>1 DEF Msgs
    <3>3. Fine(m)
      BY <3>2 DEF Fine, IsRewrite
    <3>4. QED
      BY <2>2, <2>4, <3>1, <3>2, <3>3, TellsOne
  <2>9. Tells(d, e.out \o flush)
    BY <2>7, <2>8, TellsBoth
  <2>10. QED
    BY <1>4, <2>3, <2>6, <2>9 DEF TellsBy
<1>14. ASSUME NEW text \in SwitchTexts, PostSwitch(1, text) PROVE Goal
  <2>1. PICK x : x = Switch(1, text)
    OBVIOUS
  <2>2. PICK m : m = [op |-> "switch", items |-> <<x>>]
    OBVIOUS
  <2>3. queue \in Seq(Msgs)
    BY DEF DurInv, TypeInv
  <2>4. x \in Said /\ x.body # Cleared
    <3>1. text \in Bodies /\ text # Cleared
      BY DEF SwitchTexts, Bodies, Cleared
    <3>2. x = User(1, text) /\ 1 \in Nat
      BY <2>1, SMT DEF Switch
    <3>3. x \in Said
      BY <3>1, <3>2, SaidFacts
    <3>4. x.body = text
      BY <3>2, PushedBodies
    <3>5. QED
      BY <3>1, <3>3, <3>4
  <2>5. <<x>> \in Seq(Said) /\ <<x>>[1] = x
    BY <2>4, SMT
  <2>6. m \in Msgs /\ m.op = "switch" /\ m.items[1] = x
    BY <2>2, <2>5 DEF Msgs
  <2>7. Fine(m)
    BY <2>4, <2>6 DEF Fine, IsRewrite
  <2>8. queue' = queue \o <<m>>
    BY <1>14, <2>1, <2>2, <2>3, <2>6, AppendIsConcat DEF PostSwitch
  <2>9. st' = st /\ Tells(c, <<m>>)
    BY <1>2, <1>14, <2>6, <2>7, TellsOne DEF PostSwitch
  <2>10. QED
    BY <1>2, <2>8, <2>9
<1>15. <<>> \in Seq(Nat) /\ NewCalls \in Seq(Nat)
  BY <1>1, NewCallsType
<1>16. QED
  BY <1>5, <1>6, <1>7, <1>8, <1>9, <1>10, <1>11, <1>12, <1>13, <1>14, <1>15 DEF ActorStep

\* What a message leaves in the file.
LEMMA FileBehind ==
    ASSUME NEW fl \in Files, Behind(ReadChat(fl)), NEW m \in Msgs, Fine(m), NEW how
    PROVE  /\ m.op \in {"chat", "switch"} /\ m.items[1] \in Said
                  => Behind(ReadChat(AppendLine(fl, m.items[1], how)))
           /\ IsRewrite(m) => /\ Behind(ReadChat(RewriteFile(fl, m.items, how)))
                              /\ Behind(ReadChat(File(m.items, FALSE)))
<1>1. PICK read \in Seq(Said) : read = ReadChat(fl)
  BY FileFacts
<1>2. ASSUME m.op \in {"chat", "switch"}, m.items[1] \in Said
      PROVE  Behind(ReadChat(AppendLine(fl, m.items[1], how)))
  <2>1. PICK x \in Said : x = m.items[1] /\ x.body # Cleared
    BY <1>2 DEF Fine
  <2>2. Behind(Append(read, x))
    BY <1>1, <2>1, BehindAppend
  <2>3. QED
    BY <1>1, <2>1, <2>2, AppendFacts
<1>3. m.items \in Seq(Said)
  BY DEF Msgs
<1>4. ASSUME IsRewrite(m)
      PROVE  /\ Behind(ReadChat(RewriteFile(fl, m.items, how)))
             /\ Behind(ReadChat(File(m.items, FALSE)))
  BY <1>3, <1>4, RewriteFacts, ReadAll DEF Fine
<1>5. QED
  BY <1>2, <1>4

LEMMA BehindInvStays ==
    ASSUME DurInv, BehindInv, [Next]_vars
    PROVE  BehindInv'
<1>1. PICK c \in Seq(Said) : c = st.conv /\ Behind(c)
  BY DEF DurInv, TypeInv, States, BehindInv
<1>2. PICK fl \in Files : fl = file /\ Behind(ReadChat(fl))
  BY DEF DurInv, TypeInv, BehindInv
<1>3. PICK q \in Seq(Msgs) : q = queue /\ \A k \in 1..Len(q) : Fine(q[k])
  BY DEF DurInv, TypeInv, BehindInv
<1>4. CASE UNCHANGED vars
  BY <1>4 DEF vars, actor, disk, BehindInv
<1>5. CASE ActorStep
  <2>1. PICK out : queue' = q \o out /\ Tells(st'.conv, out)
    BY <1>1, <1>3, <1>5, ActorTells
  <2>2. out \in Seq(Msgs)
    BY <2>1 DEF Tells
  <2>3. \A k \in 1..Len(q \o out) :
           (k \in 1..Len(q) /\ (q \o out)[k] = q[k]) \/ \E i \in 1..Len(out) : (q \o out)[k] = out[i]
    BY <2>2, ConcatItems
  <2>4. \A k \in 1..Len(queue') : Fine(queue'[k])
    BY <1>3, <2>1, <2>3 DEF Tells
  <2>5. file' = file
    BY <1>5, ActorStepFacts DEF DurInv, Command, PostSwitch, disk
  <2>6. QED
    BY <1>2, <2>1, <2>4, <2>5 DEF BehindInv, Tells
\* The message at the head of the channel.
<1>6. ASSUME NEW op, Take(op)
      PROVE  /\ Head(q) \in Msgs /\ Head(q).op = op /\ Fine(Head(q))
             /\ op \in {"chat", "switch"} => Head(q).items[1] \in Said
             /\ \A k \in 1..Len(queue') : Fine(queue'[k])
  <2>1. q # <<>> /\ queue' = Tail(q) /\ Head(q).op = op
    BY <1>3, <1>6, HeadTyped
  <2>2. <<>> \in Seq(Said)
    BY NoItems
  <2>3. /\ Head(q) \in Msgs /\ Head(q) = q[1] /\ 1 \in 1..Len(q)
        /\ \A k \in 1..Len(Tail(q)) : k + 1 \in 1..Len(q) /\ Tail(q)[k] = q[k + 1]
    BY <2>1, <2>2, TakeFacts
  <2>4. Single(q[1])
    BY <1>3, <2>3 DEF DurInv, ChannelInv
  <2>5. Head(q).items \in Seq(Said)
    BY <2>3 DEF Msgs
  <2>6. op \in {"chat", "switch"} => Head(q).items[1] \in Said
    BY <2>1, <2>3, <2>4, <2>5, OneItem DEF Single
  <2>7. QED
    BY <1>3, <2>1, <2>3, <2>6
<1>7. ASSUME NEW how \in AppendOutcomes, PersistChat(how) PROVE BehindInv'
  <2>1. /\ Head(q) \in Msgs /\ Head(q).op = "chat" /\ Fine(Head(q)) /\ Head(q).items[1] \in Said
        /\ \A k \in 1..Len(queue') : Fine(queue'[k])
    BY <1>6, <1>7 DEF PersistChat
  <2>2. PICK m \in Msgs : m = Head(q)
    BY <2>1
  <2>3. file' = AppendLine(fl, m.items[1], how) /\ st' = st
    BY <1>2, <1>3, <1>7, <2>2 DEF PersistChat, actor
  <2>4. Behind(ReadChat(file'))
    BY <1>2, <2>1, <2>2, <2>3, FileBehind
  <2>5. QED
    BY <1>1, <2>1, <2>3, <2>4 DEF BehindInv
<1>8. ASSUME NEW m, m = Head(q), NEW how, IsRewrite(m), Take(m.op), Rewrite(m.items, how), st' = st
      PROVE  BehindInv'
  <2>1. m \in Msgs /\ Fine(m) /\ \A k \in 1..Len(queue') : Fine(queue'[k])
    BY <1>6, <1>8
  <2>2. file' = RewriteFile(fl, m.items, how)
    BY <1>2, <1>8 DEF Rewrite
  <2>3. Behind(ReadChat(file'))
    BY <1>2, <1>8, <2>1, <2>2, FileBehind
  <2>4. QED
    BY <1>1, <1>8, <2>1, <2>3 DEF BehindInv
<1>9. ASSUME NEW how \in RewriteOutcomes, PersistReplace(how) PROVE BehindInv'
  <2>1. PICK m : m = Head(q)
    OBVIOUS
  <2>2. m.op = "replace" /\ Take(m.op) /\ Rewrite(m.items, how) /\ st' = st
    BY <1>3, <1>9, <2>1 DEF PersistReplace, Take, actor
  <2>3. QED
    BY <1>8, <2>1, <2>2 DEF IsRewrite
<1>10. ASSUME NEW backedUp \in BOOLEAN, NEW how \in RewriteOutcomes, PersistStrip(backedUp, how) PROVE BehindInv'
  <2>1. PICK m : m = Head(q)
    OBVIOUS
  <2>2. m.op = "strip" /\ Take(m.op) /\ st' = st
    BY <1>3, <1>10, <2>1 DEF PersistStrip, Take, actor
  <2>3. PICK outcome : Rewrite(m.items, outcome)
    BY <1>3, <1>10, <2>1 DEF PersistStrip
  <2>4. QED
    BY <1>8, <2>1, <2>2, <2>3 DEF IsRewrite
<1>11. ASSUME PersistFlush PROVE BehindInv'
  <2>1. \A k \in 1..Len(queue') : Fine(queue'[k])
    BY <1>6, <1>11 DEF PersistFlush
  <2>2. st' = st /\ file' = file
    BY <1>11 DEF PersistFlush, actor, disk
  <2>3. QED
    BY <1>1, <1>2, <2>1, <2>2 DEF BehindInv
<1>12. ASSUME NEW how \in AppendOutcomes, PersistSwitch(how) PROVE BehindInv'
  <2>1. /\ Head(q) \in Msgs /\ Head(q).op = "switch" /\ Fine(Head(q)) /\ Head(q).items[1] \in Said
        /\ \A k \in 1..Len(queue') : Fine(queue'[k])
    BY <1>6, <1>12 DEF PersistSwitch
  <2>2. PICK m \in Msgs : m = Head(q)
    BY <2>1
  <2>3. file' = file \/ file' = AppendLine(fl, m.items[1], how)
    BY <1>2, <1>3, <1>12, <2>2 DEF PersistSwitch
  <2>4. Behind(ReadChat(file'))
    BY <1>2, <2>1, <2>2, <2>3, FileBehind
  <2>5. \A x \in Said : IsSwitch(x) => x.body # Cleared
    BY DEF IsSwitch, GenerationOf, SwitchTexts, Cleared
  <2>6. st'.conv = c \/ \E x \in Said : IsSwitch(x) /\ st'.conv = Append(c, x)
    BY <1>1, <1>12, SwitchState
  <2>7. Behind(st'.conv)
    BY <1>1, <2>5, <2>6, BehindAppend
  <2>8. QED
    BY <2>1, <2>4, <2>7 DEF BehindInv
<1>13. ASSUME Crash PROVE BehindInv'
  <2>1. PICK remains \in Interrupted : file' = remains[1]
    BY <1>13 DEF Crash
  <2>2. st'.conv = <<>> /\ queue' = <<>>
    BY <1>13 DEF Crash, State
  <2>3. Behind(<<>>)
    BY NoItems DEF Behind
  <2>4. Behind(ReadChat(file'))
    <3>1. CASE remains[1] = fl
      BY <1>2, <2>1, <3>1
    <3>2. CASE q # <<>> /\ remains[1] # fl
      <4>1. <<>> \in Seq(Said)
        BY NoItems
      <4>2. Head(q) \in Msgs /\ Head(q) = q[1] /\ 1 \in 1..Len(q)
        BY <3>2, <4>1, TakeFacts
      <4>3. PICK m \in Msgs : m = q[1] /\ Fine(m) /\ Single(m)
        BY <1>3, <4>2 DEF DurInv, ChannelInv
      <4>4. m.items \in Seq(Said)
        BY DEF Msgs
      <4>5. m.op \in {"chat", "switch"} => m.items[1] \in Said
        BY <4>3, <4>4, OneItem DEF Single
      <4>6. \/ /\ m.op \in {"chat", "switch"}
               /\ \E how \in AppendOutcomes : remains[1] = AppendLine(fl, m.items[1], how)
            \/ m.op \in {"replace", "strip"} /\ remains[1] = File(m.items, FALSE)
        <5>1. remains[1] # file /\ queue # <<>> /\ m = Head(queue)
          BY <1>2, <1>3, <3>2, <4>2, <4>3
        <5>2. m.op \in {"chat", "replace", "strip", "switch", "flush"}
          BY DEF Msgs
        <5>3. \A b : remains # <<file, b>>
          <6>1. \A b : <<file, b>>[1] = file
            BY SMT
          <6>2. QED
            BY <5>1, <6>1
        <5>4. ASSUME m.op \in {"chat", "switch"}, NEW how \in AppendOutcomes,
                     remains = <<AppendLine(file, m.items[1], how), backup>>
              PROVE  \E h \in AppendOutcomes : remains[1] = AppendLine(fl, m.items[1], h)
          <6>1. PICK x : x = AppendLine(file, m.items[1], how)
            OBVIOUS
          <6>2. <<x, backup>>[1] = x
            BY SMT
          <6>3. QED
            BY <1>2, <5>4, <6>1, <6>2
        <5>5. ASSUME NEW b, remains = <<File(m.items, FALSE), b>> PROVE remains[1] = File(m.items, FALSE)
          <6>1. PICK x : x = File(m.items, FALSE)
            OBVIOUS
          <6>2. <<x, b>>[1] = x
            BY SMT
          <6>3. QED
            BY <5>5, <6>1, <6>2
        <5>6. CASE m.op = "chat"
          <6>1. \E how \in AppendOutcomes : remains = <<AppendLine(file, m.items[1], how), backup>>
            BY <5>1, <5>3, <5>6 DEF Interrupted
          <6>2. QED
            BY <5>4, <5>6, <6>1
        <5>7. CASE m.op = "switch"
          <6>1. \E how \in AppendOutcomes : remains = <<AppendLine(file, m.items[1], how), backup>>
            BY <5>1, <5>3, <5>7 DEF Interrupted
          <6>2. QED
            BY <5>4, <5>7, <6>1
        <5>8. CASE m.op = "replace"
          <6>1. remains = <<File(m.items, FALSE), backup>>
            BY <5>1, <5>3, <5>8 DEF Interrupted
          <6>2. QED
            BY <5>5, <5>8, <6>1
        <5>9. CASE m.op = "strip"
          <6>1. remains = <<File(m.items, FALSE), Backup>>
            BY <5>1, <5>3, <5>9 DEF Interrupted
          <6>2. QED
            BY <5>5, <5>9, <6>1
        <5>10. CASE m.op = "flush"
          BY <5>1, <5>3, <5>10 DEF Interrupted
        <5>11. QED
          BY <5>2, <5>6, <5>7, <5>8, <5>9, <5>10
      <4>7. QED
        BY <1>2, <2>1, <4>3, <4>5, <4>6, FileBehind DEF IsRewrite
    <3>3. CASE q = <<>>
      <4>1. Interrupted = {<<file, backup>>} \cup {}
        BY <1>3, <3>3 DEF Interrupted
      <4>2. remains[1] = fl
        BY <1>2, <2>1, <4>1
      <4>3. QED
        BY <3>1, <4>2
    <3>4. QED
      BY <3>1, <3>2, <3>3
  <2>5. QED
    BY <2>2, <2>3, <2>4, NoItems DEF BehindInv
<1>14. ASSUME NEW how \in RewriteOutcomes, Resume(how) PROVE BehindInv'
  <2>1. PICK loaded \in Seq(Said) : loaded = ReadChat(fl) /\ Behind(loaded)
    BY <1>2, FileFacts
  <2>2. st'.conv = loaded /\ queue' = <<Replace(loaded)>> /\ ReadChat(file') = loaded
    BY <1>2, <1>14, <2>1, ResumeFacts DEF DurInv
  <2>3. Tells(loaded, queue')
    BY <2>1, <2>2, TellsRewrite
  <2>4. QED
    BY <2>1, <2>2, <2>3 DEF BehindInv, Tells
<1>15. QED
  BY <1>4, <1>5, <1>7, <1>9, <1>10, <1>11, <1>12, <1>13, <1>14 DEF Next, PersistStep

\* A tool result that has lost its text has its turns behind it, whatever was compacted,
\* repaired, reminded, retried, not written or lost in a crash: the last turns of a session
\* have their results.
THEOREM ClearedStaysBehind == Spec => []ClearedIsBehind
<1>1. Init => BehindInv
  <2>1. SUFFICES ASSUME Init PROVE BehindInv
    OBVIOUS
  <2>2. PICK x \in Said : x = System("head")
    BY SaidFacts
  <2>3. <<x>> \in Seq(Said) /\ Len(<<x>>) = 1 /\ <<x>>[1] = x /\ \A i \in 1..Len(<<x>>) : <<x>>[i] = x
    BY SMT
  <2>4. PICK c \in Seq(Said) : c = <<x>>
    BY <2>3
  <2>5. Integrity(c, "cancelled") = c
    BY <2>2, <2>3, <2>4, HeadUntouched
  <2>6. st.conv = c
    BY <2>1, <2>2, <2>4, <2>5 DEF Init, NewState, State
  <2>7. ReadChat(file) = c
    BY <2>1, <2>2, <2>4, ReadAll DEF Init
  <2>8. x.body # Cleared
    BY <2>2 DEF System, Item, Cleared
  <2>9. Behind(c)
    BY <2>3, <2>4, <2>8 DEF Behind
  <2>10. queue = <<>>
    BY <2>1 DEF Init
  <2>11. QED
    BY <2>6, <2>7, <2>9, <2>10, NoItems DEF BehindInv
<1>2. DurInv /\ BehindInv /\ [Next]_vars => BehindInv'
  BY BehindInvStays
<1>3. DurInv /\ BehindInv => ClearedIsBehind
  <2>1. SUFFICES ASSUME DurInv, BehindInv PROVE ClearedIsBehind
    OBVIOUS
  <2>2. PICK c \in Seq(Said) : c = st.conv /\ Behind(c)
    BY <2>1 DEF DurInv, TypeInv, States, BehindInv
  <2>3. DOMAIN c = 1..Len(c)
    BY SMT
  <2>4. QED
    BY <2>2, <2>3 DEF Behind, ClearedIsBehind
<1>4. QED
  BY <1>1, <1>2, <1>3, DurabilityInvariant, PTL DEF Spec

----------------------------------------------------------------------------
(* Images *)

In(x, s) == \E i \in 1..Len(s) : s[i] = x

Pictured(x) == x.body \in {"image", "stripped"}
Images == {x \in Said : x.body = "image"}
Stripped(x) == [x EXCEPT !.body = "stripped"]

\* A command makes d of c and posts out, no strip: nothing in them shows an image, or where
\* one was, but what is in c and the message x.
Shows(c, d, out, x) ==
    /\ d \in Seq(Said) /\ out \in Seq(Msgs)
    /\ \A y : Pictured(y) /\ In(y, d) => In(y, c) \/ y = x
    /\ \A k \in 1..Len(out) :
          out[k].op # "strip" /\ \A y : Pictured(y) /\ In(y, out[k].items) => In(y, c) \/ y = x

LEMMA ShowsNothing == ASSUME NEW c \in Seq(Said), NEW x PROVE Shows(c, c, <<>>, x)
BY NoItems DEF Shows

LEMMA ShowsOne ==
    ASSUME NEW c, NEW d \in Seq(Said), NEW m \in Msgs, NEW x, m.op # "strip",
           \A y : Pictured(y) /\ In(y, d) => In(y, c) \/ y = x,
           \A y : Pictured(y) /\ In(y, m.items) => In(y, c) \/ y = x
    PROVE  Shows(c, d, <<m>>, x)
<1>1. <<m>> \in Seq(Msgs) /\ \A k \in 1..Len(<<m>>) : <<m>>[k] = m
  BY SMT
<1>2. QED
  BY <1>1 DEF Shows

LEMMA ShowsBoth ==
    ASSUME NEW c, NEW d, NEW e, NEW a, NEW b, NEW x, Shows(c, d, a, x), Shows(d, e, b, x)
    PROVE  Shows(c, e, a \o b, x)
<1>1. e \in Seq(Said) /\ a \in Seq(Msgs) /\ b \in Seq(Msgs)
  BY DEF Shows
<1>2. PICK o \in Seq(Msgs) : o = a \o b
  BY <1>1, ConcatFacts
<1>3. \A k \in 1..Len(o) : (k \in 1..Len(a) /\ o[k] = a[k]) \/ \E i \in 1..Len(b) : o[k] = b[i]
  BY <1>1, <1>2, ConcatItems
<1>4. \A y : Pictured(y) /\ In(y, e) => In(y, c) \/ y = x
  BY DEF Shows
<1>5. ASSUME NEW k \in 1..Len(o)
      PROVE  o[k].op # "strip" /\ \A y : Pictured(y) /\ In(y, o[k].items) => In(y, c) \/ y = x
  BY <1>3 DEF Shows
<1>6. Shows(c, e, o, x)
  BY <1>1, <1>4, <1>5 DEF Shows
<1>7. QED
  BY <1>2, <1>6

\* A rewrite that is posted only if it changes anything.
LEMMA ShowsRewrite ==
    ASSUME NEW c \in Seq(Said), NEW d \in Seq(Said), NEW x,
           \A y : Pictured(y) /\ In(y, d) => In(y, c)
    PROVE  Shows(c, d, <<Replace(d)>>, x) /\ Shows(c, d, IF d = c THEN <<>> ELSE <<Replace(d)>>, x)
<1>1. PICK m : m = Replace(d)
  OBVIOUS
<1>2. m \in Msgs /\ m.op = "replace" /\ m.items = d
  BY <1>1 DEF Replace, Msgs
<1>3. Shows(c, d, <<m>>, x)
  BY <1>2, ShowsOne
<1>4. d = c => Shows(c, d, <<>>, x)
  BY ShowsNothing
<1>5. QED
  BY <1>1, <1>3, <1>4

LEMMA InAppend ==
    ASSUME NEW S, NEW c \in Seq(S), NEW x \in S
    PROVE  Append(c, x) \in Seq(S) /\ \A y : In(y, Append(c, x)) <=> In(y, c) \/ y = x
<1>1. PICK d : d = Append(c, x)
  OBVIOUS
<1>2. PICK m \in Nat : m = Len(c)
  BY LenNat
<1>3. d \in Seq(S) /\ Len(d) = m + 1 /\ d[m + 1] = x /\ \A i \in 1..m : d[i] = c[i]
  BY <1>1, <1>2, SMT
<1>4. m + 1 \in 1..(m + 1) /\ \A i \in 1..(m + 1) : i \in 1..m \/ i = m + 1
  BY SMT
<1>5. \A i \in 1..m : i \in 1..(m + 1)
  BY SMT
<1>6. \A y : In(y, d) <=> In(y, c) \/ y = x
  BY <1>2, <1>3, <1>4, <1>5 DEF In
<1>7. QED
  BY <1>1, <1>3, <1>6

LEMMA ShowsPush ==
    ASSUME NEW c \in Seq(Said), NEW x \in Said
    PROVE  Shows(c, Append(c, x), <<Chat(x)>>, x)
<1>1. <<x>> \in Seq(Said) /\ \A i \in 1..Len(<<x>>) : <<x>>[i] = x
  BY SMT
<1>2. PICK m : m = Chat(x)
  OBVIOUS
<1>3. m \in Msgs /\ m.op = "chat" /\ m.items = <<x>>
  BY <1>1, <1>2 DEF Chat, Msgs
<1>4. Append(c, x) \in Seq(Said) /\ \A y : In(y, Append(c, x)) => In(y, c) \/ y = x
  BY InAppend
<1>5. PICK d \in Seq(Said) : d = Append(c, x)
  BY <1>4
<1>6. Shows(c, d, <<m>>, x)
  BY <1>1, <1>3, <1>4, <1>5, ShowsOne DEF In
<1>7. QED
  BY <1>2, <1>5, <1>6

LEMMA PassShows ==
    ASSUME NEW c \in Seq(Said)
    PROVE  \A y : Pictured(y) =>
              /\ In(y, Integrity(c, "cancelled")) => In(y, c)
              /\ In(y, RepairHistory(c)) => In(y, c)
              /\ \A prompt, age : In(y, PruneRetained(c, prompt, age)) => In(y, c)
<1>1. ASSUME NEW d \in Seq(Said), Reworks(c, d), NEW y, Pictured(y), In(y, d) PROVE In(y, c)
  <2>1. PICK f : Moves(c, d, f)
    BY <1>1 DEF Reworks
  <2>2. PICK i \in 1..Len(d) : d[i] = y
    BY <1>1 DEF In
  <2>3. ~IsSynthetic(y)
    BY <1>1 DEF Pictured, IsSynthetic, Reasons
  <2>4. f[i] \in 0..Len(c) /\ f[i] # 0 /\ y = c[f[i]]
    BY <2>1, <2>2, <2>3 DEF Moves
  <2>5. Len(c) \in Nat
    BY LenNat
  <2>6. f[i] \in 1..Len(c)
    BY <2>4, <2>5, SMT
  <2>7. QED
    BY <2>4, <2>6 DEF In
<1>2. DOMAIN c = 1..Len(c) /\ \A i \in 1..Len(c) : c[i] \in Said
  BY SMT
<1>3. ASSUME NEW y, Pictured(y), NEW prompt, NEW age, In(y, PruneRetained(c, prompt, age)) PROVE In(y, c)
  <2>1. PICK d : d = PruneRetained(c, prompt, age)
    OBVIOUS
  <2>2. Len(d) = Len(c)
    BY <2>1, PassTypes
  <2>3. PICK i \in 1..Len(c) : d[i] = y
    BY <1>3, <2>1, <2>2 DEF In
  <2>4. d[i] = c[i] \/ d[i] = [c[i] EXCEPT !.body = Cleared]
    BY <1>2, <2>1 DEF PruneRetained
  <2>5. [c[i] EXCEPT !.body = Cleared].body = Cleared /\ Cleared \notin {"image", "stripped"}
    BY <1>2 DEF Said, Cleared
  <2>6. QED
    BY <1>3, <2>3, <2>4, <2>5 DEF Pictured, In
<1>4. QED
  BY <1>1, <1>3, PassTypes, PassReworks

LEMMA PushUserShows ==
    ASSUME NEW s \in States, NEW x \in Said, NEW e, e = PushUserMessage(s, x, "cancelled")
    PROVE  Shows(s.conv, e.st.conv, e.out, x) /\ e.st.prompt = s.prompt
<1>1. PICK c \in Seq(Said) : c = s.conv
  BY DEF States
<1>2. PICK c1 \in Seq(Said) : c1 = Integrity(c, "cancelled")
  BY PassTypes
<1>3. PICK a : a = EnsureIntegrity(s, "cancelled")
  OBVIOUS
<1>4. a.st \in States /\ a.st.conv = c1 /\ a.st.prompt = s.prompt
  BY <1>1, <1>2, <1>3, IntegrityConv
<1>5. a.out = IF c1 = c THEN <<>> ELSE <<Replace(c1)>>
  BY <1>1, <1>2, <1>3 DEF EnsureIntegrity, Effect
<1>6. Shows(c, c1, a.out, x)
  BY <1>2, <1>5, PassShows, ShowsRewrite
<1>7. PICK t \in States : t = a.st
  BY <1>4
<1>8. PICK c2 \in Seq(Said) : c2 = Append(c1, x)
  BY InAppend
<1>9. PICK b : b = PushMessage(t, x)
  OBVIOUS
<1>10. b.st = [t EXCEPT !.conv = c2] /\ b.out = <<Chat(x)>>
  BY <1>4, <1>7, <1>8, <1>9 DEF PushMessage, Effect
<1>11. b.st \in States /\ b.st.conv = c2 /\ b.st.prompt = t.prompt
  BY <1>10, StateWith
<1>12. Shows(c1, c2, b.out, x)
  BY <1>8, <1>10, ShowsPush
<1>13. PICK v \in States : v = b.st
  BY <1>11
<1>14. PICK c3 \in Seq(Said) : c3 = PruneRetained(c2, v.prompt, HardClearAge)
  BY PassTypes
<1>15. PICK g : g = Prune(v)
  OBVIOUS
<1>16. g.out = IF c3 = c2 THEN <<>> ELSE <<Replace(c3)>>
  BY <1>11, <1>13, <1>14, <1>15 DEF Prune, Effect
<1>17. \A y : Pictured(y) /\ In(y, c3) => In(y, c2)
  BY <1>14, PassShows
<1>18. Shows(c2, c3, g.out, x)
  BY <1>16, <1>17, ShowsRewrite
<1>19. e.out = a.out \o b.out \o g.out
  BY <1>3, <1>7, <1>9, <1>13, <1>15 DEF PushUserMessage, Effect
<1>20. e.st.conv = c3 /\ e.st.prompt = s.prompt
  <2>1. PICK p : p = s.prompt
    OBVIOUS
  <2>2. v.prompt = p
    BY <1>4, <1>7, <1>11, <1>13, <2>1
  <2>3. QED
    BY <1>1, <1>2, <1>8, <1>14, <2>1, <2>2, PushUserConv
<1>21. Shows(c, c2, a.out \o b.out, x)
  BY <1>6, <1>12, ShowsBoth
<1>22. Shows(c, c3, (a.out \o b.out) \o g.out, x)
  BY <1>18, <1>21, ShowsBoth
<1>23. QED
  BY <1>1, <1>19, <1>20, <1>22

LEMMA PushMessageShows ==
    ASSUME NEW s \in States, NEW x \in Said, NEW e, e = PushMessage(s, x)
    PROVE  Shows(s.conv, e.st.conv, e.out, x) /\ e.st.prompt = s.prompt
<1>1. PICK c \in Seq(Said) : c = s.conv
  BY DEF States
<1>2. PICK d \in Seq(Said) : d = Append(c, x)
  BY InAppend
<1>3. e.st = [s EXCEPT !.conv = d] /\ e.out = <<Chat(x)>>
  BY <1>1, <1>2 DEF PushMessage, Effect
<1>4. e.st.conv = d /\ e.st.prompt = s.prompt
  BY <1>3, StateWith
<1>5. QED
  BY <1>1, <1>2, <1>3, <1>4, ShowsPush

LEMMA ReminderShows ==
    ASSUME NEW c \in Seq(Said), NEW y, Pictured(y), In(y, SystemHead(c, Reminded))
    PROVE  In(y, c)
<1>1. PICK d \in Seq(Said) : d = SystemHead(c, Reminded)
  BY RemindFacts
<1>2. PICK k \in {0, 1} : RemindedAt(c, d, k)
  BY <1>1, RemindFacts
<1>3. PICK j \in 1..Len(d) : d[j] = y
  BY <1>1 DEF In
<1>4. j # 1
  BY <1>2, <1>3 DEF RemindedAt, Reminded, Pictured
<1>5. j - k \in 1..Len(c) /\ d[j] = c[j - k]
  BY <1>2, <1>4 DEF RemindedAt
<1>6. QED
  BY <1>3, <1>5 DEF In

LEMMA BuildShows ==
    ASSUME NEW s \in States, NEW reminder \in BOOLEAN, NEW x, NEW e, e = BuildRequest(s, reminder)
    PROVE  Shows(s.conv, e.st.conv, e.out, x) /\ e.st.prompt = s.prompt
<1>1. PICK c \in Seq(Said) : c = s.conv
  BY DEF States
<1>2. PICK c1 \in Seq(Said) : c1 = Integrity(c, "cancelled")
  BY PassTypes
<1>3. PICK a : a = EnsureIntegrity(s, "cancelled")
  OBVIOUS
<1>4. a.st \in States /\ a.st.conv = c1
  BY <1>1, <1>2, <1>3, IntegrityConv
<1>5. a.out = IF c1 = c THEN <<>> ELSE <<Replace(c1)>>
  BY <1>1, <1>2, <1>3 DEF EnsureIntegrity, Effect
<1>6. Shows(c, c1, a.out, x)
  BY <1>2, <1>5, PassShows, ShowsRewrite
<1>7. PICK t \in States : t = a.st
  BY <1>4
<1>8. PICK c2 \in Seq(Said) : c2 = SystemHead(c1, Reminded)
  BY RemindFacts
<1>9. PICK b : b = InjectReminder(t)
  OBVIOUS
<1>10. b.st.conv = c2 /\ b.out = IF c2 = c1 THEN <<>> ELSE <<Replace(c2)>>
  BY <1>4, <1>7, <1>8, <1>9, InjectHandles
<1>11. \A y : Pictured(y) /\ In(y, c2) => In(y, c1)
  BY <1>8, ReminderShows
<1>12. Shows(c1, c2, b.out, x)
  BY <1>10, <1>11, ShowsRewrite
<1>13. Shows(c, c2, a.out \o b.out, x)
  BY <1>6, <1>12, ShowsBoth
<1>14. e.st.prompt = s.prompt
  BY BuildHandles DEF Handles
<1>15. CASE reminder = FALSE
  <2>1. e = a
    BY <1>3, <1>15, BuildSteps
  <2>2. QED
    BY <1>1, <1>4, <1>6, <1>14, <2>1
<1>16. CASE reminder = TRUE
  <2>1. e.st = b.st /\ e.out = a.out \o b.out
    BY <1>3, <1>7, <1>9, <1>16, BuildSteps
  <2>2. QED
    BY <1>1, <1>10, <1>13, <1>14, <2>1
<1>17. QED
  BY <1>15, <1>16

\* An image that is new is of the turn that starts.
Fresh(x, p, q) == /\ q = p \/ q = p + 1
                  /\ Pictured(x) => x.body = "image" /\ x.by = p + 1 /\ q = p + 1

\* What a command other than a strip posts and makes of the conversation.
LEMMA ActorShows ==
    ASSUME DurInv, ActorStep, ~StripRejectedImages
    PROVE  \E out, x : /\ queue' = queue \o out /\ Shows(st.conv, st'.conv, out, x)
                       /\ Fresh(x, st.prompt, st'.prompt)
<1>1. st \in States /\ left \in [OpNames -> Nat] /\ pending \subseteq Nat
  BY DEF DurInv, TypeInv
<1>2. PICK c \in Seq(Said) : c = st.conv
  BY <1>1 DEF States
<1>3. PICK p \in Nat : p = st.prompt
  BY <1>1 DEF States
<1> DEFINE Goal == \E out, x : /\ queue' = queue \o out /\ Shows(st.conv, st'.conv, out, x)
                               /\ Fresh(x, st.prompt, st'.prompt)
<1>4. PICK none \in Said : ~Pictured(none)
  <2>1. Result(0, 0) \in Said /\ Result(0, 0).body = "real"
    BY SaidFacts, PushedBodies
  <2>2. QED
    BY <2>1 DEF Pictured
<1>5. ASSUME NEW e, NEW x, Handle(e), Shows(c, e.st.conv, e.out, x), Fresh(x, p, e.st.prompt) PROVE Goal
  BY <1>2, <1>3, <1>5 DEF Handle
<1>6. ASSUME NEW body \in {"text", "image"}, UserMessage(body) PROVE Goal
  <2>1. PICK s : s = IncrementPromptIndex(st).st
    OBVIOUS
  <2>2. s = [st EXCEPT !.prompt = @ + 1]
    BY <2>1 DEF IncrementPromptIndex, Effect
  <2>3. p + 1 \in Nat
    BY SMT
  <2>4. s \in States /\ s.conv = c /\ s.prompt = p + 1
    BY <1>1, <1>2, <1>3, <2>2, <2>3 DEF States
  <2>5. PICK x : x = User(p + 1, body)
    OBVIOUS
  <2>6. x \in Said
    <3>1. body \in Bodies
      BY DEF Bodies
    <3>2. QED
      BY <2>3, <2>5, <3>1, SaidFacts
  <2>7. x.body = body /\ x.by = p + 1
    BY <2>5, PushedBodies
  <2>8. PICK e : e = PushUserMessage(s, x, "cancelled")
    OBVIOUS
  <2>9. Handle(e)
    BY <1>3, <1>6, <2>1, <2>5, <2>8 DEF UserMessage
  <2>10. Shows(c, e.st.conv, e.out, x) /\ e.st.prompt = p + 1
    BY <2>4, <2>6, <2>8, PushUserShows
  <2>11. Pictured(x) => x.body = "image"
    BY <2>7 DEF Pictured
  <2>12. QED
    BY <1>5, <2>7, <2>9, <2>10, <2>11 DEF Fresh
<1>7. ASSUME NEW reminder \in BOOLEAN, BuildConversationRequest(reminder) PROVE Goal
  <2>1. PICK e : e = BuildRequest(st, reminder)
    OBVIOUS
  <2>2. Handle(e)
    BY <1>7, <2>1 DEF BuildConversationRequest
  <2>3. Shows(c, e.st.conv, e.out, none) /\ e.st.prompt = p
    BY <1>1, <1>2, <1>3, <2>1, BuildShows
  <2>4. QED
    BY <1>4, <1>5, <2>2, <2>3 DEF Fresh
<1>8. ASSUME NEW calls \in Seq(Nat), AssistantReply(calls) PROVE Goal
  <2>1. PICK x : x = Assistant(p, calls)
    OBVIOUS
  <2>2. x \in Said /\ ~Pictured(x)
    BY <2>1, SaidFacts, PushedBodies DEF Pictured
  <2>3. PICK e : e = PushMessage(st, x)
    OBVIOUS
  <2>4. Handle(e)
    BY <1>3, <1>8, <2>1, <2>3 DEF AssistantReply
  <2>5. Shows(c, e.st.conv, e.out, x) /\ e.st.prompt = p
    BY <1>1, <1>2, <1>3, <2>2, <2>3, PushMessageShows
  <2>6. QED
    BY <1>5, <2>2, <2>4, <2>5 DEF Fresh
<1>9. ASSUME NEW id \in pending, ToolResult(id) PROVE Goal
  <2>1. PICK x : x = Result(id, p)
    OBVIOUS
  <2>2. x \in Said /\ ~Pictured(x)
    BY <1>1, <2>1, SaidFacts, PushedBodies DEF Pictured
  <2>3. PICK e : e = PushMessage(st, x)
    OBVIOUS
  <2>4. Handle(e)
    BY <1>3, <1>9, <2>1, <2>3 DEF ToolResult
  <2>5. Shows(c, e.st.conv, e.out, x) /\ e.st.prompt = p
    BY <1>1, <1>2, <1>3, <2>2, <2>3, PushMessageShows
  <2>6. QED
    BY <1>5, <2>2, <2>4, <2>5 DEF Fresh
<1>10. ASSUME Interject PROVE Goal
  <2>1. PICK x : x = User(p, "interjection")
    OBVIOUS
  <2>2. x \in Said
    <3>1. "interjection" \in Bodies
      BY DEF Bodies
    <3>2. QED
      BY <2>1, <3>1, SaidFacts
  <2>3. ~Pictured(x)
    BY <2>1, PushedBodies DEF Pictured
  <2>4. PICK e : e = PushUserMessage(st, x, "cancelled")
    OBVIOUS
  <2>5. Handle(e)
    BY <1>3, <1>10, <2>1, <2>4 DEF Interject
  <2>6. Shows(c, e.st.conv, e.out, x) /\ e.st.prompt = p
    BY <1>1, <1>2, <1>3, <2>2, <2>4, PushUserShows
  <2>7. QED
    BY <1>5, <2>3, <2>5, <2>6 DEF Fresh
<1>11. ASSUME Compact PROVE Goal
  <2>1. PICK d \in Seq(Said) : d = Compacted
    BY CompactedFacts
  <2>2. PICK e : e = ReplaceConversation(st, d, TRUE)
    OBVIOUS
  <2>3. Handle(e)
    BY <1>11, <2>1, <2>2 DEF Compact
  <2>4. e.st = [st EXCEPT !.conv = d] /\ e.out = <<Replace(d)>>
    BY <1>1, <2>2, ReplaceConversationFacts
  <2>5. e.st.conv = d /\ e.st.prompt = p
    BY <1>1, <1>3, <2>4, StateWith
  <2>6. \A y : In(y, d) => ~Pictured(y)
    <3>1. \A a, b : \A i \in 1..Len(<<a, b>>) : <<a, b>>[i] \in {a, b}
      BY SMT
    <3>2. System("head").body = "head" /\ User(0, "summary").body = "summary"
      BY DEF System, User, Item
    <3>3. QED
      BY <2>1, <3>1, <3>2 DEF In, Pictured, Compacted
  <2>7. Shows(c, d, e.out, none)
    BY <2>4, <2>6, ShowsRewrite
  <2>8. QED
    BY <1>4, <1>5, <2>3, <2>5, <2>7 DEF Fresh
<1>12. ASSUME GiveUp PROVE Goal
  <2>1. PICK e : e = Effect(st, <<>>)
    OBVIOUS
  <2>2. Handle(e) /\ e.st = st /\ e.out = <<>>
    BY <1>12, <2>1 DEF GiveUp, Effect
  <2>3. Shows(c, e.st.conv, e.out, none)
    BY <1>2, <2>2, ShowsNothing
  <2>4. QED
    BY <1>3, <1>4, <1>5, <2>2, <2>3 DEF Fresh
<1>13. ASSUME Repair PROVE Goal
  <2>1. PICK e : e = DoRepairHistory(st)
    OBVIOUS
  <2>2. PICK d \in Seq(Said) : d = RepairHistory(c)
    BY PassTypes
  <2>3. e.st.conv = d /\ e.st.prompt = p /\ (e.out = <<>> \/ e.out = <<Replace(d)>>)
    BY <1>1, <1>2, <1>3, <2>1, <2>2, RepairHandles DEF Handles
  <2>4. \A y : Pictured(y) /\ In(y, d) => In(y, c)
    BY <2>2, PassShows
  <2>5. PICK flush : flush = IF e.out = <<>> THEN <<>> ELSE <<[op |-> "flush", items |-> d]>>
    OBVIOUS
  <2>6. PICK g : g = Effect(e.st, e.out \o flush)
    OBVIOUS
  <2>7. Handle(g) /\ g.st = e.st /\ g.out = e.out \o flush
    BY <1>13, <2>1, <2>3, <2>5, <2>6 DEF Repair, Effect
  <2>8. Shows(c, d, e.out, none)
    <3>1. Shows(c, d, <<>>, none)
      BY <2>4, NoItems DEF Shows
    <3>2. QED
      BY <2>3, <2>4, <3>1, ShowsRewrite
  <2>9. Shows(d, d, flush, none)
    <3>1. PICK m : m = [op |-> "flush", items |-> d]
      OBVIOUS
    <3>2. m \in Msgs /\ m.op = "flush" /\ m.items = d
      BY <3>1 DEF Msgs
    <3>3. Shows(d, d, <<m>>, none)
      BY <3>2, ShowsOne
    <3>4. QED
      BY <2>5, <3>1, <3>3, ShowsNothing
  <2>10. Shows(c, d, e.out \o flush, none)
    BY <2>8, <2>9, ShowsBoth
  <2>11. QED
    BY <1>4, <1>5, <2>3, <2>7, <2>10 DEF Fresh
<1>14. ASSUME NEW text \in SwitchTexts, PostSwitch(1, text) PROVE Goal
  <2>1. PICK x : x = Switch(1, text)
    OBVIOUS
  <2>2. PICK m : m = [op |-> "switch", items |-> <<x>>]
    OBVIOUS
  <2>3. queue \in Seq(Msgs)
    BY DEF DurInv, TypeInv
  <2>4. m \in Msgs /\ m.items = <<x>> /\ m.op = "switch"
    <3>1. text \in Bodies
      BY DEF SwitchTexts, Bodies
    <3>2. x \in Said
      BY <2>1, <3>1, SaidFacts DEF Switch
    <3>3. <<x>> \in Seq(Said)
      BY <3>2, SMT
    <3>4. QED
      BY <2>2, <3>3 DEF Msgs
  <2>5. queue' = queue \o <<m>>
    BY <1>14, <2>1, <2>2, <2>3, <2>4, AppendIsConcat DEF PostSwitch
  <2>6. ~Pictured(x)
    BY <2>1, PushedBodies DEF Pictured, SwitchTexts, Switch
  <2>7. \A y : In(y, <<x>>) => y = x
    <3>1. \A i \in 1..Len(<<x>>) : <<x>>[i] = x
      BY SMT
    <3>2. QED
      BY <3>1 DEF In
  <2>8. Shows(c, c, <<m>>, none)
    BY <2>4, <2>6, <2>7, ShowsOne
  <2>9. st' = st
    BY <1>14 DEF PostSwitch
  <2>10. QED
    BY <1>2, <1>3, <1>4, <2>5, <2>8, <2>9 DEF Fresh
<1>15. <<>> \in Seq(Nat) /\ NewCalls \in Seq(Nat)
  BY <1>1, NewCallsType
<1>16. QED
  BY <1>6, <1>7, <1>8, <1>9, <1>10, <1>11, <1>12, <1>13, <1>14, <1>15 DEF ActorStep

LEMMA StrippedFacts ==
    ASSUME NEW x \in Images
    PROVE  /\ x \in Said /\ Stripped(x) \in Said
           /\ Stripped(x).body = "stripped" /\ Stripped(x).by = x.by
           /\ Pictured(x) /\ Pictured(Stripped(x)) /\ Stripped(x).body # "image"
<1>1. x \in Said /\ x.body = "image" /\ "stripped" \in Bodies
  BY DEF Images, Bodies
<1>2. Stripped(x) \in Said
  BY <1>1, SaidFacts DEF Stripped
<1>3. Stripped(x).body = "stripped" /\ Stripped(x).by = x.by
  BY <1>1 DEF Stripped, Said
<1>4. QED
  BY <1>1, <1>2, <1>3 DEF Pictured

LEMMA TornUnpictured == ~Pictured(Torn) /\ Torn.body # "image"
BY DEF Torn, Item, Pictured

LEMMA InRead ==
    ASSUME NEW fl \in Files
    PROVE  \A y : /\ In(y, ReadChat(fl)) => In(y, fl.lines)
                  /\ y # Torn /\ In(y, fl.lines) => In(y, ReadChat(fl))
<1>1. PICK lines \in Seq(Lines) : lines = fl.lines
  BY FileFacts
<1>2. PICK read \in Seq(Said) : read = ReadChat(fl)
  BY FileFacts
<1>3. PICK f : Picks(lines, read, f, Parses(lines))
  BY <1>1, <1>2, FileFacts
<1>4. DOMAIN lines = 1..Len(lines)
  BY SMT
<1>5. ASSUME NEW y, y # Torn, NEW i \in 1..Len(lines), lines[i] = y PROVE In(y, read)
  <2>1. i \in Parses(lines)
    BY <1>4, <1>5 DEF Parses
  <2>2. PICK p \in 1..Len(read) : f[p] = i
    BY <1>3, <2>1 DEF Picks
  <2>3. read[p] = y
    BY <1>3, <1>5, <2>2 DEF Picks
  <2>4. QED
    BY <2>3 DEF In
<1>6. ASSUME NEW y, NEW p \in 1..Len(read), read[p] = y PROVE In(y, lines)
  <2>1. f[p] \in 1..Len(lines) /\ read[p] = lines[f[p]]
    BY <1>3 DEF Picks
  <2>2. QED
    BY <1>6, <2>1 DEF In
<1>7. QED
  BY <1>1, <1>2, <1>5, <1>6 DEF In

\* What a strip leaves of the images.
LEMMA StripShows ==
    ASSUME NEW c \in Seq(Said)
    PROVE  \A y : In(y, StripImages(c)) =>
              /\ y.body # "image"
              /\ Pictured(y) => \E z \in Said : In(z, c) /\ Pictured(z) /\ z.by = y.by
<1>1. PICK d \in Seq(Said) : d = StripImages(c) /\ Len(d) = Len(c)
  BY PassTypes
<1>2. DOMAIN c = 1..Len(c) /\ \A i \in 1..Len(c) : c[i] \in Said
  BY SMT
<1>3. ASSUME NEW i \in 1..Len(c)
      PROVE  /\ d[i].body # "image"
             /\ Pictured(d[i]) => \E z \in Said : In(z, c) /\ Pictured(z) /\ z.by = d[i].by
  <2>1. PICK x \in Said : x = c[i]
    BY <1>2
  <2>2. d[i] = IF x.body = "image" THEN Stripped(x) ELSE x
    BY <1>1, <1>2, <2>1 DEF StripImages, Stripped
  <2>3. In(x, c)
    BY <2>1 DEF In
  <2>4. CASE x.body = "image"
    <3>1. x \in Images
      BY <2>4 DEF Images
    <3>2. QED
      BY <2>2, <2>3, <2>4, <3>1, StrippedFacts
  <2>5. CASE x.body # "image"
    BY <2>2, <2>3, <2>5
  <2>6. QED
    BY <2>4, <2>5
<1>4. QED
  BY <1>1, <1>3 DEF In

\* In memory, in the file or on its way there.
Seen(x) ==
    In(x, file.lines) \/ In(x, st.conv) \/ \E k \in 1..Len(queue) : In(x, queue[k].items)

\* The next turn is one of which no image is known.
Known == \A x \in Said : Pictured(x) /\ Seen(x) => x.by <= st.prompt

\* A strip is at place k of the channel: nothing before it is stripped, and from it on nothing
\* has an image that was stripped.
Waiting(k) ==
    /\ queue[k].op = "strip" /\ ~backup.made
    /\ \A j \in 1..Len(queue) : queue[j].op = "strip" => j = k
    /\ \A x \in Images :
          /\ ~In(Stripped(x), file.lines)
          /\ \A j \in 1..Len(queue) : j < k => ~In(Stripped(x), queue[j].items)
          /\ Seen(Stripped(x)) => /\ ~In(x, st.conv)
                                  /\ \A j \in 1..Len(queue) : j >= k => ~In(x, queue[j].items)

\* No strip is on its way: an image that was stripped is in the copy, or is gone because it
\* never was in the file.
Settled ==
    /\ \A j \in 1..Len(queue) : queue[j].op # "strip"
    /\ \A x \in Images : Seen(Stripped(x)) => backup.made /\ (In(x, backup.items) \/ ~Seen(x))

StripInv ==
    /\ left["strip"] \in {0, 1} /\ left["fail_copy"] = 0
    /\ Known
    /\ \/ Settled /\ (left["strip"] = 1 => ~backup.made)
       \/ left["strip"] = 0 /\ \E k \in 1..Len(queue) : Waiting(k)

\* A command other than a strip.
LEMMA ActorStrips ==
    ASSUME DurInv, DurInv', StripInv, ActorStep, ~StripRejectedImages
    PROVE  /\ Known' /\ UNCHANGED <<file, backup>>
           /\ Settled => Settled'
           /\ \A k \in 1..Len(queue) : Waiting(k) => k \in 1..Len(queue') /\ Waiting(k)'
<1>1. PICK out, x : /\ queue' = queue \o out /\ Shows(st.conv, st'.conv, out, x)
                    /\ Fresh(x, st.prompt, st'.prompt)
  BY ActorShows
<1>2. UNCHANGED <<file, backup>>
  BY ActorStepFacts DEF DurInv, Command, PostSwitch, disk
<1>3. queue \in Seq(Msgs) /\ out \in Seq(Msgs) /\ st.prompt \in Nat /\ st'.prompt \in Nat
  BY <1>1 DEF DurInv, TypeInv, States, Shows
<1>4. /\ Len(queue) \in Nat /\ Len(queue') \in Nat
      /\ \A k \in 1..Len(queue) : k \in 1..Len(queue') /\ queue'[k] = queue[k]
      /\ \A k \in 1..Len(queue') : k \notin 1..Len(queue) => k > Len(queue)
  <2>1. PICK o : o = queue \o out
    OBVIOUS
  <2>2. Len(o) = Len(queue) + Len(out) /\ \A i \in 1..Len(queue) : o[i] = queue[i]
    BY <1>3, <2>1, ConcatFacts
  <2>3. Len(queue) \in Nat /\ Len(out) \in Nat
    BY <1>3, LenNat
  <2>4. Len(o) \in Nat /\ \A k \in 1..Len(queue) : k \in 1..Len(o)
    BY <2>2, <2>3, SMT
  <2>5. \A k \in 1..Len(o) : k \notin 1..Len(queue) => k > Len(queue)
    BY <2>3, <2>4, SMT
  <2>6. QED
    BY <1>1, <2>1, <2>2, <2>3, <2>4, <2>5
<1>5. ASSUME NEW k \in 1..Len(queue')
      PROVE  \/ k \in 1..Len(queue) /\ queue'[k] = queue[k]
             \/ /\ k > Len(queue) /\ queue'[k].op # "strip"
                /\ \A y : Pictured(y) /\ In(y, queue'[k].items) => In(y, st.conv) \/ y = x
  <2>1. CASE k \in 1..Len(queue)
    BY <1>4, <2>1
  <2>2. CASE k \notin 1..Len(queue)
    <3>1. PICK i \in 1..Len(out) : queue'[k] = out[i]
      BY <1>1, <1>3, <2>2, ConcatItems
    <3>2. QED
      BY <1>1, <1>4, <2>2, <3>1 DEF Shows
  <2>3. QED
    BY <2>1, <2>2
<1>6. ASSUME NEW y, Pictured(y), In(y, st'.conv) PROVE In(y, st.conv) \/ y = x
  BY <1>1, <1>6 DEF Shows
<1>7. ASSUME NEW y, Pictured(y), Seen(y)' PROVE Seen(y) \/ y = x
  BY <1>2, <1>5, <1>6, <1>7 DEF Seen
<1>8. Known'
  <2>1. ASSUME NEW y \in Said, Pictured(y), Seen(y)' PROVE y.by <= st'.prompt
    <3>1. CASE Seen(y)
      <4>1. y.by \in Nat /\ y.by <= st.prompt
        BY <2>1, <3>1 DEF StripInv, Known, Said
      <4>2. QED
        BY <1>1, <1>3, <4>1, SMT DEF Fresh
    <3>2. CASE y = x
      <4>1. y.by = st'.prompt
        BY <1>1, <2>1, <3>2 DEF Fresh
      <4>2. QED
        BY <1>3, <4>1, SMT
    <3>3. QED
      BY <1>7, <2>1, <3>1, <3>2
  <2>2. QED
    BY <2>1 DEF Known
<1>9. ASSUME NEW y \in Images, Seen(Stripped(y))' PROVE Seen(Stripped(y)) /\ y # x
  <2>1. Pictured(Stripped(y)) /\ Stripped(y).body # "image" /\ Pictured(y) /\ Stripped(y) \in Said
        /\ Stripped(y).by = y.by
    BY StrippedFacts
  <2>2. Stripped(y) # x
    BY <1>1, <2>1 DEF Fresh
  <2>3. Seen(Stripped(y))
    BY <1>7, <1>9, <2>1, <2>2
  <2>4. y.by <= st.prompt
    BY <2>1, <2>3 DEF StripInv, Known
  <2>5. y.by # st.prompt + 1
    BY <1>3, <2>4, SMT
  <2>6. QED
    BY <1>1, <2>1, <2>3, <2>5 DEF Fresh
<1>10. ASSUME Settled PROVE Settled'
  <2>1. \A j \in 1..Len(queue') : queue'[j].op # "strip"
    BY <1>5, <1>10 DEF Settled
  <2>2. ASSUME NEW y \in Images, Seen(Stripped(y))'
        PROVE  backup'.made /\ (In(y, backup'.items) \/ ~Seen(y)')
    <3>1. Seen(y)' => Seen(y)
      BY <1>7, <1>9, <2>2, StrippedFacts
    <3>2. QED
      BY <1>2, <1>9, <1>10, <2>2, <3>1 DEF Settled
  <2>3. QED
    BY <2>1, <2>2 DEF Settled
<1>11. ASSUME NEW k \in 1..Len(queue), Waiting(k) PROVE k \in 1..Len(queue') /\ Waiting(k)'
  <2>1. k \in 1..Len(queue') /\ queue'[k].op = "strip" /\ ~backup'.made
    BY <1>2, <1>4, <1>11 DEF Waiting
  <2>2. \A j \in 1..Len(queue') : queue'[j].op = "strip" => j = k
    BY <1>5, <1>11 DEF Waiting
  <2>3. ASSUME NEW y \in Images
        PROVE  /\ ~In(Stripped(y), file'.lines)
               /\ \A j \in 1..Len(queue') : j < k => ~In(Stripped(y), queue'[j].items)
    <3>1. \A j \in 1..Len(queue') : j < k => j \in 1..Len(queue)
      BY <1>4, SMT
    <3>2. QED
      BY <1>2, <1>4, <1>11, <3>1 DEF Waiting
  <2>4. ASSUME NEW y \in Images, Seen(Stripped(y))'
        PROVE  /\ ~In(y, st'.conv)
               /\ \A j \in 1..Len(queue') : j >= k => ~In(y, queue'[j].items)
    <3>1. y # x /\ ~In(y, st.conv) /\ \A j \in 1..Len(queue) : j >= k => ~In(y, queue[j].items)
      BY <1>9, <1>11, <2>4 DEF Waiting
    <3>2. Pictured(y)
      BY StrippedFacts
    <3>3. QED
      BY <1>5, <1>6, <3>1, <3>2
  <2>5. QED
    BY <2>1, <2>2, <2>3, <2>4 DEF Waiting
<1>12. QED
  BY <1>2, <1>8, <1>10, <1>11

\* The strip command itself: what it strips was nowhere stripped before.
LEMMA StripStrips ==
    ASSUME DurInv, Known, StripRejectedImages, Settled, ~backup.made
    PROVE  /\ Known' /\ UNCHANGED <<file, backup>>
           /\ Settled' \/ \E k \in 1..Len(queue') : Waiting(k)'
<1>1. st \in States /\ queue \in Seq(Msgs) /\ st.prompt \in Nat
  BY DEF DurInv, TypeInv, States
<1>2. PICK c \in Seq(Said) : c = st.conv
  BY <1>1 DEF States
<1>3. PICK d \in Seq(Said) : d = StripImages(c)
  BY PassTypes
<1>4. PICK e : e = StripConversationImages(st)
  OBVIOUS
<1>5. e.st = [st EXCEPT !.conv = d] /\ e.out = IF d = c THEN <<>> ELSE <<Strip(d)>>
  BY <1>2, <1>3, <1>4 DEF StripConversationImages, Effect
<1>6. st' = e.st /\ queue' = queue \o e.out /\ UNCHANGED <<file, backup>>
  BY <1>4 DEF StripRejectedImages, Handle, disk
<1>7. st'.conv = d /\ st'.prompt = st.prompt
  BY <1>1, <1>5, <1>6, StateWith
<1>8. \A x \in Images : ~Seen(Stripped(x))
  BY DEF Settled
<1>9. CASE d = c
  <2>1. queue' = queue
    BY <1>1, <1>5, <1>6, <1>9, ConcatFacts, SMT
  <2>2. \A y : Seen(y)' <=> Seen(y)
    BY <1>2, <1>6, <1>7, <1>9, <2>1 DEF Seen
  <2>3. Known'
    BY <1>7, <2>2 DEF Known
  <2>4. Settled'
    BY <1>6, <2>1, <2>2 DEF Settled
  <2>5. QED
    BY <1>6, <2>3, <2>4
<1>10. CASE d # c
  <2>1. PICK m : m = Strip(d)
    OBVIOUS
  <2>2. m \in Msgs /\ m.op = "strip" /\ m.items = d
    BY <2>1 DEF Strip, Msgs
  <2>3. queue' = Append(queue, m)
    BY <1>1, <1>5, <1>6, <1>10, <2>1, <2>2, AppendIsConcat
  <2>4. PICK n \in Nat : n = Len(queue)
    BY <1>1, LenNat
  <2>5. Len(queue') = n + 1 /\ queue'[n + 1] = m /\ \A j \in 1..n : queue'[j] = queue[j]
    BY <1>1, <2>2, <2>3, <2>4, SMT
  <2>6. n + 1 \in 1..(n + 1) /\ \A j \in 1..(n + 1) : j = n + 1 \/ (j \in 1..n /\ ~(j >= n + 1))
    BY SMT
  <2>7. \A y : In(y, d) => /\ y.body # "image"
                           /\ Pictured(y) => \E z \in Said : In(z, c) /\ Pictured(z) /\ z.by = y.by
    BY <1>3, StripShows
  <2>8. \A y : Seen(y)' => Seen(y) \/ In(y, d)
    BY <1>6, <1>7, <2>2, <2>4, <2>5, <2>6 DEF Seen
  <2>9. Known'
    BY <1>2, <1>7, <2>7, <2>8 DEF Known, Seen
  <2>10. \A j \in 1..Len(queue') : queue'[j].op = "strip" => j = n + 1
    BY <2>4, <2>5, <2>6 DEF Settled
  <2>11. ASSUME NEW x \in Images
         PROVE  /\ ~In(Stripped(x), file'.lines)
                /\ \A j \in 1..Len(queue') : j < n + 1 => ~In(Stripped(x), queue'[j].items)
                /\ ~In(x, st'.conv)
                /\ \A j \in 1..Len(queue') : j >= n + 1 => ~In(x, queue'[j].items)
    <3>1. ~In(Stripped(x), file.lines) /\ \A j \in 1..n : ~In(Stripped(x), queue[j].items)
      BY <1>8, <2>4 DEF Seen
    <3>2. \A j \in 1..(n + 1) : j < n + 1 => j \in 1..n
      BY SMT
    <3>3. x.body = "image"
      BY DEF Images
    <3>4. ~In(x, d)
      BY <2>7, <3>3
    <3>5. QED
      BY <1>6, <1>7, <2>2, <2>5, <2>6, <3>1, <3>2, <3>4
  <2>12. Waiting(n + 1)'
    BY <1>6, <2>2, <2>5, <2>10, <2>11 DEF Waiting
  <2>13. QED
    BY <1>6, <2>5, <2>6, <2>9, <2>12
<1>11. QED
  BY <1>9, <1>10

\* A step that writes the head of the channel, or is killed while it does.
Drained ==
    /\ queue \in Seq(Msgs)
    /\ \/ queue # <<>> /\ queue' = Tail(queue)
       \/ queue' = <<>> /\ st'.conv = <<>>
    /\ st'.prompt = st.prompt
    /\ \A y : Pictured(y) /\ In(y, st'.conv) => In(y, st.conv)
    /\ \A y : Pictured(y) /\ In(y, file'.lines) =>
          In(y, file.lines) \/ (queue # <<>> /\ In(y, queue[1].items))
    /\ IF queue # <<>> /\ queue[1].op = "strip"
       THEN backup' = Backup \/ (UNCHANGED <<file, backup>> /\ queue' = <<>> /\ st'.conv = <<>>)
       ELSE backup' = backup

\* An image that a step takes out of the file by stripping is in the copy.
Undoable ==
    \A x \in Images : In(x, file.lines) /\ In(Stripped(x), file'.lines) => In(x, backup'.items)

LEMMA DrainedStrips ==
    ASSUME DurInv, StripInv, Drained
    PROVE  /\ Known' /\ Undoable
           /\ Settled => Settled' /\ UNCHANGED backup
           /\ (\E k \in 1..Len(queue) : Waiting(k)) => Settled' \/ \E k \in 1..Len(queue') : Waiting(k)'
<1>1. queue \in Seq(Msgs) /\ file \in Files /\ Len(queue) \in Nat
  BY LenNat DEF DurInv, TypeInv
<1>2. queue # <<>> => 1 \in 1..Len(queue)
  BY <1>1, SMT
<1>3. ASSUME NEW k \in 1..Len(queue') PROVE k + 1 \in 1..Len(queue) /\ queue'[k] = queue[k + 1]
  <2>1. queue # <<>> /\ queue' = Tail(queue)
    BY <1>3, NoItems DEF Drained
  <2>2. QED
    BY <1>1, <1>3, <2>1, SMT
<1>4. ASSUME NEW y, Pictured(y), Seen(y)' PROVE Seen(y)
  BY <1>2, <1>3, <1>4 DEF Seen, Drained
<1>5. Known'
  BY <1>4 DEF Known, StripInv, Drained
<1>6. ASSUME Settled PROVE Settled' /\ UNCHANGED backup /\ Undoable
  <2>1. backup' = backup
    BY <1>2, <1>6 DEF Settled, Drained
  <2>2. \A j \in 1..Len(queue') : queue'[j].op # "strip"
    BY <1>3, <1>6 DEF Settled
  <2>3. ASSUME NEW x \in Images
        PROVE  (Seen(Stripped(x))' => Seen(Stripped(x))) /\ (Seen(x)' => Seen(x))
    BY <1>4, StrippedFacts
  <2>4. Settled'
    BY <1>6, <2>1, <2>2, <2>3 DEF Settled
  <2>5. ASSUME NEW x \in Images, In(x, file.lines), In(Stripped(x), file'.lines) PROVE In(x, backup'.items)
    <3>1. Seen(x) /\ Seen(Stripped(x))'
      BY <2>5 DEF Seen
    <3>2. QED
      BY <1>6, <2>1, <2>3, <3>1 DEF Settled
  <2>6. QED
    BY <2>1, <2>4, <2>5 DEF Undoable
<1>7. ASSUME NEW k \in 1..Len(queue), Waiting(k)
      PROVE  Undoable /\ (Settled' \/ \E l \in 1..Len(queue') : Waiting(l)')
  <2>1. queue # <<>>
    BY <1>7, NoItems
  <2>2. ASSUME NEW x \in Images
        PROVE  /\ ~In(Stripped(x), file.lines)
               /\ \A j \in 1..Len(queue) : j < k => ~In(Stripped(x), queue[j].items)
               /\ Seen(Stripped(x)) => /\ ~In(x, st.conv)
                                       /\ \A j \in 1..Len(queue) : j >= k => ~In(x, queue[j].items)
    BY <1>7 DEF Waiting
  <2>3. ~backup.made
    BY <1>7 DEF Waiting
  <2>4. ASSUME k = 1, backup' = Backup PROVE Undoable /\ Settled'
    <3>1. backup'.made /\ backup'.items = ReadChat(file)
      BY <2>3, <2>4 DEF Backup
    <3>2. ASSUME NEW x \in Images, In(x, file.lines) PROVE In(x, backup'.items)
      BY <1>1, <3>1, <3>2, InRead, TornUnpictured, StrippedFacts
    <3>3. \A j \in 1..Len(queue') : queue'[j].op # "strip"
      <4>1. \A j \in 1..Len(queue') : j + 1 # 1
        BY SMT
      <4>2. QED
        BY <1>3, <1>7, <2>4, <4>1 DEF Waiting
    <3>4. ASSUME NEW x \in Images, Seen(Stripped(x))', Seen(x)' PROVE In(x, backup'.items)
      <4>1. Pictured(x) /\ Pictured(Stripped(x))
        BY StrippedFacts
      <4>2. Seen(Stripped(x))
        BY <1>4, <3>4, <4>1
      <4>3. \A j \in 1..Len(queue) : j >= 1
        BY SMT
      <4>4. ~In(x, st.conv) /\ \A j \in 1..Len(queue) : ~In(x, queue[j].items)
        BY <2>2, <2>4, <4>2, <4>3
      <4>5. In(x, file'.lines)
        BY <1>3, <3>4, <4>1, <4>4 DEF Seen, Drained
      <4>6. In(x, file.lines)
        BY <1>2, <2>1, <4>1, <4>4, <4>5 DEF Drained
      <4>7. QED
        BY <3>2, <4>6
    <3>5. Settled'
      BY <3>1, <3>3, <3>4 DEF Settled
    <3>6. QED
      BY <3>2, <3>5 DEF Undoable
  <2>5. ASSUME queue' = <<>>, st'.conv = <<>>, \A x \in Images : ~In(Stripped(x), file'.lines) PROVE Settled'
    <3>1. \A x \in Images : ~Seen(Stripped(x))'
      BY <2>5, NoItems DEF Seen, In
    <3>2. QED
      BY <2>5, <3>1, NoItems DEF Settled
  <2>6. CASE k = 1
    <3>1. queue[1].op = "strip"
      BY <1>7, <2>6 DEF Waiting
    <3>2. CASE UNCHANGED <<file, backup>> /\ queue' = <<>> /\ st'.conv = <<>>
      BY <2>2, <2>5, <3>2 DEF Undoable
    <3>3. QED
      BY <2>1, <2>4, <2>6, <3>1, <3>2 DEF Drained
  <2>7. CASE k # 1
    <3>1. 1 < k
      BY <1>1, <2>7, SMT
    <3>2. queue[1].op # "strip" /\ backup' = backup
      BY <1>2, <1>7, <2>1, <2>7 DEF Waiting, Drained
    <3>3. ASSUME NEW x \in Images PROVE ~In(Stripped(x), file'.lines)
      BY <1>2, <2>1, <2>2, <3>1, StrippedFacts DEF Drained
    <3>4. Undoable
      BY <3>3 DEF Undoable
    <3>5. CASE queue' = <<>> /\ st'.conv = <<>>
      BY <2>5, <3>3, <3>4, <3>5
    <3>6. CASE queue' = Tail(queue)
      <4>1. PICK l \in Nat : l = k - 1
        BY <1>1, <3>1, SMT
      <4>2. l \in 1..Len(queue') /\ l + 1 = k
        BY <1>1, <2>1, <3>1, <3>6, <4>1, SMT
      <4>3. \A j \in 1..Len(queue') : (j + 1 = k => j = l) /\ (j < l => j + 1 < k) /\ (j >= l => j + 1 >= k)
        BY <1>1, <4>1, SMT
      <4>4. queue'[l].op = "strip" /\ ~backup'.made
        BY <1>3, <1>7, <3>2, <4>2 DEF Waiting
      <4>5. \A j \in 1..Len(queue') : queue'[j].op = "strip" => j = l
        BY <1>3, <1>7, <4>3 DEF Waiting
      <4>6. ASSUME NEW x \in Images
            PROVE  \A j \in 1..Len(queue') : j < l => ~In(Stripped(x), queue'[j].items)
        BY <1>3, <2>2, <4>3
      <4>7. ASSUME NEW x \in Images, Seen(Stripped(x))'
            PROVE  /\ ~In(x, st'.conv)
                   /\ \A j \in 1..Len(queue') : j >= l => ~In(x, queue'[j].items)
        <5>1. Pictured(x) /\ Seen(Stripped(x))
          BY <1>4, <4>7, StrippedFacts
        <5>2. ~In(x, st.conv) /\ \A j \in 1..Len(queue) : j >= k => ~In(x, queue[j].items)
          BY <2>2, <5>1
        <5>3. QED
          BY <1>3, <4>3, <5>1, <5>2 DEF Drained
      <4>8. Waiting(l)'
        BY <3>3, <4>4, <4>5, <4>6, <4>7 DEF Waiting
      <4>9. QED
        BY <3>4, <4>2, <4>8
    <3>7. QED
      BY <3>5, <3>6 DEF Drained
  <2>8. QED
    BY <2>6, <2>7
<1>8. QED
  BY <1>5, <1>6, <1>7 DEF StripInv

\* The lines after an append show no other image.
LEMMA AppendShows ==
    ASSUME NEW fl \in Files, NEW x \in Said, NEW how, NEW y, Pictured(y),
           In(y, AppendLine(fl, x, how).lines)
    PROVE  In(y, fl.lines) \/ y = x
<1>1. PICK lines \in Seq(Lines) : lines = fl.lines
  BY FileFacts
<1>2. x \in Lines /\ Torn \in Lines
  BY TornFacts DEF Lines
<1>3. PICK new : new = AppendLine(fl, x, how).lines
  OBVIOUS
<1>4. new = lines \/ new = Append(lines, Torn) \/ new = Append(lines, x)
  BY <1>1, <1>3, AppendFacts
<1>5. In(y, lines) \/ y = Torn \/ y = x
  <2>1. \A z \in Lines : In(y, Append(lines, z)) => In(y, lines) \/ y = z
    BY InAppend
  <2>2. In(y, new)
    BY <1>3
  <2>3. QED
    BY <1>2, <1>4, <2>1, <2>2, Zenon
<1>6. QED
  BY <1>1, <1>5, TornUnpictured

LEMMA PersistDrains ==
    ASSUME DurInv, left["fail_copy"] = 0, PersistStep
    PROVE  Drained
<1>1. file \in Files /\ queue \in Seq(Msgs) /\ st \in States
  BY DEF DurInv, TypeInv
<1>2. PICK m : m = Head(queue)
  OBVIOUS
<1>3. ASSUME NEW op, Take(op)
      PROVE  /\ queue # <<>> /\ queue' = Tail(queue) /\ m = queue[1] /\ m.op = op
             /\ m.items \in Seq(Said) /\ (op \in {"chat", "switch"} => m.items[1] \in Said /\ In(m.items[1], m.items))
  <2>1. m.items \in Seq(Said) /\ m.op = op /\ queue # <<>> /\ queue' = Tail(queue)
    BY <1>2, <1>3, HeadTyped
  <2>2. m = queue[1] /\ 1 \in 1..Len(queue)
    BY <1>1, <1>2, <2>1, SMT
  <2>3. op \in {"chat", "switch"} => Len(m.items) = 1
    BY <2>1, <2>2 DEF DurInv, ChannelInv, Single
  <2>4. 1 \in 1..1
    BY SMT
  <2>5. QED
    BY <2>1, <2>2, <2>3, <2>4, OneItem DEF In
<1>4. ASSUME NEW how \in AppendOutcomes, PersistChat(how) PROVE Drained
  <2>1. Take("chat") /\ file' = AppendLine(file, m.items[1], how) /\ UNCHANGED <<st, backup>>
    BY <1>2, <1>4 DEF PersistChat, actor
  <2>2. PICK item \in Said : item = m.items[1] /\ In(item, m.items)
    BY <1>3, <2>1
  <2>3. \A y : Pictured(y) /\ In(y, file'.lines) => In(y, file.lines) \/ In(y, m.items)
    BY <1>1, <2>1, <2>2, AppendShows
  <2>4. QED
    BY <1>1, <1>3, <2>1, <2>3 DEF Drained
<1>5. ASSUME NEW how \in AppendOutcomes, PersistSwitch(how) PROVE Drained
  <2>1. Take("switch") /\ UNCHANGED backup /\ (file' = file \/ file' = AppendLine(file, m.items[1], how))
    BY <1>2, <1>5 DEF PersistSwitch
  <2>2. PICK item \in Said : item = m.items[1] /\ In(item, m.items)
    BY <1>3, <2>1
  <2>3. \A y : Pictured(y) /\ In(y, file'.lines) => In(y, file.lines) \/ In(y, m.items)
    BY <1>1, <2>1, <2>2, AppendShows
  <2>4. /\ st'.prompt = st.prompt
        /\ st'.conv = st.conv \/ \E x \in Said : IsSwitch(x) /\ st'.conv = Append(st.conv, x)
    BY <1>5, SwitchState
  <2>5. \A x \in Said : IsSwitch(x) => ~Pictured(x)
    BY DEF IsSwitch, GenerationOf, SwitchTexts, Pictured
  <2>6. PICK c \in Seq(Said) : c = st.conv
    BY <1>1 DEF States
  <2>7. ASSUME NEW y, Pictured(y), In(y, st'.conv) PROVE In(y, c)
    <3>1. \A x \in Said : In(y, Append(c, x)) => In(y, c) \/ y = x
      BY InAppend
    <3>2. CASE st'.conv = c
      BY <2>7, <3>2
    <3>3. ASSUME NEW x \in Said, IsSwitch(x), st'.conv = Append(c, x) PROVE In(y, c)
      BY <2>5, <2>7, <3>1, <3>3
    <3>4. QED
      BY <2>4, <2>6, <3>2, <3>3
  <2>8. QED
    BY <1>1, <1>3, <2>1, <2>3, <2>4, <2>6, <2>7 DEF Drained
<1>6. ASSUME NEW how, Rewrite(m.items, how), m.items \in Seq(Said)
      PROVE  \A y : In(y, file'.lines) => In(y, file.lines) \/ In(y, m.items)
  <2>1. file'.lines = IF Written(how) THEN m.items ELSE file.lines
    BY <1>1, <1>6, RewriteFacts DEF Rewrite
  <2>2. QED
    BY <2>1
<1>7. ASSUME NEW how \in RewriteOutcomes, PersistReplace(how) PROVE Drained
  <2>1. Take("replace") /\ Rewrite(m.items, how) /\ UNCHANGED <<st, backup>>
    BY <1>2, <1>7 DEF PersistReplace, actor
  <2>2. QED
    BY <1>1, <1>3, <1>6, <2>1 DEF Drained
<1>8. ASSUME NEW backedUp \in BOOLEAN, NEW how \in RewriteOutcomes, PersistStrip(backedUp, how) PROVE Drained
  <2>1. ~Use("fail_copy")
    <3>1. ~(0 > 0)
      BY SMT
    <3>2. QED
      BY <3>1 DEF Use
  <2>2. backedUp
    BY <1>8, <2>1 DEF PersistStrip
  <2>3. Take("strip") /\ Rewrite(m.items, how) /\ backup' = Backup /\ UNCHANGED st
    BY <1>2, <1>8, <2>2 DEF PersistStrip, actor
  <2>4. QED
    BY <1>1, <1>3, <1>6, <2>3 DEF Drained
<1>9. ASSUME PersistFlush PROVE Drained
  <2>1. Take("flush") /\ UNCHANGED <<st, file, backup>>
    BY <1>9 DEF PersistFlush, actor, disk
  <2>2. QED
    BY <1>1, <1>3, <2>1 DEF Drained
<1>10. QED
  BY <1>4, <1>5, <1>7, <1>8, <1>9 DEF PersistStep

LEMMA CrashDrains ==
    ASSUME DurInv, Crash
    PROVE  Drained
<1>1. file \in Files /\ queue \in Seq(Msgs) /\ st \in States
  BY DEF DurInv, TypeInv
<1>2. PICK remains \in Interrupted : file' = remains[1] /\ backup' = remains[2]
  BY DEF Crash
<1>3. queue' = <<>> /\ st'.conv = <<>> /\ st'.prompt = st.prompt
  BY DEF Crash, State
<1>4. \A y : ~In(y, st'.conv)
  BY <1>3, NoItems DEF In
<1>5. ASSUME UNCHANGED <<file, backup>> PROVE Drained
  BY <1>1, <1>3, <1>4, <1>5 DEF Drained
<1>6. CASE remains = <<file, backup>>
  BY <1>2, <1>5, <1>6
<1>7. CASE queue = <<>>
  <2>1. Interrupted = {<<file, backup>>} \cup {}
    BY <1>7 DEF Interrupted
  <2>2. QED
    BY <1>2, <1>6, <2>1
<1>8. CASE queue # <<>>
  <2>1. PICK m \in Msgs : m = Head(queue) /\ m = queue[1] /\ 1 \in 1..Len(queue)
    BY <1>1, <1>8, FileFacts, TakeFacts
  <2>2. m.items \in Seq(Said) /\ Single(m)
    BY <2>1 DEF Msgs, DurInv, ChannelInv
  <2>3. ASSUME NEW how \in AppendOutcomes, remains = <<AppendLine(file, m.items[1], how), backup>>,
               m.op \in {"chat", "switch"}
        PROVE  Drained
    <3>1. Len(m.items) = 1 /\ 1 \in 1..1
      BY <2>2, <2>3, SMT DEF Single
    <3>2. PICK item \in Said : item = m.items[1] /\ In(item, m.items)
      BY <2>2, <3>1, OneItem DEF In
    <3>3. file' = AppendLine(file, item, how) /\ backup' = backup
      BY <1>2, <2>3, <3>2
    <3>4. \A y : Pictured(y) /\ In(y, file'.lines) => In(y, file.lines) \/ In(y, m.items)
      BY <1>1, <3>2, <3>3, AppendShows
    <3>5. QED
      BY <1>1, <1>3, <1>4, <1>8, <2>1, <2>3, <3>3, <3>4 DEF Drained
  <2>4. ASSUME NEW b, remains = <<File(m.items, FALSE), b>>,
               (m.op = "strip" /\ b = Backup) \/ (m.op = "replace" /\ b = backup)
        PROVE  Drained
    <3>1. file'.lines = m.items /\ backup' = b
      BY <1>2, <2>4 DEF File
    <3>2. QED
      BY <1>1, <1>3, <1>4, <1>8, <2>1, <2>4, <3>1 DEF Drained
  <2>5. CASE m.op = "chat"
    BY <1>6, <1>8, <2>1, <2>3, <2>5 DEF Interrupted
  <2>6. CASE m.op = "switch"
    <3>1. PICK found : found = SwitchOnFile(file, GenerationOf(m.items[1]))
      OBVIOUS
    <3>2. \/ remains = <<file, backup>>
          \/ found = <<>> /\ \E how \in AppendOutcomes : remains = <<AppendLine(file, m.items[1], how), backup>>
      BY <1>8, <2>1, <2>6, <3>1 DEF Interrupted
    <3>3. QED
      BY <1>6, <2>3, <2>6, <3>2
  <2>7. CASE m.op = "replace"
    BY <1>6, <1>8, <2>1, <2>4, <2>7 DEF Interrupted
  <2>8. CASE m.op = "strip"
    <3>1. remains = <<file, backup>> \/ remains = <<file, Backup>> \/ remains = <<File(m.items, FALSE), Backup>>
      BY <1>8, <2>1, <2>8 DEF Interrupted
    <3>2. CASE remains = <<file, Backup>>
      <4>1. file' = file /\ backup' = Backup
        BY <1>2, <3>2
      <4>2. QED
        BY <1>1, <1>3, <1>4, <1>8, <2>1, <2>8, <4>1 DEF Drained
    <3>3. CASE remains = <<File(m.items, FALSE), Backup>>
      <4>1. PICK b : b = Backup
        OBVIOUS
      <4>2. remains = <<File(m.items, FALSE), b>>
        BY <3>3, <4>1
      <4>3. QED
        BY <2>4, <2>8, <4>1, <4>2
    <3>4. QED
      BY <1>6, <3>1, <3>2, <3>3
  <2>9. CASE m.op = "flush"
    BY <1>6, <1>8, <2>1, <2>9 DEF Interrupted
  <2>10. QED
    BY <2>5, <2>6, <2>7, <2>8, <2>9 DEF Msgs
<1>9. QED
  BY <1>7, <1>8

LEMMA ResumeStrips ==
    ASSUME DurInv, StripInv, NEW how \in RewriteOutcomes, Resume(how)
    PROVE  Known' /\ Settled /\ Settled' /\ UNCHANGED backup /\ Undoable
<1>1. file \in Files /\ queue = <<>>
  BY DEF DurInv, TypeInv, ChannelInv, Resume
<1>2. Settled
  BY <1>1, NoItems DEF StripInv
<1>3. PICK read \in Seq(Said) : read = ReadChat(file)
  BY <1>1, FileFacts
<1>4. /\ st'.conv = read /\ st'.prompt = st.prompt /\ queue' = <<Replace(read)>>
      /\ file'.lines = file.lines \/ file'.lines = read
  BY <1>3, ResumeFacts DEF DurInv
<1>5. backup' = backup
  BY DEF Resume
<1>6. \A y : In(y, read) => In(y, file.lines)
  BY <1>1, <1>3, InRead
<1>7. PICK m : m = Replace(read)
  OBVIOUS
<1>8. m.op = "replace" /\ m.items = read
  BY <1>7 DEF Replace
<1>9. \A k \in 1..Len(queue') : queue'[k] = m
  <2>1. \A k \in 1..Len(<<m>>) : <<m>>[k] = m
    BY SMT
  <2>2. QED
    BY <1>4, <1>7, <2>1
<1>10. \A y : Seen(y)' => In(y, file.lines) /\ Seen(y)
  BY <1>4, <1>6, <1>8, <1>9 DEF Seen
<1>11. Known'
  BY <1>4, <1>10 DEF Known, StripInv
<1>12. Settled'
  BY <1>2, <1>5, <1>8, <1>9, <1>10 DEF Settled
<1>13. Undoable
  <2>1. ASSUME NEW x \in Images, In(x, file.lines), In(Stripped(x), file'.lines) PROVE In(x, backup'.items)
    <3>1. Seen(x) /\ Seen(Stripped(x))
      BY <1>10, <2>1 DEF Seen
    <3>2. QED
      BY <1>2, <1>5, <3>1 DEF Settled
  <2>2. QED
    BY <2>1 DEF Undoable
<1>14. QED
  BY <1>2, <1>5, <1>11, <1>12, <1>13

\* The budgets of strips and of copies that fail.
LEMMA StripBudget ==
    ASSUME DurInv, left["fail_copy"] = 0, Next
    PROVE  /\ left'["fail_copy"] = 0
           /\ IF StripRejectedImages THEN left["strip"] > 0 /\ left'["strip"] = left["strip"] - 1
                                     ELSE left'["strip"] = left["strip"]
<1>1. left \in [OpNames -> Nat]
  BY DEF DurInv, TypeInv
<1> DEFINE Same == left'["fail_copy"] = 0 /\ left'["strip"] = left["strip"]
<1>2. \A op \in OpNames \ {"strip", "fail_copy"} : Use(op) => Same
  BY <1>1, UseOther DEF OpNames
<1>3. UNCHANGED left => Same
  OBVIOUS
<1>4. \A how : Fails(how) => Same
  BY <1>2, <1>3 DEF Fails, OpNames
<1>5. ~(0 > 0)
  BY SMT
<1>6. ~Use("fail_copy")
  BY <1>5 DEF Use
<1>7. ASSUME NEW body \in {"text", "image"}, UserMessage(body) PROVE Same
  BY <1>1, <1>7 DEF UserMessage, OpNames
<1>8. ASSUME StripRejectedImages
      PROVE  left["strip"] > 0 /\ left'["strip"] = left["strip"] - 1 /\ left'["fail_copy"] = 0
  BY <1>1, <1>8 DEF StripRejectedImages, Use, OpNames
<1>9. ActorStep /\ ~StripRejectedImages => Same
  <2>1. ASSUME NEW reminder \in BOOLEAN, BuildConversationRequest(reminder) PROVE Same
    BY <1>2, <1>3, <2>1 DEF BuildConversationRequest, OpNames
  <2>2. QED
    BY <1>2, <1>3, <1>7, <2>1 DEF ActorStep, AssistantReply, ToolResult, Interject, Compact, GiveUp,
       Repair, PostSwitch, OpNames
<1>10. PersistStep => Same
  BY <1>2, <1>3, <1>4, <1>6 DEF PersistStep, PersistChat, PersistSwitch, PersistReplace, PersistStrip,
     PersistFlush
<1>11. Crash \/ (\E how \in RewriteOutcomes : Resume(how)) => Same
  BY <1>2, <1>4 DEF Crash, Resume, OpNames
<1>12. QED
  BY <1>8, <1>9, <1>10, <1>11 DEF Next

LEMMA StripInvStays ==
    ASSUME DurInv, DurInv', StripInv, [Next]_vars
    PROVE  StripInv' /\ Undoable
<1>1. left["fail_copy"] = 0 /\ left["strip"] \in {0, 1} /\ Known
  BY DEF StripInv
\* A step that does not touch the disk.
<1>2. ASSUME UNCHANGED <<file, backup>> PROVE Undoable
  <2>1. ASSUME NEW x \in Images, In(x, file.lines), In(Stripped(x), file.lines) PROVE In(x, backup.items)
    <3>1. Seen(x) /\ Seen(Stripped(x))
      BY <2>1 DEF Seen
    <3>2. \A k \in 1..Len(queue) : ~Waiting(k)
      BY <2>1 DEF Waiting
    <3>3. QED
      BY <3>1, <3>2 DEF StripInv, Settled
  <2>2. QED
    BY <1>2, <2>1 DEF Undoable
<1>3. CASE UNCHANGED vars
  <2>1. UNCHANGED <<file, backup, queue, st, left>>
    BY <1>3 DEF vars, actor, disk
  <2>2. \A x : Seen(x)' <=> Seen(x)
    BY <2>1 DEF Seen
  <2>3. Known' /\ (Settled => Settled')
    BY <1>1, <2>1, <2>2 DEF Known, Settled
  <2>4. \A k \in 1..Len(queue) : Waiting(k) => Waiting(k)'
    BY <2>1, <2>2 DEF Waiting
  <2>5. QED
    BY <1>2, <2>1, <2>3, <2>4 DEF StripInv
<1>4. CASE StripRejectedImages
  <2>1. left'["fail_copy"] = 0 /\ left["strip"] > 0 /\ left'["strip"] = left["strip"] - 1
    BY <1>1, <1>4, StripBudget DEF Next, ActorStep
  <2>2. left["strip"] = 1 /\ left'["strip"] = 0
    BY <1>1, <2>1, SMT
  <2>3. 1 # 0
    BY SMT
  <2>4. Settled /\ ~backup.made
    BY <2>2, <2>3 DEF StripInv
  <2>5. /\ Known' /\ UNCHANGED <<file, backup>>
        /\ Settled' \/ \E k \in 1..Len(queue') : Waiting(k)'
    BY <1>1, <1>4, <2>4, StripStrips
  <2>6. QED
    BY <1>2, <2>1, <2>2, <2>3, <2>5 DEF StripInv
<1>5. CASE Next /\ ~StripRejectedImages
  <2>1. left'["fail_copy"] = 0 /\ left'["strip"] = left["strip"]
    BY <1>1, <1>5, StripBudget
  <2>2. CASE ActorStep
    <3>1. /\ Known' /\ UNCHANGED <<file, backup>>
          /\ Settled => Settled'
          /\ \A k \in 1..Len(queue) : Waiting(k) => k \in 1..Len(queue') /\ Waiting(k)'
      BY <1>5, <2>2, ActorStrips
    <3>2. QED
      BY <1>2, <2>1, <3>1 DEF StripInv
  <2>3. CASE PersistStep \/ Crash
    <3>1. Drained
      BY <1>1, <2>3, PersistDrains, CrashDrains
    <3>2. /\ Known' /\ Undoable
          /\ Settled => Settled' /\ UNCHANGED backup
          /\ (\E k \in 1..Len(queue) : Waiting(k)) => Settled' \/ \E k \in 1..Len(queue') : Waiting(k)'
      BY <3>1, DrainedStrips
    <3>3. 1 # 0
      BY SMT
    <3>4. QED
      BY <2>1, <3>2, <3>3 DEF StripInv
  <2>4. ASSUME NEW how \in RewriteOutcomes, Resume(how) PROVE StripInv' /\ Undoable
    <3>1. Known' /\ Settled /\ Settled' /\ UNCHANGED backup /\ Undoable
      BY <2>4, ResumeStrips
    <3>2. queue = <<>>
      BY <2>4 DEF DurInv, ChannelInv, Resume
    <3>3. left["strip"] = 1 => ~backup.made
      BY <3>2, NoItems DEF StripInv
    <3>4. QED
      BY <1>1, <2>1, <3>1, <3>3 DEF StripInv
  <2>5. QED
    BY <1>5, <2>2, <2>3, <2>4 DEF Next
<1>6. QED
  BY <1>3, <1>4, <1>5

LEMMA StripInvInit ==
    ASSUME Init, \A b \in Budgets : b["strip"] <= 1 /\ b["fail_copy"] = 0
    PROVE  StripInv
<1>1. left \in Budgets /\ left["strip"] <= 1 /\ left["fail_copy"] = 0
  BY DEF Init
<1>2. left["strip"] \in Nat
  BY <1>1, DurabilityAssumption DEF OpNames
<1>3. left["strip"] \in {0, 1}
  BY <1>1, <1>2, SMT
<1>4. PICK x \in Said : x = System("head") /\ ~Pictured(x)
  BY SaidFacts DEF System, Item, Pictured
<1>5. <<x>> \in Seq(Said) /\ \A i \in 1..Len(<<x>>) : <<x>>[i] = x
  BY SMT
<1>6. PICK c \in Seq(Said) : c = <<x>>
  BY <1>5
<1>7. Len(c) = 1 /\ c[1] = x
  BY <1>6, SMT
<1>8. Integrity(c, "cancelled") = c
  BY <1>4, <1>6, <1>7, HeadUntouched
<1>9. st.conv = c /\ file.lines = c /\ queue = <<>> /\ ~backup.made
  BY <1>4, <1>6, <1>8 DEF Init, NewState, State, File, NoBackup
<1>10. \A y : Seen(y) => ~Pictured(y)
  BY <1>4, <1>5, <1>6, <1>9, NoItems DEF Seen, In
<1>11. Known
  BY <1>10 DEF Known
<1>12. Settled
  BY <1>9, <1>10, NoItems, StrippedFacts DEF Settled
<1>13. QED
  BY <1>1, <1>3, <1>9, <1>11, <1>12 DEF StripInv

\* An image that was in the file before its message was stripped there is in the copy, whatever
\* failed, was killed or was retried: if a session strips once and the file could be copied.  A
\* second strip finds the copy of the first one, and keeps it.
THEOREM StripUndoable ==
    ASSUME \A b \in Budgets : b["strip"] <= 1 /\ b["fail_copy"] = 0
    PROVE  Spec => StripRecoverable
<1>1. Init => StripInv
  BY StripInvInit
<1>2. DurInv /\ DurInv' /\ StripInv /\ [Next]_vars => StripInv' /\ Undoable
  BY StripInvStays
<1>3. DurInv /\ Undoable =>
          \A i \in DOMAIN file.lines :
             LET image == file.lines[i]
             IN  image.body = "image" /\ Contains(file'.lines, [image EXCEPT !.body = "stripped"])
                     => Contains(backup'.items, image)
  <2>1. SUFFICES ASSUME DurInv, Undoable, NEW i \in DOMAIN file.lines, file.lines[i].body = "image",
                        Contains(file'.lines, [file.lines[i] EXCEPT !.body = "stripped"])
                 PROVE  Contains(backup'.items, file.lines[i])
    BY Zenon
  <2>2. PICK lines \in Seq(Lines) : lines = file.lines
    BY <2>1, FileFacts DEF DurInv, TypeInv
  <2>3. i \in 1..Len(lines) /\ lines[i] \in Lines
    BY <2>1, <2>2, SMT
  <2>4. PICK x : x = lines[i]
    OBVIOUS
  <2>5. x \in Images
    BY <2>1, <2>2, <2>3, <2>4, TornUnpictured DEF Lines, Images
  <2>6. In(x, file.lines) /\ In(Stripped(x), file'.lines)
    BY <2>1, <2>2, <2>3, <2>4 DEF In, Contains, Stripped
  <2>7. In(x, backup'.items)
    BY <2>1, <2>5, <2>6 DEF Undoable
  <2>8. QED
    BY <2>2, <2>4, <2>7 DEF In, Contains
<1>4. QED
  BY <1>1, <1>2, <1>3, DurabilityInvariant, PTL DEF Spec, StripRecoverable
=============================================================================
