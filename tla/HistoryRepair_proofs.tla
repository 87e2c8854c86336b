------------------------ MODULE HistoryRepair_proofs ------------------------
(***************************************************************************)
(* What repair_history promises of a history of any length whose messages   *)
(* call any ids.  The state is only the history read so far, so the         *)
(* invariant is its type; the work is in Conversation_proofs, about the      *)
(* passes.                                                                  *)
(***************************************************************************)
EXTENDS HistoryRepair, Conversation_proofs

\* No message calls an id twice.  Without it two answers to one id are missing and
\* both are added.
DistinctIds == \A ids \in Calls : \A a, b \in 1..Len(ids) : a # b => ids[a] # ids[b]

\* What a repaired history is made of.
Repairable == Lines \cup {Synthetic(id, "halted") : id \in Ids}

LEMMA LinesFacts ==
    /\ \A x \in Repairable :
          \/ x.calls \in Calls /\ ~IsResult(x)
          \/ x.calls = <<>>
    /\ \A id \in Ids : Synthetic(id, "halted") \in Repairable /\ Synthetic(id, "cancelled") \in Repairable
    /\ Lines \subseteq Repairable
<1>1. ASSUME NEW x \in Repairable PROVE (x.calls \in Calls /\ ~IsResult(x)) \/ x.calls = <<>>
  <2>1. CASE x = User(1, "real")
    BY <2>1 DEF User, Item
  <2>2. CASE \E ids \in Calls : x = Assistant(1, ids)
    BY <2>2 DEF Assistant, Item, IsResult
  <2>3. CASE \E id \in Ids : x = Result(id, 1) \/ x = Synthetic(id, "cancelled") \/ x = Synthetic(id, "halted")
    BY <2>3 DEF Result, Synthetic, Item
  <2>4. QED
    BY <1>1, <2>1, <2>2, <2>3 DEF Repairable, Lines
<1>2. QED
  BY <1>1 DEF Repairable, Lines

LEMMA LinesAnswerable ==
    ASSUME NEW reason \in Reasons
    PROVE  Answerable(Repairable, reason)
<1>1. ASSUME NEW x \in Repairable
      PROVE  x.calls \in Seq(ToSet(x.calls)) /\ \A id \in ToSet(x.calls) : Synthetic(id, reason) \in Repairable
  <2>1. CASE x.calls \in Calls
    <3>1. PICK ids \in Calls : ids = x.calls
      BY <2>1
    <3>2. ids \in Seq(Nat \ {NoCall})
      BY HistoryAssumption
    <3>3. ids \in Seq(ToSet(ids))
      <4>1. Len(ids) \in Nat /\ DOMAIN ids = 1..Len(ids) /\ ids = [i \in 1..Len(ids) |-> ids[i]]
        BY <3>2, SMT
      <4>2. \A i \in 1..Len(ids) : ids[i] \in ToSet(ids)
        BY <4>1 DEF ToSet
      <4>3. ids \in [1..Len(ids) -> ToSet(ids)]
        BY <4>1, <4>2
      <4>4. QED
        BY <4>1, <4>3, SMT
    <3>4. \A id \in ToSet(ids) : id \in Ids
      BY DEF Ids
    <3>5. QED
      BY <3>1, <3>3, <3>4, LinesFacts DEF Reasons
  <2>2. CASE x.calls = <<>>
    <3>1. DOMAIN <<>> = {}
      BY SMT
    <3>2. ToSet(x.calls) = {}
      BY <2>2, <3>1, Zenon DEF ToSet
    <3>3. \A T : <<>> \in Seq(T)
      BY SMT
    <3>4. x.calls \in Seq(ToSet(x.calls))
      BY <2>2, <3>3
    <3>5. QED
      BY <3>2, <3>4
  <2>3. QED
    BY <2>1, <2>2, LinesFacts
<1>2. QED
  BY <1>1 DEF Answerable

LEMMA LinesWellFormed ==
    ASSUME DistinctIds
    PROVE  WellFormed(Repairable)
<1>1. ASSUME NEW x \in Repairable, IsResult(x) PROVE x.calls = <<>>
  BY <1>1, LinesFacts
<1>2. ASSUME NEW x \in Repairable, NEW a \in 1..Len(x.calls), NEW b \in 1..Len(x.calls), a # b
      PROVE  x.calls[a] # x.calls[b]
  <2>1. CASE x.calls \in Calls
    BY <1>2, <2>1 DEF DistinctIds
  <2>2. CASE x.calls = <<>>
    <3>1. a \in 1..0
      BY <2>2, SMT
    <3>2. QED
      BY <3>1, SMT
  <2>3. QED
    BY <2>1, <2>2, LinesFacts
<1>3. QED
  BY <1>1, <1>2 DEF WellFormed

\* Lines are only ever appended, so the history is one the lemmas are about.
LEMMA HistoryType == Spec => [](history \in Seq(Repairable))
<1>1. Init => history \in Seq(Repairable)
  BY SMT DEF Init
<1>2. history \in Seq(Repairable) /\ [Next]_history => (history \in Seq(Repairable))'
  <2>1. SUFFICES ASSUME history \in Seq(Repairable), [Next]_history PROVE history' \in Seq(Repairable)
    OBVIOUS
  <2>2. CASE Next
    <3>1. PICK line \in Lines : ReadLine(line)
      BY <2>2 DEF Next
    <3>2. history' = Append(history, line) /\ line \in Repairable
      BY <3>1, LinesFacts DEF ReadLine
    <3>3. QED
      BY <2>1, <3>2, SMT
  <2>3. CASE UNCHANGED history
    BY <2>1, <2>3
  <2>4. QED
    BY <2>1, <2>2, <2>3
<1>3. QED
  BY <1>1, <1>2, PTL DEF Spec

-----------------------------------------------------------------------------
(* The theorems *)

\* What repair_history leaves is accepted by a provider, whatever is missing from the history,
\* displaced or there twice, as long as no message calls an id twice.
THEOREM RepairGivesValid == DistinctIds => (Spec => []RepairedIsValid)
<1> SUFFICES ASSUME DistinctIds PROVE Spec => []RepairedIsValid
  OBVIOUS
<1>1. history \in Seq(Repairable) => RepairedIsValid
  <2>1. SUFFICES ASSUME history \in Seq(Repairable) PROVE RepairedIsValid
    OBVIOUS
  <2>2. PICK h \in Seq(Repairable) : h = history
    BY <2>1
  <2>3. Answerable(Repairable, "halted") /\ WellFormed(Repairable)
    BY LinesAnswerable, LinesWellFormed DEF Reasons
  <2>4. PICK d \in Seq(Repairable) : d = Dedup(h)
    BY DedupThins
  <2>5. AnsweredOnce(d)
    BY <2>4, DedupThins
  <2>6. PICK s \in Seq(Repairable) : s = StripDisplaced(d)
    BY StripThins
  <2>7. Placed(s) /\ AnsweredOnce(s)
    BY <2>5, <2>6, StripThins
  <2>8. ProviderValid(RepairDangling(s, "halted"))
    BY <2>3, <2>7, RepairedValid
  <2>9. QED
    BY <2>2, <2>4, <2>6, <2>8 DEF RepairedIsValid, RepairHistory
<1>2. QED
  BY <1>1, HistoryType, PTL

\* The passes of repair_history only touch results, leave a valid history alone and keep the last
\* answer to every call, also when a message calls an id twice.
THEOREM RepairConserves == Spec => []RepairIsConservative
<1>1. history \in Seq(Repairable) => RepairIsConservative
  <2>1. SUFFICES ASSUME history \in Seq(Repairable) PROVE RepairIsConservative
    OBVIOUS
  <2>2. PICK h \in Seq(Repairable) : h = history
    BY <2>1
  <2>3. Answerable(Repairable, "halted")
    BY LinesAnswerable DEF Reasons
  <2>4. PICK d \in Seq(Repairable) : d = Dedup(h)
    BY DedupThins
  <2>5. PICK f : Thinned(h, d, f, KeptByDedup(h))
    BY <2>4, DedupThins
  <2>6. PICK s \in Seq(Repairable) : s = StripDisplaced(d)
    BY StripThins
  <2>7. PICK g : Thinned(d, s, g, KeptByStrip(d))
    BY <2>6, StripThins
  <2>8. PICK r \in Seq(Repairable) : r = RepairDangling(s, "halted")
    BY <2>3, RepairBlocks
  <2>9. r = RepairHistory(h)
    BY <2>4, <2>6, <2>8 DEF RepairHistory
  <2>10. Spoken(r) = Spoken(h)
    <3>1. Spoken(d) = Spoken(h)
      BY <2>5, ThinnedSpoken DEF Thinned
    <3>2. Spoken(s) = Spoken(d)
      BY <2>7, ThinnedSpoken DEF Thinned
    <3>3. Spoken(r) = Spoken(s)
      BY <2>3, <2>8, RepairSpoken
    <3>4. QED
      BY <3>1, <3>2, <3>3
  <2>11. ASSUME ProviderValid(h) PROVE r = h
    <3>1. d = h
      BY <2>3, <2>4, <2>11, ValidUntouched
    <3>2. s = h
      BY <2>3, <2>6, <2>11, <3>1, ValidUntouched
    <3>3. QED
      BY <2>3, <2>8, <2>11, <3>2, ValidUntouched
  <2>12. ASSUME NEW i \in DOMAIN h, IsResult(h[i]), Contains(RunCalls(h, i), h[i].of),
                \A j \in (i + 1)..Len(h) : RunHead(h, j) = RunHead(h, i) => h[j].of # h[i].of
         PROVE  Contains(r, h[i])
    <3>0. DOMAIN h = 1..Len(h) /\ DOMAIN d = 1..Len(d)
      BY SMT
    <3>1. i \in KeptByDedup(h)
      BY <2>12 DEF KeptByDedup, Superseded
    <3>2. PICK p \in 1..Len(d) : f[p] = i /\ d[p] = h[i]
      BY <2>5, <3>0, <3>1 DEF Thinned, Picks
    <3>3. RunCalls(d, p) = RunCalls(h, i)
      BY <2>5, <3>2 DEF Thinned, SameRun, SameRunAt
    <3>4. p \in KeptByStrip(d)
      BY <2>12, <3>0, <3>2, <3>3 DEF KeptByStrip
    <3>5. PICK q \in 1..Len(s) : s[q] = d[p]
      BY <2>7, <3>0, <3>4 DEF Thinned, Picks
    <3>6. PICK off : Blocks(s, r, off, "halted")
      BY <2>3, <2>8, RepairBlocks
    <3>7. Start(off, q) \in 1..Len(r) /\ r[Start(off, q)] = s[q]
      BY <3>6, StartFacts
    <3>8. QED
      BY <3>2, <3>5, <3>7 DEF Contains
  <2>13. QED
    BY <2>2, <2>9, <2>10, <2>11, <2>12 DEF RepairIsConservative
<1>2. QED
  BY <1>1, HistoryType, PTL

\* has_dangling_tool_calls tells exactly when repair_dangling_tool_calls would add something.
THEOREM DanglingPredicted == Spec => []DanglingIsPredicted
<1>1. history \in Seq(Repairable) => DanglingIsPredicted
  <2>1. Answerable(Repairable, "cancelled")
    BY LinesAnswerable DEF Reasons
  <2>2. QED
    BY <2>1, DanglingFacts DEF DanglingIsPredicted
<1>2. QED
  BY <1>1, HistoryType, PTL
=============================================================================
