--------------------------- MODULE Sampler_proofs ---------------------------
(***************************************************************************)
(* Proofs about the sampler, for any number of requests, ids and budgets.   *)
(***************************************************************************)
EXTENDS Sampler, TLAPS

USE SamplerAssumption

\* A Submit command stands for a request that nothing else has taken up, and there is one for
\* each.
MailboxInv ==
    \A i \in 1..Len(mailbox) :
      mailbox[i].op = "submit" =>
        /\ pc[mailbox[i].sub] = "queued"
        /\ \A j \in 1..Len(mailbox) :
             mailbox[j].op = "submit" /\ mailbox[j].sub = mailbox[i].sub => i = j

\* Whoever waits holds a handle, so the actor does not close.
HandleInv ==
    /\ ~open => \A s \in Subs : caller[s] \notin {"waiting", "answered"}
    /\ actor = "closing" => ~open

\* The counters at each place of the loop: what is sent, and that a request with images has
\* one retry in hand.
CountInv ==
    \A s \in Subs :
      /\ pc[s] \in {"none", "queued", "start"} => sent[s] = 0 /\ retries[s] = 0 /\ doom[s] = 0
      /\ pc[s] \in {"loop", "sleep"} => sent[s] = retries[s] + doom[s]
      /\ pc[s] \in {"connect", "stream"} => sent[s] = retries[s] + doom[s] + 1
      /\ doom[s] <= Cfg[s].doom
      /\ retries[s] <= Cfg[s].retries
      /\ images[s] /\ Cfg[s].retries > 0 => retries[s] < Cfg[s].retries

\* A request that must not be sent again is past every place that leads to an attempt.
OutputInv ==
    \A s \in Subs : onlyBefore /\ output[s] => pc[s] \in {"stream", "gone", "joined", "aborted"}

Inv == TypeOK /\ MailboxInv /\ HandleInv /\ OneTerminal /\ CountInv /\ OutputInv /\ Cancellable

\* The commands of the mailbox are about submissions.
LEMMA MailboxSubs ==
    ASSUME TypeOK, NEW i \in 1..Len(mailbox)
    PROVE  mailbox[i].op \in {"submit", "cancel"} /\ mailbox[i].sub \in Subs
<1>1. mailbox[i] \in Commands
    BY SMT DEF TypeOK
<1>2. QED
    BY <1>1, SMT DEF Commands

\* What classify_error allows: no decision to go on without budget.
LEMMA ClassifyBounds ==
    ASSUME NEW err, NEW count \in Nat, NEW max \in Nat
    PROVE  /\ Classify(err, count, max) = "retry" => count + 1 < max
           /\ Classify(err, count, max) = "strip" => max > 0 /\ err = "image"
BY SMT DEF Classify

\* The initial states satisfy the invariant.
LEMMA InitInv == Init => Inv
BY SMT DEF Init, Inv, TypeOK, MailboxInv, HandleInv, OneTerminal, CountInv, OutputInv, Cancellable, Running

\* A step of a task that goes on or ends in one of the ways of the loop.
StepTo(s, to, r, d, n, o, m) ==
    /\ IF to = "gone" THEN End(s) ELSE Continue(s, to)
    /\ retries' = [retries EXCEPT ![s] = r] /\ doom' = [doom EXCEPT ![s] = d]
    /\ sent' = [sent EXCEPT ![s] = n] /\ output' = [output EXCEPT ![s] = o]
    /\ images' = [images EXCEPT ![s] = m]
    /\ to \in {"loop", "sleep"} => n = r + d
    /\ to \in {"connect", "stream"} => n = r + d + 1
    /\ d <= Cfg[s].doom /\ r <= Cfg[s].retries
    /\ m /\ Cfg[s].retries > 0 => r < Cfg[s].retries
    /\ onlyBefore /\ o => to \in {"stream", "gone"}

TaskStep(s) ==
    /\ TaskOnly
    /\ \E to \in {"loop", "sleep", "connect", "stream", "gone"}, r \in Nat, d \in Nat, n \in Nat,
          o \in BOOLEAN, m \in BOOLEAN : StepTo(s, to, r, d, n, o, m)

\* Such a step preserves the invariant.
LEMMA TaskStepInv ==
    ASSUME Inv, NEW s \in Subs, pc[s] \in Running, TaskStep(s)
    PROVE  Inv'
<1>p. PICK to \in {"loop", "sleep", "connect", "stream", "gone"}, r \in Nat, d \in Nat, n \in Nat,
           o \in BOOLEAN, m \in BOOLEAN : StepTo(s, to, r, d, n, o, m)
    BY DEF TaskStep
<1>q. /\ pc' = [pc EXCEPT ![s] = to]
      /\ terminals' = [terminals EXCEPT ![s] = IF to = "gone" THEN @ + 1 ELSE @]
      /\ caller' = [caller EXCEPT ![s] = IF to = "gone" /\ @ = "waiting" THEN "answered" ELSE @]
  <2>1. CASE to = "gone"
    BY <1>p, <2>1 DEF StepTo, End
  <2>2. CASE to # "gone"
    BY <1>p, <2>2, SMT DEF StepTo, Continue, TypeOK, Inv
  <2>3. QED
    BY <2>1, <2>2
<1>0. UNCHANGED <<mailbox, actor, active, onlyBefore, open, id, cancelled>>
    BY DEF TaskStep, TaskOnly, actorVars
<1>t. TypeOK /\ MailboxInv /\ HandleInv /\ OneTerminal /\ CountInv /\ OutputInv /\ Cancellable
    BY DEF Inv
<1>v. /\ pc'[s] = to /\ retries'[s] = r /\ doom'[s] = d /\ sent'[s] = n
      /\ output'[s] = o /\ images'[s] = m
      /\ terminals'[s] = IF to = "gone" THEN terminals[s] + 1 ELSE terminals[s]
      /\ caller'[s] = IF to = "gone" /\ caller[s] = "waiting" THEN "answered" ELSE caller[s]
    BY <1>p, <1>q, <1>t, Zenon DEF TypeOK, StepTo
<1>f. ASSUME NEW t \in Subs, t # s
      PROVE  /\ pc'[t] = pc[t] /\ retries'[t] = retries[t] /\ doom'[t] = doom[t] /\ sent'[t] = sent[t]
             /\ output'[t] = output[t] /\ images'[t] = images[t] /\ terminals'[t] = terminals[t]
             /\ caller'[t] = caller[t]
    BY <1>p, <1>q, <1>t, <1>f, Zenon DEF TypeOK, StepTo
<1>1. TypeOK'
  <2>1. /\ mailbox' \in Seq(Commands) /\ actor' \in {"run", "closing"} /\ active' \in [Ids -> Subs \cup {None}]
        /\ onlyBefore' \in BOOLEAN /\ open' \in BOOLEAN /\ id' \in Naming /\ cancelled' \in [Subs -> BOOLEAN]
    BY <1>0, <1>t, Zenon DEF TypeOK
  <2>2. output' \in [Subs -> BOOLEAN] /\ images' \in [Subs -> BOOLEAN]
    BY <1>p, <1>t, Zenon DEF TypeOK, StepTo
  <2>3. /\ pc' \in [Subs -> {"none", "queued", "gone", "joined", "aborted"} \cup Running]
        /\ retries' \in [Subs -> Nat] /\ doom' \in [Subs -> Nat] /\ sent' \in [Subs -> Nat]
        /\ caller' \in [Subs -> {"none", "away", "waiting", "answered", "gone"}]
    BY <1>p, <1>q, <1>t, SMT DEF TypeOK, Running, StepTo
  <2>4. terminals' \in [Subs -> 0..1]
    <3>1. terminals[s] = 0
      BY <1>t, SMT DEF OneTerminal, Running
    <3>2. (IF to = "gone" THEN terminals[s] + 1 ELSE terminals[s]) \in 0..1
      BY <3>1, SMT
    <3>3. QED
      BY <1>q, <1>t, <3>2, Zenon DEF TypeOK
  <2>5. QED
    BY <2>1, <2>2, <2>3, <2>4 DEF TypeOK
<1>2. MailboxInv'
  <2>1. \A i \in 1..Len(mailbox) : mailbox[i].sub \in Subs
    BY <1>t, MailboxSubs
  <2>2. \A t \in Subs : pc[t] = "queued" => pc'[t] = "queued"
    BY <1>f, Zenon DEF Running
  <2>3. QED
    BY <1>0, <1>t, <2>1, <2>2, Zenon DEF MailboxInv
<1>3. HandleInv'
    BY <1>0, <1>t, <1>v, <1>f, SMT DEF HandleInv
<1>4. OneTerminal'
    BY <1>t, <1>v, <1>f, SMT DEF OneTerminal, Running
<1>5. CountInv'
  <2> SUFFICES ASSUME NEW t \in Subs PROVE CountInv!(t)'
    BY DEF CountInv
  <2>1. CASE t # s
    BY <1>t, <1>f, <2>1, Zenon DEF CountInv
  <2>2. CASE t = s
    <3>1. /\ to \in {"loop", "sleep"} => n = r + d
          /\ to \in {"connect", "stream"} => n = r + d + 1
          /\ d <= Cfg[s].doom /\ r <= Cfg[s].retries
          /\ m /\ Cfg[s].retries > 0 => r < Cfg[s].retries
      BY <1>p DEF StepTo
    <3>2. pc'[s] \notin {"none", "queued", "start"}
      BY <1>v
    <3>3. images'[s] /\ Cfg[s].retries > 0 => retries'[s] < Cfg[s].retries
      BY <1>v, <3>1, Zenon
    <3>4. QED
      BY <1>v, <2>2, <3>1, <3>2, <3>3, Zenon
  <2>3. QED
    BY <2>1, <2>2
<1>6. OutputInv'
    BY <1>0, <1>p, <1>t, <1>v, <1>f, SMT DEF OutputInv, StepTo
<1>7. Cancellable'
    BY <1>0, <1>t, <1>f, SMT DEF Cancellable, Alone, Running
<1>8. QED
    BY <1>1, <1>2, <1>3, <1>4, <1>5, <1>6, <1>7 DEF Inv

\* A step that leaves every counter alone.
LEMMA QuietStep ==
    ASSUME Inv, TaskOnly, NEW s \in Subs, pc[s] \in Running,
           NEW to \in {"loop", "sleep", "connect", "stream", "gone"},
           IF to = "gone" THEN End(s) ELSE Continue(s, to), UNCHANGED taskVars,
           to = "loop" => pc[s] \in {"start", "sleep"}, to = "stream" => pc[s] = "connect",
           to \notin {"sleep", "connect"}
    PROVE  TaskStep(s)
<1>1. TypeOK /\ CountInv /\ OutputInv
    BY DEF Inv
<1>2. /\ retries[s] \in Nat /\ doom[s] \in Nat /\ sent[s] \in Nat
      /\ output[s] \in BOOLEAN /\ images[s] \in BOOLEAN
    BY <1>1 DEF TypeOK
<1>3. /\ retries' = [retries EXCEPT ![s] = retries[s]] /\ doom' = [doom EXCEPT ![s] = doom[s]]
      /\ sent' = [sent EXCEPT ![s] = sent[s]] /\ output' = [output EXCEPT ![s] = output[s]]
      /\ images' = [images EXCEPT ![s] = images[s]]
    BY <1>1, SMT DEF TypeOK, taskVars
<1>4. /\ to \in {"loop", "sleep"} => sent[s] = retries[s] + doom[s]
      /\ to \in {"connect", "stream"} => sent[s] = retries[s] + doom[s] + 1
    BY <1>1, <1>2, SMT DEF CountInv
<1>5. /\ doom[s] <= Cfg[s].doom /\ retries[s] <= Cfg[s].retries
      /\ images[s] /\ Cfg[s].retries > 0 => retries[s] < Cfg[s].retries
    BY <1>1, Zenon DEF CountInv
<1>6. onlyBefore /\ output[s] => to \in {"stream", "gone"}
    BY <1>1 DEF OutputInv
<1>7. StepTo(s, to, retries[s], doom[s], sent[s], output[s], images[s])
    BY <1>3, <1>4, <1>5, <1>6, Zenon DEF StepTo
<1>8. \E to_ \in {"loop", "sleep", "connect", "stream", "gone"}, r_ \in Nat, d_ \in Nat, n_ \in Nat,
         o_ \in BOOLEAN, m_ \in BOOLEAN : StepTo(s, to_, r_, d_, n_, o_, m_)
  <2> USE <1>2
  <2> WITNESS to \in {"loop", "sleep", "connect", "stream", "gone"}, retries[s] \in Nat, doom[s] \in Nat,
              sent[s] \in Nat, output[s] \in BOOLEAN, images[s] \in BOOLEAN
  <2> QED
    BY <1>7
<1>9. QED
    BY <1>8 DEF TaskStep

\* apply_retry_decision keeps the budget and does not go on after output it must not repeat.
LEMMA DecideStep ==
    ASSUME Inv, NEW s \in Subs, pc[s] \in {"connect", "stream"}, NEW err, NEW out \in BOOLEAN,
           Decide(s, err, out)
    PROVE  TaskStep(s)
<1> DEFINE decision == Classify(err, retries[s], EffectiveMaxRetries(s, out))
           goes == decision = "retry" \/ Strips(s, decision)
           to == IF goes THEN (IF decision = "retry" THEN "sleep" ELSE "loop") ELSE "gone"
           r  == IF goes THEN retries[s] + 1 ELSE retries[s]
           m  == IF goes THEN images[s] /\ err \notin {"image", "reset"} ELSE images[s]
<1>1. TypeOK /\ CountInv /\ OutputInv
    BY DEF Inv
<1>2. /\ retries[s] \in Nat /\ doom[s] \in Nat /\ sent[s] \in Nat /\ images[s] \in BOOLEAN
      /\ Cfg[s].retries \in Nat /\ Cfg[s].doom \in Nat /\ EffectiveMaxRetries(s, out) \in Nat
      /\ EffectiveMaxRetries(s, out) <= Cfg[s].retries
    BY <1>1, SMT DEF TypeOK, EffectiveMaxRetries
<1>3. /\ TaskOnly /\ UNCHANGED <<doom, sent>> /\ output' = [output EXCEPT ![s] = out]
      /\ IF to = "gone" THEN End(s) ELSE Continue(s, to)
      /\ retries' = [retries EXCEPT ![s] = r] /\ images' = [images EXCEPT ![s] = m]
  <2>1. CASE goes
    BY <2>1, Zenon DEF Decide
  <2>2. CASE ~goes
    <3>1. End(s) /\ UNCHANGED <<retries, images>>
      BY <2>2, Zenon DEF Decide
    <3>2. retries' = [retries EXCEPT ![s] = retries[s]] /\ images' = [images EXCEPT ![s] = images[s]]
      BY <1>1, <3>1, Zenon DEF TypeOK
    <3>3. QED
      BY <2>2, <3>1, <3>2, Zenon DEF Decide
  <2>3. QED
    BY <2>1, <2>2
<1>4. sent[s] = retries[s] + doom[s] + 1 /\ doom[s] <= Cfg[s].doom /\ retries[s] <= Cfg[s].retries
    BY <1>1, SMT DEF CountInv
<1>5. images[s] /\ Cfg[s].retries > 0 => retries[s] < Cfg[s].retries
    BY <1>1, Zenon DEF CountInv
<1>6. goes => EffectiveMaxRetries(s, out) > 0
    BY <1>2, ClassifyBounds, SMT DEF Strips
<1>7. r <= Cfg[s].retries
  <2>1. CASE decision = "retry"
    BY <2>1, <1>2, <1>4, ClassifyBounds, SMT
  <2>2. CASE decision # "retry" /\ Strips(s, decision)
    BY <2>2, <1>2, <1>5, <1>6, SMT DEF Strips
  <2>3. CASE ~goes
    BY <2>3, <1>4
  <2>4. QED
    BY <2>1, <2>2, <2>3
<1>8. m /\ Cfg[s].retries > 0 => r < Cfg[s].retries
  <2>1. CASE decision = "retry"
    BY <2>1, <1>2, <1>4, ClassifyBounds, SMT
  <2>2. CASE decision # "retry" /\ Strips(s, decision)
    <3>1. err = "image"
      BY <2>2, <1>2, ClassifyBounds DEF Strips
    <3>2. QED
      BY <2>2, <3>1
  <2>3. CASE ~goes
    BY <2>3, <1>5
  <2>4. QED
    BY <2>1, <2>2, <2>3
<1>9. onlyBefore /\ out => to \in {"stream", "gone"}
    BY <1>6, <1>2, SMT DEF EffectiveMaxRetries
<1>10. to \in {"loop", "sleep"} => sent[s] = r + doom[s]
    BY <1>2, <1>4, SMT
<1>11. doom' = [doom EXCEPT ![s] = doom[s]] /\ sent' = [sent EXCEPT ![s] = sent[s]]
    BY <1>1, <1>3, Zenon DEF TypeOK
<1>12. to \in {"loop", "sleep", "connect", "stream", "gone"} /\ r \in Nat
    BY <1>2, SMT
<1>13. m \in BOOLEAN
    BY <1>2, Zenon
<1>14. to \in {"connect", "stream"} => sent[s] = r + doom[s] + 1
    BY Zenon
<1> HIDE DEF to, r, m, decision, goes
<1>15. StepTo(s, to, r, doom[s], sent[s], out, m)
    BY <1>3, <1>4, <1>7, <1>8, <1>9, <1>10, <1>11, <1>14, Zenon DEF StepTo
<1>16. \E to_ \in {"loop", "sleep", "connect", "stream", "gone"}, r_ \in Nat, d_ \in Nat, n_ \in Nat,
         o_ \in BOOLEAN, m_ \in BOOLEAN : StepTo(s, to_, r_, d_, n_, o_, m_)
  <2> USE <1>2, <1>12, <1>13
  <2> WITNESS to \in {"loop", "sleep", "connect", "stream", "gone"}, r \in Nat, doom[s] \in Nat,
              sent[s] \in Nat, out \in BOOLEAN, m \in BOOLEAN
  <2> QED
    BY <1>15
<1>17. QED
    BY <1>3, <1>16 DEF TaskStep

\* What an attempt and its outcome know of the counters.
LEMMA CountFacts ==
    ASSUME Inv, NEW s \in Subs
    PROVE  /\ retries[s] \in Nat /\ doom[s] \in Nat /\ sent[s] \in Nat
           /\ output[s] \in BOOLEAN /\ images[s] \in BOOLEAN
           /\ Cfg[s].retries \in Nat /\ Cfg[s].doom \in Nat
           /\ doom[s] <= Cfg[s].doom /\ retries[s] <= Cfg[s].retries
           /\ images[s] /\ Cfg[s].retries > 0 => retries[s] < Cfg[s].retries
           /\ retries = [retries EXCEPT ![s] = retries[s]] /\ doom = [doom EXCEPT ![s] = doom[s]]
           /\ sent = [sent EXCEPT ![s] = sent[s]] /\ images = [images EXCEPT ![s] = images[s]]
           /\ output = [output EXCEPT ![s] = output[s]]
<1>1. TypeOK /\ CountInv
    BY DEF Inv
<1>2. /\ doom[s] <= Cfg[s].doom /\ retries[s] <= Cfg[s].retries
      /\ images[s] /\ Cfg[s].retries > 0 => retries[s] < Cfg[s].retries
    BY <1>1, Zenon DEF CountInv
<1>3. /\ retries = [retries EXCEPT ![s] = retries[s]] /\ doom = [doom EXCEPT ![s] = doom[s]]
      /\ sent = [sent EXCEPT ![s] = sent[s]] /\ images = [images EXCEPT ![s] = images[s]]
      /\ output = [output EXCEPT ![s] = output[s]]
    BY <1>1, Zenon DEF TypeOK
<1>4. /\ retries[s] \in Nat /\ doom[s] \in Nat /\ sent[s] \in Nat
      /\ Cfg[s].retries \in Nat /\ Cfg[s].doom \in Nat
    BY <1>1, SMT DEF TypeOK
<1>5. output[s] \in BOOLEAN /\ images[s] \in BOOLEAN
    BY <1>1, Zenon DEF TypeOK
<1>6. QED
    BY <1>2, <1>3, <1>4, <1>5

\* The top of the loop begins an attempt.
LEMMA LoopStep ==
    ASSUME Inv, NEW s \in Subs, Loop(s)
    PROVE  TaskStep(s)
<1>1. CASE cancelled[s]
  <2>1. End(s) /\ UNCHANGED taskVars /\ TaskOnly /\ pc[s] \in Running
    BY <1>1 DEF Loop, taskVars, Running
  <2>2. QED
    BY <2>1, QuietStep
<1>2. CASE ~cancelled[s]
  <2>1. /\ Continue(s, "connect") /\ sent' = [sent EXCEPT ![s] = sent[s] + 1]
        /\ TaskOnly /\ UNCHANGED <<retries, doom, output, images>>
    BY <1>2 DEF Loop
  <2>2. sent[s] + 1 = retries[s] + doom[s] + 1 /\ sent[s] + 1 \in Nat
    BY CountFacts, SMT DEF Loop, Inv, CountInv
  <2>3. ~(onlyBefore /\ output[s])
    BY DEF Loop, Inv, OutputInv
  <2>4. StepTo(s, "connect", retries[s], doom[s], sent[s] + 1, output[s], images[s])
    BY CountFacts, <2>1, <2>2, <2>3, Zenon DEF StepTo
  <2>5. \E to_ \in {"loop", "sleep", "connect", "stream", "gone"}, r_ \in Nat, d_ \in Nat, n_ \in Nat,
             o_ \in BOOLEAN, m_ \in BOOLEAN : StepTo(s, to_, r_, d_, n_, o_, m_)
    <3> USE CountFacts, <2>2
    <3> WITNESS "connect" \in {"loop", "sleep", "connect", "stream", "gone"}, retries[s] \in Nat,
                doom[s] \in Nat, sent[s] + 1 \in Nat, output[s] \in BOOLEAN, images[s] \in BOOLEAN
    <3> QED
      BY <2>4
  <2>6. QED
    BY <2>1, <2>5 DEF TaskStep
<1>3. QED
    BY <1>1, <1>2

\* Output and the end of an answer.
LEMMA OutputStep ==
    ASSUME Inv, NEW s \in Subs, Emits(s) \/ Completes(s)
    PROVE  TaskStep(s)
<1> DEFINE to == IF Emits(s) THEN "stream" ELSE "gone"
<1>1. /\ pc[s] = "stream" /\ TaskOnly /\ UNCHANGED <<retries, doom, images, sent>>
      /\ output' = [output EXCEPT ![s] = TRUE]
    BY DEF Emits, Completes, Observe
<1>2. IF to = "gone" THEN End(s) ELSE Continue(s, to)
  <2>1. CASE Emits(s)
    <3>1. UNCHANGED <<pc, terminals, caller>> /\ pc \in [Subs -> {"none", "queued", "gone", "joined", "aborted"} \cup Running]
      BY <2>1 DEF Emits, Inv, TypeOK
    <3>2. pc' = [pc EXCEPT ![s] = "stream"]
      BY <1>1, <3>1, Zenon
    <3>3. QED
      BY <2>1, <3>1, <3>2 DEF Continue
  <2>2. CASE ~Emits(s)
    BY <2>2 DEF Completes
  <2>3. QED
    BY <2>1, <2>2
<1>3. sent[s] = retries[s] + doom[s] + 1
    BY <1>1, SMT DEF Inv, CountInv
<1>4. to \in {"stream", "gone"}
    OBVIOUS
<1>5. StepTo(s, to, retries[s], doom[s], sent[s], TRUE, images[s])
    BY CountFacts, <1>1, <1>2, <1>3, <1>4, Zenon DEF StepTo
<1> HIDE DEF to
<1>6. \E to_ \in {"loop", "sleep", "connect", "stream", "gone"}, r_ \in Nat, d_ \in Nat, n_ \in Nat,
         o_ \in BOOLEAN, m_ \in BOOLEAN : StepTo(s, to_, r_, d_, n_, o_, m_)
  <2> USE CountFacts, <1>4
  <2> WITNESS to \in {"loop", "sleep", "connect", "stream", "gone"}, retries[s] \in Nat,
              doom[s] \in Nat, sent[s] \in Nat, TRUE \in BOOLEAN, images[s] \in BOOLEAN
  <2> QED
    BY <1>5
<1>7. QED
    BY <1>1, <1>6 DEF TaskStep

\* A doom loop takes from its own budget, and only while there is some.
LEMMA DoomStep ==
    ASSUME Inv, NEW s \in Subs, DoomLoop(s)
    PROVE  TaskStep(s)
<1>1. PICK out \in {output[s], TRUE} :
        /\ IF MayResample(s, out)
           THEN Continue(s, "sleep") /\ doom' = [doom EXCEPT ![s] = @ + 1]
           ELSE End(s) /\ UNCHANGED doom
        /\ output' = [output EXCEPT ![s] = out]
    BY DEF DoomLoop
<1>2. /\ pc[s] = "stream" /\ TaskOnly /\ UNCHANGED <<retries, images, sent>> /\ doom[s] < Cfg[s].doom
    BY DEF DoomLoop, Armed
<1> DEFINE to == IF MayResample(s, out) THEN "sleep" ELSE "gone"
           d  == IF MayResample(s, out) THEN doom[s] + 1 ELSE doom[s]
<1>3. (IF to = "gone" THEN End(s) ELSE Continue(s, to)) /\ doom' = [doom EXCEPT ![s] = d]
    BY <1>1, CountFacts, Zenon
<1>4. out \in BOOLEAN /\ to \in {"sleep", "gone"}
    BY CountFacts
<1>5. d \in Nat /\ d <= Cfg[s].doom /\ (to = "sleep" => sent[s] = retries[s] + d)
    BY <1>2, CountFacts, SMT DEF Inv, CountInv
<1>6. onlyBefore /\ out => to \in {"stream", "gone"}
    BY DEF MayResample
<1>7. StepTo(s, to, retries[s], d, sent[s], out, images[s])
  <2> HIDE DEF to, d
  <2> QED
    BY CountFacts, <1>1, <1>2, <1>3, <1>4, <1>5, <1>6, Zenon DEF StepTo
<1> HIDE DEF to, d
<1>8. \E to_ \in {"loop", "sleep", "connect", "stream", "gone"}, r_ \in Nat, d_ \in Nat, n_ \in Nat,
         o_ \in BOOLEAN, m_ \in BOOLEAN : StepTo(s, to_, r_, d_, n_, o_, m_)
  <2> USE CountFacts, <1>4, <1>5
  <2> WITNESS to \in {"loop", "sleep", "connect", "stream", "gone"}, retries[s] \in Nat,
              d \in Nat, sent[s] \in Nat, out \in BOOLEAN, images[s] \in BOOLEAN
  <2> QED
    BY <1>7
<1>9. QED
    BY <1>2, <1>8 DEF TaskStep

\* Every step of a task is one of these.
LEMMA TaskSteps ==
    ASSUME Inv, NEW s \in Subs, Step(s) \/ Answer(s)
    PROVE  pc[s] \in Running /\ TaskStep(s)
<1>1. pc[s] \in Running
    BY DEF Step, Answer, Build, Loop, Wake, StreamCancelled, IdleTimeout, InitFails, Opens, Emits,
           Completes, CompletesUseless, StreamFails, DoomLoop, Running
<1>2. output[s] \in BOOLEAN
    BY CountFacts
<1>3. CASE Build(s)
  <2>1. pc[s] = "start" /\ TaskOnly /\ UNCHANGED taskVars /\ (Continue(s, "loop") \/ End(s))
    BY <1>3 DEF Build
  <2>2. QED
    BY <1>1, <2>1, QuietStep
<1>4. CASE Wake(s) \/ StreamCancelled(s)
  <2>1. /\ pc[s] \in {"sleep", "stream"} /\ TaskOnly /\ UNCHANGED taskVars
        /\ End(s) \/ (pc[s] = "sleep" /\ Continue(s, "loop"))
    BY <1>4 DEF Wake, StreamCancelled
  <2>2. QED
    BY <1>1, <2>1, QuietStep
<1>5. CASE Opens(s)
  <2>1. pc[s] = "connect" /\ TaskOnly /\ UNCHANGED taskVars /\ Continue(s, "stream")
    BY <1>5 DEF Opens
  <2>2. QED
    BY <1>1, <2>1, QuietStep
<1>6. CASE InitFails(s) \/ StreamFails(s) \/ IdleTimeout(s)
  <2>1. pc[s] \in {"connect", "stream"} /\ \E err : Decide(s, err, output[s])
    BY <1>6, Zenon DEF InitFails, StreamFails, IdleTimeout
  <2>2. QED
    BY <1>1, <1>2, <2>1, DecideStep
<1>7. CASE CompletesUseless(s)
  <2>1. pc[s] = "stream" /\ \E err : Decide(s, err, TRUE)
    BY <1>7 DEF CompletesUseless
  <2>2. QED
    BY <1>1, <2>1, DecideStep
<1>8. QED
    BY <1>1, <1>3, <1>4, <1>5, <1>6, <1>7, LoopStep, OutputStep, DoomStep DEF Step, Answer

\* The callers' steps preserve the invariant.
LEMMA CallerInv ==
    ASSUME Inv, NEW s \in Subs, NEW waits \in BOOLEAN, Submit(s, waits) \/ Cancel(s) \/ DropHandles
    PROVE  Inv'
<1>0. TypeOK /\ MailboxInv /\ HandleInv /\ OneTerminal /\ CountInv /\ OutputInv /\ Cancellable
    BY DEF Inv
<1>1. CASE Submit(s, waits)
  <2> DEFINE command == [op |-> "submit", sub |-> s]
  <2>1. /\ open /\ pc[s] = "none" /\ mailbox' = Append(mailbox, command)
        /\ pc' = [pc EXCEPT ![s] = "queued"]
        /\ caller' = [caller EXCEPT ![s] = IF waits THEN "waiting" ELSE "away"]
        /\ UNCHANGED <<actor, active, onlyBefore, open, id, cancelled, retries, doom, output, images,
                       sent, terminals>>
    BY <1>1 DEF Submit, Send, taskVars
  <2>2. command \in Commands /\ Len(mailbox) \in Nat /\ Len(mailbox') = Len(mailbox) + 1
    BY <1>0, <2>1, SMT DEF TypeOK, Commands
  <2>3. /\ mailbox' \in Seq(Commands)
        /\ \A i \in 1..Len(mailbox) : mailbox'[i] = mailbox[i]
        /\ mailbox'[Len(mailbox) + 1] = command
    BY <1>0, <2>1, <2>2, SMT DEF TypeOK
  <2>4. TypeOK'
    BY <1>0, <2>1, <2>3, SMT DEF TypeOK, Running
  <2>5. MailboxInv'
    <3>1. \A i \in 1..Len(mailbox) : mailbox[i].op = "submit" => mailbox[i].sub # s
      BY <1>0, <2>1, Zenon DEF MailboxInv
    <3>2. \A t \in Subs : pc[t] = "queued" => pc'[t] = "queued"
      BY <1>0, <2>1, SMT DEF TypeOK
    <3>3. pc'[s] = "queued" /\ command.sub = s
      BY <1>0, <2>1, SMT DEF TypeOK
    <3>4. ASSUME NEW i \in 1..Len(mailbox)', mailbox'[i].op = "submit"
          PROVE  /\ pc'[mailbox'[i].sub] = "queued"
                 /\ \A j \in 1..Len(mailbox)' :
                      mailbox'[j].op = "submit" /\ mailbox'[j].sub = mailbox'[i].sub => i = j
      <4>1. CASE i \in 1..Len(mailbox)
        <5>1. mailbox'[i] = mailbox[i] /\ mailbox[i].sub \in Subs
          BY <1>0, <2>3, <4>1, MailboxSubs
        <5>2. pc'[mailbox'[i].sub] = "queued"
          BY <1>0, <3>2, <3>4, <4>1, <5>1 DEF MailboxInv
        <5>3. ASSUME NEW j \in 1..Len(mailbox)', mailbox'[j].op = "submit", mailbox'[j].sub = mailbox'[i].sub
              PROVE  i = j
          <6>1. j \in 1..Len(mailbox) \/ j = Len(mailbox) + 1
            BY <2>2, SMT
          <6>2. CASE j \in 1..Len(mailbox)
            BY <1>0, <2>3, <3>4, <4>1, <5>1, <5>3, <6>2, Zenon DEF MailboxInv
          <6>3. CASE j = Len(mailbox) + 1
            BY <2>3, <3>1, <3>3, <3>4, <4>1, <5>1, <5>3, <6>3, Zenon
          <6>4. QED
            BY <6>1, <6>2, <6>3
        <5>4. QED
          BY <5>2, <5>3
      <4>2. CASE i = Len(mailbox) + 1
        <5>1. mailbox'[i].sub = s
          BY <2>3, <3>3, <4>2
        <5>2. ASSUME NEW j \in 1..Len(mailbox)', mailbox'[j].op = "submit", mailbox'[j].sub = s
              PROVE  i = j
          <6>1. j \in 1..Len(mailbox) \/ j = Len(mailbox) + 1
            BY <2>2, SMT
          <6>2. j \notin 1..Len(mailbox)
            BY <2>3, <3>1, <5>2, Zenon
          <6>3. QED
            BY <4>2, <6>1, <6>2
        <5>3. QED
          BY <3>3, <5>1, <5>2
      <4>3. i \in 1..Len(mailbox) \/ i = Len(mailbox) + 1
        BY <2>2, SMT
      <4>4. QED
        BY <4>1, <4>2, <4>3
    <3>5. QED
      BY <3>4 DEF MailboxInv
  <2>6. HandleInv' /\ OneTerminal' /\ OutputInv' /\ Cancellable'
    BY <1>0, <2>1, SMT DEF HandleInv, OneTerminal, OutputInv, Cancellable, Alone, Running, TypeOK
  <2>7. CountInv'
    <3>1. \A t \in Subs : (pc'[t] = pc[t]) \/ (t = s /\ pc[t] = "none" /\ pc'[t] = "queued")
      BY <1>0, <2>1, SMT DEF TypeOK
    <3>2. QED
      BY <1>0, <2>1, <3>1, Zenon DEF CountInv
  <2>8. QED
    BY <2>4, <2>5, <2>6, <2>7 DEF Inv
<1>2. CASE Cancel(s)
  <2> DEFINE command == [op |-> "cancel", sub |-> s]
  <2>1. /\ mailbox' = Append(mailbox, command) /\ caller' = [caller EXCEPT ![s] = "gone"]
        /\ UNCHANGED <<actor, active, onlyBefore, open, pc, id, cancelled, retries, doom, output, images,
                       sent, terminals>>
    BY <1>2 DEF Cancel, Send, taskVars
  <2>2. command \in Commands /\ Len(mailbox) \in Nat /\ Len(mailbox') = Len(mailbox) + 1
    BY <1>0, <2>1, SMT DEF TypeOK, Commands
  <2>3. /\ mailbox' \in Seq(Commands)
        /\ \A i \in 1..Len(mailbox) : mailbox'[i] = mailbox[i]
        /\ mailbox'[Len(mailbox) + 1].op # "submit"
    BY <1>0, <2>1, <2>2, SMT DEF TypeOK
  <2>4. TypeOK'
    BY <1>0, <2>1, <2>3, SMT DEF TypeOK, Running
  <2>5. MailboxInv'
    <3>1. \A i \in 1..Len(mailbox)' : mailbox'[i].op = "submit" => i \in 1..Len(mailbox)
      BY <2>2, <2>3, SMT
    <3>2. ASSUME NEW i \in 1..Len(mailbox)', mailbox'[i].op = "submit"
          PROVE  /\ pc'[mailbox'[i].sub] = "queued"
                 /\ \A j \in 1..Len(mailbox)' :
                      mailbox'[j].op = "submit" /\ mailbox'[j].sub = mailbox'[i].sub => i = j
      <4>1. i \in 1..Len(mailbox) /\ mailbox'[i] = mailbox[i] /\ mailbox[i].op = "submit"
        BY <2>3, <3>1, <3>2
      <4>2. \A j \in 1..Len(mailbox)' : mailbox'[j].op = "submit" =>
              j \in 1..Len(mailbox) /\ mailbox'[j] = mailbox[j] /\ mailbox[j].op = "submit"
        BY <2>3, <3>1
      <4>3. QED
        BY <1>0, <2>1, <4>1, <4>2, Zenon DEF MailboxInv
    <3>3. QED
      BY <3>2 DEF MailboxInv
  <2>6. HandleInv' /\ OneTerminal' /\ OutputInv' /\ Cancellable'
    BY <1>0, <2>1, SMT DEF HandleInv, OneTerminal, OutputInv, Cancellable, Alone, Running, TypeOK
  <2>7. CountInv'
    BY <1>0, <2>1, Zenon DEF CountInv
  <2>8. QED
    BY <2>4, <2>5, <2>6, <2>7 DEF Inv
<1>3. CASE DropHandles
  <2>1. /\ open' = FALSE /\ \A t \in Subs : caller[t] \notin {"waiting", "answered"}
        /\ UNCHANGED <<mailbox, actor, active, onlyBefore, pc, id, cancelled, retries, doom, output,
                       images, sent, terminals, caller>>
    BY <1>3 DEF DropHandles, taskVars
  <2>2. TypeOK' /\ HandleInv'
    BY <1>0, <2>1, Zenon DEF TypeOK, HandleInv
  <2>3. MailboxInv' /\ CountInv' /\ OneTerminal' /\ OutputInv' /\ Cancellable'
    BY <1>0, <2>1, Zenon DEF MailboxInv, CountInv, OneTerminal, OutputInv, Cancellable, Alone
  <2>4. QED
    BY <2>2, <2>3 DEF Inv
<1>4. QED
    BY <1>1, <1>2, <1>3

\* The rest of the mailbox, once its head is taken.
LEMMA TailInv ==
    ASSUME Inv, mailbox # <<>>, mailbox' = Tail(mailbox)
    PROVE  /\ mailbox' \in Seq(Commands) /\ 1 \in 1..Len(mailbox) /\ Head(mailbox) = mailbox[1]
           /\ \A i \in 1..Len(mailbox)' : i + 1 \in 1..Len(mailbox) /\ mailbox'[i] = mailbox[i + 1]
           /\ \A i \in 1..Len(mailbox)' :
                mailbox'[i].op = "submit" =>
                  /\ pc[mailbox'[i].sub] = "queued"
                  /\ \A j \in 1..Len(mailbox)' :
                       mailbox'[j].op = "submit" /\ mailbox'[j].sub = mailbox'[i].sub => i = j
                  /\ Head(mailbox).op = "submit" => mailbox'[i].sub # Head(mailbox).sub
<1>1. mailbox \in Seq(Commands) /\ MailboxInv
    BY DEF Inv, TypeOK
<1>2. /\ mailbox' \in Seq(Commands) /\ 1 \in 1..Len(mailbox) /\ Head(mailbox) = mailbox[1]
      /\ \A i \in 1..Len(mailbox)' : i + 1 \in 1..Len(mailbox) /\ mailbox'[i] = mailbox[i + 1]
    BY <1>1, SMT
<1>3. ASSUME NEW i \in 1..Len(mailbox)', mailbox'[i].op = "submit"
      PROVE  /\ pc[mailbox'[i].sub] = "queued"
             /\ \A j \in 1..Len(mailbox)' :
                  mailbox'[j].op = "submit" /\ mailbox'[j].sub = mailbox'[i].sub => i = j
             /\ Head(mailbox).op = "submit" => mailbox'[i].sub # Head(mailbox).sub
  <2>1. /\ i + 1 \in 1..Len(mailbox) /\ mailbox[i + 1].op = "submit" /\ mailbox'[i] = mailbox[i + 1]
        /\ i + 1 # 1
    BY <1>2, <1>3, SMT
  <2>2. pc[mailbox'[i].sub] = "queued"
    BY <1>1, <2>1, Zenon DEF MailboxInv
  <2>3. Head(mailbox).op = "submit" => mailbox'[i].sub # Head(mailbox).sub
    BY <1>1, <1>2, <2>1, Zenon DEF MailboxInv
  <2>4. ASSUME NEW j \in 1..Len(mailbox)', mailbox'[j].op = "submit", mailbox'[j].sub = mailbox'[i].sub
        PROVE  i = j
    <3>1. j + 1 \in 1..Len(mailbox) /\ mailbox'[j] = mailbox[j + 1]
      BY <1>2
    <3>2. i + 1 = j + 1
      BY <1>1, <2>1, <2>4, <3>1, Zenon DEF MailboxInv
    <3>3. QED
      BY <3>2, SMT
  <2>5. QED
    BY <2>2, <2>3, <2>4
<1>4. QED
    BY <1>2, <1>3

\* The actor's steps preserve the invariant.
LEMMA ActorInv ==
    ASSUME Inv, Actor
    PROVE  Inv'
<1>0. TypeOK /\ MailboxInv /\ HandleInv /\ OneTerminal /\ CountInv /\ OutputInv /\ Cancellable
    BY DEF Inv
<1>1. CASE HandleSubmit
  <2> DEFINE s == Head(mailbox).sub
  <2>1. /\ actor = "run" /\ mailbox # <<>> /\ Head(mailbox).op = "submit" /\ mailbox' = Tail(mailbox)
        /\ active' = [active EXCEPT ![id[s]] = s] /\ pc' = [pc EXCEPT ![s] = "start"]
        /\ cancelled' = [t \in Subs |-> cancelled[t] \/ t = active[id[s]]]
        /\ UNCHANGED <<actor, onlyBefore, open, id, retries, doom, output, images, sent, terminals, caller>>
    BY <1>1 DEF HandleSubmit, Took, Handled, taskVars
  <2>2. s \in Subs /\ pc[s] = "queued"
    BY <1>0, <2>1, TailInv, MailboxSubs DEF MailboxInv
  <2>3. pc'[s] = "start" /\ \A t \in Subs : t # s => pc'[t] = pc[t]
    BY <1>0, <2>1, <2>2, Zenon DEF TypeOK
  <2>4. TypeOK'
    <3>1. id \in [Subs -> Ids] /\ s \in Subs /\ "start" \in Running
      BY <1>0, <2>2, SMT DEF TypeOK, Running
    <3>2. /\ active' \in [Ids -> Subs \cup {None}] /\ cancelled' \in [Subs -> BOOLEAN]
          /\ pc' \in [Subs -> {"none", "queued", "gone", "joined", "aborted"} \cup Running]
      BY <1>0, <2>1, <3>1, Zenon DEF TypeOK
    <3>3. QED
      BY <1>0, <2>1, <3>2, TailInv, Zenon DEF TypeOK
  <2>5. MailboxInv'
    <3>1. \A i \in 1..Len(mailbox)' : mailbox'[i].op = "submit" => mailbox'[i].sub \in Subs
      BY <2>4, MailboxSubs, TailInv, <2>1, <1>0
    <3>2. QED
      BY <2>1, <2>3, <3>1, TailInv, Zenon DEF MailboxInv
  <2>6. HandleInv' /\ OneTerminal' /\ OutputInv'
    BY <1>0, <2>1, <2>2, <2>3, SMT DEF HandleInv, OneTerminal, OutputInv, Running
  <2>7. CountInv'
    <3>1. \A t \in Subs : pc'[t] = pc[t] \/ (pc[t] = "queued" /\ pc'[t] = "start")
      BY <2>2, <2>3
    <3>2. QED
      BY <1>0, <2>1, <3>1, Zenon DEF CountInv
  <2>8. Cancellable'
    <3> SUFFICES ASSUME NEW t \in Subs, Alone(t)', pc'[t] \in Running, ~cancelled'[t]
                 PROVE  active'[id'[t]] = t
      BY DEF Cancellable
    <3>1. Alone(t) /\ id[t] \in Ids /\ id[s] \in Ids
      BY <1>0, <2>1, <2>2, SMT DEF TypeOK, Alone
    <3>2. CASE t = s
      BY <1>0, <2>1, <3>1, <3>2, Zenon DEF TypeOK
    <3>3. CASE t # s
      <4>1. id[t] # id[s]
        BY <2>2, <3>1, <3>3 DEF Alone
      <4>2. pc[t] \in Running /\ ~cancelled[t]
        BY <2>1, <2>3, <3>3, Zenon
      <4>3. active[id[t]] = t
        BY <1>0, <2>1, <3>1, <4>2 DEF Cancellable
      <4>4. QED
        BY <1>0, <2>1, <3>1, <4>1, <4>3, Zenon DEF TypeOK
    <3>4. QED
      BY <3>2, <3>3
  <2>9. QED
    BY <2>4, <2>5, <2>6, <2>7, <2>8 DEF Inv
<1>2. CASE HandleCancel
  <2> DEFINE s == Head(mailbox).sub
  <2>1. /\ mailbox # <<>> /\ mailbox' = Tail(mailbox) /\ actor = "run"
        /\ active' = [active EXCEPT ![id[s]] = None]
        /\ cancelled' = [t \in Subs |-> cancelled[t] \/ t = active[id[s]]]
        /\ UNCHANGED <<actor, onlyBefore, open, pc, id, retries, doom, output, images, sent, terminals, caller>>
    BY <1>2 DEF HandleCancel, Took, Handled, taskVars
  <2>2. s \in Subs
    BY <1>0, <2>1, TailInv, MailboxSubs
  <2>3. TypeOK'
    <3>1. active' \in [Ids -> Subs \cup {None}] /\ cancelled' \in [Subs -> BOOLEAN]
      BY <1>0, <2>1, Zenon DEF TypeOK
    <3>2. QED
      BY <1>0, <2>1, <3>1, TailInv, Zenon DEF TypeOK
  <2>4. MailboxInv'
    BY <2>1, TailInv, Zenon DEF MailboxInv
  <2>5. HandleInv' /\ OneTerminal' /\ OutputInv' /\ CountInv'
    BY <1>0, <2>1, Zenon DEF HandleInv, OneTerminal, OutputInv, CountInv
  <2>6. Cancellable'
    <3> SUFFICES ASSUME NEW t \in Subs, Alone(t)', pc'[t] \in Running, ~cancelled'[t]
                 PROVE  active'[id'[t]] = t
      BY DEF Cancellable
    <3>1. Alone(t) /\ id[t] \in Ids
      BY <1>0, <2>1, SMT DEF TypeOK, Alone
    <3>2. ~cancelled[t] /\ t # active[id[s]]
      BY <2>1, Zenon
    <3>3. active[id[t]] = t
      BY <1>0, <2>1, <3>1, <3>2 DEF Cancellable
    <3>4. id[t] # id[s]
      BY <3>2, <3>3
    <3>5. QED
      BY <1>0, <2>1, <3>1, <3>3, <3>4, Zenon DEF TypeOK
  <2>7. QED
    BY <2>3, <2>4, <2>5, <2>6 DEF Inv
<1>3. CASE Exit
  <2>1. /\ ~open /\ actor' = "closing" /\ active' = [r \in Ids |-> None]
        /\ cancelled' = [t \in Subs |-> cancelled[t] \/ \E r \in Ids : active[r] = t]
        /\ UNCHANGED <<mailbox, onlyBefore, open, pc, id, retries, doom, output, images, sent, terminals,
                       caller>>
    BY <1>3 DEF Exit, taskVars
  <2>2. TypeOK'
    <3>1. active' \in [Ids -> Subs \cup {None}] /\ cancelled' \in [Subs -> BOOLEAN]
      BY <1>0, <2>1, Zenon DEF TypeOK
    <3>2. QED
      BY <1>0, <2>1, <3>1, Zenon DEF TypeOK
  <2>3. MailboxInv' /\ HandleInv' /\ OneTerminal' /\ OutputInv' /\ CountInv'
    BY <1>0, <2>1, Zenon DEF MailboxInv, HandleInv, OneTerminal, OutputInv, CountInv
  <2>4. Cancellable'
    BY <2>1 DEF Cancellable
  <2>5. QED
    BY <2>2, <2>3, <2>4 DEF Inv
<1>4. ASSUME NEW s \in Subs, Join(s) \/ Abort(s)
      PROVE  Inv'
  <2> DEFINE to == IF Join(s) THEN "joined" ELSE "aborted"
  <2>1. /\ pc' = [pc EXCEPT ![s] = to]
        /\ IF Join(s) THEN pc[s] = "gone" /\ active' = [active EXCEPT ![id[s]] = None]
           ELSE pc[s] \in Running /\ actor = "closing" /\ UNCHANGED active
        /\ UNCHANGED <<mailbox, actor, onlyBefore, open, id, cancelled, retries, doom, output, images, sent,
                       terminals, caller>>
    BY <1>4 DEF Join, Abort, taskVars, actorVars
  <2>2. to \in {"joined", "aborted"} /\ (to = "joined" <=> pc[s] = "gone")
    BY <2>1 DEF Running
  <2>3. active' \in [Ids -> Subs \cup {None}] /\ id[s] \in Ids
    <3>1. id \in [Subs -> Ids] /\ active \in [Ids -> Subs \cup {None}]
      BY <1>0, SMT DEF TypeOK
    <3>2. QED
      BY <2>1, <3>1, Zenon
  <2>4. pc'[s] = to /\ \A t \in Subs : t # s => pc'[t] = pc[t]
    BY <1>0, <2>1, Zenon DEF TypeOK
  <2>5. TypeOK'
    BY <1>0, <2>1, <2>2, <2>3, Zenon DEF TypeOK
  <2>6. MailboxInv'
    <3>1. \A i \in 1..Len(mailbox) : mailbox[i].op = "submit" => mailbox[i].sub \in Subs /\ mailbox[i].sub # s
      BY <1>0, <2>1, MailboxSubs DEF MailboxInv, Running
    <3>2. QED
      BY <1>0, <2>1, <2>4, <3>1, Zenon DEF MailboxInv
  <2>7. HandleInv' /\ OutputInv'
    BY <1>0, <2>1, <2>2, <2>4, Zenon DEF HandleInv, OutputInv
  <2>8. OneTerminal'
    <3>1. pc[s] \in Running => caller[s] # "waiting"
      BY <1>0, <2>1 DEF HandleInv, Running
    <3>2. QED
      BY <1>0, <2>1, <2>2, <2>4, <3>1, SMT DEF OneTerminal, Running
  <2>9. CountInv'
    <3>1. \A t \in Subs : pc'[t] = pc[t] \/ pc'[t] \in {"joined", "aborted"}
      BY <2>2, <2>4
    <3>2. QED
      BY <1>0, <2>1, <3>1, Zenon DEF CountInv
  <2>10. Cancellable'
    <3> SUFFICES ASSUME NEW t \in Subs, Alone(t)', actor' = "run", pc'[t] \in Running, ~cancelled'[t]
                 PROVE  active'[id'[t]] = t
      BY DEF Cancellable
    <3>1. Alone(t) /\ t # s /\ id[t] \in Ids
      BY <1>0, <2>1, <2>2, <2>4, SMT DEF TypeOK, Alone, Running
    <3>2. active[id[t]] = t /\ id[t] # id[s]
      BY <1>0, <2>1, <2>4, <3>1, Zenon DEF Cancellable, Alone
    <3>3. QED
      BY <1>0, <2>1, <2>3, <3>1, <3>2, Zenon DEF TypeOK
  <2>11. QED
    BY <2>5, <2>6, <2>7, <2>8, <2>9, <2>10 DEF Inv
<1>5. QED
    BY <1>1, <1>2, <1>3, <1>4 DEF Actor

\* The invariant is inductive.
LEMMA NextInv == Inv /\ [Next]_vars => Inv'
<1> SUFFICES ASSUME Inv, [Next]_vars PROVE Inv'
    OBVIOUS
<1>1. ASSUME NEW s \in Subs, Step(s) \/ Answer(s)
      PROVE  Inv'
    BY <1>1, TaskSteps, TaskStepInv
<1>2. ASSUME NEW s \in Subs, Cancel(s)
      PROVE  Inv'
    BY <1>2, CallerInv
<1>3. ASSUME NEW s \in Subs, NEW waits \in BOOLEAN, Submit(s, waits)
      PROVE  Inv'
    BY <1>3, CallerInv
<1>4. CASE DropHandles
  <2>1. CASE \E s \in Subs : TRUE
    BY <1>4, <2>1, CallerInv
  <2>2. CASE ~\E s \in Subs : TRUE
    <3>1. UNCHANGED <<mailbox, actor, active, onlyBefore, pc, id, cancelled, retries, doom, output,
                      images, sent, terminals, caller>> /\ open' = FALSE
      BY <1>4 DEF DropHandles, taskVars
    <3>2. QED
      BY <2>2, <3>1, Zenon DEF Inv, TypeOK, MailboxInv, HandleInv, OneTerminal, CountInv, OutputInv,
           Cancellable
  <2>3. QED
    BY <2>1, <2>2
<1>5. CASE UNCHANGED vars
    BY <1>5, Zenon DEF vars, actorVars, taskVars, Inv, TypeOK, MailboxInv, HandleInv, OneTerminal, CountInv,
         OutputInv, Cancellable, Alone
<1>6. QED
    BY <1>1, <1>2, <1>3, <1>4, <1>5, ActorInv DEF Next

\* The invariant holds in every reachable state.
LEMMA SpecInv == Spec => []Inv
<1>1. QED
    BY InitInv, NextInv, PTL DEF Spec

\* Every variable keeps its type: in particular no request emits a second last event.
THEOREM TypeCorrect == Spec => []TypeOK
<1>1. Inv => TypeOK
    BY DEF Inv
<1>2. QED
    BY <1>1, SpecInv, PTL

\* Whatever fails, is retried, cancelled or dropped, a request ends with exactly one Completed
\* or Failed event and an answer to whoever waits for it.
THEOREM EveryRequestEndsOnce == Spec => []OneTerminal
<1>1. Inv => OneTerminal
    BY DEF Inv
<1>2. QED
    BY <1>1, SpecInv, PTL

\* The retry loop keeps both of its budgets and reports the attempts it made.
THEOREM RetriesAreBounded == Spec => []BudgetsKept
<1>1. Inv => BudgetsKept
  <2> SUFFICES ASSUME Inv, NEW s \in Subs PROVE BudgetsKept!(s)
    BY DEF BudgetsKept
  <2>1. QED
    BY Zenon DEF Inv, CountInv
<1>2. QED
    BY <1>1, SpecInv, PTL

\* A request that runs under an id of its own can always be cancelled.
THEOREM RunningIsCancellable == Spec => []Cancellable
<1>1. Inv => Cancellable
    BY DEF Inv
<1>2. QED
    BY <1>1, SpecInv, PTL

\* Only the top of the loop begins an attempt.
LEMMA OnlyLoopSends ==
    ASSUME Inv, [Next]_vars, NEW s \in Subs, sent'[s] # sent[s]
    PROVE  pc[s] = "loop" /\ ~cancelled[s]
<1>1. ASSUME NEW t \in Subs, Loop(t)
      PROVE  pc[s] = "loop" /\ ~cancelled[s]
  <2>1. CASE cancelled[t]
    BY <1>1, <2>1 DEF Loop
  <2>2. CASE ~cancelled[t]
    <3>1. sent' = [sent EXCEPT ![t] = sent[t] + 1] /\ pc[t] = "loop" /\ sent \in [Subs -> Nat]
      BY <1>1, <2>2 DEF Loop, Inv, TypeOK
    <3>2. t = s
      BY <3>1, Zenon
    <3>3. QED
      BY <2>2, <3>1, <3>2
  <2>3. QED
    BY <2>1, <2>2
<1>2. ASSUME NEW t \in Subs, (Step(t) \/ Answer(t)) /\ ~Loop(t)
      PROVE  UNCHANGED sent
    BY <1>2, Zenon DEF Step, Answer, Build, Wake, StreamCancelled, IdleTimeout, InitFails, Opens, Emits,
         Completes, CompletesUseless, StreamFails, DoomLoop, Decide, taskVars
<1>3. ASSUME NEW t \in Subs, Cancel(t) \/ \E waits \in BOOLEAN : Submit(t, waits)
      PROVE  UNCHANGED sent
    BY <1>3 DEF Cancel, Submit, taskVars
<1>4. CASE Actor \/ DropHandles \/ UNCHANGED vars
    BY <1>4, Zenon DEF Actor, HandleSubmit, HandleCancel, Handled, Exit, Join, Abort, DropHandles, vars,
         taskVars
<1>5. QED
    BY <1>1, <1>2, <1>3, <1>4 DEF Next

\* With retry_only_before_output, a request whose output was seen is never sent again.
THEOREM OutputIsNotRepeated == Spec => NoResendAfterOutput
<1>1. Inv /\ [Next]_vars => [\A s \in Subs : onlyBefore /\ output[s] => sent'[s] = sent[s]]_vars
    BY OnlyLoopSends DEF Inv, OutputInv
<1>2. QED
    BY <1>1, SpecInv, PTL DEF Spec, NoResendAfterOutput

\* A cancelled request begins no attempt.
THEOREM CancelledStaysSilent == Spec => NoAttemptAfterCancel
<1>1. Inv /\ [Next]_vars => [\A s \in Subs : cancelled[s] => sent'[s] = sent[s]]_vars
    BY OnlyLoopSends
<1>2. QED
    BY <1>1, SpecInv, PTL DEF Spec, NoAttemptAfterCancel
=============================================================================
