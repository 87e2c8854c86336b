----------------------- MODULE TurnCollection_proofs ------------------------
(***************************************************************************)
(* Proofs about the session's turns, for any number of prompts and of model *)
(* replies and any scenarios: what runs is the queue's front, a prompt sent *)
(* now loses no message, types, the session implements the turn capture, no *)
(* call is answered for while its tool runs, every request is valid, and    *)
(* what is collected for a prompt is what its turn pushed.                  *)
(***************************************************************************)
EXTENDS TurnCollection, Conversation_proofs, SequenceTheorems

-----------------------------------------------------------------------------
(* Sequences *)

LEMMA HeadTail ==
    ASSUME NEW S, NEW s \in Seq(S), s # <<>>
    PROVE  /\ Head(s) \in S /\ Head(s) = s[1] /\ Tail(s) \in Seq(S) /\ Len(s) \in Nat /\ Len(s) >= 1
           /\ Len(Tail(s)) = Len(s) - 1
           /\ \A i \in 1..Len(Tail(s)) : Tail(s)[i] = s[i + 1] /\ i + 1 \in 1..Len(s)
BY SMT

LEMMA AppendFacts ==
    ASSUME NEW S, NEW s \in Seq(S), NEW e \in S
    PROVE  /\ Append(s, e) \in Seq(S) /\ Len(Append(s, e)) = Len(s) + 1 /\ Append(s, e) # <<>>
           /\ \A i \in 1..Len(s) : Append(s, e)[i] = s[i]
           /\ Append(s, e)[Len(s) + 1] = e
BY SMT

\* A piece of a sequence.
LEMMA PieceFacts ==
    ASSUME NEW S, NEW s \in Seq(S), NEW a \in 1..(Len(s) + 1), NEW b \in 0..Len(s), a <= b + 1
    PROVE  /\ SubSeq(s, a, b) \in Seq(S) /\ Len(SubSeq(s, a, b)) = b - a + 1
           /\ \A i \in 1..(b - a + 1) : SubSeq(s, a, b)[i] = s[a + i - 1]
<1>1. Len(s) \in Nat /\ a \in Int /\ b \in Int
  BY SMT
<1>2. \A i \in a..b : s[i] \in S
  BY <1>1, SMT
<1>3. /\ SubSeq(s, a, b) \in Seq(S)
      /\ Len(SubSeq(s, a, b)) = IF a <= b THEN b - a + 1 ELSE 0
      /\ \A i \in 1..(b - a + 1) : SubSeq(s, a, b)[i] = s[a + i - 1]
  BY <1>1, <1>2, SubSeqProperties
<1>4. (IF a <= b THEN b - a + 1 ELSE 0) = b - a + 1
  BY <1>1, SMT
<1>5. QED
  BY <1>3, <1>4

Inserted(s, at, e) == SubSeq(s, 1, at) \o <<e>> \o SubSeq(s, at + 1, Len(s))

IsInsertion(t, s, at, e) ==
    /\ Len(t) = Len(s) + 1
    /\ t[at + 1] = e
    /\ \A i \in 1..at : t[i] = s[i]
    /\ \A i \in (at + 1)..Len(s) : t[i + 1] = s[i]

\* An item put behind the first at ones.
LEMMA InsertFacts ==
    ASSUME NEW S, NEW s \in Seq(S), NEW e \in S, NEW at \in 0..Len(s)
    PROVE  Inserted(s, at, e) \in Seq(S) /\ IsInsertion(Inserted(s, at, e), s, at, e)
<1> DEFINE n == Len(s)
           u == SubSeq(s, 1, at)
           v == SubSeq(s, at + 1, n)
           w == u \o <<e>>
<1>0. n \in Nat /\ at \in Nat /\ 1 \in 1..(n + 1) /\ at + 1 \in 1..(n + 1) /\ n \in 0..n
      /\ 1 <= at + 1 /\ at + 1 <= n + 1
  BY SMT
<1>1. u \in Seq(S) /\ Len(u) = at - 1 + 1 /\ \A i \in 1..(at - 1 + 1) : u[i] = s[1 + i - 1]
  BY <1>0, PieceFacts
<1>2. v \in Seq(S) /\ Len(v) = n - (at + 1) + 1 /\ \A i \in 1..(n - (at + 1) + 1) : v[i] = s[(at + 1) + i - 1]
  BY <1>0, PieceFacts
<1> HIDE DEF u, v
<1>3. Len(u) = at /\ \A i \in 1..at : u[i] = s[i]
  BY <1>0, <1>1, SMT
<1>4. Len(v) = n - at /\ \A i \in 1..(n - at) : v[i] = s[at + i]
  BY <1>0, <1>2, SMT
<1>5. /\ w \in Seq(S) /\ Len(w) = at + 1 /\ w[at + 1] = e
      /\ \A i \in 1..at : w[i] = s[i]
  BY <1>0, <1>1, <1>3, SMT
<1> HIDE DEF w
<1>6. /\ w \o v \in Seq(S) /\ Len(w \o v) = n + 1
      /\ \A i \in 1..(at + 1) : (w \o v)[i] = w[i]
      /\ \A i \in 1..(n - at) : (w \o v)[at + 1 + i] = v[i]
  BY <1>0, <1>2, <1>4, <1>5, SMT
<1>7. Inserted(s, at, e) = w \o v
  BY DEF Inserted, w, u, v
<1>8. ASSUME NEW i \in (at + 1)..n PROVE (w \o v)[i + 1] = s[i]
  <2>1. PICK j \in 1..(n - at) : at + 1 + j = i + 1 /\ at + j = i
    <3>1. i - at \in 1..(n - at) /\ at + 1 + (i - at) = i + 1 /\ at + (i - at) = i
      BY <1>0, SMT
    <3>2. QED
      BY <3>1
  <2>2. (w \o v)[at + 1 + j] = v[j] /\ v[j] = s[at + j]
    BY <1>4, <1>6
  <2>3. QED
    BY <2>1, <2>2
<1>9. (w \o v)[at + 1] = e /\ \A i \in 1..at : (w \o v)[i] = s[i]
  <2>1. at + 1 \in 1..(at + 1) /\ \A i \in 1..at : i \in 1..(at + 1)
    BY <1>0, SMT
  <2>2. QED
    BY <1>5, <1>6, <2>1
<1>10. QED
  BY <1>6, <1>7, <1>8, <1>9 DEF IsInsertion

-----------------------------------------------------------------------------
(* The queue *)

Commands == [op : {"prompt"}, p : Prompts, now : BOOLEAN] \cup [op : {"cancel", "repair"}]
              \cup [op : {"take"}, p : Prompts]
Entries  == [p : Prompts, now : BOOLEAN]

SessionOK ==
    /\ cmds \in Seq(Commands) /\ pending \in Seq(Entries) /\ completions \in Seq(Prompts)
    /\ running \in Prompts \cup {None}

QueueInv == SessionOK /\ FrontIsRunning

LEMMA NoneIsNoPrompt == None \notin Prompts
BY CollectionAssumption DEF None, Prompts

\* Where queue_input puts an entry.
LEMMA QueueInputFacts ==
    ASSUME NEW entry \in Entries, QueueInv
    PROVE  \E at \in 0..Len(pending) :
              /\ QueueInput(entry) = Inserted(pending, at, entry)
              /\ running # None => at >= 1
<1> DEFINE n == Len(pending)
           from == IF running # None THEN 1 ELSE 0
           A == {i \in from..n : i = n \/ ~pending[i + 1].now}
           at == Min(A)
<1>0. n \in Nat /\ from \in 0..n /\ (running # None => from = 1)
  BY SMT DEF QueueInv, SessionOK, FrontIsRunning
<1>1. A \subseteq Nat /\ n \in A
  BY <1>0, SMT
<1>2. at \in A
  <2> HIDE DEF A
  <2>1. QED
    BY <1>1, MinFacts
<1>3. at \in 0..n /\ (running # None => at >= 1)
  BY <1>0, <1>2, SMT
<1>4. CASE entry.now
  <2>1. QueueInput(entry) = Inserted(pending, at, entry)
    BY <1>4, Zenon DEF QueueInput, Inserted
  <2>2. QED
    BY <1>3, <2>1
<1>5. CASE ~entry.now
  <2>1. QueueInput(entry) = Append(pending, entry)
    BY <1>5, Zenon DEF QueueInput
  <2>2. Inserted(pending, n, entry) = Append(pending, entry)
    <3> DEFINE a == Inserted(pending, n, entry)  b == Append(pending, entry)
    <3>1. n \in 0..n /\ pending \in Seq(Entries)
      BY <1>0, SMT DEF QueueInv, SessionOK
    <3>2. a \in Seq(Entries) /\ Len(a) = n + 1 /\ a[n + 1] = entry /\ \A i \in 1..n : a[i] = pending[i]
      <4>1. a \in Seq(Entries) /\ IsInsertion(a, pending, n, entry)
        BY <3>1, InsertFacts
      <4>2. QED
        BY <4>1 DEF IsInsertion
    <3>3. b \in Seq(Entries) /\ Len(b) = n + 1 /\ b[n + 1] = entry /\ \A i \in 1..n : b[i] = pending[i]
      BY <3>1, AppendFacts
    <3> HIDE DEF a, b
    <3>4. \A i \in 1..(n + 1) : i = n + 1 \/ i \in 1..n
      BY <1>0, SMT
    <3>5. \A i \in 1..(n + 1) : a[i] = b[i]
      BY <3>2, <3>3, <3>4
    <3>6. a = b
      BY <3>2, <3>3, <3>5, SeqEqual
    <3>7. QED
      BY <3>6 DEF a, b
  <2>3. n \in 0..n /\ (running # None => n >= 1)
    BY <1>0, SMT
  <2>4. QED
    BY <2>1, <2>2, <2>3
<1>6. QED
  BY <1>4, <1>5

-----------------------------------------------------------------------------
(* The running turn *)

Pcs == {"start", "begin", "sample", "build", "reply", "tools", "finish", "failed", "done"}

\* The ids the k-th reply of a prompt may call.
IdsOf(p, k) == UNION {ToSet(c) : c \in CallsOf(p, k)}

Turns == [p : Prompts \cup {None}, pc : Pcs, k : 0..MaxSamples, open : SUBSET Nat]

\* What a turn's task knows of itself: calls are open only while tools run, and
\* they are those of the last reply; there is a reply left where one is asked for.
Shape(t) ==
    /\ t \in Turns
    /\ t.open # {} => t.pc = "tools" /\ t.open \subseteq IdsOf(t.p, t.k)
    /\ t.pc \in {"start", "begin", "sample", "build", "tools"} => t.k < MaxSamples
    /\ t.pc \in {"reply", "tools"} => t.k >= 1
    /\ t.pc \in {"start", "begin"} => t.k = 0

\* A task that is not done is the running prompt's.
Owned == turn.pc # "done" => turn.p = running /\ running # None

\* The flag is up from the turn's first step to its end, and an aborted task is
\* dropped before the next one takes a step.
Guarded ==
    /\ active \in BOOLEAN /\ doomed \in BOOLEAN
    /\ turn.pc \in {"begin", "sample", "build", "reply", "tools", "finish"} => active /\ ~doomed
    /\ doomed => turn.pc \in {"start", "done"}

LoopInv == SessionOK /\ FrontIsRunning /\ Shape(turn) /\ Owned /\ Guarded

LEMMA FreshTurns ==
    /\ Shape(NoTurn) /\ NoTurn.pc = "done" /\ NoTurn.p = None
    /\ \A p \in Prompts : /\ Shape(NewTurn(p))
                          /\ NewTurn(p).p = p /\ NewTurn(p).pc = "start" /\ NewTurn(p).open = {}
BY CollectionAssumption, SMT DEF Shape, Turns, NoTurn, NewTurn, Pcs, None

\* maybe_start_running_task leaves the queue and the running prompt in step.
LEMMA MaybeStartFacts ==
    ASSUME NEW queue \in Seq(Entries), NEW run \in Prompts \cup {None}, NEW task1,
           Shape(task1), MaybeStart(queue, run, task1),
           run # None => queue # <<>> /\ Head(queue).p = run /\ task1.p = run,
           task1.pc # "done" => task1.p = run /\ run # None
    PROVE  /\ pending' = queue /\ running' \in Prompts \cup {None} /\ FrontIsRunning'
           /\ Shape(turn)' /\ Owned'
           /\ turn' = task1 \/ (turn'.pc = "start" /\ turn'.open = {})
           /\ (turn' = NewTurn(running') /\ running' \in Prompts) \/ (turn' = task1 /\ running' = run)
<1>1. CASE run = None /\ queue # <<>>
  <2>1. Head(queue) \in Entries
    BY <1>1, HeadTail
  <2>2. Head(queue).p \in Prompts
    BY <2>1 DEF Entries
  <2>3. /\ pending' = queue /\ running' = Head(queue).p /\ turn' = NewTurn(Head(queue).p)
    BY <1>1, Zenon DEF MaybeStart
  <2>4. /\ Shape(turn') /\ turn'.p = running' /\ turn'.pc = "start" /\ turn'.open = {} /\ running' # None
    BY <2>2, <2>3, FreshTurns, NoneIsNoPrompt
  <2>5. FrontIsRunning'
    BY <1>1, <2>3, <2>4 DEF FrontIsRunning
  <2>6. QED
    BY <2>2, <2>3, <2>4, <2>5 DEF Owned
<1>2. CASE ~(run = None /\ queue # <<>>)
  <2>1. pending' = queue /\ running' = run /\ turn' = task1
    BY <1>2, Zenon DEF MaybeStart
  <2>2. FrontIsRunning'
    BY <1>2, <2>1 DEF FrontIsRunning
  <2>3. QED
    BY <2>1, <2>2 DEF Owned
<1>3. QED
  BY <1>1, <1>2

LEMMA QueueInputType ==
    ASSUME NEW entry \in Entries, QueueInv
    PROVE  /\ QueueInput(entry) \in Seq(Entries) /\ QueueInput(entry) # <<>>
           /\ running # None => Head(QueueInput(entry)) = Head(pending) /\ pending # <<>>
<1> DEFINE q == QueueInput(entry)
<1>1. PICK at \in 0..Len(pending) : q = Inserted(pending, at, entry) /\ (running # None => at >= 1)
  BY QueueInputFacts
<1>2. pending \in Seq(Entries) /\ Len(pending) \in Nat
  BY LenNat DEF QueueInv, SessionOK
<1>3. q \in Seq(Entries) /\ IsInsertion(q, pending, at, entry)
  BY <1>1, <1>2, InsertFacts
<1> HIDE DEF q
<1>4. Len(q) = Len(pending) + 1
  BY <1>3 DEF IsInsertion
<1>5. q # <<>>
  BY <1>2, <1>3, <1>4, SMT
<1>6. ASSUME running # None PROVE Head(q) = Head(pending) /\ pending # <<>>
  <2>1. pending # <<>> /\ 1 \in 1..at
    BY <1>1, <1>2, <1>6, SMT DEF QueueInv, FrontIsRunning
  <2>2. q[1] = pending[1]
    BY <1>3, <2>1 DEF IsInsertion
  <2>3. Head(q) = q[1] /\ Head(pending) = pending[1]
    BY <1>2, <1>3, <1>5, <2>1, HeadTail
  <2>4. QED
    BY <2>1, <2>2, <2>3
<1>7. QED
  BY <1>3, <1>5, <1>6 DEF q

LEMMA CancelQueueType ==
    ASSUME NEW queue \in Seq(Entries)
    PROVE  CancelQueue(queue) \in Seq(Entries)
<1>1. CASE queue = <<>>
  BY <1>1, SMT DEF CancelQueue
<1>2. CASE queue # <<>>
  BY <1>2, HeadTail DEF CancelQueue
<1>3. QED
  BY <1>1, <1>2

LEMMA CommandFacts ==
    ASSUME NEW c \in Commands
    PROVE  /\ c.op = "prompt" => [p |-> c.p, now |-> c.now] \in Entries
           /\ c.op \in {"prompt", "take"} => c.p \in Prompts
BY DEF Commands, Entries

LEMMA CallsFacts ==
    ASSUME NEW p \in Prompts, NEW k \in 0..MaxSamples, NEW c \in CallsOf(p, k)
    PROVE  c \in Seq(Nat) /\ c # <<>> /\ ToSet(c) \subseteq IdsOf(p, k) /\ IdsOf(p, k) \subseteq Nat
           /\ ToSet(c) \subseteq Nat
<1> DEFINE n == 2 * ((p - 1) * MaxSamples + k)
<1>1. n \in Nat
  <2>1. p - 1 \in Nat /\ k \in Nat /\ MaxSamples \in Nat
    BY CollectionAssumption, SMT DEF Prompts
  <2>2. \A x, y \in Nat : x * y \in Nat
    BY SMT
  <2>3. (p - 1) * MaxSamples \in Nat
    BY <2>1, <2>2
  <2>4. QED
    BY <2>1, <2>3, SMT
<1>2. CallsOf(p, k) = {<<n>>, <<n, n + 1>>}
  BY DEF CallsOf
<1> HIDE DEF n
<1>3. \A d \in CallsOf(p, k) : d \in Seq(Nat) /\ d # <<>> /\ ToSet(d) \subseteq Nat
  <2>1. <<n>> \in Seq(Nat) /\ <<n>> # <<>> /\ <<n, n + 1>> \in Seq(Nat) /\ <<n, n + 1>> # <<>>
    BY <1>1, SMT
  <2>2. ASSUME NEW d \in Seq(Nat) PROVE ToSet(d) \subseteq Nat
    BY DEF ToSet
  <2>3. QED
    BY <1>2, <2>1, <2>2
<1>4. QED
  BY <1>3 DEF IdsOf

LEMMA LoopInvInit == Init => LoopInv
<1> SUFFICES ASSUME Init PROVE LoopInv
  OBVIOUS
<1>1. SessionOK
  BY SMT DEF Init, SessionOK
<1>2. FrontIsRunning
  BY DEF Init, FrontIsRunning
<1>3. Shape(turn) /\ turn.pc = "done"
  BY FreshTurns DEF Init
<1>4. Owned /\ Guarded
  <2>1. active = FALSE /\ doomed = FALSE
    BY Zenon DEF Init
  <2>2. turn.pc \notin {"begin", "sample", "build", "reply", "tools", "finish"}
    BY <1>3
  <2>3. QED
    BY <1>3, <2>1, <2>2, Zenon DEF Owned, Guarded
<1>5. QED
  BY <1>1, <1>2, <1>3, <1>4 DEF LoopInv

\* The client's steps, and the collectors', only send commands.
LEMMA LoopInvClient ==
    ASSUME LoopInv,
           ClientStep \/ \E p \in Prompts : Collect(p)
    PROVE  LoopInv'
<1>1. cmds' \in Seq(Commands)
  <2>0. cmds \in Seq(Commands)
    BY DEF LoopInv, SessionOK
  <2>1. ASSUME NEW p \in Prompts, NEW now \in BOOLEAN, ClientPrompt(p, now) PROVE cmds' \in Seq(Commands)
    <3>1. [op |-> "prompt", p |-> p, now |-> now] \in Commands
      BY DEF Commands
    <3>2. cmds' = Append(cmds, [op |-> "prompt", p |-> p, now |-> now])
      BY <2>1 DEF ClientPrompt, Send
    <3>3. QED
      BY <2>0, <3>1, <3>2, AppendFacts
  <2>2. ASSUME NEW p \in Prompts, Collect(p) PROVE cmds' \in Seq(Commands)
    <3>1. [op |-> "take", p |-> p] \in Commands
      BY DEF Commands
    <3>2. QED
      BY <2>0, <2>2, <3>1, AppendFacts DEF Collect, Send
  <2>3. CASE ClientCancel \/ ClientRepair
    <3>1. [op |-> "cancel"] \in Commands /\ [op |-> "repair"] \in Commands
      BY DEF Commands
    <3>2. QED
      BY <2>0, <2>3, <3>1, AppendFacts DEF ClientCancel, ClientRepair, Send
  <2>4. CASE ClientHead
    BY <2>0, <2>4 DEF ClientHead, session
  <2>5. QED
    BY <2>1, <2>2, <2>3, <2>4 DEF ClientStep
<1>2. UNCHANGED <<pending, running, completions, turn, doomed, active>>
  BY DEF ClientStep, ClientPrompt, ClientCancel, ClientRepair, ClientHead, Collect, session, task
<1>3. QED
  BY <1>1, <1>2 DEF LoopInv, SessionOK, FrontIsRunning, Owned, Guarded, Shape

\* Steps that touch neither the queue nor the task.
LEMMA LoopInvFrame ==
    ASSUME LoopInv, UNCHANGED <<pending, running, completions, turn, doomed, active>>,
           cmds' = cmds \/ (cmds # <<>> /\ cmds' = Tail(cmds))
    PROVE  LoopInv'
<1>1. cmds' \in Seq(Commands)
  BY HeadTail DEF LoopInv, SessionOK
<1>2. QED
  BY <1>1 DEF LoopInv, SessionOK, FrontIsRunning, Owned, Guarded, Shape

\* Where the loop aborts the task, answers the front and starts the next one.
LEMMA LoopInvCancel ==
    ASSUME LoopInv, NEW queue \in Seq(Entries), NEW now, CancelRunningTask(queue, now),
           completions' = completions, cmds # <<>>, cmds' = Tail(cmds)
    PROVE  LoopInv' /\ turn'.pc \in {"start", "done"} /\ turn'.open = {}
<1>1. MaybeStart(CancelQueue(queue), None, NoTurn)
  BY DEF CancelRunningTask
<1>2. CancelQueue(queue) \in Seq(Entries)
  BY CancelQueueType
<1>3. /\ pending' = CancelQueue(queue) /\ running' \in Prompts \cup {None} /\ FrontIsRunning'
      /\ Shape(turn)' /\ Owned' /\ (turn' = NoTurn \/ (turn'.pc = "start" /\ turn'.open = {}))
  BY <1>1, <1>2, MaybeStartFacts, FreshTurns
<1>4. cmds' \in Seq(Commands)
  BY HeadTail DEF LoopInv, SessionOK
<1>5. turn'.pc \in {"start", "done"} /\ turn'.open = {}
  BY <1>3, FreshTurns DEF NoTurn
<1>6. doomed' \in BOOLEAN /\ active' \in BOOLEAN
  BY DEF CancelRunningTask, LoopInv, Guarded
<1>7. Guarded'
  BY <1>5, <1>6 DEF Guarded
<1>8. SessionOK'
  BY <1>2, <1>3, <1>4 DEF SessionOK, LoopInv
<1>9. QED
  BY <1>3, <1>5, <1>7, <1>8 DEF LoopInv

LEMMA LoopInvLoop ==
    ASSUME LoopInv, LoopStep
    PROVE  LoopInv'
<1>0. SessionOK /\ QueueInv /\ FrontIsRunning /\ Shape(turn) /\ Owned /\ Guarded
  BY DEF LoopInv, QueueInv
<1>1. CASE LoopPrompt
  <2> DEFINE entry == [p |-> Head(cmds).p, now |-> Head(cmds).now]
  <2>1. cmds # <<>> /\ Head(cmds).op = "prompt" /\ cmds' = Tail(cmds) /\ completions' = completions
    BY <1>1 DEF LoopPrompt, Receive
  <2>2. entry \in Entries
    BY <1>0, <2>1, HeadTail, CommandFacts DEF SessionOK
  <2>3. QueueInput(entry) \in Seq(Entries) /\ QueueInput(entry) # <<>>
        /\ (running # None => Head(QueueInput(entry)) = Head(pending) /\ pending # <<>>)
    <3> HIDE DEF entry
    <3>1. QED
      BY <1>0, <2>2, QueueInputType
  <2>4. CASE SendNowCancels(entry)
    <3>1. CancelRunningTask(QueueInput(entry), TRUE)
      BY <1>1, <2>4 DEF LoopPrompt
    <3>2. QED
      BY <2>1, <2>3, <3>1, LoopInvCancel
  <2>5. CASE ~SendNowCancels(entry)
    <3>1. MaybeStart(QueueInput(entry), running, turn) /\ UNCHANGED <<doomed, active>>
      BY <1>1, <2>5 DEF LoopPrompt
    <3> HIDE DEF entry
    <3>2. running \in Prompts \cup {None} /\ (running # None => Head(pending).p = running /\ turn.p = running)
      BY <1>0, <2>3 DEF SessionOK, FrontIsRunning
    <3>3. /\ pending' = QueueInput(entry) /\ running' \in Prompts \cup {None} /\ FrontIsRunning'
          /\ Shape(turn)' /\ Owned' /\ (turn' = turn \/ (turn'.pc = "start" /\ turn'.open = {}))
      <4>1. running # None => QueueInput(entry) # <<>> /\ Head(QueueInput(entry)).p = running /\ turn.p = running
        BY <2>3, <3>2
      <4>2. turn.pc # "done" => turn.p = running /\ running # None
        BY <1>0 DEF Owned
      <4>3. QED
        BY <1>0, <2>3, <3>1, <3>2, <4>1, <4>2, MaybeStartFacts
    <3>4. Guarded'
      BY <1>0, <3>1, <3>3 DEF Guarded
    <3>5. cmds' \in Seq(Commands)
      BY <1>0, <2>1, HeadTail DEF SessionOK
    <3>6. SessionOK'
      BY <1>0, <2>1, <2>3, <3>3, <3>5 DEF SessionOK
    <3>7. QED
      BY <3>3, <3>4, <3>6 DEF LoopInv
  <2>6. QED
    BY <2>4, <2>5
<1>2. CASE LoopCancel
  <2>1. cmds # <<>> /\ cmds' = Tail(cmds) /\ completions' = completions /\ CancelRunningTask(pending, FALSE)
    BY <1>2 DEF LoopCancel, Receive
  <2>2. pending \in Seq(Entries)
    BY <1>0 DEF SessionOK
  <2>3. QED
    BY <2>1, <2>2, LoopInvCancel
<1>3. CASE LoopTake
  BY <1>3, LoopInvFrame DEF LoopTake, Receive, task
<1>4. CASE LoopRepair
  BY <1>4, LoopInvFrame DEF LoopRepair, Receive, task
<1>5. CASE LoopCompletion
  <2> DEFINE p     == Head(completions)
             owned == pending # <<>> /\ Head(pending).p = p
             ends  == owned \/ running = p
             queue == IF owned THEN Tail(pending) ELSE pending
             run   == IF ends THEN None ELSE running
             next  == IF ends THEN NoTurn ELSE turn
  <2>1. /\ completions # <<>> /\ completions' = Tail(completions) /\ MaybeStart(queue, run, next)
        /\ UNCHANGED <<cmds, doomed, active>>
    BY <1>5 DEF LoopCompletion
  <2>2. p \in Prompts /\ completions' \in Seq(Prompts)
    BY <1>0, <2>1, HeadTail DEF SessionOK
  <2>3. running = p => owned
    BY <1>0, <2>2, NoneIsNoPrompt DEF FrontIsRunning
  <2>4. queue \in Seq(Entries) /\ run \in Prompts \cup {None}
    BY <1>0, HeadTail DEF SessionOK
  <2>5. Shape(next) /\ (next = turn \/ next.pc = "done")
    BY <1>0, FreshTurns
  <2>6. run # None => queue # <<>> /\ Head(queue).p = run /\ next.p = run
    BY <1>0, <2>3 DEF FrontIsRunning
  <2>7. next.pc # "done" => next.p = run /\ run # None
    BY <1>0, FreshTurns DEF Owned
  <2> HIDE DEF queue, run, next, ends, owned, p
  <2>8. /\ pending' = queue /\ running' \in Prompts \cup {None} /\ FrontIsRunning'
        /\ Shape(turn)' /\ Owned' /\ (turn' = next \/ (turn'.pc = "start" /\ turn'.open = {}))
    BY <2>1, <2>4, <2>5, <2>6, <2>7, MaybeStartFacts
  <2>9. Guarded'
    BY <1>0, <2>1, <2>5, <2>8 DEF Guarded
  <2>10. SessionOK'
    BY <1>0, <2>1, <2>2, <2>4, <2>8 DEF SessionOK
  <2>11. QED
    BY <2>8, <2>9, <2>10 DEF LoopInv
<1>6. QED
  BY <1>1, <1>2, <1>3, <1>4, <1>5 DEF LoopStep

\* A task's step: it keeps its prompt, and the flag is up where it must be.
LEMMA LoopInvTask ==
    ASSUME LoopInv, UNCHANGED <<cmds, pending, running>>, completions' \in Seq(Prompts),
           Shape(turn'), turn'.p = turn.p, turn.pc # "done",
           doomed' \in BOOLEAN, active' \in BOOLEAN,
           turn'.pc \in {"begin", "sample", "build", "reply", "tools", "finish"} => active' /\ ~doomed',
           doomed' => turn'.pc \in {"start", "done"}
    PROVE  LoopInv'
<1>1. SessionOK' /\ FrontIsRunning'
  BY DEF LoopInv, SessionOK, FrontIsRunning
<1>2. Owned'
  BY DEF LoopInv, Owned
<1>3. Guarded'
  BY DEF Guarded
<1>4. QED
  BY <1>1, <1>2, <1>3 DEF LoopInv

\* The record a task's step leaves.
Becomes(t, u, pc, k, open) ==
    u \in Turns /\ u.p = t.p /\ u.pc = pc /\ u.k = k /\ u.open = open

LEMMA PcUpdate ==
    ASSUME NEW t \in Turns, NEW pc \in Pcs, NEW u, u = [t EXCEPT !.pc = pc]
    PROVE  Becomes(t, u, pc, t.k, t.open)
BY SMT DEF Turns, Becomes

LEMMA PcOpenUpdate ==
    ASSUME NEW t \in Turns, NEW pc \in Pcs, NEW o \in SUBSET Nat, NEW u, u = [t EXCEPT !.pc = pc, !.open = o]
    PROVE  Becomes(t, u, pc, t.k, o)
<1>1. PICK v : v = [t EXCEPT !.pc = pc]
  OBVIOUS
<1>2. u = [v EXCEPT !.open = o]
  BY <1>1
<1>3. v \in Turns /\ v.p = t.p /\ v.pc = pc /\ v.k = t.k
  BY <1>1, SMT DEF Turns
<1>4. u \in Turns /\ u.p = v.p /\ u.pc = v.pc /\ u.k = v.k /\ u.open = o
  BY <1>2, <1>3, SMT DEF Turns
<1>5. QED
  BY <1>3, <1>4 DEF Becomes

LEMMA OpenUpdate ==
    ASSUME NEW t \in Turns, NEW o \in SUBSET Nat, NEW u, u = [t EXCEPT !.open = o]
    PROVE  Becomes(t, u, t.pc, t.k, o)
BY SMT DEF Turns, Becomes

LEMMA ReplyUpdate ==
    ASSUME NEW t \in Turns, NEW pc \in Pcs, t.k < MaxSamples, NEW u, u = [t EXCEPT !.pc = pc, !.k = @ + 1]
    PROVE  Becomes(t, u, pc, t.k + 1, t.open)
<1>1. t.k \in 0..MaxSamples /\ MaxSamples \in Nat
  BY CollectionAssumption DEF Turns
<1>2. t.k + 1 \in 0..MaxSamples
  BY <1>1, SMT
<1>3. QED
  BY <1>2 DEF Turns, Becomes

LEMMA LoopInvTurn ==
    ASSUME LoopInv, TurnStep
    PROVE  LoopInv'
<1>0. /\ turn \in Turns /\ Shape(turn) /\ completions \in Seq(Prompts) /\ MaxSamples \in Nat
      /\ active \in BOOLEAN /\ doomed \in BOOLEAN /\ turn.k \in 0..MaxSamples
      /\ turn.pc \in {"begin", "sample", "build", "reply", "tools", "finish"} => active /\ ~doomed
      /\ doomed => turn.pc \in {"start", "done"}
      /\ turn.pc # "done" => turn.p \in Prompts
  <2>1. turn \in Turns /\ Shape(turn) /\ completions \in Seq(Prompts) /\ Owned /\ running \in Prompts \cup {None}
    BY DEF LoopInv, Shape, SessionOK
  <2>2. turn.k \in 0..MaxSamples
    BY <2>1 DEF Turns
  <2>3. QED
    BY <2>1, <2>2, CollectionAssumption DEF LoopInv, Guarded, Owned
<1> USE DEF At
<1>1. CASE TurnStart
  <2>1. /\ ~doomed /\ turn.pc = "start" /\ active' = TRUE /\ doomed' = doomed
        /\ turn' = [turn EXCEPT !.pc = "begin"] /\ UNCHANGED <<cmds, pending, running, completions>>
    BY <1>1 DEF TurnStart, session
  <2>2. turn' \in Turns /\ turn'.p = turn.p /\ turn'.pc = "begin" /\ turn'.k = turn.k /\ turn'.open = turn.open
    BY <1>0, <2>1, PcUpdate DEF Pcs, Becomes
  <2>3. Shape(turn')
    BY <1>0, <2>1, <2>2 DEF Shape
  <2>4. QED
    BY <1>0, <2>1, <2>2, <2>3, LoopInvTask
<1>2. CASE TurnBegin
  <2>1. /\ ~doomed /\ turn.pc = "begin" /\ active' = active /\ doomed' = doomed
        /\ turn' = [turn EXCEPT !.pc = "sample"] /\ UNCHANGED <<cmds, pending, running, completions>>
    BY <1>2 DEF TurnBegin
  <2>2. turn' \in Turns /\ turn'.p = turn.p /\ turn'.pc = "sample" /\ turn'.k = turn.k /\ turn'.open = turn.open
    BY <1>0, <2>1, PcUpdate DEF Pcs, Becomes
  <2>3. Shape(turn')
    BY <1>0, <2>1, <2>2 DEF Shape
  <2>4. QED
    BY <1>0, <2>1, <2>2, <2>3, LoopInvTask
<1>3. CASE TurnCompact
  <2>1. UNCHANGED <<pending, running, completions, turn, doomed, active>> /\ cmds' = cmds
    BY <1>3 DEF TurnCompact, session, task
  <2>2. QED
    BY <2>1, LoopInvFrame
<1>4. CASE TurnSample
  <2>1. /\ ~doomed /\ turn.pc = "sample" /\ active' = active /\ doomed' = doomed
        /\ turn' = [turn EXCEPT !.pc = "build"] /\ UNCHANGED <<cmds, pending, running, completions>>
    BY <1>4 DEF TurnSample, session
  <2>2. turn' \in Turns /\ turn'.p = turn.p /\ turn'.pc = "build" /\ turn'.k = turn.k /\ turn'.open = turn.open
    BY <1>0, <2>1, PcUpdate DEF Pcs, Becomes
  <2>3. Shape(turn')
    BY <1>0, <2>1, <2>2 DEF Shape
  <2>4. QED
    BY <1>0, <2>1, <2>2, <2>3, LoopInvTask
<1>5. CASE TurnFinish
  <2>1. /\ ~doomed /\ turn.pc \in {"finish", "failed"} /\ active' = FALSE /\ doomed' = doomed
        /\ turn' = [turn EXCEPT !.pc = "done"] /\ completions' = Append(completions, turn.p)
        /\ UNCHANGED <<cmds, pending, running>>
    BY <1>5 DEF TurnFinish
  <2>2. turn' \in Turns /\ turn'.p = turn.p /\ turn'.pc = "done" /\ turn'.k = turn.k /\ turn'.open = turn.open
    BY <1>0, <2>1, PcUpdate DEF Pcs, Becomes
  <2>3. Shape(turn')
    BY <1>0, <2>1, <2>2 DEF Shape
  <2>4. completions' \in Seq(Prompts)
    BY <1>0, <2>1, AppendFacts
  <2>5. QED
    BY <1>0, <2>1, <2>2, <2>3, <2>4, LoopInvTask
<1>6. CASE DropAborted
  <2>1. doomed /\ doomed' = FALSE /\ active' = FALSE /\ UNCHANGED <<cmds, pending, running, completions, turn>>
    BY <1>6 DEF DropAborted, session
  <2>2. turn.pc \in {"start", "done"}
    BY <1>0, <2>1
  <2>3. Guarded'
    BY <2>1, <2>2 DEF Guarded
  <2>4. QED
    BY <2>1, <2>3 DEF LoopInv, SessionOK, FrontIsRunning, Shape, Owned
<1>7. ASSUME NEW calls, TurnReply(calls), calls = <<>> \/ (calls \in CallsOf(turn.p, turn.k) /\ turn.k < MaxSamples)
      PROVE  LoopInv'
  <2>1. /\ ~doomed /\ turn.pc = "reply" /\ active' = active /\ doomed' = doomed
        /\ turn' = [turn EXCEPT !.pc = IF calls = <<>> THEN "finish" ELSE "tools", !.open = ToSet(calls)]
        /\ UNCHANGED <<cmds, pending, running, completions>>
    BY <1>7 DEF TurnReply, session
  <2>2. ToSet(calls) \in SUBSET Nat /\ (calls = <<>> => ToSet(calls) = {})
        /\ (calls # <<>> => ToSet(calls) \subseteq IdsOf(turn.p, turn.k) /\ turn.k < MaxSamples)
    <3>1. ToSet(<<>>) = {}
      BY DEF ToSet
    <3>2. calls # <<>> => ToSet(calls) \subseteq Nat /\ ToSet(calls) \subseteq IdsOf(turn.p, turn.k)
      BY <1>0, <1>7, <2>1, CallsFacts
    <3>3. QED
      BY <1>7, <3>1, <3>2
  <2> DEFINE pc == IF calls = <<>> THEN "finish" ELSE "tools"
  <2>3. pc \in Pcs /\ pc \in {"finish", "tools"} /\ (pc = "tools" <=> calls # <<>>)
    BY DEF Pcs
  <2>4. turn' = [turn EXCEPT !.pc = pc, !.open = ToSet(calls)]
    BY <2>1
  <2> HIDE DEF pc
  <2>5. turn' \in Turns /\ turn'.p = turn.p /\ turn'.pc = pc /\ turn'.k = turn.k /\ turn'.open = ToSet(calls)
    <3>1. Becomes(turn, turn', pc, turn.k, ToSet(calls))
      BY <1>0, <2>2, <2>3, <2>4, PcOpenUpdate
    <3>2. QED
      BY <3>1 DEF Becomes
  <2>6. Shape(turn')
    BY <1>0, <2>1, <2>2, <2>3, <2>5 DEF Shape
  <2>7. QED
    BY <1>0, <2>1, <2>3, <2>5, <2>6, LoopInvTask
<1>8. ASSUME NEW id \in turn.open, TurnResult(id) PROVE LoopInv'
  <2>1. /\ ~doomed /\ turn.pc = "tools" /\ active' = active /\ doomed' = doomed
        /\ turn' = [turn EXCEPT !.open = @ \ {id}] /\ UNCHANGED <<cmds, pending, running, completions>>
    BY <1>8 DEF TurnResult, session
  <2>2. turn.open \ {id} \in SUBSET Nat /\ turn' = [turn EXCEPT !.open = turn.open \ {id}]
    BY <1>0, <2>1 DEF Turns
  <2>3. turn' \in Turns /\ turn'.p = turn.p /\ turn'.pc = "tools" /\ turn'.k = turn.k /\ turn'.open = turn.open \ {id}
    <3>1. Becomes(turn, turn', turn.pc, turn.k, turn.open \ {id})
      BY <1>0, <2>2, OpenUpdate
    <3>2. QED
      BY <2>1, <3>1 DEF Becomes
  <2>4. Shape(turn')
    BY <1>0, <2>1, <2>3 DEF Shape
  <2>5. QED
    BY <1>0, <2>1, <2>3, <2>4, LoopInvTask
<1>9. CASE TurnToolsDone
  <2>1. /\ ~doomed /\ turn.pc = "tools" /\ turn.open = {} /\ active' = active /\ doomed' = doomed
        /\ turn' = [turn EXCEPT !.pc = "sample"] /\ UNCHANGED <<cmds, pending, running, completions>>
    BY <1>9 DEF TurnToolsDone, session
  <2>2. turn' \in Turns /\ turn'.p = turn.p /\ turn'.pc = "sample" /\ turn'.k = turn.k /\ turn'.open = turn.open
    BY <1>0, <2>1, PcUpdate DEF Pcs, Becomes
  <2>3. Shape(turn')
    BY <1>0, <2>1, <2>2 DEF Shape
  <2>4. QED
    BY <1>0, <2>1, <2>2, <2>3, LoopInvTask
<1>10. CASE TurnInterject
  <2>1. /\ ~doomed /\ turn.pc \in {"sample", "finish"} /\ turn.k < MaxSamples /\ active' = active /\ doomed' = doomed
        /\ turn' = [turn EXCEPT !.pc = "sample"] /\ UNCHANGED <<cmds, pending, running, completions>>
    BY <1>10 DEF TurnInterject, session
  <2>2. turn' \in Turns /\ turn'.p = turn.p /\ turn'.pc = "sample" /\ turn'.k = turn.k /\ turn'.open = turn.open
    BY <1>0, <2>1, PcUpdate DEF Pcs, Becomes
  <2>3. Shape(turn')
    BY <1>0, <2>1, <2>2 DEF Shape
  <2>4. QED
    BY <1>0, <2>1, <2>2, <2>3, LoopInvTask
<1>11. CASE TurnFails
  <2>1. /\ ~doomed /\ turn.pc \in {"start", "begin", "reply", "tools"} /\ (turn.pc = "tools" => turn.open = {})
        /\ active' = active /\ doomed' = doomed
        /\ turn' = [turn EXCEPT !.pc = "failed"] /\ UNCHANGED <<cmds, pending, running, completions>>
    BY <1>11 DEF TurnFails, session
  <2>2. turn' \in Turns /\ turn'.p = turn.p /\ turn'.pc = "failed" /\ turn'.k = turn.k /\ turn'.open = turn.open
    BY <1>0, <2>1, PcUpdate DEF Pcs, Becomes
  <2>3. Shape(turn')
    BY <1>0, <2>1, <2>2 DEF Shape
  <2>4. QED
    BY <1>0, <2>1, <2>2, <2>3, LoopInvTask
<1>12. CASE TurnDispatchError
  <2>1. /\ ~doomed /\ turn.pc = "tools" /\ active' = active /\ doomed' = doomed
        /\ turn' = [turn EXCEPT !.pc = "sample", !.open = {}] /\ UNCHANGED <<cmds, pending, running, completions>>
    BY <1>12 DEF TurnDispatchError, session
  <2>2. turn' \in Turns /\ turn'.p = turn.p /\ turn'.pc = "sample" /\ turn'.k = turn.k /\ turn'.open = {}
    <3>1. "sample" \in Pcs /\ {} \in SUBSET Nat
      BY DEF Pcs
    <3>2. Becomes(turn, turn', "sample", turn.k, {})
      BY <1>0, <2>1, <3>1, PcOpenUpdate
    <3>3. QED
      BY <3>2 DEF Becomes
  <2>3. Shape(turn')
    BY <1>0, <2>1, <2>2 DEF Shape
  <2>4. QED
    BY <1>0, <2>1, <2>2, <2>3, LoopInvTask
<1>13. QED
  BY <1>1, <1>2, <1>3, <1>4, <1>5, <1>6, <1>7, <1>8, <1>9, <1>10, <1>11, <1>12 DEF TurnStep

LEMMA LoopInvActor ==
    ASSUME LoopInv, ActorStep
    PROVE  LoopInv'
<1>1. CASE ActorBuild
  <2>1. UNCHANGED <<cmds, pending, running, completions, doomed, active>>
    BY <1>1 DEF ActorBuild, Handle
  <2>2. CASE turn.p = Head(mailbox).p /\ turn.pc = "build"
    <3>1. turn' = [turn EXCEPT !.pc = "reply", !.k = @ + 1]
      BY <1>1, <2>2 DEF ActorBuild
    <3>2. turn \in Turns /\ turn.k < MaxSamples /\ turn.k \in Nat /\ turn.open = {} /\ completions \in Seq(Prompts)
      BY <2>2 DEF LoopInv, Shape, Turns, SessionOK
    <3>3. /\ turn' \in Turns /\ turn'.p = turn.p /\ turn'.pc = "reply" /\ turn'.k = turn.k + 1
          /\ turn'.open = turn.open
      <4>1. "reply" \in Pcs
        BY DEF Pcs
      <4>2. Becomes(turn, turn', "reply", turn.k + 1, turn.open)
        BY <3>1, <3>2, <4>1, ReplyUpdate
      <4>3. QED
        BY <4>2 DEF Becomes
    <3>4. Shape(turn')
      BY <3>2, <3>3 DEF Shape
    <3>5. active \in BOOLEAN /\ doomed \in BOOLEAN /\ active /\ ~doomed
      BY <2>2 DEF LoopInv, Guarded
    <3>6. QED
      BY <2>1, <2>2, <3>2, <3>3, <3>4, <3>5, LoopInvTask
  <2>3. CASE ~(turn.p = Head(mailbox).p /\ turn.pc = "build")
    <3>1. turn' = turn
      BY <1>1, <2>3 DEF ActorBuild
    <3>2. QED
      BY <2>1, <3>1, LoopInvFrame
  <2>4. QED
    BY <2>2, <2>3
<1>2. CASE ~ActorBuild
  <2>1. UNCHANGED <<cmds, pending, running, completions, turn, doomed, active>>
    BY <1>2 DEF ActorStep, ActorIndex, ActorBegin, ActorPush, ActorPushUser, ActorCompact, ActorHead,
                ActorRepair, ActorTake, Handle
  <2>2. QED
    BY <2>1, LoopInvFrame
<1>3. QED
  BY <1>1, <1>2

LEMMA LoopInvNext == LoopInv /\ [Next]_vars => LoopInv'
<1> SUFFICES ASSUME LoopInv, [Next]_vars PROVE LoopInv'
  OBVIOUS
<1>1. CASE RepairCheck
  BY <1>1, LoopInvFrame DEF RepairCheck, session, task
<1>2. CASE UNCHANGED vars
  BY <1>2, LoopInvFrame DEF vars, session, task
<1>3. QED
  BY <1>1, <1>2, LoopInvClient, LoopInvLoop, LoopInvTurn, LoopInvActor DEF Next

\* The running turn is always the front of the queue and its task the running
\* one, however prompts, cancels, sends-now and completions interleave
\* (cancel_running_task, handle_completion, maybe_start_running_task).
THEOREM FrontRuns == Spec => []FrontIsRunning
<1>1. LoopInv => FrontIsRunning
  BY DEF LoopInv
<1>2. QED
  BY <1>1, LoopInvInit, LoopInvNext, PTL DEF Spec

LEMMA LoopInvAlways == Spec => []LoopInv
BY LoopInvInit, LoopInvNext, PTL DEF Spec

-----------------------------------------------------------------------------
(* The actor's mailbox *)

AllCalls == UNION {CallsOf(p, k) : p \in Prompts, k \in 1..MaxSamples}
AllIds   == UNION {ToSet(c) : c \in AllCalls}

\* What a turn pushes, and what it pushes for its client.
Pushed    == {Assistant(p, c) : p \in Prompts, c \in AllCalls \cup {<<>>}}
                \cup {Result(id, p) : id \in AllIds, p \in Prompts}
UserItems == {User(p, b) : p \in Prompts, b \in {"prompt", "interjection"}}

Messages == [op : {"index", "begin", "compact", "head", "repair"}]
              \cup [op : {"build", "take"}, p : Prompts]
              \cup [op : {"push"}, item : Pushed] \cup [op : {"push_user"}, item : UserItems]

MailOK == mailbox \in Seq(Messages) /\ log \in [Prompts -> Seq(Pushed \cup UserItems)]

LEMMA ItemFacts ==
    /\ \A item \in Pushed \cup UserItems : item.by \in Prompts
    /\ \A p : User(p, "prompt").by = p
    /\ \A item \in Pushed : item.kind # "user"
BY SMT DEF Pushed, UserItems, Assistant, Result, User, Item

LEMMA MessageFacts ==
    ASSUME NEW m \in Messages
    PROVE  /\ m.op \in {"index", "begin", "compact", "head", "repair", "build", "take", "push", "push_user"}
           /\ m.op \in {"build", "take"} => m.p \in Prompts
           /\ m.op = "push" => m.item \in Pushed
           /\ m.op = "push_user" => m.item \in UserItems
BY DEF Messages

LEMMA IdsInAll ==
    ASSUME NEW p \in Prompts, NEW k \in 1..MaxSamples
    PROVE  CallsOf(p, k) \subseteq AllCalls /\ IdsOf(p, k) \subseteq AllIds
<1>1. CallsOf(p, k) \subseteq AllCalls
  BY DEF AllCalls
<1>2. QED
  BY <1>1 DEF AllIds, IdsOf

\* The sequence of a finite set lists its members.
LEMMA SetToSeqFacts ==
    ASSUME NEW S, IsFiniteSet(S)
    PROVE  Cardinality(S) \in Nat /\ SetToSeq(S) \in [1..Cardinality(S) -> S]
<1>1. Cardinality(S) \in Nat
  BY FS_CardinalityType
<1>2. PICK f : f \in Bijection(1..Cardinality(S), S)
  BY FS_CardinalityType, FS_NatBijection DEF ExistsBijection
<1>3. f \in [1..Cardinality(S) -> S] /\ IsInjective(f)
  BY <1>2 DEF Bijection, Injection, IsInjective
<1>4. QED
  BY <1>1, <1>3 DEF SetToSeq

LEMMA IdsFinite ==
    ASSUME LoopInv
    PROVE  /\ turn.open \subseteq AllIds /\ IsFiniteSet(turn.open)
           /\ turn.pc # "done" => turn.p \in Prompts
           /\ turn.open # {} => turn.p \in Prompts /\ turn.k \in 1..MaxSamples
<1>0. turn \in Turns /\ Shape(turn) /\ Owned /\ running \in Prompts \cup {None}
  BY DEF LoopInv, Shape, SessionOK
<1>1. turn.pc # "done" => turn.p \in Prompts
  BY <1>0 DEF Owned
<1>2. CASE turn.open = {}
  BY <1>1, <1>2, FS_EmptySet
<1>3. CASE turn.open # {}
  <2>1. turn.pc = "tools" /\ turn.open \subseteq IdsOf(turn.p, turn.k) /\ turn.k >= 1 /\ turn.k \in 0..MaxSamples
    BY <1>0, <1>3 DEF Shape, Turns
  <2>2. turn.p \in Prompts /\ turn.k \in 1..MaxSamples
    BY <1>1, <2>1, CollectionAssumption, SMT
  <2>3. IdsOf(turn.p, turn.k) \subseteq AllIds
    BY <2>2, IdsInAll
  <2>4. IsFiniteSet(IdsOf(turn.p, turn.k))
    <3> DEFINE n == 2 * ((turn.p - 1) * MaxSamples + turn.k)
    <3>1. CallsOf(turn.p, turn.k) = {<<n>>, <<n, n + 1>>}
      BY DEF CallsOf
    <3> HIDE DEF n
    <3>2. ToSet(<<n>>) \subseteq {n, n + 1} /\ ToSet(<<n, n + 1>>) \subseteq {n, n + 1}
      BY SMT DEF ToSet
    <3>3. IdsOf(turn.p, turn.k) \subseteq {n, n + 1}
      BY <3>1, <3>2 DEF IdsOf
    <3>4. IsFiniteSet({n, n + 1})
      <4>1. IsFiniteSet({n})
        BY FS_Singleton
      <4>2. IsFiniteSet({n} \cup {n + 1})
        BY <4>1, FS_AddElement
      <4>3. {n} \cup {n + 1} = {n, n + 1}
        OBVIOUS
      <4>4. QED
        BY <4>2, <4>3
    <3>5. QED
      BY <3>3, <3>4, FS_Subset
  <2>5. QED
    BY <1>1, <2>1, <2>2, <2>3, <2>4, FS_Subset
<1>4. QED
  BY <1>2, <1>3

\* A step of anyone but the actor.
Others == ClientStep \/ LoopStep \/ TurnStep \/ RepairCheck \/ \E p \in Prompts : Collect(p)

\* The messages a step may post.
Allowed(m) ==
    /\ m.op = "index" => TurnStart
    /\ m.op = "repair" => RepairCheck
    /\ m.op = "take" => LoopTake /\ m.p = Head(cmds).p
    /\ m.op \in {"push_user", "build", "compact"} => TurnStep /\ turn.open = {}
    /\ m.op = "push" =>
          \/ \E id \in turn.open : m.item = Result(id, turn.p)
          \/ \E c \in CallsOf(turn.p, turn.k) \cup {<<>>} : TurnReply(c) /\ m.item = Assistant(turn.p, c)

Postable == {m \in Messages : Allowed(m)}

LEMMA PostableSeq ==
    ASSUME NEW msgs \in Seq(Postable)
    PROVE  msgs \in Seq(Messages) /\ \A i \in 1..Len(msgs) : Allowed(msgs[i])
<1>1. Len(msgs) \in Nat /\ msgs = [i \in 1..Len(msgs) |-> msgs[i]] /\ \A i \in 1..Len(msgs) : msgs[i] \in Postable
  BY SMT
<1>2. \A i \in 1..Len(msgs) : msgs[i] \in Messages /\ Allowed(msgs[i])
  BY <1>1 DEF Postable
<1>3. msgs \in [1..Len(msgs) -> Messages]
  BY <1>1, <1>2
<1>4. QED
  BY <1>1, <1>2, <1>3, SMT

LEMMA OneMessage ==
    ASSUME NEW S, NEW m \in S
    PROVE  <<m>> \in Seq(S)
BY SMT

LEMMA PlainPostable ==
    ASSUME NEW m \in Messages, m.op \notin {"index", "repair", "take", "push_user", "build", "compact", "push"}
    PROVE  m \in Postable
BY DEF Postable, Allowed

\* What cancel_running_task posts: results of calls that were open.
LEMMA CancelPosts ==
    ASSUME LoopInv, NEW queue, NEW now, CancelRunningTask(queue, now)
    PROVE  \E msgs \in Seq(Postable) : mailbox' = mailbox \o msgs
<1>1. PICK background \in SUBSET (IF now THEN turn.open ELSE {}) :
         mailbox' = mailbox \o [i \in 1..Cardinality(background) |->
                      [op |-> "push", item |-> Result(SetToSeq(background)[i], turn.p)]]
  BY DEF CancelRunningTask
<1>2. background \subseteq turn.open
  BY <1>1
<1> DEFINE n == Cardinality(background)
           f == SetToSeq(background)
           msgs == [i \in 1..n |-> [op |-> "push", item |-> Result(f[i], turn.p)]]
<1>3. IsFiniteSet(background)
  BY <1>2, IdsFinite, FS_Subset
<1>4. n \in Nat /\ f \in [1..n -> background]
  BY <1>3, SetToSeqFacts
<1>5. mailbox' = mailbox \o msgs
  BY <1>1
<1> HIDE DEF n, f
<1>6. ASSUME NEW i \in 1..n
      PROVE  [op |-> "push", item |-> Result(f[i], turn.p)] \in Postable
  <2>1. f[i] \in background /\ f[i] \in turn.open
    BY <1>2, <1>4
  <2>2. f[i] \in AllIds /\ turn.p \in Prompts
    BY <2>1, IdsFinite
  <2>3. Result(f[i], turn.p) \in Pushed
    BY <2>2 DEF Pushed
  <2>4. [op |-> "push", item |-> Result(f[i], turn.p)] \in Messages
    BY <2>3 DEF Messages
  <2>5. QED
    BY <2>1, <2>4 DEF Postable, Allowed
<1>7. msgs \in Seq(Postable)
  <2>1. msgs \in [1..n -> Postable]
    BY <1>6
  <2>2. QED
    BY <1>4, <2>1, SMT
<1>8. QED
  BY <1>5, <1>7

LEMMA Posts ==
    ASSUME LoopInv, MailOK, Others
    PROVE  (\E msgs \in Seq(Postable) : mailbox' = mailbox \o msgs) /\ UNCHANGED <<st, log>>
<1>0. mailbox \in Seq(Messages) /\ mailbox \o <<>> = mailbox /\ <<>> \in Seq(Postable)
      /\ \A m : Append(mailbox, m) = mailbox \o <<m>>
  <2>1. mailbox \in Seq(Messages)
    BY DEF MailOK
  <2>2. mailbox \o <<>> = mailbox /\ <<>> \in Seq(Postable)
    BY <2>1, SMT
  <2>3. \A m : Append(mailbox, m) = mailbox \o <<m>>
    BY <2>1 DEF Append
  <2>4. QED
    BY <2>1, <2>2, <2>3
<1>1. CASE ClientStep \/ \E p \in Prompts : Collect(p)
  <2>1. UNCHANGED <<st, log>> /\ (mailbox' = mailbox \/ mailbox' = Append(mailbox, [op |-> "head"]))
    BY <1>1 DEF ClientStep, ClientPrompt, ClientCancel, ClientRepair, ClientHead, Collect, history
  <2>2. [op |-> "head"] \in Postable
    BY PlainPostable DEF Messages
  <2>3. QED
    BY <1>0, <2>1, <2>2, OneMessage
<1>2. CASE LoopStep
  <2>1. CASE LoopPrompt
    <3>1. UNCHANGED <<st, log>> /\ (mailbox' = mailbox \/ \E queue : CancelRunningTask(queue, TRUE))
      BY <2>1 DEF LoopPrompt
    <3>2. QED
      BY <1>0, <3>1, CancelPosts
  <2>2. CASE LoopCancel
    <3>1. UNCHANGED <<st, log>> /\ CancelRunningTask(pending, FALSE)
      BY <2>2 DEF LoopCancel, history
    <3>2. QED
      BY <3>1, CancelPosts
  <2>3. CASE LoopTake
    <3>1. cmds # <<>> /\ Head(cmds).op = "take" /\ UNCHANGED <<st, log>>
          /\ mailbox' = Append(mailbox, [op |-> "take", p |-> Head(cmds).p])
      BY <2>3 DEF LoopTake, Receive, history
    <3>2. Head(cmds).p \in Prompts
      BY <3>1, HeadTail, CommandFacts DEF LoopInv, SessionOK
    <3>3. [op |-> "take", p |-> Head(cmds).p] \in Postable
      BY <2>3, <3>2 DEF Messages, Postable, Allowed
    <3>4. QED
      BY <1>0, <3>1, <3>3, OneMessage
  <2>4. CASE LoopRepair \/ LoopCompletion
    <3>1. UNCHANGED <<st, log, mailbox>>
      BY <2>4 DEF LoopRepair, LoopCompletion, history
    <3>2. QED
      BY <1>0, <3>1
  <2>5. QED
    BY <1>2, <2>1, <2>2, <2>3, <2>4 DEF LoopStep
<1>3. CASE RepairCheck
  <2>1. UNCHANGED <<st, log>> /\ (mailbox' = mailbox \/ mailbox' = mailbox \o <<[op |-> "repair"]>>)
    BY <1>3 DEF RepairCheck, Post, history
  <2>2. [op |-> "repair"] \in Postable
    BY <1>3 DEF Messages, Postable, Allowed
  <2>3. QED
    BY <1>0, <2>1, <2>2, OneMessage
<1>4. CASE TurnStep
  <2>0. UNCHANGED <<st, log>>
    BY <1>4 DEF TurnStep, TurnStart, TurnBegin, TurnCompact, TurnSample, TurnFinish, DropAborted, TurnReply,
                TurnResult, TurnToolsDone, TurnInterject, TurnFails, TurnDispatchError, history
  <2>1. turn.pc # "done" => turn.p \in Prompts
    BY IdsFinite
  <2>2. /\ TurnStart => [op |-> "index"] \in Postable
        /\ [op |-> "begin"] \in Postable
        /\ TurnCompact => [op |-> "compact"] \in Postable
    <3>1. TurnCompact => turn.open = {}
      BY DEF LoopInv, Shape, TurnCompact, At
    <3>2. QED
      BY <1>4, <3>1, PlainPostable DEF Messages, Postable, Allowed
  <2>3. turn.p \in Prompts /\ turn.pc # "tools" =>
            /\ [op |-> "build", p |-> turn.p] \in Postable
            /\ \A b \in {"prompt", "interjection"} : [op |-> "push_user", item |-> User(turn.p, b)] \in Postable
    <3>1. turn.p \in Prompts => \A b \in {"prompt", "interjection"} : User(turn.p, b) \in UserItems
      BY DEF UserItems
    <3>2. turn.p \in Prompts => /\ [op |-> "build", p |-> turn.p] \in Messages
                                /\ \A b \in {"prompt", "interjection"} :
                                      [op |-> "push_user", item |-> User(turn.p, b)] \in Messages
      BY <3>1 DEF Messages
    <3>3. turn.pc # "tools" => turn.open = {}
      BY DEF LoopInv, Shape
    <3>4. QED
      BY <1>4, <3>2, <3>3 DEF Postable, Allowed
  <2>4. CASE TurnStart \/ TurnCompact
    BY <2>0, <2>2, <2>4, OneMessage DEF TurnStart, TurnCompact, Post
  <2>5. CASE TurnBegin
    <3>1. /\ mailbox' = mailbox \o <<[op |-> "begin"], [op |-> "push_user", item |-> User(turn.p, "prompt")]>>
          /\ turn.p \in Prompts /\ turn.pc # "tools"
      BY <2>1, <2>5 DEF TurnBegin, Post, At
    <3>2. \A m1, m2 \in Postable : <<m1, m2>> \in Seq(Postable)
      BY SMT
    <3>3. QED
      BY <2>0, <2>2, <2>3, <3>1, <3>2
  <2>6. CASE TurnSample
    BY <2>0, <2>1, <2>3, <2>6, OneMessage DEF TurnSample, Post, At
  <2>7. ASSUME NEW calls, TurnReply(calls), calls = <<>> \/ (calls \in CallsOf(turn.p, turn.k) /\ turn.k < MaxSamples)
        PROVE  \E msgs \in Seq(Postable) : mailbox' = mailbox \o msgs
    <3>1. turn.p \in Prompts /\ turn.k \in 1..MaxSamples
      <4>1. turn.pc = "reply" /\ turn.k \in 0..MaxSamples /\ turn.k >= 1
        BY <2>7 DEF TurnReply, At, LoopInv, Shape, Turns
      <4>2. QED
        BY <2>1, <4>1, CollectionAssumption, SMT
    <3>2. calls \in AllCalls \cup {<<>>}
      BY <2>7, <3>1, IdsInAll
    <3>3. [op |-> "push", item |-> Assistant(turn.p, calls)] \in Messages
      BY <3>1, <3>2 DEF Messages, Pushed
    <3>4. [op |-> "push", item |-> Assistant(turn.p, calls)] \in Postable
      BY <2>7, <3>3 DEF Postable, Allowed
    <3>5. QED
      BY <2>7, <3>4, OneMessage DEF TurnReply, Post
  <2>8. ASSUME NEW id \in turn.open, TurnResult(id) PROVE \E msgs \in Seq(Postable) : mailbox' = mailbox \o msgs
    <3>1. id \in AllIds /\ turn.p \in Prompts
      BY IdsFinite
    <3>2. [op |-> "push", item |-> Result(id, turn.p)] \in Messages
      BY <3>1 DEF Messages, Pushed
    <3>3. [op |-> "push", item |-> Result(id, turn.p)] \in Postable
      BY <3>2 DEF Postable, Allowed
    <3>4. QED
      BY <2>8, <3>3, OneMessage DEF TurnResult, Post
  <2>9. CASE TurnInterject
    <3>1. /\ turn.p \in Prompts /\ turn.pc # "tools"
          /\ mailbox' = mailbox \o <<[op |-> "push_user", item |-> User(turn.p, "interjection")]>>
      BY <2>1, <2>9 DEF TurnInterject, Post, At
    <3>2. QED
      BY <2>0, <2>3, <3>1, OneMessage
  <2>10. CASE TurnFinish \/ DropAborted \/ TurnToolsDone \/ TurnFails \/ TurnDispatchError
    <3>1. mailbox' = mailbox
      BY <2>10 DEF TurnFinish, DropAborted, TurnToolsDone, TurnFails, TurnDispatchError
    <3>2. QED
      BY <1>0, <2>0, <3>1
  <2>11. QED
    BY <1>4, <2>0, <2>4, <2>5, <2>6, <2>7, <2>8, <2>9, <2>10 DEF TurnStep
<1>5. QED
  BY <1>1, <1>2, <1>3, <1>4 DEF Others

\* A step of the actor: it takes the next message, and logs what that pushes.
LEMMA ActorLogs ==
    ASSUME ActorStep
    PROVE  /\ mailbox # <<>> /\ mailbox' = Tail(mailbox) /\ UNCHANGED <<committed, running, replaced, left, cmds>>
           /\ IF Head(mailbox).op \in {"push", "push_user"} THEN Logged(Head(mailbox).item) ELSE log' = log
<1>1. \E op : Handle(op)
  BY DEF ActorStep, ActorIndex, ActorBegin, ActorPush, ActorPushUser, ActorBuild, ActorCompact, ActorHead,
         ActorRepair, ActorTake
<1>2. mailbox # <<>> /\ mailbox' = Tail(mailbox) /\ UNCHANGED <<committed, running, replaced, left, cmds>>
  BY <1>1 DEF Handle
<1>3. CASE ActorPush \/ ActorPushUser
  <2>1. Head(mailbox).op \in {"push", "push_user"} /\ Logged(Head(mailbox).item)
    BY <1>3 DEF ActorPush, ActorPushUser, Handle
  <2>2. QED
    BY <1>2, <2>1
<1>4. CASE ~(ActorPush \/ ActorPushUser)
  <2>1. log' = log /\ Head(mailbox).op \notin {"push", "push_user"}
    BY <1>4 DEF ActorStep, ActorIndex, ActorBegin, ActorBuild, ActorCompact, ActorHead, ActorRepair, ActorTake, Handle
  <2>2. QED
    BY <1>2, <2>1
<1>5. QED
  BY <1>3, <1>4

LEMMA LoggedType ==
    ASSUME MailOK, NEW item \in Pushed \cup UserItems, Logged(item)
    PROVE  /\ log' \in [Prompts -> Seq(Pushed \cup UserItems)]
           /\ item.by \in Prompts /\ log'[item.by] = Append(log[item.by], item)
           /\ \A p \in Prompts : p # item.by => log'[p] = log[p]
<1>1. item.by \in Prompts
  BY ItemFacts
<1>2. log \in [Prompts -> Seq(Pushed \cup UserItems)]
  BY DEF MailOK
<1>3. Append(log[item.by], item) \in Seq(Pushed \cup UserItems)
  BY <1>1, <1>2, AppendFacts
<1>4. log' = [log EXCEPT ![item.by] = Append(log[item.by], item)]
  BY DEF Logged
<1>5. QED
  BY <1>1, <1>2, <1>3, <1>4

LEMMA MailNext ==
    ASSUME LoopInv, MailOK, [Next]_vars
    PROVE  MailOK'
<1>0. mailbox \in Seq(Messages) /\ log \in [Prompts -> Seq(Pushed \cup UserItems)]
  BY DEF MailOK
<1>1. CASE Others
  <2>1. PICK msgs \in Seq(Messages) : mailbox' = mailbox \o msgs
    BY <1>1, Posts, PostableSeq
  <2>2. mailbox \o msgs \in Seq(Messages)
    BY <1>0, ConcatFacts
  <2>3. QED
    BY <1>0, <1>1, <2>1, <2>2, Posts DEF MailOK
<1>2. CASE ActorStep
  <2>1. mailbox # <<>> /\ mailbox' = Tail(mailbox)
    BY <1>2, ActorLogs
  <2>2. mailbox' \in Seq(Messages) /\ Head(mailbox) \in Messages
    BY <1>0, <2>1, HeadTail
  <2>3. CASE Head(mailbox).op \in {"push", "push_user"}
    <3>1. Logged(Head(mailbox).item) /\ Head(mailbox).item \in Pushed \cup UserItems
      BY <1>2, <2>2, <2>3, ActorLogs, MessageFacts
    <3>2. QED
      BY <2>2, <3>1, LoggedType DEF MailOK
  <2>4. CASE Head(mailbox).op \notin {"push", "push_user"}
    BY <1>0, <1>2, <2>2, <2>4, ActorLogs DEF MailOK
  <2>5. QED
    BY <2>3, <2>4
<1>3. CASE UNCHANGED vars
  BY <1>3 DEF MailOK, vars, history
<1>4. QED
  BY <1>1, <1>2, <1>3 DEF Next, Others

-----------------------------------------------------------------------------
(* The prompt's own message *)

\* The prompt's message has been applied or is on its way.
Kept(p) ==
    \/ Contains(log[p], User(p, "prompt"))
    \/ \E i \in DOMAIN mailbox : mailbox[i].op = "push_user" /\ mailbox[i].item = User(p, "prompt")

CommitInv ==
    /\ committed /\ running # None => Kept(running)
    /\ \A p \in replaced : p \in Prompts /\ Kept(p)

LEMMA AppendKeeps ==
    ASSUME NEW S, NEW s \in Seq(S), NEW e \in S, NEW x
    PROVE  Contains(Append(s, e), x) <=> Contains(s, x) \/ x = e
<1>1. Len(s) \in Nat /\ Append(s, e) \in Seq(S) /\ Len(Append(s, e)) = Len(s) + 1
  BY SMT
<1>2. \A i \in 1..Len(s) : Append(s, e)[i] = s[i] /\ i \in 1..(Len(s) + 1)
  BY <1>1, SMT
<1>3. Append(s, e)[Len(s) + 1] = e /\ Len(s) + 1 \in 1..(Len(s) + 1)
  BY <1>1, SMT
<1>4. \A i \in 1..(Len(s) + 1) : i \in 1..Len(s) \/ i = Len(s) + 1
  BY <1>1, SMT
<1>5. QED
  BY <1>1, <1>2, <1>3, <1>4 DEF Contains

\* A message is kept by every step.
LEMMA KeptStays ==
    ASSUME LoopInv, MailOK, Others \/ ActorStep, NEW p \in Prompts, Kept(p)
    PROVE  Kept(p)'
<1>0. mailbox \in Seq(Messages) /\ log \in [Prompts -> Seq(Pushed \cup UserItems)] /\ DOMAIN mailbox = 1..Len(mailbox)
  BY SMT DEF MailOK
<1>1. CASE Others
  <2>1. PICK msgs \in Seq(Messages) : mailbox' = mailbox \o msgs
    BY <1>1, Posts, PostableSeq
  <2>2. log' = log
    BY <1>1, Posts
  <2>3. ASSUME NEW i \in DOMAIN mailbox PROVE i \in DOMAIN mailbox' /\ mailbox'[i] = mailbox[i]
    BY <1>0, <2>1, SMT
  <2>4. QED
    BY <2>2, <2>3 DEF Kept
<1>2. CASE ActorStep
  <2>1. mailbox # <<>> /\ mailbox' = Tail(mailbox)
    BY <1>2, ActorLogs
  <2>2. /\ Head(mailbox) \in Messages /\ Head(mailbox) = mailbox[1] /\ mailbox' \in Seq(Messages)
        /\ Len(mailbox) \in Nat /\ Len(mailbox') = Len(mailbox) - 1
        /\ \A i \in 1..Len(mailbox') : mailbox'[i] = mailbox[i + 1]
    BY <1>0, <2>1, HeadTail
  <2>3. ASSUME NEW i \in 1..Len(mailbox), i # 1 PROVE \E j \in DOMAIN mailbox' : mailbox'[j] = mailbox[i]
    <3>1. i - 1 \in 1..Len(mailbox') /\ (i - 1) + 1 = i
      BY <2>2, <2>3, SMT
    <3>2. mailbox'[i - 1] = mailbox[(i - 1) + 1]
      BY <2>2, <3>1
    <3>3. DOMAIN mailbox' = 1..Len(mailbox')
      BY <2>2, SMT
    <3>4. QED
      BY <3>1, <3>2, <3>3
  <2>4. ASSUME Contains(log[p], User(p, "prompt")) PROVE Contains(log'[p], User(p, "prompt"))
    <3>1. CASE Head(mailbox).op \in {"push", "push_user"}
      <4> DEFINE item == Head(mailbox).item
      <4>1. Logged(item) /\ item \in Pushed \cup UserItems
        BY <1>2, <2>2, <3>1, ActorLogs, MessageFacts
      <4> HIDE DEF item
      <4>2. p # item.by => log'[p] = log[p]
        BY <4>1, LoggedType
      <4>3. item.by \in Prompts /\ log'[item.by] = Append(log[item.by], item)
        BY <4>1, LoggedType
      <4>4. log[p] \in Seq(Pushed \cup UserItems)
        BY <1>0
      <4>5. p = item.by => Contains(Append(log[p], item), User(p, "prompt"))
        BY <2>4, <4>1, <4>4, AppendKeeps
      <4>6. QED
        BY <2>4, <4>2, <4>3, <4>5
    <3>2. CASE Head(mailbox).op \notin {"push", "push_user"}
      BY <1>2, <2>4, <3>2, ActorLogs
    <3>3. QED
      BY <3>1, <3>2
  <2>5. ASSUME Head(mailbox).op = "push_user", Head(mailbox).item = User(p, "prompt")
        PROVE  Contains(log'[p], User(p, "prompt"))
    <3> DEFINE item == Head(mailbox).item
    <3>1. Logged(item) /\ item \in Pushed \cup UserItems
      BY <1>2, <2>2, <2>5, ActorLogs, MessageFacts
    <3>2. item = User(p, "prompt") /\ item.by = p
      BY <2>5, ItemFacts
    <3> HIDE DEF item
    <3>3. log'[p] = Append(log[p], item) /\ log[p] \in Seq(Pushed \cup UserItems)
      BY <1>0, <3>1, <3>2, LoggedType
    <3>4. Contains(Append(log[p], item), item)
      BY <3>1, <3>3, AppendKeeps
    <3>5. QED
      BY <3>2, <3>3, <3>4
  <2>6. CASE Contains(log[p], User(p, "prompt"))
    BY <2>4, <2>6 DEF Kept
  <2>7. CASE \E i \in DOMAIN mailbox : mailbox[i].op = "push_user" /\ mailbox[i].item = User(p, "prompt")
    <3>1. PICK i \in 1..Len(mailbox) : mailbox[i].op = "push_user" /\ mailbox[i].item = User(p, "prompt")
      BY <1>0, <2>7
    <3>2. CASE i = 1
      BY <2>2, <2>5, <3>1, <3>2 DEF Kept
    <3>3. CASE i # 1
      BY <2>3, <3>1, <3>3 DEF Kept
    <3>4. QED
      BY <3>2, <3>3
  <2>8. QED
    BY <2>6, <2>7 DEF Kept
<1>3. QED
  BY <1>1, <1>2

LEMMA MaybeStartCommit ==
    ASSUME NEW queue, NEW run, NEW task1, MaybeStart(queue, run, task1), committed', running' # None
    PROVE  committed /\ running' = run
<1>1. CASE run = None /\ queue # <<>>
  BY <1>1 DEF MaybeStart
<1>2. CASE ~(run = None /\ queue # <<>>)
  BY <1>2 DEF MaybeStart
<1>3. QED
  BY <1>1, <1>2

LEMMA CommitNext ==
    ASSUME LoopInv, MailOK, CommitInv, [Next]_vars
    PROVE  CommitInv'
<1>0. running \in Prompts \cup {None}
  BY DEF LoopInv, SessionOK
<1>1. ASSUME Others \/ ActorStep, UNCHANGED replaced,
             committed' /\ running' # None => committed /\ running' = running
      PROVE  CommitInv'
  <2>1. ASSUME NEW p \in replaced' PROVE p \in Prompts /\ Kept(p)'
    <3>1. p \in Prompts /\ Kept(p)
      BY <1>1, <2>1 DEF CommitInv
    <3>2. QED
      BY <1>1, <3>1, KeptStays
  <2>2. ASSUME committed', running' # None PROVE Kept(running)'
    <3>1. PICK p \in Prompts : p = running
      BY <1>0, <1>1, <2>2
    <3>2. Kept(p)
      BY <1>1, <2>2, <3>1 DEF CommitInv
    <3>3. Kept(p)'
      BY <1>1, <3>2, KeptStays
    <3>4. running' = p
      BY <1>1, <2>2, <3>1
    <3>5. QED
      BY <3>3, <3>4 DEF Kept
  <2>3. QED
    BY <2>1, <2>2 DEF CommitInv
<1>2. CASE ActorStep
  BY <1>1, <1>2, ActorLogs
<1>3. CASE LoopStep
  <2>0. Others
    BY <1>3 DEF Others
  <2>1. CASE LoopPrompt
    <3> DEFINE entry == [p |-> Head(cmds).p, now |-> Head(cmds).now]
    <3>1. CASE SendNowCancels(entry)
      <4>1. CancelRunningTask(QueueInput(entry), TRUE) /\ replaced' = replaced \cup {running}
        BY <2>1, <3>1 DEF LoopPrompt
      <4>2. running # None /\ committed
        BY <3>1 DEF SendNowCancels
      <4>3. PICK p \in Prompts : p = running
        BY <1>0, <4>2
      <4>4. Kept(p)
        BY <4>2, <4>3 DEF CommitInv
      <4>5. ASSUME NEW q \in replaced' PROVE q \in Prompts /\ Kept(q)'
        <5>1. q \in Prompts /\ Kept(q)
          BY <4>1, <4>3, <4>4, <4>5 DEF CommitInv
        <5>2. QED
          BY <2>0, <5>1, KeptStays
      <4>6. ~(committed' /\ running' # None)
        <5>1. MaybeStart(CancelQueue(QueueInput(entry)), None, NoTurn)
          BY <4>1 DEF CancelRunningTask
        <5>2. QED
          BY <5>1, MaybeStartCommit
      <4>7. QED
        BY <4>5, <4>6 DEF CommitInv
    <3>2. CASE ~SendNowCancels(entry)
      <4>1. MaybeStart(QueueInput(entry), running, turn) /\ UNCHANGED replaced
        BY <2>1, <3>2 DEF LoopPrompt
      <4>2. QED
        BY <1>1, <2>0, <4>1, MaybeStartCommit
    <3>3. QED
      BY <3>1, <3>2
  <2>2. CASE LoopCancel
    <3>1. MaybeStart(CancelQueue(pending), None, NoTurn) /\ UNCHANGED replaced
      BY <2>2 DEF LoopCancel, CancelRunningTask, history
    <3>2. committed' /\ running' # None => committed /\ running' = running
      BY <3>1, MaybeStartCommit
    <3>3. QED
      BY <1>1, <2>0, <3>1, <3>2
  <2>3. CASE LoopCompletion
    <3> DEFINE p     == Head(completions)
               owned == pending # <<>> /\ Head(pending).p = p
               ends  == owned \/ running = p
               run   == IF ends THEN None ELSE running
    <3>1. UNCHANGED replaced /\ \E queue, task1 : MaybeStart(queue, run, task1)
      BY <2>3 DEF LoopCompletion, history
    <3>2. run = running \/ run = None
      OBVIOUS
    <3> HIDE DEF run
    <3>3. committed' /\ running' # None => committed /\ running' = running
      BY <3>1, <3>2, MaybeStartCommit
    <3>4. QED
      BY <1>1, <2>0, <3>1, <3>3
  <2>4. CASE LoopTake \/ LoopRepair
    <3>1. UNCHANGED <<replaced, committed, running>>
      BY <2>4 DEF LoopTake, LoopRepair, history
    <3>2. QED
      BY <1>1, <2>0, <3>1
  <2>5. QED
    BY <1>3, <2>1, <2>2, <2>3, <2>4 DEF LoopStep
<1>4. CASE TurnBegin
  <2>0. Others
    BY <1>4 DEF Others, TurnStep
  <2>1. /\ turn.pc = "begin" /\ UNCHANGED <<running, replaced>>
        /\ mailbox' = mailbox \o <<[op |-> "begin"], [op |-> "push_user", item |-> User(turn.p, "prompt")]>>
    BY <1>4 DEF TurnBegin, Post, At, history
  <2>2. turn.p = running /\ running \in Prompts
    BY <1>0, <2>1 DEF LoopInv, Owned
  <2>3. PICK p \in Prompts : p = running
    BY <2>2
  <2>4. Kept(p)'
    <3> DEFINE m1 == [op |-> "begin"]  m2 == [op |-> "push_user", item |-> User(p, "prompt")]
    <3>0. mailbox \in Seq(Messages) /\ Len(mailbox) \in Nat
      BY LenNat DEF MailOK
    <3>1. mailbox' = mailbox \o <<m1, m2>> /\ m2.op = "push_user" /\ m2.item = User(p, "prompt")
      BY <2>1, <2>2, <2>3
    <3>2. mailbox' \in Seq(Messages)
      BY MailNext DEF MailOK
    <3> HIDE DEF m1, m2
    <3>3. Len(mailbox) + 2 \in DOMAIN mailbox' /\ mailbox'[Len(mailbox) + 2] = m2
      BY <3>0, <3>1, <3>2, SMT
    <3>4. QED
      BY <3>1, <3>3 DEF Kept
  <2>5. ASSUME NEW q \in replaced' PROVE q \in Prompts /\ Kept(q)'
    <3>1. q \in Prompts /\ Kept(q)
      BY <2>1, <2>5 DEF CommitInv
    <3>2. QED
      BY <2>0, <3>1, KeptStays
  <2>6. Kept(running)'
    <3>1. running' = p
      BY <2>1, <2>3
    <3>2. QED
      BY <2>4, <3>1 DEF Kept
  <2>7. QED
    BY <2>5, <2>6 DEF CommitInv
<1>5. CASE ClientStep \/ RepairCheck \/ (TurnStep /\ ~TurnBegin) \/ \E p \in Prompts : Collect(p)
  <2>0. Others
    BY <1>5 DEF Others
  <2>1. CASE TurnStep /\ ~TurnBegin
    <3>1. UNCHANGED <<replaced, committed, running>>
      BY <2>1 DEF TurnStep, TurnStart, TurnCompact, TurnSample, TurnFinish, DropAborted, TurnReply,
                  TurnResult, TurnToolsDone, TurnInterject, TurnFails, TurnDispatchError, history, session
    <3>2. QED
      BY <1>1, <2>0, <3>1
  <2>2. CASE ClientStep \/ RepairCheck \/ \E p \in Prompts : Collect(p)
    <3>1. UNCHANGED <<replaced, committed, running>>
      BY <2>2 DEF ClientStep, ClientPrompt, ClientCancel, ClientRepair, ClientHead, Collect, RepairCheck,
                  history, session
    <3>2. QED
      BY <1>1, <2>0, <3>1
  <2>3. QED
    BY <1>5, <2>1, <2>2
<1>6. CASE UNCHANGED vars
  BY <1>6 DEF vars, session, history, CommitInv, Kept
<1>7. QED
  BY <1>2, <1>3, <1>4, <1>5, <1>6 DEF Next

LEMMA MailInit == Init => MailOK /\ CommitInv
<1> SUFFICES ASSUME Init PROVE MailOK /\ CommitInv
  OBVIOUS
<1>1. <<>> \in Seq(Messages) /\ <<>> \in Seq(Pushed \cup UserItems)
  BY SMT
<1>2. MailOK
  BY <1>1 DEF Init, MailOK
<1>3. CommitInv
  BY DEF Init, CommitInv
<1>4. QED
  BY <1>2, <1>3

LEMMA MailAlways == Spec => [](LoopInv /\ MailOK /\ CommitInv)
BY LoopInvInit, LoopInvNext, MailInit, MailNext, CommitNext, PTL DEF Spec

\* A prompt sent now never cancels a turn whose own message the actor has not been
\* given: it has been applied or it is in the mailbox (front_awaiting_commit,
\* send_now_cancels_running_turn).
THEOREM SendNowKeeps == Spec => []SendNowKeepsMessage
<1>1. CommitInv => SendNowKeepsMessage
  BY DEF CommitInv, SendNowKeepsMessage, Kept
<1>2. QED
  BY <1>1, MailAlways, PTL

-----------------------------------------------------------------------------
(* The conversation *)

Captures == [on : BOOLEAN, offset : Nat, pre : Seq(AllItems), compacted : BOOLEAN]
States   == [conv : Seq(AllItems), prompt : Nat, capture : Captures]

LEMMA CallsInAll ==
    ASSUME NEW c \in AllCalls \cup {<<>>}
    PROVE  c \in Seq(Nat) /\ ToSet(c) \subseteq AllIds /\ c \in Seq(ToSet(c))
<1>1. c \in Seq(Nat)
  <2>1. CASE c = <<>>
    BY <2>1, SMT
  <2>2. CASE c \in AllCalls
    <3>1. PICK p \in Prompts, k \in 1..MaxSamples : c \in CallsOf(p, k)
      BY <2>2 DEF AllCalls
    <3>2. k \in 0..MaxSamples
      BY CollectionAssumption, SMT
    <3>3. QED
      BY <3>1, <3>2, CallsFacts
  <2>3. QED
    BY <2>1, <2>2
<1>2. ToSet(c) \subseteq AllIds
  <2>1. ToSet(<<>>) = {}
    BY DEF ToSet
  <2>2. QED
    BY <2>1 DEF AllIds
<1>3. c \in Seq(ToSet(c))
  <2>1. Len(c) \in Nat /\ DOMAIN c = 1..Len(c) /\ c = [i \in 1..Len(c) |-> c[i]]
    BY <1>1, SMT
  <2>2. \A i \in 1..Len(c) : c[i] \in ToSet(c)
    BY <2>1 DEF ToSet
  <2>3. c \in [1..Len(c) -> ToSet(c)]
    BY <2>1, <2>2
  <2>4. QED
    BY <2>1, <2>3, SMT
<1>4. QED
  BY <1>1, <1>2, <1>3

Results == [kind : {"tool_result"}, calls : {<<>>}, of : AllIds, by : Prompts \cup {0},
            body : {"real", Cleared} \cup Reasons]

LEMMA AllItemsAre ==
    AllItems = {System("head"), System("new_head"), System(Reminded), User(0, "summary")} \cup UserItems
                 \cup {Assistant(p, c) : p \in Prompts, c \in AllCalls \cup {<<>>}} \cup Results
BY DEF AllItems, AllCalls, AllIds, UserItems, Results

LEMMA ItemKinds ==
    ASSUME NEW x \in AllItems
    PROVE  /\ x.calls \in AllCalls \cup {<<>>}
           /\ IsResult(x) <=> x \in Results
           /\ x.kind = "system" => x \in {System("head"), System("new_head"), System(Reminded)}
<1>1. CASE x \in {System("head"), System("new_head"), System(Reminded), User(0, "summary")}
  BY <1>1 DEF System, User, Item, IsResult, Results
<1>2. CASE x \in UserItems
  BY <1>2 DEF UserItems, User, Item, IsResult, Results
<1>3. CASE x \in {Assistant(p, c) : p \in Prompts, c \in AllCalls \cup {<<>>}}
  BY <1>3 DEF Assistant, Item, IsResult, Results
<1>4. CASE x \in Results
  BY <1>4 DEF Results, IsResult
<1>5. QED
  BY <1>1, <1>2, <1>3, <1>4, AllItemsAre

LEMMA PushedInAll ==
    /\ Pushed \cup UserItems \subseteq AllItems
    /\ System("head") \in AllItems /\ System("new_head") \in AllItems /\ System(Reminded) \in AllItems
    /\ \A id \in AllIds, reason \in Reasons : Synthetic(id, reason) \in AllItems
<1>1. \A id \in AllIds, p \in Prompts : Result(id, p) \in Results
  BY DEF Result, Item, Results
<1>2. \A id \in AllIds, reason \in Reasons : Synthetic(id, reason) \in Results
  BY DEF Synthetic, Item, Results
<1>3. Pushed \cup UserItems \subseteq AllItems
  BY <1>1, AllItemsAre DEF Pushed
<1>4. QED
  BY <1>2, <1>3, AllItemsAre

LEMMA AllAnswerable ==
    ASSUME NEW reason \in Reasons
    PROVE  Answerable(AllItems, reason)
<1> SUFFICES ASSUME NEW x \in AllItems
             PROVE  x.calls \in Seq(ToSet(x.calls)) /\ \A id \in ToSet(x.calls) : Synthetic(id, reason) \in AllItems
  BY DEF Answerable
<1>1. x.calls \in Seq(ToSet(x.calls)) /\ ToSet(x.calls) \subseteq AllIds
  BY ItemKinds, CallsInAll
<1>2. QED
  BY <1>1, PushedInAll

\* A set of items that the actor does not leave by what it adds or clears.
Stable(S) ==
    /\ S \subseteq AllItems
    /\ {System("head"), System("new_head"), System(Reminded), User(0, "summary")} \cup UserItems \subseteq S
    /\ \A x \in S : IsResult(x) => [x EXCEPT !.body = Cleared] \in S

LEMMA ClearedIs ==
    ASSUME NEW x \in AllItems, IsResult(x), NEW y, y = [x EXCEPT !.body = Cleared]
    PROVE  y \in AllItems /\ y.of = x.of /\ y.calls = x.calls /\ y.body = Cleared
<1>1. x \in Results
  BY ItemKinds
<1>2. y \in Results /\ y.of = x.of /\ y.calls = x.calls /\ y.body = Cleared
  BY <1>1 DEF Results
<1>3. QED
  BY <1>2, AllItemsAre

LEMMA AllStable == Stable(AllItems)
BY AllItemsAre, ClearedIs DEF Stable

\* The retained prune clears bodies of results: nothing else.
LEMMA PruneType ==
    ASSUME NEW S, Stable(S), NEW conv \in Seq(S), NEW n, NEW age
    PROVE  PruneRetained(conv, n, age) \in Seq(S) /\ Len(PruneRetained(conv, n, age)) = Len(conv)
<1> DEFINE old(i) == IsResult(conv[i]) /\ TurnFromEnd(conv, i) >= ClearAge(conv, n, age)
           pruned == [i \in DOMAIN conv |-> IF old(i) THEN [conv[i] EXCEPT !.body = Cleared] ELSE conv[i]]
<1>1. PruneRetained(conv, n, age) = conv \/ PruneRetained(conv, n, age) = pruned
  BY DEF PruneRetained
<1>2. Len(conv) \in Nat /\ DOMAIN conv = 1..Len(conv) /\ \A i \in 1..Len(conv) : conv[i] \in S
  BY SMT
<1>3. ASSUME NEW i \in 1..Len(conv) PROVE (IF old(i) THEN [conv[i] EXCEPT !.body = Cleared] ELSE conv[i]) \in S
  BY <1>2 DEF Stable
<1> HIDE DEF old
<1>4. pruned \in [1..Len(conv) -> S]
  BY <1>2, <1>3
<1>5. pruned \in Seq(S) /\ Len(pruned) = Len(conv)
  BY <1>2, <1>4, SMT
<1>6. QED
  BY <1>1, <1>5

LEMMA SystemHeadType ==
    ASSUME NEW S, Stable(S), NEW conv \in Seq(S), NEW prompt \in {"new_head", Reminded}
    PROVE  SystemHead(conv, prompt) \in Seq(S)
<1>0. <<System(prompt)>> \in Seq(S)
  <2>1. System(prompt) \in S
    BY DEF Stable
  <2>2. QED
    BY <2>1, SMT
<1>1. CASE conv # <<>> /\ conv[1].kind = "system"
  <2>1. conv[1] \in AllItems /\ Tail(conv) \in Seq(S)
    BY <1>1, HeadTail DEF Stable
  <2>2. [conv[1] EXCEPT !.body = prompt] = System(prompt)
    BY <1>1, <2>1, ItemKinds DEF System, Item
  <2>3. QED
    BY <1>0, <1>1, <2>1, <2>2, ConcatFacts DEF SystemHead
<1>2. CASE ~(conv # <<>> /\ conv[1].kind = "system")
  BY <1>0, <1>2, ConcatFacts DEF SystemHead
<1>3. QED
  BY <1>1, <1>2

LEMMA CompactedType ==
    ASSUME NEW S, Stable(S)
    PROVE  Compacted \in Seq(S)
<1>1. System("head") \in S /\ User(0, "summary") \in S
  BY DEF Stable
<1>2. \A x, y \in S : <<x, y>> \in Seq(S)
  BY SMT
<1>3. QED
  BY <1>1, <1>2 DEF Compacted

-----------------------------------------------------------------------------
(* The actor's handlers *)

\* u is s with another conversation, prompt index and captured part.
Becoming(s, u, conv, prompt, on, offset, pre) ==
    /\ u \in States
    /\ u.conv = conv /\ u.prompt = prompt
    /\ u.capture.on <=> on
    /\ u.capture.offset = offset /\ u.capture.pre = pre

\* The tail of a sequence of items is one.
LEMMA TailIsSeq ==
    ASSUME NEW S, NEW s \in Seq(S), NEW n \in Nat
    PROVE  TurnTail(s, n) \in Seq(S)
<1>1. Len(s) \in Nat /\ \A i \in (n + 1)..Len(s) : s[i] \in S
  BY SMT
<1>2. QED
  BY <1>1, SubSeqProperties DEF TurnTail

\* The tails of a conversation.
LEMMA TailItems ==
    ASSUME NEW S, NEW s \in Seq(S), NEW n \in Nat, n <= Len(s)
    PROVE  /\ TurnTail(s, n) \in Seq(S) /\ Len(TurnTail(s, n)) = Len(s) - n
           /\ \A i \in 1..(Len(s) - n) : TurnTail(s, n)[i] = s[n + i]
<1>1. Len(s) \in Nat
  BY LenNat
<1>2. n + 1 \in 1..(Len(s) + 1) /\ Len(s) \in 0..Len(s) /\ n + 1 <= Len(s) + 1
  BY <1>1, SMT
<1>3. PICK a \in 1..(Len(s) + 1), b \in 0..Len(s) : a = n + 1 /\ b = Len(s) /\ a <= b + 1
  BY <1>2
<1>4. /\ SubSeq(s, a, b) \in Seq(S) /\ Len(SubSeq(s, a, b)) = b - a + 1
      /\ \A i \in 1..(b - a + 1) : SubSeq(s, a, b)[i] = s[a + i - 1]
  BY <1>3, PieceFacts
<1>5. PICK t : t = SubSeq(s, a, b)
  OBVIOUS
<1>6. TurnTail(s, n) = t
  BY <1>3, <1>5 DEF TurnTail
<1>7. t \in Seq(S) /\ Len(t) = Len(s) - n /\ \A i \in 1..(Len(s) - n) : t[i] = s[n + i]
  BY <1>1, <1>3, <1>4, <1>5, SMT
<1>8. QED
  BY <1>6, <1>7

LEMMA NothingBehind ==
    ASSUME NEW S, NEW s \in Seq(S)
    PROVE  TurnTail(s, Len(s)) = <<>>
<1>1. PICK n \in Nat : n = Len(s)
  BY LenNat
<1>2. TurnTail(s, n) \in Seq(S) /\ Len(TurnTail(s, n)) = Len(s) - n
  BY <1>1, TailItems
<1>3. PICK t \in Seq(S) : t = TurnTail(s, n)
  BY <1>2
<1>4. Len(t) = 0
  BY <1>1, <1>2, <1>3, SMT
<1>5. t = <<>>
  BY <1>4, SMT
<1>6. QED
  BY <1>1, <1>3, <1>5

LEMMA ConvUpdate ==
    ASSUME NEW s \in States, NEW c \in Seq(AllItems), NEW u, u = [s EXCEPT !.conv = c]
    PROVE  Becoming(s, u, c, s.prompt, s.capture.on, s.capture.offset, s.capture.pre)
BY DEF States, Captures, Becoming

LEMMA CaptureUpdate ==
    ASSUME NEW s \in States, NEW c \in Captures, NEW u, u = [s EXCEPT !.capture = c]
    PROVE  Becoming(s, u, s.conv, s.prompt, c.on, c.offset, c.pre)
BY DEF States, Captures, Becoming

\* snapshot_turn_slice and rebase_turn_capture_offset.
LEMMA RewrittenFacts ==
    ASSUME NEW s \in States, NEW c \in Seq(AllItems)
    PROVE  /\ s.capture.on => Becoming(s, Rewritten(s, c), c, s.prompt, TRUE, Len(c),
                                       s.capture.pre \o TurnTail(s.conv, s.capture.offset))
           /\ ~s.capture.on => Becoming(s, Rewritten(s, c), c, s.prompt, FALSE, s.capture.offset, s.capture.pre)
<1>1. ASSUME ~s.capture.on
      PROVE  Becoming(s, Rewritten(s, c), c, s.prompt, FALSE, s.capture.offset, s.capture.pre)
  <2>1. Rewritten(s, c) = [s EXCEPT !.conv = c]
    BY <1>1, Zenon DEF Rewritten
  <2>2. Becoming(s, Rewritten(s, c), c, s.prompt, s.capture.on, s.capture.offset, s.capture.pre)
    BY <2>1, ConvUpdate
  <2>3. QED
    BY <1>1, <2>2 DEF Becoming
<1>2. ASSUME s.capture.on
      PROVE  Becoming(s, Rewritten(s, c), c, s.prompt, TRUE, Len(c),
                      s.capture.pre \o TurnTail(s.conv, s.capture.offset))
  <2> DEFINE pre == s.capture.pre \o TurnTail(s.conv, s.capture.offset)
             v == [s EXCEPT !.conv = c]
             w == [v EXCEPT !.capture.pre = pre]
             u == [w EXCEPT !.capture.offset = Len(c)]
  <2>1. s.capture \in Captures /\ s.conv \in Seq(AllItems) /\ s.capture.offset \in Nat /\ s.capture.pre \in Seq(AllItems)
    BY DEF States, Captures
  <2>2. pre \in Seq(AllItems) /\ Len(c) \in Nat
    BY <2>1, TailIsSeq, ConcatFacts, LenNat
  <2>3. v \in States /\ v.conv = c /\ v.prompt = s.prompt /\ v.capture = s.capture
    BY DEF States
  <2>4. Rewritten(s, c) = u
    BY <1>2, Zenon DEF Rewritten
  <2> HIDE DEF pre, v
  <2>5. w = [v EXCEPT !.capture = [s.capture EXCEPT !.pre = pre]]
    BY <2>3
  <2>6. [s.capture EXCEPT !.pre = pre] \in Captures
    BY <2>1, <2>2 DEF Captures
  <2>7. w \in States /\ w.conv = c /\ w.prompt = s.prompt /\ w.capture = [s.capture EXCEPT !.pre = pre]
    BY <2>3, <2>5, <2>6 DEF States
  <2> HIDE DEF w
  <2>8. w.capture.on <=> s.capture.on
    BY <2>1, <2>7 DEF Captures
  <2>9. w.capture.pre = pre /\ w.capture \in Captures
    BY <2>1, <2>6, <2>7 DEF Captures
  <2>10. u = [w EXCEPT !.capture = [w.capture EXCEPT !.offset = Len(c)]]
    BY <2>7
  <2>11. [w.capture EXCEPT !.offset = Len(c)] \in Captures
    BY <2>2, <2>9 DEF Captures
  <2>12. u \in States /\ u.conv = c /\ u.prompt = s.prompt /\ u.capture = [w.capture EXCEPT !.offset = Len(c)]
    BY <2>7, <2>10, <2>11 DEF States
  <2> HIDE DEF u
  <2>13. (u.capture.on <=> w.capture.on) /\ u.capture.pre = w.capture.pre /\ u.capture.offset = Len(c)
    BY <2>9, <2>12 DEF Captures
  <2>14. QED
    BY <1>2, <2>4, <2>8, <2>9, <2>12, <2>13 DEF Becoming, pre
<1>3. QED
  BY <1>1, <1>2

\* A rewrite of the conversation, as the capture sees it.
Rebased(s, u, len) ==
    /\ u \in States /\ u.prompt = s.prompt
    /\ u.capture.on <=> s.capture.on
    /\ s.capture.on => /\ u.capture.offset = len
                       /\ u.capture.pre = s.capture.pre \o TurnTail(s.conv, s.capture.offset)
    /\ ~s.capture.on => u.capture.offset = s.capture.offset /\ u.capture.pre = s.capture.pre

LEMMA RewrittenRebases ==
    ASSUME NEW s \in States, NEW c \in Seq(AllItems)
    PROVE  Rebased(s, Rewritten(s, c), Len(c)) /\ Rewritten(s, c).conv = c
<1>1. PICK u : u = Rewritten(s, c)
  OBVIOUS
<1>2. PICK n : n = Len(c)
  OBVIOUS
<1>3. PICK pre : pre = s.capture.pre \o TurnTail(s.conv, s.capture.offset)
  OBVIOUS
<1>4. /\ s.capture.on => Becoming(s, u, c, s.prompt, TRUE, n, pre)
      /\ ~s.capture.on => Becoming(s, u, c, s.prompt, FALSE, s.capture.offset, s.capture.pre)
  BY <1>1, <1>2, <1>3, RewrittenFacts, Zenon
<1>5. CASE s.capture.on
  <2>1. Becoming(s, u, c, s.prompt, TRUE, n, pre)
    BY <1>4, <1>5, Zenon
  <2>2. QED
    BY <1>1, <1>2, <1>3, <1>5, <2>1, Zenon DEF Becoming, Rebased
<1>6. CASE ~s.capture.on
  <2>1. Becoming(s, u, c, s.prompt, FALSE, s.capture.offset, s.capture.pre)
    BY <1>4, <1>6, Zenon
  <2>2. QED
    BY <1>1, <1>2, <1>3, <1>6, <2>1, Zenon DEF Becoming, Rebased
<1>7. QED
  BY <1>5, <1>6

LEMMA IndexHandler ==
    ASSUME NEW s \in States
    PROVE  Becoming(s, IncrementPromptIndex(s).st, s.conv, s.prompt + 1, s.capture.on, s.capture.offset, s.capture.pre)
<1>1. IncrementPromptIndex(s).st = [s EXCEPT !.prompt = s.prompt + 1]
  BY DEF IncrementPromptIndex, Effect
<1>2. [s EXCEPT !.prompt = s.prompt + 1] \in States
  BY DEF States
<1>3. QED
  BY <1>1, <1>2 DEF Becoming, States, Captures

LEMMA BeginHandler ==
    ASSUME NEW s \in States
    PROVE  Becoming(s, BeginTurnCapture(s).st, s.conv, s.prompt, TRUE, Len(s.conv), <<>>)
<1>1. BeginTurnCapture(s).st = [s EXCEPT !.capture = NewCapture(s.conv)]
  BY DEF BeginTurnCapture, Effect
<1>2. s.conv \in Seq(AllItems) /\ Len(s.conv) \in Nat /\ <<>> \in Seq(AllItems)
  BY LenNat DEF States
<1>3. NewCapture(s.conv) \in Captures
  BY <1>2 DEF NewCapture, Captures
<1>4. /\ NewCapture(s.conv).on <=> TRUE
      /\ NewCapture(s.conv).offset = Len(s.conv) /\ NewCapture(s.conv).pre = <<>>
  BY DEF NewCapture
<1>5. QED
  BY <1>1, <1>3, <1>4, CaptureUpdate DEF Becoming

LEMMA TakeHandler ==
    ASSUME NEW s \in States
    PROVE  Becoming(s, TakeTurnMessages(s).st, s.conv, s.prompt, FALSE, 0, <<>>)
<1>1. TakeTurnMessages(s).st = [s EXCEPT !.capture = NoCapture]
  BY DEF TakeTurnMessages, Effect
<1>2. <<>> \in Seq(AllItems)
  BY SMT
<1>3. NoCapture \in Captures
  BY <1>2 DEF NoCapture, Captures
<1>4. /\ NoCapture.on <=> FALSE
      /\ NoCapture.offset = 0 /\ NoCapture.pre = <<>>
  BY DEF NoCapture
<1>5. QED
  BY <1>1, <1>3, <1>4, CaptureUpdate DEF Becoming

LEMMA PushHandler ==
    ASSUME NEW s \in States, NEW item \in AllItems
    PROVE  /\ Append(s.conv, item) \in Seq(AllItems)
           /\ Becoming(s, PushMessage(s, item).st, Append(s.conv, item), s.prompt, s.capture.on, s.capture.offset, s.capture.pre)
<1>1. PushMessage(s, item).st = [s EXCEPT !.conv = Append(s.conv, item)]
  BY DEF PushMessage, Effect
<1>2. s.conv \in Seq(AllItems)
  BY DEF States
<1>3. Append(s.conv, item) \in Seq(AllItems)
  BY <1>2, AppendFacts
<1>4. QED
  BY <1>1, <1>3, ConvUpdate

LEMMA IntegrityHandler ==
    ASSUME NEW s \in States, NEW reason \in Reasons
    PROVE  /\ Integrity(s.conv, reason) \in Seq(AllItems)
           /\ EnsureIntegrity(s, reason).st = Rewritten(s, Integrity(s.conv, reason))
           /\ Rebased(s, EnsureIntegrity(s, reason).st, Len(Integrity(s.conv, reason)))
           /\ EnsureIntegrity(s, reason).st.conv = Integrity(s.conv, reason)
<1>1. EnsureIntegrity(s, reason).st = Rewritten(s, Integrity(s.conv, reason))
  BY DEF EnsureIntegrity, Effect
<1>2. s.conv \in Seq(AllItems) /\ Answerable(AllItems, reason)
  BY AllAnswerable DEF States
<1>3. Integrity(s.conv, reason) \in Seq(AllItems)
  BY <1>2, IntegrityType
<1>4. QED
  BY <1>1, <1>3, RewrittenRebases

\* repair, push, prune: the offset is in front of the pushed message.
LEMMA PushUserHandler ==
    ASSUME NEW s \in States, NEW item \in AllItems
    PROVE  \E c \in Seq(AllItems) :
              /\ c # <<>> /\ PushUserMessage(s, item, "cancelled").st.conv = c
              /\ c = PruneRetained(Append(Integrity(s.conv, "cancelled"), item), s.prompt, HardClearAge)
              /\ Len(c) - 1 = Len(Integrity(s.conv, "cancelled"))
              /\ Rebased(s, PushUserMessage(s, item, "cancelled").st, Len(c) - 1)
<1> DEFINE r == EnsureIntegrity(s, "cancelled").st
           q == PushMessage(r, item).st
           c == PruneRetained(q.conv, q.prompt, HardClearAge)
           u == PushUserMessage(s, item, "cancelled").st
<1>1. u = [q EXCEPT !.conv = c]
  BY DEF PushUserMessage, Prune, Effect
<1>2. r \in States /\ r.conv \in Seq(AllItems) /\ r.conv = Integrity(s.conv, "cancelled") /\ Rebased(s, r, Len(r.conv))
  <2>1. "cancelled" \in Reasons
    BY DEF Reasons
  <2>2. /\ Integrity(s.conv, "cancelled") \in Seq(AllItems) /\ r.conv = Integrity(s.conv, "cancelled")
        /\ Rebased(s, r, Len(Integrity(s.conv, "cancelled")))
    BY <2>1, IntegrityHandler, Zenon
  <2>3. Rebased(s, r, Len(r.conv)) /\ r.conv \in Seq(AllItems)
    BY <2>2, Zenon
  <2>4. r \in States
    BY <2>3, Zenon DEF Rebased
  <2>5. QED
    BY <2>2, <2>3, <2>4, Zenon
<1> HIDE DEF r
<1>3. /\ Append(r.conv, item) \in Seq(AllItems)
      /\ Becoming(r, q, Append(r.conv, item), r.prompt, r.capture.on, r.capture.offset, r.capture.pre)
  BY <1>2, PushHandler
<1> HIDE DEF q
<1>4. /\ q \in States /\ q.conv = Append(r.conv, item) /\ q.prompt = r.prompt
      /\ (q.capture.on <=> r.capture.on) /\ q.capture.offset = r.capture.offset /\ q.capture.pre = r.capture.pre
  BY <1>3 DEF Becoming
<1>5. c \in Seq(AllItems) /\ Len(c) = Len(q.conv)
  <2>1. q.conv \in Seq(AllItems)
    BY <1>3, <1>4
  <2>2. QED
    BY <2>1, PruneType, AllStable
<1>6. c = PruneRetained(Append(Integrity(s.conv, "cancelled"), item), s.prompt, HardClearAge)
  BY <1>2, <1>4 DEF Rebased
<1> HIDE DEF c
<1>7. Becoming(q, u, c, q.prompt, q.capture.on, q.capture.offset, q.capture.pre)
  BY <1>1, <1>4, <1>5, ConvUpdate
<1>8. /\ u \in States /\ u.conv = c /\ u.prompt = q.prompt
      /\ (u.capture.on <=> q.capture.on) /\ u.capture.offset = q.capture.offset /\ u.capture.pre = q.capture.pre
  BY <1>7 DEF Becoming
<1> HIDE DEF u
<1>9. Len(c) - 1 = Len(r.conv) /\ c # <<>>
  <2>1. Len(r.conv) \in Nat /\ Len(c) = Len(r.conv) + 1
    BY <1>2, <1>4, <1>5, AppendFacts, LenNat
  <2>2. QED
    BY <1>5, <2>1, SMT
<1>10. Rebased(s, u, Len(c) - 1)
  BY <1>2, <1>4, <1>8, <1>9 DEF Rebased
<1>11. QED
  BY <1>2, <1>5, <1>6, <1>8, <1>9, <1>10 DEF u

LEMMA ReplaceHandler ==
    ASSUME NEW s \in States, NEW c \in Seq(AllItems), NEW isCompaction \in BOOLEAN
    PROVE  Rebased(s, ReplaceConversation(s, c, isCompaction).st, Len(c)) /\ ReplaceConversation(s, c, isCompaction).st.conv = c
<1> DEFINE r == Rewritten(s, c)
           flag == r.capture.compacted \/ (isCompaction /\ s.capture.on)
           u == ReplaceConversation(s, c, isCompaction).st
<1>1. u = [r EXCEPT !.capture.compacted = flag]
  BY DEF ReplaceConversation, Effect
<1>2. Rebased(s, r, Len(c)) /\ r.conv = c
  BY RewrittenRebases
<1> HIDE DEF r
<1>3. r \in States /\ r.capture \in Captures
  BY <1>2 DEF Rebased, States
<1>4. flag \in BOOLEAN
  OBVIOUS
<1> HIDE DEF flag
<1>5. [r.capture EXCEPT !.compacted = flag] \in Captures
  BY <1>3, <1>4 DEF Captures
<1>6. u = [r EXCEPT !.capture = [r.capture EXCEPT !.compacted = flag]]
  BY <1>1, <1>3 DEF States
<1>7. u \in States /\ u.conv = r.conv /\ u.prompt = r.prompt /\ u.capture = [r.capture EXCEPT !.compacted = flag]
  BY <1>3, <1>5, <1>6 DEF States
<1> HIDE DEF u
<1>8. (u.capture.on <=> r.capture.on) /\ u.capture.pre = r.capture.pre /\ u.capture.offset = r.capture.offset
  BY <1>3, <1>7 DEF Captures
<1>9. Rebased(s, u, Len(c)) /\ u.conv = c
  BY <1>2, <1>7, <1>8 DEF Rebased
<1>10. QED
  BY <1>9 DEF u

LEMMA HeadHandler ==
    ASSUME NEW s \in States
    PROVE  \/ ReplaceSystemHead(s, "new_head").st = s
           \/ /\ Rebased(s, ReplaceSystemHead(s, "new_head").st, Len(SystemHead(s.conv, "new_head")))
              /\ ReplaceSystemHead(s, "new_head").st.conv = SystemHead(s.conv, "new_head")
              /\ SystemHead(s.conv, "new_head") \in Seq(AllItems)
<1> DEFINE same == s.conv # <<>> /\ s.conv[1].kind = "system" /\ s.conv[1].body = "new_head"
<1>1. CASE same
  BY <1>1 DEF ReplaceSystemHead, Effect
<1>2. CASE ~same
  <2>1. ReplaceSystemHead(s, "new_head") = ReplaceConversation(s, SystemHead(s.conv, "new_head"), FALSE)
    BY <1>2 DEF ReplaceSystemHead
  <2>2. SystemHead(s.conv, "new_head") \in Seq(AllItems)
    BY SystemHeadType, AllStable DEF States
  <2>3. QED
    BY <2>1, <2>2, ReplaceHandler
<1>3. QED
  BY <1>1, <1>2

\* Two rewrites in a row are one to the capture: the first leaves nothing behind its offset.
LEMMA RebasedTwice ==
    ASSUME NEW s \in States, NEW r, NEW u, Rebased(s, r, Len(r.conv)), Rebased(r, u, Len(u.conv))
    PROVE  Rebased(s, u, Len(u.conv))
<1>1. r \in States /\ r.conv \in Seq(AllItems) /\ s.capture.offset \in Nat
      /\ s.capture.pre \in Seq(AllItems) /\ s.conv \in Seq(AllItems)
  BY DEF Rebased, States, Captures
<1>2. PICK pre \in Seq(AllItems) : pre = s.capture.pre \o TurnTail(s.conv, s.capture.offset)
  <2>1. TurnTail(s.conv, s.capture.offset) \in Seq(AllItems)
    BY <1>1, TailIsSeq
  <2>2. QED
    BY <1>1, <2>1, ConcatFacts
<1>3. TurnTail(r.conv, Len(r.conv)) = <<>>
  BY <1>1, NothingBehind
<1>4. pre \o <<>> = pre
  BY SMT
<1>5. CASE s.capture.on
  <2>1. r.capture.on /\ r.capture.offset = Len(r.conv) /\ r.capture.pre = pre
    BY <1>2, <1>5 DEF Rebased
  <2>2. u.capture.on /\ u.capture.offset = Len(u.conv) /\ u.capture.pre = pre
    BY <1>3, <1>4, <2>1 DEF Rebased
  <2>3. QED
    BY <1>2, <1>5, <2>2 DEF Rebased
<1>6. CASE ~s.capture.on
  BY <1>6 DEF Rebased
<1>7. QED
  BY <1>5, <1>6

\* The conversation a request is built from: repaired, and with the reminder when it is given.
Requested(conv) ==
    {Integrity(conv, "cancelled"), SystemHead(Integrity(conv, "cancelled"), Reminded)}

LEMMA BuildHandler ==
    ASSUME NEW s \in States, NEW reminder \in BOOLEAN, NEW u, u = BuildRequest(s, reminder).st
    PROVE  u.conv \in Seq(AllItems) /\ u.conv \in Requested(s.conv) /\ Rebased(s, u, Len(u.conv))
<1>1. PICK c \in Seq(AllItems) : c = Integrity(s.conv, "cancelled")
  BY IntegrityHandler DEF Reasons
<1>2. PICK r : r = EnsureIntegrity(s, "cancelled").st
  OBVIOUS
<1>3. r \in States /\ r.conv = c /\ Rebased(s, r, Len(r.conv))
  <2>1. "cancelled" \in Reasons
    BY DEF Reasons
  <2>2. r.conv = c /\ Rebased(s, r, Len(c))
    BY <1>1, <1>2, <2>1, IntegrityHandler, Zenon
  <2>3. QED
    BY <2>2, Zenon DEF Rebased
<1>4. CASE reminder = FALSE
  <2>1. u = r
    BY <1>2, <1>4 DEF BuildRequest
  <2>2. QED
    BY <1>1, <1>3, <2>1 DEF Requested
<1>5. CASE reminder = TRUE
  <2>1. PICK d \in Seq(AllItems) : d = SystemHead(c, Reminded)
    BY SystemHeadType, AllStable
  <2>2. u = Rewritten(r, SystemHead(r.conv, Reminded))
    BY <1>2, <1>5 DEF BuildRequest, InjectReminder, Effect
  <2>3. u = Rewritten(r, d)
    BY <1>3, <2>1, <2>2
  <2>4. u.conv = d /\ Rebased(r, u, Len(d))
    BY <1>3, <2>1, <2>3, RewrittenRebases
  <2>5. Rebased(s, u, Len(u.conv))
    BY <1>3, <2>4, RebasedTwice
  <2>6. QED
    BY <1>1, <2>1, <2>4, <2>5 DEF Requested
<1>6. QED
  BY <1>4, <1>5

LEMMA RepairHandler ==
    ASSUME NEW s \in States
    PROVE  \/ DoRepairHistory(s).st = s
           \/ /\ DoRepairHistory(s).st \in States
              /\ DoRepairHistory(s).st.conv = RepairHistory(s.conv)
              /\ DoRepairHistory(s).st.prompt = s.prompt
              /\ DoRepairHistory(s).st.capture.on => DoRepairHistory(s).st.capture.offset = Len(RepairHistory(s.conv))
<1> DEFINE c == RepairHistory(s.conv)
           t == [s EXCEPT !.conv = <<>>]
           u == DoRepairHistory(s).st
<1>1. CASE c = s.conv
  BY <1>1 DEF DoRepairHistory, Effect
<1>2. CASE c # s.conv
  <2>1. u = ReplaceConversation(t, c, FALSE).st
    BY <1>2 DEF DoRepairHistory
  <2>2. c \in Seq(AllItems)
    BY RepairHistoryType, AllAnswerable DEF States, Reasons
  <2>3. t \in States /\ t.prompt = s.prompt
    <3>1. <<>> \in Seq(AllItems)
      BY SMT
    <3>2. QED
      BY <3>1 DEF States
  <2> HIDE DEF c, t
  <2>4. Rebased(t, u, Len(c)) /\ u.conv = c
    BY <2>1, <2>2, <2>3, ReplaceHandler
  <2> HIDE DEF u
  <2>5. u \in States /\ u.prompt = s.prompt /\ (u.capture.on => u.capture.offset = Len(c))
    BY <2>3, <2>4 DEF Rebased
  <2>6. QED
    BY <2>4, <2>5 DEF u, c
<1>3. QED
  BY <1>1, <1>2

-----------------------------------------------------------------------------
(* The actor's state *)

StateOK == st \in States /\ (st.capture.on => st.capture.offset <= Len(st.conv))

LEMMA RebasedOK ==
    ASSUME NEW s \in States, NEW u, NEW n \in Nat, Rebased(s, u, n), n <= Len(u.conv),
           s.capture.on => s.capture.offset <= Len(s.conv)
    PROVE  u \in States /\ (u.capture.on => u.capture.offset <= Len(u.conv))
BY DEF Rebased

\* The item the actor is to push is one of the items.
LEMMA PushedItem ==
    ASSUME MailOK, mailbox # <<>>, Head(mailbox).op \in {"push", "push_user"}
    PROVE  Head(mailbox).item \in AllItems
<1>1. Head(mailbox) \in Messages
  BY HeadTail DEF MailOK
<1>2. QED
  BY <1>1, MessageFacts, PushedInAll

LEMMA StateInit == Init => StateOK
<1> SUFFICES ASSUME Init PROVE StateOK
  OBVIOUS
<1> DEFINE c0 == <<System("head")>>
           c == Integrity(c0, "cancelled")
<1>1. st = [conv |-> c, prompt |-> 0, capture |-> NoCapture]
  BY DEF Init, NewState, State
<1>2. c0 \in Seq(AllItems) /\ <<>> \in Seq(AllItems)
  BY PushedInAll, SMT
<1> HIDE DEF c0
<1>3. c \in Seq(AllItems)
  BY <1>2, IntegrityType, AllAnswerable DEF Reasons
<1> HIDE DEF c
<1>4. NoCapture \in Captures /\ ~NoCapture.on
  BY <1>2 DEF NoCapture, Captures
<1>5. st \in States /\ st.capture = NoCapture
  BY <1>1, <1>3, <1>4 DEF States
<1>6. QED
  BY <1>4, <1>5 DEF StateOK

\* The state the actor's next step leaves, by the message it takes.
LEMMA StateActor ==
    ASSUME StateOK, MailOK, ActorStep
    PROVE  StateOK'
<1>0. /\ st \in States /\ (st.capture.on => st.capture.offset <= Len(st.conv))
      /\ st.conv \in Seq(AllItems) /\ Len(st.conv) \in Nat /\ st.capture.offset \in Nat /\ st.capture.on \in BOOLEAN
  BY LenNat DEF StateOK, States, Captures
<1>1. CASE ActorIndex
  <2>1. st' = IncrementPromptIndex(st).st
    BY <1>1 DEF ActorIndex
  <2>2. QED
    BY <1>0, <2>1, IndexHandler DEF Becoming, StateOK
<1>2. CASE ActorBegin
  <2>1. st' = BeginTurnCapture(st).st
    BY <1>2 DEF ActorBegin
  <2>2. st' \in States /\ st'.conv = st.conv /\ st'.capture.offset = Len(st.conv)
    BY <1>0, <2>1, BeginHandler DEF Becoming
  <2>3. QED
    BY <1>0, <2>2 DEF StateOK
<1>3. CASE ActorPush
  <2>1. st' = PushMessage(st, Head(mailbox).item).st /\ Head(mailbox).item \in AllItems
    BY <1>3, PushedItem DEF ActorPush, Handle
  <2>2. /\ st' \in States /\ st'.conv = Append(st.conv, Head(mailbox).item)
        /\ (st'.capture.on <=> st.capture.on) /\ st'.capture.offset = st.capture.offset
    BY <1>0, <2>1, PushHandler DEF Becoming
  <2>3. Len(st'.conv) = Len(st.conv) + 1
    BY <1>0, <2>1, <2>2, AppendFacts
  <2>4. QED
    BY <1>0, <2>2, <2>3 DEF StateOK
<1>4. CASE ActorPushUser
  <2>1. st' = PushUserMessage(st, Head(mailbox).item, "cancelled").st /\ Head(mailbox).item \in AllItems
    BY <1>4, PushedItem DEF ActorPushUser, Handle
  <2>2. PICK c \in Seq(AllItems) : c # <<>> /\ st'.conv = c /\ Rebased(st, st', Len(c) - 1)
    BY <1>0, <2>1, PushUserHandler
  <2>3. Len(c) - 1 \in Nat /\ Len(c) - 1 <= Len(c)
    BY <2>2, SMT
  <2>4. QED
    BY <1>0, <2>2, <2>3, RebasedOK DEF StateOK
<1>5. CASE ActorBuild
  <2>1. PICK reminder \in BOOLEAN : st' = BuildRequest(st, reminder).st
    BY <1>5 DEF ActorBuild
  <2>2. PICK c \in Seq(AllItems) : st'.conv = c /\ Rebased(st, st', Len(c))
    BY <1>0, <2>1, BuildHandler
  <2>3. Len(c) \in Nat /\ Len(c) <= Len(c)
    BY SMT
  <2>4. QED
    BY <1>0, <2>2, <2>3, RebasedOK DEF StateOK
<1>6. CASE ActorCompact
  <2>1. st' = ReplaceConversation(st, Compacted, TRUE).st
    BY <1>6 DEF ActorCompact
  <2>2. st'.conv = Compacted /\ Rebased(st, st', Len(Compacted)) /\ Compacted \in Seq(AllItems)
    BY <1>0, <2>1, ReplaceHandler, CompactedType, AllStable
  <2>3. Len(Compacted) \in Nat /\ Len(Compacted) <= Len(Compacted)
    BY <2>2, SMT
  <2>4. QED
    BY <1>0, <2>2, <2>3, RebasedOK DEF StateOK
<1>7. CASE ActorHead
  <2>1. st' = ReplaceSystemHead(st, "new_head").st
    BY <1>7 DEF ActorHead
  <2>2. st' = st \/ \E c \in Seq(AllItems) : st'.conv = c /\ Rebased(st, st', Len(c))
    BY <1>0, <2>1, HeadHandler
  <2>3. CASE st' = st
    BY <1>0, <2>3 DEF StateOK
  <2>4. CASE st' # st
    <3>1. PICK c \in Seq(AllItems) : st'.conv = c /\ Rebased(st, st', Len(c))
      BY <2>2, <2>4
    <3>2. Len(c) \in Nat /\ Len(c) <= Len(c)
      BY SMT
    <3>3. QED
      BY <1>0, <3>1, <3>2, RebasedOK DEF StateOK
  <2>5. QED
    BY <2>3, <2>4
<1>8. CASE ActorRepair
  <2>1. st' = st \/ st' = DoRepairHistory(st).st
    BY <1>8 DEF ActorRepair
  <2>2. st' = st \/ (st' \in States /\ (st'.capture.on => st'.capture.offset = Len(st'.conv)))
    BY <1>0, <2>1, RepairHandler
  <2>3. st' \in States => Len(st'.conv) \in Nat
    BY LenNat DEF States
  <2>4. QED
    BY <1>0, <2>2, <2>3 DEF StateOK
<1>9. CASE ActorTake
  <2>1. st' = TakeTurnMessages(st).st
    BY <1>9 DEF ActorTake
  <2>2. QED
    BY <1>0, <2>1, TakeHandler DEF Becoming, StateOK
<1>10. QED
  BY <1>1, <1>2, <1>3, <1>4, <1>5, <1>6, <1>7, <1>8, <1>9 DEF ActorStep

LEMMA StateNext ==
    ASSUME LoopInv, MailOK, StateOK, [Next]_vars
    PROVE  StateOK'
<1>1. CASE Others
  BY <1>1, Posts DEF StateOK
<1>2. CASE ActorStep
  BY <1>2, StateActor
<1>3. CASE UNCHANGED vars
  BY <1>3 DEF vars, StateOK
<1>4. QED
  BY <1>1, <1>2, <1>3 DEF Next, Others

-----------------------------------------------------------------------------
(* The turn is cut out of the conversation *)

\* Nobody asks for a repair, in any scenario.
NoRepairs == \A ops \in Scenarios : "repair" \notin ops

\* Then no repair is under way.
Quiet ==
    /\ "repair" \notin left
    /\ \A i \in 1..Len(cmds) : cmds[i].op # "repair"
    /\ repairer # "check"
    /\ \A i \in 1..Len(mailbox) : mailbox[i].op # "repair"

LEMMA QuietInit == NoRepairs /\ Init => Quiet
<1> SUFFICES ASSUME NoRepairs, Init PROVE Quiet
  OBVIOUS
<1>1. "repair" \notin left
  BY DEF NoRepairs, Init
<1>2. cmds = <<>> /\ mailbox = <<>> /\ repairer = "idle"
  BY DEF Init
<1>3. \A i \in 1..Len(<<>>) : FALSE
  BY SMT
<1>4. QED
  BY <1>1, <1>2, <1>3 DEF Quiet

\* Commands are added at the end and taken from the front.
LEMMA CmdsStep ==
    ASSUME LoopInv, Others \/ ActorStep
    PROVE  \/ cmds' = cmds
           \/ cmds # <<>> /\ cmds' = Tail(cmds) /\ (Head(cmds).op # "repair" => repairer' = repairer)
           \/ \E c \in Commands : cmds' = Append(cmds, c) /\ (c.op = "repair" => "repair" \in left)
<1>1. CASE ClientStep \/ \E p \in Prompts : Collect(p)
  <2>1. ASSUME NEW p \in Prompts, NEW now \in BOOLEAN, ClientPrompt(p, now)
        PROVE  \E c \in Commands : cmds' = Append(cmds, c) /\ c.op # "repair"
    <3>1. [op |-> "prompt", p |-> p, now |-> now] \in Commands /\ [op |-> "prompt", p |-> p, now |-> now].op # "repair"
      BY DEF Commands
    <3>2. QED
      BY <2>1, <3>1 DEF ClientPrompt, Send
  <2>2. ASSUME NEW p \in Prompts, Collect(p) PROVE \E c \in Commands : cmds' = Append(cmds, c) /\ c.op # "repair"
    <3>1. [op |-> "take", p |-> p] \in Commands /\ [op |-> "take", p |-> p].op # "repair"
      BY DEF Commands
    <3>2. QED
      BY <2>2, <3>1 DEF Collect, Send
  <2>3. CASE ClientCancel
    <3>1. [op |-> "cancel"] \in Commands /\ [op |-> "cancel"].op # "repair"
      BY DEF Commands
    <3>2. QED
      BY <2>3, <3>1 DEF ClientCancel, Send
  <2>4. CASE ClientRepair
    <3>1. [op |-> "repair"] \in Commands
      BY DEF Commands
    <3>2. QED
      BY <2>4, <3>1 DEF ClientRepair, Send, Use
  <2>5. CASE ClientHead
    BY <2>5 DEF ClientHead, session
  <2>6. QED
    BY <1>1, <2>1, <2>2, <2>3, <2>4, <2>5 DEF ClientStep
<1>2. CASE LoopStep
  <2>1. CASE LoopRepair
    BY <2>1 DEF LoopRepair, Receive
  <2>2. CASE ~LoopRepair
    BY <1>2, <2>2 DEF LoopStep, LoopPrompt, LoopCancel, LoopTake, LoopCompletion, Receive
  <2>3. QED
    BY <2>1, <2>2
<1>3. CASE TurnStep
  BY <1>3 DEF TurnStep, TurnStart, TurnBegin, TurnCompact, TurnSample, TurnFinish, DropAborted, TurnReply,
              TurnResult, TurnToolsDone, TurnInterject, TurnFails, TurnDispatchError, session
<1>4. CASE RepairCheck
  BY <1>4 DEF RepairCheck, session
<1>5. CASE ActorStep
  BY <1>5, ActorLogs
<1>6. QED
  BY <1>1, <1>2, <1>3, <1>4, <1>5 DEF Others

LEMMA LeftShrinks ==
    ASSUME Others \/ ActorStep
    PROVE  left' \subseteq left
<1>1. CASE ActorStep
  BY <1>1, ActorLogs
<1>2. CASE LoopStep \/ RepairCheck
  BY <1>2 DEF LoopStep, LoopPrompt, LoopCancel, LoopTake, LoopRepair, LoopCompletion, RepairCheck
<1>3. CASE ClientStep \/ \E p \in Prompts : Collect(p)
  BY <1>3 DEF ClientStep, ClientPrompt, ClientCancel, ClientRepair, ClientHead, Collect, Use
<1>4. CASE TurnStep
  BY <1>4 DEF TurnStep, TurnStart, TurnBegin, TurnCompact, TurnSample, TurnFinish, DropAborted, TurnReply,
              TurnResult, TurnToolsDone, TurnInterject, TurnFails, TurnDispatchError, Use
<1>5. QED
  BY <1>1, <1>2, <1>3, <1>4 DEF Others

LEMMA QuietNext ==
    ASSUME LoopInv, MailOK, Quiet, [Next]_vars
    PROVE  Quiet'
<1>0. cmds \in Seq(Commands) /\ mailbox \in Seq(Messages)
  BY DEF LoopInv, SessionOK, MailOK
<1>1. CASE UNCHANGED vars
  BY <1>1 DEF vars, session, Quiet
<1>2. CASE Others \/ ActorStep
  <2>1. "repair" \notin left'
    BY <1>2, LeftShrinks DEF Quiet
  <2>2. cmds # <<>> => Head(cmds).op # "repair"
    <3>1. cmds # <<>> => 1 \in 1..Len(cmds) /\ Head(cmds) = cmds[1]
      BY <1>0, SMT
    <3>2. QED
      BY <3>1 DEF Quiet
  <2>3. \A i \in 1..Len(cmds') : cmds'[i].op # "repair"
    <3>1. CASE cmds' = cmds
      BY <3>1 DEF Quiet
    <3>2. CASE cmds # <<>> /\ cmds' = Tail(cmds)
      BY <1>0, <3>2, HeadTail DEF Quiet
    <3>3. CASE \E c \in Commands : cmds' = Append(cmds, c) /\ (c.op = "repair" => "repair" \in left)
      <4>1. PICK c \in Commands : cmds' = Append(cmds, c) /\ c.op # "repair"
        BY <3>3 DEF Quiet
      <4>2. /\ Len(cmds') = Len(cmds) + 1 /\ cmds'[Len(cmds) + 1] = c
            /\ \A i \in 1..Len(cmds) : cmds'[i] = cmds[i]
        BY <1>0, <4>1, AppendFacts
      <4>3. \A i \in 1..Len(cmds') : i \in 1..Len(cmds) \/ i = Len(cmds) + 1
        BY <1>0, <4>2, SMT
      <4>4. QED
        BY <4>1, <4>2, <4>3 DEF Quiet
    <3>4. QED
      BY <1>2, <3>1, <3>2, <3>3, CmdsStep
  <2>4. ~RepairCheck
    BY DEF RepairCheck, Quiet
  <2>5. \A i \in 1..Len(mailbox') : mailbox'[i].op # "repair"
    <3>1. CASE Others
      <4>1. PICK msgs \in Seq(Postable) : mailbox' = mailbox \o msgs
        BY <3>1, Posts
      <4>2. msgs \in Seq(Messages) /\ \A i \in 1..Len(msgs) : msgs[i].op # "repair"
        BY <2>4, PostableSeq DEF Allowed
      <4>3. /\ \A i \in 1..Len(mailbox) : mailbox'[i] = mailbox[i]
            /\ \A i \in 1..Len(msgs) : mailbox'[Len(mailbox) + i] = msgs[i]
            /\ \A i \in 1..Len(mailbox') : i \in 1..Len(mailbox) \/ \E j \in 1..Len(msgs) : i = Len(mailbox) + j
        <5>1. Len(mailbox') = Len(mailbox) + Len(msgs) /\ Len(mailbox) \in Nat /\ Len(msgs) \in Nat
          BY <1>0, <4>1, <4>2, ConcatFacts
        <5>2. ASSUME NEW i \in 1..Len(mailbox'), i \notin 1..Len(mailbox)
              PROVE  \E j \in 1..Len(msgs) : i = Len(mailbox) + j
          <6>1. i - Len(mailbox) \in 1..Len(msgs) /\ i = Len(mailbox) + (i - Len(mailbox))
            BY <5>1, <5>2, SMT
          <6>2. QED
            BY <6>1
        <5>3. /\ \A i \in 1..Len(mailbox) : mailbox'[i] = mailbox[i]
              /\ \A i \in 1..Len(msgs) : mailbox'[Len(mailbox) + i] = msgs[i]
          BY <1>0, <4>1, <4>2, ConcatFacts
        <5>4. QED
          BY <5>2, <5>3, Zenon
      <4>4. \A i \in 1..Len(mailbox) : mailbox[i].op # "repair"
        BY DEF Quiet
      <4>5. ASSUME NEW i \in 1..Len(mailbox') PROVE mailbox'[i].op # "repair"
        <5>1. CASE i \in 1..Len(mailbox)
          BY <4>3, <4>4, <5>1, Zenon
        <5>2. CASE \E j \in 1..Len(msgs) : i = Len(mailbox) + j
          <6>1. PICK j \in 1..Len(msgs) : i = Len(mailbox) + j
            BY <5>2
          <6>2. mailbox'[i] = msgs[j]
            BY <4>3, <6>1, Zenon
          <6>3. QED
            BY <4>2, <6>2, Zenon
        <5>3. QED
          BY <4>3, <5>1, <5>2, Zenon
      <4>6. QED
        BY <4>5, Zenon
    <3>2. CASE ActorStep
      <4>1. mailbox # <<>> /\ mailbox' = Tail(mailbox)
        BY <3>2, ActorLogs
      <4>2. QED
        BY <1>0, <4>1, HeadTail DEF Quiet
    <3>3. QED
      BY <1>2, <3>1, <3>2
  <2>6. repairer' # "check"
    <3>1. CASE LoopRepair
      BY <2>2, <3>1 DEF LoopRepair, Receive
    <3>2. CASE ~LoopRepair
      <4>1. repairer' = repairer \/ repairer' \in {"refused", "repaired"}
        <5>1. CASE ActorStep
          BY <5>1 DEF ActorStep, ActorIndex, ActorBegin, ActorPush, ActorPushUser, ActorBuild, ActorCompact,
                      ActorHead, ActorRepair, ActorTake
        <5>2. CASE LoopStep
          BY <3>2, <5>2 DEF LoopStep, LoopPrompt, LoopCancel, LoopTake, LoopCompletion
        <5>3. CASE ClientStep \/ \E p \in Prompts : Collect(p)
          BY <5>3 DEF ClientStep, ClientPrompt, ClientCancel, ClientRepair, ClientHead, Collect
        <5>4. CASE TurnStep
          BY <5>4 DEF TurnStep, TurnStart, TurnBegin, TurnCompact, TurnSample, TurnFinish, DropAborted, TurnReply,
                      TurnResult, TurnToolsDone, TurnInterject, TurnFails, TurnDispatchError
        <5>5. QED
          BY <1>2, <2>4, <5>1, <5>2, <5>3, <5>4 DEF Others
      <4>2. QED
        BY <4>1 DEF Quiet
    <3>3. QED
      BY <3>1, <3>2
  <2>7. QED
    BY <2>1, <2>3, <2>5, <2>6 DEF Quiet
<1>3. QED
  BY <1>1, <1>2 DEF Next, Others

LEMMA SameTruth ==
    ASSUME NEW x \in BOOLEAN, NEW y \in BOOLEAN, x <=> y
    PROVE  x = y
BY Zenon

\* A rewrite is the rewrite of the capture mechanism.
LEMMA CaptureRebase ==
    ASSUME st \in States, NEW n, Rebased(st, st', n), UNCHANGED taken
    PROVE  Capture!Rebase(n)
<1>1. st.capture \in Captures /\ st'.capture \in Captures
  BY DEF Rebased, States
<1>2. st.capture.on \in BOOLEAN /\ st'.capture.on \in BOOLEAN
  BY <1>1 DEF Captures
<1>3. st'.capture.on = st.capture.on
  BY <1>2, SameTruth DEF Rebased
<1>4. st'.capture.pre = IF st.capture.on THEN st.capture.pre \o Capture!TurnTail(st.conv, st.capture.offset)
                                          ELSE st.capture.pre
  BY DEF Rebased, TurnTail, Capture!TurnTail
<1>5. st'.capture.offset = IF st.capture.on THEN n ELSE st.capture.offset
  BY DEF Rebased
<1>6. QED
  BY <1>3, <1>4, <1>5 DEF Capture!Rebase

LEMMA CaptureStep ==
    ASSUME StateOK, MailOK, Quiet, ActorStep
    PROVE  [Capture!Next]_(Capture!vars)
<1>0. /\ st \in States /\ st.conv \in Seq(AllItems) /\ st.capture \in Captures /\ st.capture.on \in BOOLEAN
      /\ st' \in States /\ st'.conv \in Seq(AllItems) /\ st'.capture \in Captures /\ st'.capture.on \in BOOLEAN
  BY StateActor DEF StateOK, States, Captures
<1>1. CASE ActorIndex
  <2>1. st' = IncrementPromptIndex(st).st /\ taken' = taken
    BY <1>1 DEF ActorIndex
  <2>2. /\ st'.conv = st.conv /\ (st'.capture.on <=> st.capture.on) /\ st'.capture.offset = st.capture.offset
        /\ st'.capture.pre = st.capture.pre
    BY <1>0, <2>1, IndexHandler DEF Becoming
  <2>3. st'.capture.on = st.capture.on
    BY <1>0, <2>2, SameTruth
  <2>4. QED
    BY <2>1, <2>2, <2>3 DEF Capture!vars
<1>2. CASE ActorBegin
  <2>1. st' = BeginTurnCapture(st).st /\ taken' = taken
    BY <1>2 DEF ActorBegin
  <2>2. /\ st'.conv = st.conv /\ (st'.capture.on <=> TRUE) /\ st'.capture.offset = Len(st.conv)
        /\ st'.capture.pre = <<>>
    BY <1>0, <2>1, BeginHandler DEF Becoming
  <2>3. st'.capture.on = TRUE
    BY <1>0, <2>2, SameTruth
  <2>4. Capture!BeginTurnCapture
    BY <2>1, <2>2, <2>3 DEF Capture!BeginTurnCapture
  <2>5. QED
    BY <2>4 DEF Capture!Next
<1>3. CASE ActorPush
  <2>1. st' = PushMessage(st, Head(mailbox).item).st /\ taken' = taken /\ Head(mailbox).item \in AllItems
    BY <1>3, PushedItem DEF ActorPush, Handle
  <2>2. /\ st'.conv = Append(st.conv, Head(mailbox).item)
        /\ (st'.capture.on <=> st.capture.on) /\ st'.capture.offset = st.capture.offset
        /\ st'.capture.pre = st.capture.pre
    BY <1>0, <2>1, PushHandler DEF Becoming
  <2>3. st'.capture.on = st.capture.on
    BY <1>0, <2>2, SameTruth
  <2>4. Capture!Push(Head(mailbox).item)
    BY <2>1, <2>2, <2>3 DEF Capture!Push
  <2>5. QED
    BY <2>1, <2>4 DEF Capture!Next
<1>4. CASE ActorPushUser
  <2>1. st' = PushUserMessage(st, Head(mailbox).item, "cancelled").st /\ Head(mailbox).item \in AllItems /\ taken' = taken
    BY <1>4, PushedItem DEF ActorPushUser, Handle
  <2>2. PICK c \in Seq(AllItems) : c # <<>> /\ st'.conv = c /\ Rebased(st, st', Len(c) - 1)
    BY <1>0, <2>1, PushUserHandler
  <2>3. Capture!Rebase(Len(st'.conv) - 1)
    BY <1>0, <2>1, <2>2, CaptureRebase
  <2>4. Capture!PushUser
    BY <1>0, <2>2, <2>3 DEF Capture!PushUser
  <2>5. QED
    BY <2>4 DEF Capture!Next
<1>5. CASE ActorBuild
  <2>1. PICK reminder \in BOOLEAN : st' = BuildRequest(st, reminder).st /\ taken' = taken
    BY <1>5 DEF ActorBuild
  <2>2. Rebased(st, st', Len(st'.conv))
    BY <1>0, <2>1, BuildHandler
  <2>3. Capture!Rewrite
    BY <1>0, <2>1, <2>2, CaptureRebase DEF Capture!Rewrite
  <2>4. QED
    BY <2>3 DEF Capture!Next
<1>6. CASE ActorCompact
  <2>1. st' = ReplaceConversation(st, Compacted, TRUE).st /\ taken' = taken
    BY <1>6 DEF ActorCompact
  <2>2. Rebased(st, st', Len(st'.conv))
    BY <1>0, <2>1, ReplaceHandler, CompactedType, AllStable
  <2>3. Capture!Rewrite
    BY <1>0, <2>1, <2>2, CaptureRebase DEF Capture!Rewrite
  <2>4. QED
    BY <2>3 DEF Capture!Next
<1>7. CASE ActorHead
  <2>1. st' = ReplaceSystemHead(st, "new_head").st /\ taken' = taken
    BY <1>7 DEF ActorHead
  <2>2. CASE st' = st
    BY <2>1, <2>2 DEF Capture!vars
  <2>3. CASE st' # st
    <3>1. Rebased(st, st', Len(st'.conv))
      BY <1>0, <2>1, <2>3, HeadHandler
    <3>2. Capture!Rewrite
      BY <1>0, <2>1, <3>1, CaptureRebase DEF Capture!Rewrite
    <3>3. QED
      BY <3>2 DEF Capture!Next
  <2>4. QED
    BY <2>2, <2>3
<1>8. CASE ActorRepair
  <2>1. mailbox # <<>> /\ Head(mailbox).op = "repair"
    BY <1>8 DEF ActorRepair, Handle
  <2>2. 1 \in 1..Len(mailbox) /\ Head(mailbox) = mailbox[1]
    BY <2>1, SMT DEF MailOK
  <2>3. QED
    BY <2>1, <2>2 DEF Quiet
<1>9. CASE ActorTake
  <2>1. st' = TakeTurnMessages(st).st /\ taken' = TurnMessages(st)
    BY <1>9 DEF ActorTake
  <2>2. /\ st'.conv = st.conv /\ (st'.capture.on <=> FALSE) /\ st'.capture.offset = 0
        /\ st'.capture.pre = <<>>
    BY <1>0, <2>1, TakeHandler DEF Becoming
  <2>3. st'.capture.on = FALSE
    BY <1>0, <2>2, SameTruth
  <2>4. taken' = Capture!Captured
    BY <2>1, Zenon DEF TurnMessages, Capture!Captured, TurnTail, Capture!TurnTail
  <2>5. Capture!TakeTurnMessages
    BY <2>2, <2>3, <2>4 DEF Capture!TakeTurnMessages, Capture!Close
  <2>6. QED
    BY <2>5 DEF Capture!Next
<1>10. QED
  BY <1>1, <1>2, <1>3, <1>4, <1>5, <1>6, <1>7, <1>8, <1>9 DEF ActorStep

LEMMA OthersKeepTaken ==
    ASSUME Others
    PROVE  UNCHANGED taken
<1>1. CASE LoopStep \/ RepairCheck
  BY <1>1 DEF LoopStep, LoopPrompt, LoopCancel, LoopTake, LoopRepair, LoopCompletion, RepairCheck, history
<1>2. CASE ClientStep \/ \E p \in Prompts : Collect(p)
  BY <1>2 DEF ClientStep, ClientPrompt, ClientCancel, ClientRepair, ClientHead, Collect, history
<1>3. CASE TurnStep
  BY <1>3 DEF TurnStep, TurnStart, TurnBegin, TurnCompact, TurnSample, TurnFinish, DropAborted, TurnReply,
              TurnResult, TurnToolsDone, TurnInterject, TurnFails, TurnDispatchError, history
<1>4. QED
  BY <1>1, <1>2, <1>3 DEF Others

\* The session implements the capture mechanism, for any number of prompts, replies
\* and operations: cutting the turn out of the conversation is all the actor does to
\* it, whatever is pushed, compacted, cancelled or given another system prompt.  The
\* one operation left out is the repair request: repair_history takes the conversation
\* out of the state before the turn's slice is saved, and loses it.
THEOREM SessionImplementsCapture == NoRepairs => (Spec => CaptureSpec)
<1>1. Init => Capture!Init
  <2> SUFFICES ASSUME Init PROVE Capture!Init
    OBVIOUS
  <2>1. st.capture = NoCapture /\ taken = <<>>
    BY DEF Init, NewState, State
  <2>2. st.conv \in Seq(AllItems)
    BY StateInit DEF StateOK, States
  <2>3. st.capture.on = FALSE /\ st.capture.offset = 0 /\ st.capture.pre = <<>>
    <3>1. NoCapture.on \in BOOLEAN /\ ~NoCapture.on /\ NoCapture.offset = 0 /\ NoCapture.pre = <<>>
      BY DEF NoCapture
    <3>2. NoCapture.on = FALSE
      BY <3>1, Zenon
    <3>3. QED
      BY <2>1, <3>1, <3>2, Zenon
  <2>4. QED
    BY <2>1, <2>2, <2>3 DEF Capture!Init
<1>2. LoopInv /\ MailOK /\ StateOK /\ Quiet /\ [Next]_vars => [Capture!Next]_(Capture!vars)
  <2> SUFFICES ASSUME LoopInv, MailOK, StateOK, Quiet, [Next]_vars PROVE [Capture!Next]_(Capture!vars)
    OBVIOUS
  <2>1. CASE Others
    BY <2>1, Posts, OthersKeepTaken DEF Capture!vars
  <2>2. CASE ActorStep
    BY <2>2, CaptureStep
  <2>3. CASE UNCHANGED vars
    BY <2>3 DEF vars, history, Capture!vars
  <2>4. QED
    BY <2>1, <2>2, <2>3 DEF Next, Others
<1>3. NoRepairs => (Spec => [](LoopInv /\ MailOK /\ StateOK /\ Quiet))
  BY LoopInvInit, LoopInvNext, MailInit, MailNext, StateInit, StateNext, QuietInit, QuietNext, PTL DEF Spec
<1>4. QED
  BY <1>1, <1>2, <1>3, PTL DEF Spec, CaptureSpec, Capture!Spec

-----------------------------------------------------------------------------
(* A prompt is queued once *)

Stages == {"unsent", "waiting", "answered", "taking", "collected"}

\* A prompt that is waiting is in one place: on its way to the loop or in the queue.
OnceIn(cs, q, col) ==
    /\ \A i \in 1..Len(cs) : /\ cs[i].op = "prompt" => col[cs[i].p] = "waiting"
                             /\ cs[i].op = "take" => col[cs[i].p] \in {"taking", "collected"}
    /\ \A i \in 1..Len(q) : col[q[i].p] = "waiting"
    /\ \A i, j \in 1..Len(cs) : cs[i].op = "prompt" /\ cs[j].op = "prompt" /\ cs[i].p = cs[j].p => i = j
    /\ \A i, j \in 1..Len(q) : q[i].p = q[j].p => i = j
    /\ \A i \in 1..Len(cs), j \in 1..Len(q) : cs[i].op = "prompt" => cs[i].p # q[j].p

OnceInv ==
    /\ collector \in [Prompts -> Stages]
    /\ OnceIn(cmds, pending, collector)
    /\ \A i \in 1..Len(mailbox) : mailbox[i].op = "take" => collector[mailbox[i].p] \in {"taking", "collected"}

LEMMA OnceInit == Init => OnceInv
<1> SUFFICES ASSUME Init PROVE OnceInv
  OBVIOUS
<1>1. cmds = <<>> /\ pending = <<>> /\ mailbox = <<>> /\ collector = [p \in Prompts |-> "unsent"]
  BY DEF Init
<1>2. 1..Len(<<>>) = {}
  BY SMT
<1>3. QED
  BY <1>1, <1>2 DEF OnceInv, OnceIn, Stages

\* A command that is no prompt is taken from the front.
LEMMA OnceTail ==
    ASSUME NEW cs \in Seq(Commands), NEW q, NEW col, cs # <<>>, OnceIn(cs, q, col)
    PROVE  OnceIn(Tail(cs), q, col)
<1> DEFINE t == Tail(cs)
<1>1. /\ Len(cs) \in Nat /\ Len(t) \in Nat /\ Len(t) = Len(cs) - 1
      /\ \A i \in 1..Len(t) : t[i] = cs[i + 1] /\ i + 1 \in 1..Len(cs)
  BY HeadTail, LenNat
<1> HIDE DEF t
<1>2. \A i, j \in 1..Len(t) : i + 1 = j + 1 => i = j
  BY <1>1, SMT
<1>3. ASSUME NEW i \in 1..Len(t)
      PROVE  /\ t[i].op = "prompt" => col[t[i].p] = "waiting"
             /\ t[i].op = "take" => col[t[i].p] \in {"taking", "collected"}
             /\ \A j \in 1..Len(q) : t[i].op = "prompt" => t[i].p # q[j].p
  <2>1. t[i] = cs[i + 1] /\ i + 1 \in 1..Len(cs)
    BY <1>1
  <2>2. QED
    BY <2>1 DEF OnceIn
<1>4. ASSUME NEW i \in 1..Len(t), NEW j \in 1..Len(t), t[i].op = "prompt", t[j].op = "prompt", t[i].p = t[j].p
      PROVE  i = j
  <2>1. t[i] = cs[i + 1] /\ i + 1 \in 1..Len(cs) /\ t[j] = cs[j + 1] /\ j + 1 \in 1..Len(cs)
    BY <1>1
  <2>2. i + 1 = j + 1
    BY <1>4, <2>1 DEF OnceIn
  <2>3. QED
    BY <1>2, <2>2
<1>5. OnceIn(t, q, col)
  BY <1>3, <1>4 DEF OnceIn
<1>6. QED
  BY <1>5 DEF t

\* A prompt's command is taken and its entry put into the queue.
LEMMA OnceInsert ==
    ASSUME NEW cs \in Seq(Commands), NEW q \in Seq(Entries), NEW col, cs # <<>>, OnceIn(cs, q, col),
           Head(cs).op = "prompt", NEW e \in Entries, e.p = Head(cs).p,
           NEW at \in 0..Len(q), NEW r, IsInsertion(r, q, at, e)
    PROVE  OnceIn(Tail(cs), r, col)
<1> DEFINE t == Tail(cs)
<1>1. /\ Len(cs) \in Nat /\ Len(t) \in Nat /\ Len(t) = Len(cs) - 1 /\ 1 \in 1..Len(cs) /\ Head(cs) = cs[1]
      /\ \A i \in 1..Len(t) : t[i] = cs[i + 1] /\ i + 1 \in 1..Len(cs) /\ i + 1 # 1
  BY HeadTail, LenNat
<1> HIDE DEF t
<1>2. \A i, j \in 1..Len(t) : i + 1 = j + 1 => i = j
  BY <1>1, SMT
<1>3. Len(q) \in Nat /\ Len(r) = Len(q) + 1 /\ r[at + 1] = e
  BY LenNat DEF IsInsertion
<1> DEFINE old(i) == IF i <= at THEN i ELSE i - 1
<1>4. ASSUME NEW i \in 1..Len(r), i # at + 1 PROVE old(i) \in 1..Len(q) /\ r[i] = q[old(i)]
  <2>1. CASE i <= at
    <3>1. i \in 1..at /\ i \in 1..Len(q)
      BY <1>3, <2>1, SMT
    <3>2. QED
      BY <2>1, <3>1 DEF IsInsertion
  <2>2. CASE ~(i <= at)
    <3>1. PICK j \in (at + 1)..Len(q) : j + 1 = i
      <4>1. i - 1 \in (at + 1)..Len(q) /\ (i - 1) + 1 = i
        BY <1>3, <1>4, <2>2, SMT
      <4>2. QED
        BY <4>1
    <3>2. r[j + 1] = q[j]
      BY DEF IsInsertion
    <3>3. j = i - 1 /\ j \in 1..Len(q)
      BY <1>3, <3>1, SMT
    <3>4. QED
      BY <2>2, <3>1, <3>2, <3>3
  <2>3. QED
    BY <2>1, <2>2
<1>5. \A i, j \in 1..Len(r) : i # at + 1 /\ j # at + 1 /\ old(i) = old(j) => i = j
  BY <1>3, SMT
<1> HIDE DEF old
<1>6. cs[1].op = "prompt" /\ cs[1].p = e.p /\ col[e.p] = "waiting" /\ \A j \in 1..Len(q) : q[j].p # e.p
  BY <1>1 DEF OnceIn
<1>7. \A i \in 1..Len(r) : col[r[i].p] = "waiting"
  BY <1>3, <1>4, <1>6 DEF OnceIn
<1>8. ASSUME NEW i \in 1..Len(r), NEW j \in 1..Len(r), r[i].p = r[j].p PROVE i = j
  <2>1. CASE i = at + 1 \/ j = at + 1
    BY <1>3, <1>4, <1>6, <1>8, <2>1
  <2>2. CASE i # at + 1 /\ j # at + 1
    <3>1. old(i) = old(j)
      BY <1>4, <1>8, <2>2 DEF OnceIn
    <3>2. QED
      BY <1>5, <2>2, <3>1
  <2>3. QED
    BY <2>1, <2>2
<1>9. ASSUME NEW i \in 1..Len(t), NEW j \in 1..Len(r), t[i].op = "prompt" PROVE t[i].p # r[j].p
  <2>1. t[i] = cs[i + 1] /\ i + 1 \in 1..Len(cs) /\ i + 1 # 1
    BY <1>1
  <2>2. cs[i + 1].p # cs[1].p
    BY <1>1, <1>6, <1>9, <2>1 DEF OnceIn
  <2>3. CASE j = at + 1
    BY <1>3, <1>6, <2>1, <2>2, <2>3
  <2>4. CASE j # at + 1
    <3>1. PICK k \in 1..Len(q) : r[j] = q[k]
      BY <1>4, <2>4, Zenon
    <3>2. PICK h \in 1..Len(cs) : h = i + 1
      BY <2>1, Zenon
    <3>3. cs[h].op = "prompt" => cs[h].p # q[k].p
      BY Zenon DEF OnceIn
    <3>4. QED
      BY <1>9, <2>1, <3>1, <3>2, <3>3, Zenon
  <2>5. QED
    BY <2>3, <2>4
<1>10. /\ \A i \in 1..Len(t) : /\ t[i].op = "prompt" => col[t[i].p] = "waiting"
                               /\ t[i].op = "take" => col[t[i].p] \in {"taking", "collected"}
       /\ \A i, j \in 1..Len(t) : t[i].op = "prompt" /\ t[j].op = "prompt" /\ t[i].p = t[j].p => i = j
  <2>1. OnceIn(t, q, col)
    BY OnceTail DEF t
  <2>2. QED
    BY <2>1 DEF OnceIn
<1>11. OnceIn(t, r, col)
  BY <1>7, <1>8, <1>9, <1>10 DEF OnceIn
<1>12. QED
  BY <1>11 DEF t

\* The front is answered and leaves the queue.
LEMMA OncePop ==
    ASSUME NEW cs \in Seq(Commands), NEW q \in Seq(Entries), NEW col \in [Prompts -> Stages], q # <<>>,
           OnceIn(cs, q, col), NEW col1 \in [Prompts -> Stages],
           \A p \in Prompts : p # Head(q).p => col1[p] = col[p]
    PROVE  OnceIn(cs, Tail(q), col1)
<1> DEFINE t == Tail(q)
<1>1. /\ Len(q) \in Nat /\ Len(t) \in Nat /\ Len(t) = Len(q) - 1 /\ 1 \in 1..Len(q) /\ Head(q) = q[1]
      /\ \A i \in 1..Len(t) : t[i] = q[i + 1] /\ i + 1 \in 1..Len(q) /\ i + 1 # 1
  BY HeadTail, LenNat
<1> HIDE DEF t
<1>2. \A i, j \in 1..Len(t) : i + 1 = j + 1 => i = j
  BY <1>1, SMT
<1>3. ASSUME NEW i \in 1..Len(q) PROVE q[i].p \in Prompts
  <2>1. q[i] \in Entries
    BY SMT
  <2>2. QED
    BY <2>1 DEF Entries
<1>4. ASSUME NEW i \in 1..Len(t) PROVE t[i].p # Head(q).p /\ t[i].p \in Prompts
  <2>1. t[i] = q[i + 1] /\ i + 1 \in 1..Len(q) /\ i + 1 # 1
    BY <1>1
  <2>2. q[i + 1].p # q[1].p
    BY <1>1, <2>1 DEF OnceIn
  <2>3. QED
    BY <1>1, <1>3, <2>1, <2>2
<1>5. ASSUME NEW i \in 1..Len(cs) PROVE cs[i].op \in {"prompt", "take"} => cs[i].p \in Prompts
  <2>1. cs[i] \in Commands
    BY SMT
  <2>2. QED
    BY <2>1, CommandFacts
<1>6. \A i \in 1..Len(cs) : cs[i].op \in {"prompt", "take"} => cs[i].p # Head(q).p
  <2>1. col[q[1].p] = "waiting"
    BY <1>1 DEF OnceIn
  <2>2. \A i \in 1..Len(cs) : cs[i].op = "take" => col[cs[i].p] # "waiting"
    BY DEF OnceIn
  <2>3. \A i \in 1..Len(cs) : cs[i].op = "prompt" => cs[i].p # q[1].p
    BY <1>1 DEF OnceIn
  <2>4. QED
    BY <1>1, <2>1, <2>2, <2>3
<1>7. ASSUME NEW i \in 1..Len(cs)
      PROVE  /\ cs[i].op = "prompt" => col1[cs[i].p] = "waiting"
             /\ cs[i].op = "take" => col1[cs[i].p] \in {"taking", "collected"}
  <2>1. cs[i].op \in {"prompt", "take"} => col1[cs[i].p] = col[cs[i].p]
    BY <1>5, <1>6
  <2>2. QED
    BY <2>1 DEF OnceIn
<1>8. ASSUME NEW i \in 1..Len(t) PROVE col1[t[i].p] = "waiting" /\ \A j \in 1..Len(cs) : cs[j].op = "prompt" => cs[j].p # t[i].p
  <2>1. t[i] = q[i + 1] /\ i + 1 \in 1..Len(q) /\ col1[t[i].p] = col[t[i].p]
    BY <1>1, <1>4
  <2>2. QED
    BY <2>1 DEF OnceIn
<1>9. ASSUME NEW i \in 1..Len(t), NEW j \in 1..Len(t), t[i].p = t[j].p PROVE i = j
  <2>1. t[i] = q[i + 1] /\ i + 1 \in 1..Len(q) /\ t[j] = q[j + 1] /\ j + 1 \in 1..Len(q)
    BY <1>1
  <2>2. i + 1 = j + 1
    BY <1>9, <2>1 DEF OnceIn
  <2>3. QED
    BY <1>2, <2>2
<1>10. OnceIn(cs, t, col1)
  BY <1>7, <1>8, <1>9 DEF OnceIn
<1>11. QED
  BY <1>10 DEF t

\* What a step does to the commands, the queue and the collectors' stages.
Held == UNCHANGED running /\ (turn'.pc = "start" => turn.pc = "start")

Adds ==
    /\ Held /\ UNCHANGED pending
    /\ \E c \in Commands :
          /\ cmds' = Append(cmds, c)
          /\ \/ c.op \notin {"prompt", "take"} /\ UNCHANGED collector
             \/ c.op = "prompt" /\ collector[c.p] = "unsent" /\ collector' = [collector EXCEPT ![c.p] = "waiting"]
             \/ c.op = "take" /\ collector[c.p] = "answered" /\ collector' = [collector EXCEPT ![c.p] = "taking"]

Drops ==
    /\ Held /\ UNCHANGED <<pending, collector>>
    /\ cmds # <<>> /\ cmds' = Tail(cmds) /\ Head(cmds).op # "prompt"

Popped(q) ==
    /\ q # <<>> /\ pending' = Tail(q) /\ collector' \in [Prompts -> Stages]
    /\ \A p \in Prompts : IF p = Head(q).p THEN collector'[p] = "answered" ELSE collector'[p] = collector[p]

Entered(r, e, at) ==
    /\ r \in Seq(Entries) /\ e \in Entries /\ at \in 0..Len(pending)
    /\ e.p = Head(cmds).p /\ IsInsertion(r, pending, at, e)
    /\ running # None => Head(r) = Head(pending) /\ pending # <<>>

Enters ==
    /\ cmds # <<>> /\ cmds' = Tail(cmds) /\ Head(cmds).op = "prompt"
    /\ \E r, e, at :
          /\ Entered(r, e, at)
          /\ \/ running # None /\ Popped(r)
             \/ pending' = r /\ UNCHANGED collector /\ (running # None => UNCHANGED <<running, turn>>)

Leaves ==
    /\ cmds' = cmds \/ (cmds # <<>> /\ cmds' = Tail(cmds) /\ Head(cmds).op # "prompt")
    /\ Popped(pending)

Answers ==
    /\ Held /\ UNCHANGED <<cmds, pending>>
    /\ mailbox # <<>> /\ Head(mailbox).op = "take"
    /\ collector' = [collector EXCEPT ![Head(mailbox).p] = "collected"]

Stays == Held /\ UNCHANGED <<cmds, pending, collector>>

LEMMA CancelMoves ==
    ASSUME NEW queue \in Seq(Entries), NEW now, CancelRunningTask(queue, now), collector \in [Prompts -> Stages]
    PROVE  /\ queue # <<>> => Popped(queue)
           /\ queue = <<>> => UNCHANGED collector /\ pending' = <<>> /\ running' = None /\ turn' = NoTurn
<1> DEFINE front == {queue[i].p : i \in DOMAIN queue \cap {1}}
<1>1. /\ collector' = [p \in Prompts |-> IF p \in front THEN "answered" ELSE collector[p]]
      /\ MaybeStart(CancelQueue(queue), None, NoTurn)
  BY DEF CancelRunningTask
<1>2. pending' = CancelQueue(queue)
  BY <1>1 DEF MaybeStart
<1>3. CASE queue # <<>>
  <2>1. DOMAIN queue \cap {1} = {1} /\ Head(queue) = queue[1]
    BY <1>3, SMT
  <2>2. front = {Head(queue).p}
    BY <2>1
  <2> HIDE DEF front
  <2>3. /\ \A p \in Prompts : collector'[p] = IF p \in front THEN "answered" ELSE collector[p]
    BY <1>1
  <2>4. collector' \in [Prompts -> Stages]
    BY <1>1 DEF Stages
  <2>5. QED
    BY <1>2, <1>3, <2>2, <2>3, <2>4 DEF Popped, CancelQueue
<1>4. CASE queue = <<>>
  <2>1. DOMAIN queue \cap {1} = {}
    BY <1>4, SMT
  <2>2. front = {}
    BY <2>1
  <2> HIDE DEF front
  <2>3. collector' = [p \in Prompts |-> collector[p]]
    BY <1>1, <2>2
  <2>4. collector' = collector
    BY <2>3
  <2>5. CancelQueue(queue) = <<>>
    BY <1>4 DEF CancelQueue
  <2>6. QED
    BY <1>1, <1>2, <1>4, <2>4, <2>5, Zenon DEF MaybeStart
<1>5. QED
  BY <1>3, <1>4

LEMMA LoopMoves ==
    ASSUME LoopInv, collector \in [Prompts -> Stages], LoopStep
    PROVE  Drops \/ Enters \/ Leaves \/ Stays
<1>0. SessionOK /\ QueueInv /\ FrontIsRunning
  BY DEF LoopInv, QueueInv
<1>1. CASE LoopPrompt
  <2> DEFINE entry == [p |-> Head(cmds).p, now |-> Head(cmds).now]
             r     == QueueInput(entry)
  <2>1. cmds # <<>> /\ Head(cmds).op = "prompt" /\ cmds' = Tail(cmds)
    BY <1>1 DEF LoopPrompt, Receive
  <2>2. entry \in Entries /\ entry.p = Head(cmds).p
    BY <1>0, <2>1, HeadTail, CommandFacts DEF SessionOK
  <2>3. \/ CancelRunningTask(r, TRUE) /\ running # None
        \/ MaybeStart(r, running, turn) /\ UNCHANGED collector
    BY <1>1, Zenon DEF LoopPrompt, SendNowCancels
  <2> HIDE DEF entry
  <2>4. r \in Seq(Entries) /\ r # <<>> /\ (running # None => Head(r) = Head(pending) /\ pending # <<>>)
    BY <1>0, <2>2, QueueInputType
  <2>5. PICK at \in 0..Len(pending) : r = Inserted(pending, at, entry)
    BY <1>0, <2>2, QueueInputFacts
  <2>6. IsInsertion(r, pending, at, entry)
    BY <1>0, <2>2, <2>5, InsertFacts DEF SessionOK
  <2> HIDE DEF r
  <2>7. Entered(r, entry, at)
    BY <2>2, <2>4, <2>5, <2>6 DEF Entered
  <2>8. CASE CancelRunningTask(r, TRUE) /\ running # None
    <3>1. Popped(r)
      BY <2>4, <2>8, CancelMoves
    <3>2. QED
      BY <2>1, <2>7, <2>8, <3>1 DEF Enters
  <2>9. CASE MaybeStart(r, running, turn) /\ UNCHANGED collector
    <3>1. pending' = r /\ (running # None => UNCHANGED <<running, turn>>)
      BY <2>9, Zenon DEF MaybeStart
    <3>2. QED
      BY <2>1, <2>7, <2>9, <3>1 DEF Enters
  <2>10. QED
    BY <2>3, <2>8, <2>9
<1>2. CASE LoopCancel
  <2>1. cmds # <<>> /\ cmds' = Tail(cmds) /\ Head(cmds).op # "prompt" /\ CancelRunningTask(pending, FALSE)
    BY <1>2 DEF LoopCancel, Receive
  <2>2. pending \in Seq(Entries)
    BY <1>0 DEF SessionOK
  <2>3. CASE pending # <<>>
    BY <2>1, <2>2, <2>3, CancelMoves DEF Leaves
  <2>4. CASE pending = <<>>
    <3>1. UNCHANGED <<collector, pending>> /\ running' = None /\ turn' = NoTurn
      BY <2>1, <2>2, <2>4, CancelMoves
    <3>2. running = None
      BY <1>0, <2>4 DEF FrontIsRunning
    <3>3. QED
      BY <2>1, <3>1, <3>2, FreshTurns DEF Drops, Held
  <2>5. QED
    BY <2>3, <2>4
<1>3. CASE LoopTake \/ LoopRepair
  BY <1>3 DEF LoopTake, LoopRepair, Receive, Drops, Held, task
<1>4. CASE LoopCompletion
  <2> DEFINE p     == Head(completions)
             owned == pending # <<>> /\ Head(pending).p = p
             ends  == owned \/ running = p
             queue == IF owned THEN Tail(pending) ELSE pending
             run   == IF ends THEN None ELSE running
             next  == IF ends THEN NoTurn ELSE turn
  <2>1. /\ completions # <<>> /\ MaybeStart(queue, run, next)
        /\ cmds' = cmds
        /\ collector' = IF owned THEN [collector EXCEPT ![p] = "answered"] ELSE collector
    BY <1>4 DEF LoopCompletion
  <2>2. p \in Prompts
    BY <1>0, <2>1, HeadTail DEF SessionOK
  <2>3. running = p => owned
    BY <1>0, <2>2, NoneIsNoPrompt DEF FrontIsRunning
  <2>4. pending' = queue
    BY <2>1 DEF MaybeStart
  <2>5. CASE owned
    <3>1. collector' = [collector EXCEPT ![p] = "answered"] /\ p = Head(pending).p /\ pending # <<>>
      BY <2>1, <2>5
    <3>2. /\ collector' \in [Prompts -> Stages] /\ collector'[p] = "answered"
          /\ \A o \in Prompts : o # p => collector'[o] = collector[o]
      <4> HIDE DEF p
      <4>1. QED
        BY <2>2, <3>1 DEF Stages
    <3>3. QED
      BY <2>1, <2>4, <2>5, <3>1, <3>2 DEF Leaves, Popped
  <2>6. CASE ~owned
    <3>1. queue = pending /\ run = running /\ next = turn /\ collector' = collector
      BY <2>1, <2>3, <2>6
    <3>2. ~(run = None /\ queue # <<>>)
      BY <1>0, <3>1 DEF FrontIsRunning
    <3> HIDE DEF queue, run, next
    <3>3. running' = running /\ turn' = turn
      BY <2>1, <3>1, <3>2, Zenon DEF MaybeStart
    <3>4. QED
      BY <2>1, <2>4, <3>1, <3>3 DEF Stays, Held
  <2>7. QED
    BY <2>5, <2>6
<1>5. QED
  BY <1>1, <1>2, <1>3, <1>4 DEF LoopStep

LEMMA TurnMoves ==
    ASSUME LoopInv, TurnStep
    PROVE  Stays
<1>0. turn \in Turns
  BY DEF LoopInv, Shape
<1>1. UNCHANGED <<cmds, pending, running, collector>>
  BY DEF TurnStep, TurnStart, TurnBegin, TurnCompact, TurnSample, TurnFinish, DropAborted, TurnReply,
         TurnResult, TurnToolsDone, TurnInterject, TurnFails, TurnDispatchError, session
<1>2. CASE TurnStart \/ TurnBegin \/ TurnSample \/ TurnFinish \/ TurnToolsDone \/ TurnInterject \/ TurnFails
  <2>1. \E x \in Pcs \ {"start"} : turn' = [turn EXCEPT !.pc = x]
    BY <1>2 DEF TurnStart, TurnBegin, TurnSample, TurnFinish, TurnToolsDone, TurnInterject, TurnFails, Pcs
  <2>2. PICK x \in Pcs \ {"start"} : turn' = [turn EXCEPT !.pc = x]
    BY <2>1
  <2>3. Becomes(turn, turn', x, turn.k, turn.open)
    BY <1>0, <2>2, PcUpdate
  <2>4. QED
    BY <1>1, <2>3 DEF Stays, Held, Becomes
<1>3. CASE TurnCompact \/ DropAborted
  BY <1>1, <1>3 DEF TurnCompact, DropAborted, task, Stays, Held
<1>4. CASE TurnDispatchError
  <2>1. turn' = [turn EXCEPT !.pc = "sample", !.open = {}] /\ "sample" \in Pcs
    BY <1>4 DEF TurnDispatchError, Pcs
  <2>2. Becomes(turn, turn', "sample", turn.k, {})
    BY <1>0, <2>1, PcOpenUpdate
  <2>3. QED
    BY <1>1, <2>2 DEF Stays, Held, Becomes
<1>5. ASSUME NEW id \in turn.open, TurnResult(id) PROVE Stays
  <2>1. turn' = [turn EXCEPT !.open = turn.open \ {id}] /\ turn.open \ {id} \in SUBSET Nat
    BY <1>0, <1>5 DEF TurnResult, Turns
  <2>2. Becomes(turn, turn', turn.pc, turn.k, turn.open \ {id})
    BY <1>0, <2>1, OpenUpdate
  <2>3. QED
    BY <1>1, <2>2 DEF Stays, Held, Becomes
<1>6. ASSUME NEW c, TurnReply(c), ToSet(c) \subseteq Nat PROVE Stays
  <2>0. PICK x \in Pcs \ {"start"} : x = IF c = <<>> THEN "finish" ELSE "tools"
    BY DEF Pcs
  <2>1. turn' = [turn EXCEPT !.pc = x, !.open = ToSet(c)]
    BY <1>6, <2>0 DEF TurnReply
  <2>2. Becomes(turn, turn', x, turn.k, ToSet(c))
    BY <1>0, <1>6, <2>1, PcOpenUpdate
  <2>3. QED
    BY <1>1, <2>2 DEF Stays, Held, Becomes
<1>7. ToSet(<<>>) \subseteq Nat
  BY SMT DEF ToSet
<1>8. ASSUME NEW c \in CallsOf(turn.p, turn.k), TurnReply(c) PROVE Stays
  <2>1. turn.pc = "reply"
    BY <1>8 DEF TurnReply, At
  <2>2. turn.p \in Prompts /\ turn.k \in 0..MaxSamples
    BY <2>1 DEF LoopInv, SessionOK, Owned, Shape, Turns
  <2>3. QED
    BY <1>6, <1>8, <2>2, CallsFacts
<1>9. QED
  BY <1>2, <1>3, <1>4, <1>5, <1>6, <1>7, <1>8 DEF TurnStep

Moves == Adds \/ Drops \/ Enters \/ Leaves \/ Answers \/ Stays

LEMMA AnyMove ==
    ASSUME LoopInv, MailOK, collector \in [Prompts -> Stages], Others \/ ActorStep
    PROVE  Moves
<1>1. CASE ClientStep \/ \E p \in Prompts : Collect(p)
  <2>0. ~ClientHead => Held /\ UNCHANGED pending
    BY <1>1 DEF ClientStep, ClientPrompt, ClientCancel, ClientRepair, Collect, Held, task
  <2>1. ASSUME NEW p \in Prompts, NEW now \in BOOLEAN, ClientPrompt(p, now) PROVE Moves
    <3> DEFINE c == [op |-> "prompt", p |-> p, now |-> now]
    <3>1. c \in Commands /\ c.op = "prompt" /\ c.p = p
      BY DEF Commands
    <3>2. cmds' = Append(cmds, c) /\ collector[p] = "unsent" /\ collector' = [collector EXCEPT ![p] = "waiting"]
          /\ Held /\ UNCHANGED pending
      BY <2>1 DEF ClientPrompt, Send, Held, task
    <3> HIDE DEF c
    <3>3. QED
      BY <3>1, <3>2 DEF Moves, Adds
  <2>2. ASSUME NEW p \in Prompts, Collect(p) PROVE Moves
    <3> DEFINE c == [op |-> "take", p |-> p]
    <3>1. c \in Commands /\ c.op = "take" /\ c.p = p
      BY DEF Commands
    <3>2. cmds' = Append(cmds, c) /\ collector[p] = "answered" /\ collector' = [collector EXCEPT ![p] = "taking"]
          /\ Held /\ UNCHANGED pending
      BY <2>2 DEF Collect, Send, Held, task
    <3> HIDE DEF c
    <3>3. QED
      BY <3>1, <3>2 DEF Moves, Adds
  <2>3. CASE ClientCancel \/ ClientRepair
    <3>1. PICK c \in Commands : cmds' = Append(cmds, c) /\ c.op \notin {"prompt", "take"}
      <4>1. [op |-> "cancel"] \in Commands /\ [op |-> "repair"] \in Commands
            /\ [op |-> "cancel"].op \notin {"prompt", "take"} /\ [op |-> "repair"].op \notin {"prompt", "take"}
        BY DEF Commands
      <4>2. QED
        BY <2>3, <4>1 DEF ClientCancel, ClientRepair, Send
    <3>2. UNCHANGED <<pending, collector>> /\ Held
      BY <2>3 DEF ClientCancel, ClientRepair, Held, task
    <3>3. QED
      BY <3>1, <3>2 DEF Moves, Adds
  <2>4. CASE ClientHead
    BY <2>4 DEF ClientHead, session, task, Held, Stays, Moves
  <2>5. QED
    BY <1>1, <2>1, <2>2, <2>3, <2>4 DEF ClientStep
<1>2. CASE LoopStep
  BY <1>2, LoopMoves DEF Moves
<1>3. CASE TurnStep
  BY <1>3, TurnMoves DEF Moves
<1>4. CASE RepairCheck
  BY <1>4 DEF RepairCheck, session, task, Held, Stays, Moves
<1>5. CASE ActorStep
  <2>1. CASE ActorBuild
    <3>1. UNCHANGED <<cmds, pending, running, collector>>
      BY <2>1 DEF ActorBuild, Handle
    <3>2. turn'.pc = "start" => turn.pc = "start"
      <4>1. CASE turn.p = Head(mailbox).p /\ turn.pc = "build"
        <5>1. turn' = [turn EXCEPT !.pc = "reply", !.k = @ + 1]
          BY <2>1, <4>1 DEF ActorBuild
        <5>2. turn \in Turns /\ turn.k < MaxSamples /\ "reply" \in Pcs
          BY <4>1 DEF LoopInv, Shape, Pcs
        <5>3. Becomes(turn, turn', "reply", turn.k + 1, turn.open)
          BY <5>1, <5>2, ReplyUpdate
        <5>4. QED
          BY <5>3 DEF Becomes
      <4>2. CASE ~(turn.p = Head(mailbox).p /\ turn.pc = "build")
        BY <2>1, <4>2 DEF ActorBuild
      <4>3. QED
        BY <4>1, <4>2
    <3>3. QED
      BY <3>1, <3>2 DEF Moves, Stays, Held
  <2>2. CASE ActorTake
    BY <2>2 DEF ActorTake, Handle, Answers, Held, Moves
  <2>3. CASE ~(ActorBuild \/ ActorTake)
    BY <1>5, <2>3 DEF ActorStep, ActorIndex, ActorBegin, ActorPush, ActorPushUser, ActorCompact, ActorHead,
                      ActorRepair, Handle, Stays, Held, Moves
  <2>4. QED
    BY <2>1, <2>2, <2>3
<1>6. QED
  BY <1>1, <1>2, <1>3, <1>4, <1>5 DEF Others

\* A command is sent; a prompt's or a take's moves its collector on.
LEMMA OnceAppend ==
    ASSUME NEW cs \in Seq(Commands), NEW q \in Seq(Entries), NEW col \in [Prompts -> Stages], OnceIn(cs, q, col),
           NEW c \in Commands, NEW col1,
           \/ c.op \notin {"prompt", "take"} /\ col1 = col
           \/ c.op = "prompt" /\ col[c.p] = "unsent" /\ col1 = [col EXCEPT ![c.p] = "waiting"]
           \/ c.op = "take" /\ col[c.p] = "answered" /\ col1 = [col EXCEPT ![c.p] = "taking"]
    PROVE  OnceIn(Append(cs, c), q, col1)
<1> DEFINE t == Append(cs, c)
           n == Len(cs)
<1>1. t \in Seq(Commands) /\ Len(t) = n + 1 /\ n \in Nat /\ t[n + 1] = c /\ \A i \in 1..n : t[i] = cs[i]
  BY AppendFacts, LenNat
<1> HIDE DEF t
<1>2. \A i \in 1..Len(t) : i = n + 1 \/ i \in 1..n
  BY <1>1, SMT
<1>3. c.op \in {"prompt", "take"} => c.p \in Prompts
  BY CommandFacts
<1>4. ASSUME NEW i \in 1..n, cs[i].op \in {"prompt", "take"}
      PROVE  col1[cs[i].p] = col[cs[i].p] /\ (c.op \in {"prompt", "take"} => c.p # cs[i].p)
  <2>1. cs[i] \in Commands
    BY SMT
  <2>2. cs[i].p \in Prompts /\ col[cs[i].p] \in {"waiting", "taking", "collected"}
    BY <1>4, <2>1, CommandFacts DEF OnceIn
  <2>3. QED
    BY <1>3, <2>2
<1>5. ASSUME NEW i \in 1..Len(q)
      PROVE  col1[q[i].p] = "waiting" /\ (c.op \in {"prompt", "take"} => c.p # q[i].p)
  <2>1. q[i] \in Entries
    BY SMT
  <2>2. q[i].p \in Prompts /\ col[q[i].p] = "waiting"
    BY <2>1 DEF OnceIn, Entries
  <2>3. QED
    BY <1>3, <2>2
<1>6. /\ c.op = "prompt" => col1[c.p] = "waiting"
      /\ c.op = "take" => col1[c.p] = "taking"
  BY <1>3
<1>7. ASSUME NEW i \in 1..Len(t)
      PROVE  /\ t[i].op = "prompt" => col1[t[i].p] = "waiting"
             /\ t[i].op = "take" => col1[t[i].p] \in {"taking", "collected"}
             /\ \A j \in 1..Len(q) : t[i].op = "prompt" => t[i].p # q[j].p
  <2>1. CASE i = n + 1
    BY <1>1, <1>5, <1>6, <2>1
  <2>2. CASE i \in 1..n
    <3>1. t[i] = cs[i]
      BY <1>1, <2>2
    <3>2. QED
      BY <1>4, <2>2, <3>1 DEF OnceIn
  <2>3. QED
    BY <1>2, <2>1, <2>2
<1>8. ASSUME NEW i \in 1..Len(t), NEW j \in 1..Len(t), t[i].op = "prompt", t[j].op = "prompt", t[i].p = t[j].p
      PROVE  i = j
  <2>1. CASE i \in 1..n /\ j \in 1..n
    BY <1>1, <1>8, <2>1 DEF OnceIn
  <2>2. CASE i \in 1..n /\ j = n + 1
    BY <1>1, <1>4, <1>8, <2>2
  <2>3. CASE i = n + 1 /\ j \in 1..n
    BY <1>1, <1>4, <1>8, <2>3
  <2>4. QED
    BY <1>2, <2>1, <2>2, <2>3
<1>9. OnceIn(t, q, col1)
  BY <1>5, <1>7, <1>8 DEF OnceIn
<1>10. QED
  BY <1>9 DEF t

\* A take is answered: nobody waits for that prompt.
LEMMA OnceAnswer ==
    ASSUME NEW cs \in Seq(Commands), NEW q \in Seq(Entries), NEW col \in [Prompts -> Stages], OnceIn(cs, q, col),
           NEW p \in Prompts, col[p] \in {"taking", "collected"}, NEW col1, col1 = [col EXCEPT ![p] = "collected"]
    PROVE  OnceIn(cs, q, col1)
<1>1. ASSUME NEW i \in 1..Len(cs)
      PROVE  /\ cs[i].op = "prompt" => col1[cs[i].p] = "waiting"
             /\ cs[i].op = "take" => col1[cs[i].p] \in {"taking", "collected"}
  <2>1. cs[i] \in Commands
    BY SMT
  <2>2. cs[i].op \in {"prompt", "take"} => cs[i].p \in Prompts
    BY <2>1, CommandFacts
  <2>3. cs[i].op = "prompt" => col[cs[i].p] = "waiting" /\ cs[i].p # p
    BY DEF OnceIn
  <2>4. cs[i].op = "take" => col[cs[i].p] \in {"taking", "collected"}
    BY DEF OnceIn
  <2>5. QED
    BY <2>2, <2>3, <2>4
<1>2. ASSUME NEW i \in 1..Len(q) PROVE col1[q[i].p] = "waiting"
  <2>1. q[i] \in Entries
    BY SMT
  <2>2. q[i].p \in Prompts /\ col[q[i].p] = "waiting" /\ q[i].p # p
    BY <2>1 DEF OnceIn, Entries
  <2>3. QED
    BY <2>2
<1>3. QED
  BY <1>1, <1>2 DEF OnceIn

Advanced == \A p \in Prompts : collector[p] \in {"taking", "collected"} => collector'[p] \in {"taking", "collected"}

LEMMA PoppedOnce ==
    ASSUME NEW cs \in Seq(Commands), NEW q \in Seq(Entries), collector \in [Prompts -> Stages],
           OnceIn(cs, q, collector), Popped(q)
    PROVE  OnceIn(cs, pending', collector') /\ collector' \in [Prompts -> Stages] /\ Advanced
<1>1. /\ q # <<>> /\ pending' = Tail(q) /\ collector' \in [Prompts -> Stages]
      /\ \A p \in Prompts : p # Head(q).p => collector'[p] = collector[p]
  BY DEF Popped
<1>2. OnceIn(cs, Tail(q), collector')
  BY <1>1, OncePop
<1>3. 1 \in 1..Len(q) /\ Head(q) = q[1]
  BY <1>1, HeadTail
<1>4. collector[Head(q).p] = "waiting"
  BY <1>3 DEF OnceIn
<1>5. QED
  BY <1>1, <1>2, <1>4 DEF Advanced

LEMMA OnceMoves ==
    ASSUME LoopInv, MailOK, OnceInv, Moves
    PROVE  OnceIn(cmds', pending', collector') /\ collector' \in [Prompts -> Stages] /\ Advanced
<1>0. /\ cmds \in Seq(Commands) /\ pending \in Seq(Entries) /\ collector \in [Prompts -> Stages]
      /\ OnceIn(cmds, pending, collector) /\ mailbox \in Seq(Messages)
  BY DEF LoopInv, SessionOK, OnceInv, MailOK
<1>1. CASE Stays
  BY <1>0, <1>1 DEF Stays, Advanced
<1>2. CASE Drops
  BY <1>0, <1>2, OnceTail DEF Drops, Advanced
<1>3. CASE Adds
  <2>1. PICK c \in Commands :
          /\ cmds' = Append(cmds, c)
          /\ \/ c.op \notin {"prompt", "take"} /\ UNCHANGED collector
             \/ c.op = "prompt" /\ collector[c.p] = "unsent" /\ collector' = [collector EXCEPT ![c.p] = "waiting"]
             \/ c.op = "take" /\ collector[c.p] = "answered" /\ collector' = [collector EXCEPT ![c.p] = "taking"]
    BY <1>3 DEF Adds
  <2>2. OnceIn(Append(cmds, c), pending, collector')
    BY <1>0, <2>1, OnceAppend
  <2>3. collector' \in [Prompts -> Stages]
    BY <1>0, <2>1 DEF Stages
  <2>4. Advanced
    BY <1>0, <2>1, CommandFacts DEF Advanced
  <2>5. QED
    BY <1>3, <2>1, <2>2, <2>3, <2>4 DEF Adds
<1>4. CASE Enters
  <2>1. cmds # <<>> /\ cmds' = Tail(cmds) /\ Head(cmds).op = "prompt" /\ Tail(cmds) \in Seq(Commands)
    BY <1>0, <1>4, HeadTail DEF Enters
  <2>2. PICK r, e, at : /\ Entered(r, e, at)
                        /\ \/ running # None /\ Popped(r)
                           \/ pending' = r /\ UNCHANGED collector
    BY <1>4 DEF Enters
  <2>3. OnceIn(Tail(cmds), r, collector) /\ r \in Seq(Entries)
    BY <1>0, <2>1, <2>2, OnceInsert DEF Entered
  <2>4. CASE Popped(r)
    BY <1>0, <2>1, <2>3, <2>4, PoppedOnce
  <2>5. CASE pending' = r /\ UNCHANGED collector
    BY <1>0, <2>1, <2>3, <2>5 DEF Advanced
  <2>6. QED
    BY <2>2, <2>4, <2>5
<1>5. CASE Leaves
  <2>1. Popped(pending) /\ OnceIn(cmds', pending, collector) /\ cmds' \in Seq(Commands)
    BY <1>0, <1>5, OnceTail, HeadTail DEF Leaves
  <2>2. QED
    BY <1>0, <2>1, PoppedOnce
<1>6. CASE Answers
  <2>1. PICK p : p = Head(mailbox).p
    OBVIOUS
  <2>2. /\ UNCHANGED <<cmds, pending>> /\ mailbox # <<>> /\ Head(mailbox).op = "take"
        /\ collector' = [collector EXCEPT ![p] = "collected"]
    BY <1>6, <2>1 DEF Answers
  <2>3. Head(mailbox) \in Messages /\ Head(mailbox) = mailbox[1] /\ 1 \in 1..Len(mailbox)
    BY <1>0, <2>2, HeadTail
  <2>4. p \in Prompts
    BY <2>1, <2>2, <2>3 DEF Messages
  <2>5. collector[p] \in {"taking", "collected"}
    BY <2>1, <2>2, <2>3 DEF OnceInv
  <2>6. OnceIn(cmds, pending, collector')
    BY <1>0, <2>2, <2>4, <2>5, OnceAnswer
  <2>7. collector' \in [Prompts -> Stages] /\ Advanced
    BY <1>0, <2>2, <2>4 DEF Stages, Advanced
  <2>8. QED
    BY <2>2, <2>6, <2>7
<1>7. QED
  BY <1>1, <1>2, <1>3, <1>4, <1>5, <1>6 DEF Moves

\* The messages behind the first; those posted are behind all there are.
LEMMA Posted ==
    ASSUME NEW s \in Seq(Messages), NEW msgs \in Seq(Messages)
    PROVE  \A i \in 1..Len(s \o msgs) :
              \/ i \in 1..Len(s) /\ (s \o msgs)[i] = s[i]
              \/ i - Len(s) \in 1..Len(msgs) /\ (s \o msgs)[i] = msgs[i - Len(s)]
BY SMT

LEMMA OnceNext ==
    ASSUME LoopInv, MailOK, OnceInv, [Next]_vars
    PROVE  OnceInv'
<1>0. mailbox \in Seq(Messages) /\ collector \in [Prompts -> Stages] /\ cmds \in Seq(Commands)
  BY DEF MailOK, OnceInv, LoopInv, SessionOK
<1>1. \A i \in 1..Len(mailbox) : mailbox[i].op = "take" =>
         mailbox[i].p \in Prompts /\ collector[mailbox[i].p] \in {"taking", "collected"}
  <2> SUFFICES ASSUME NEW i \in 1..Len(mailbox), mailbox[i].op = "take"
               PROVE  mailbox[i].p \in Prompts /\ collector[mailbox[i].p] \in {"taking", "collected"}
    OBVIOUS
  <2>1. mailbox[i] \in Messages
    BY <1>0, SMT
  <2>2. mailbox[i].p \in Prompts
    BY <2>1 DEF Messages
  <2>3. QED
    BY <2>2 DEF OnceInv
<1>2. CASE Others
  <2>1. Moves
    BY <1>0, <1>2, AnyMove
  <2>2. OnceIn(cmds', pending', collector') /\ collector' \in [Prompts -> Stages] /\ Advanced
    BY <2>1, OnceMoves
  <2>3. PICK msgs \in Seq(Postable) : mailbox' = mailbox \o msgs
    BY <1>2, Posts
  <2>4. msgs \in Seq(Messages) /\ \A i \in 1..Len(msgs) : Allowed(msgs[i])
    BY PostableSeq
  <2>5. ASSUME LoopTake PROVE Head(cmds).p \in Prompts /\ collector'[Head(cmds).p] \in {"taking", "collected"}
    <3>1. cmds # <<>> /\ Head(cmds).op = "take" /\ collector' = collector
      BY <2>5 DEF LoopTake, Receive
    <3>2. Head(cmds) \in Commands /\ Head(cmds) = cmds[1] /\ 1 \in 1..Len(cmds)
      BY <1>0, <3>1, HeadTail
    <3>3. QED
      BY <3>1, <3>2, CommandFacts DEF OnceInv, OnceIn
  <2>6. ASSUME NEW i \in 1..Len(mailbox'), mailbox'[i].op = "take"
        PROVE  collector'[mailbox'[i].p] \in {"taking", "collected"}
    <3>1. \/ i \in 1..Len(mailbox) /\ mailbox'[i] = mailbox[i]
          \/ i - Len(mailbox) \in 1..Len(msgs) /\ mailbox'[i] = msgs[i - Len(mailbox)]
      BY <1>0, <2>3, <2>4, Posted
    <3>2. CASE i \in 1..Len(mailbox) /\ mailbox'[i] = mailbox[i]
      BY <1>1, <2>2, <2>6, <3>2 DEF Advanced
    <3>3. CASE i - Len(mailbox) \in 1..Len(msgs) /\ mailbox'[i] = msgs[i - Len(mailbox)]
      <4>1. LoopTake /\ mailbox'[i].p = Head(cmds).p
        BY <2>4, <2>6, <3>3 DEF Allowed
      <4>2. QED
        BY <2>5, <4>1
    <3>4. QED
      BY <3>1, <3>2, <3>3
  <2>7. QED
    BY <2>2, <2>6 DEF OnceInv
<1>3. CASE ActorStep
  <2>1. Moves
    BY <1>0, <1>3, AnyMove
  <2>2. OnceIn(cmds', pending', collector') /\ collector' \in [Prompts -> Stages] /\ Advanced
    BY <2>1, OnceMoves
  <2>3. mailbox # <<>> /\ mailbox' = Tail(mailbox)
    BY <1>3, ActorLogs
  <2>4. ASSUME NEW i \in 1..Len(mailbox'), mailbox'[i].op = "take"
        PROVE  collector'[mailbox'[i].p] \in {"taking", "collected"}
    <3>1. mailbox'[i] = mailbox[i + 1] /\ i + 1 \in 1..Len(mailbox)
      BY <1>0, <2>3, HeadTail
    <3>2. QED
      BY <1>1, <2>2, <2>4, <3>1 DEF Advanced
  <2>5. QED
    BY <2>2, <2>4 DEF OnceInv
<1>4. CASE UNCHANGED vars
  BY <1>4 DEF vars, session, OnceInv
<1>5. QED
  BY <1>2, <1>3, <1>4 DEF Next, Others

-----------------------------------------------------------------------------
(* The turns that have started *)

Asked(p)  == \E i \in 1..Len(cmds) : cmds[i].op = "prompt" /\ cmds[i].p = p
Queued(p) == \E i \in 1..Len(pending) : pending[i].p = p

\* The turn of this prompt has not taken its first step.
Fresh(p) ==
    \/ collector[p] = "unsent"
    \/ Asked(p)
    \/ Queued(p) /\ (p = running => turn.pc = "start")

LEMMA InsertedFrom ==
    ASSUME NEW q \in Seq(Entries), NEW at \in 0..Len(q), NEW e, NEW r, IsInsertion(r, q, at, e), NEW i \in 1..Len(r)
    PROVE  r[i] = e \/ \E j \in 1..Len(q) : r[i] = q[j]
<1>0. Len(q) \in Nat /\ Len(r) = Len(q) + 1
  BY LenNat DEF IsInsertion
<1>1. CASE i = at + 1
  BY <1>1 DEF IsInsertion
<1>2. CASE i <= at
  <2>1. i \in 1..at /\ i \in 1..Len(q)
    BY <1>0, <1>2, SMT
  <2>2. QED
    BY <2>1 DEF IsInsertion
<1>3. CASE i > at + 1
  <2>1. i - 1 \in (at + 1)..Len(q) /\ (i - 1) + 1 = i /\ i - 1 \in 1..Len(q)
    BY <1>0, <1>3, SMT
  <2>2. PICK j \in 1..Len(q) : j \in (at + 1)..Len(q) /\ j + 1 = i
    BY <2>1
  <2>3. QED
    BY <2>2 DEF IsInsertion
<1>4. QED
  BY <1>0, <1>1, <1>2, <1>3, SMT

\* Who is behind the front is another prompt.
LEMMA PoppedOthers ==
    ASSUME NEW cs, NEW q \in Seq(Entries), NEW col, OnceIn(cs, q, col), q # <<>>, NEW i \in 1..Len(Tail(q))
    PROVE  Tail(q)[i].p # Head(q).p /\ \E j \in 1..Len(q) : Tail(q)[i] = q[j]
<1>1. Tail(q)[i] = q[i + 1] /\ i + 1 \in 1..Len(q) /\ i + 1 # 1 /\ 1 \in 1..Len(q) /\ Head(q) = q[1]
  BY HeadTail, SMT
<1>2. q[i + 1].p # q[1].p
  BY <1>1 DEF OnceIn
<1>3. QED
  BY <1>1, <1>2

\* The commands that are left were there before.
LEMMA AskedTail ==
    ASSUME NEW cs \in Seq(Commands), cs # <<>>, NEW i \in 1..Len(Tail(cs))
    PROVE  \E j \in 1..Len(cs) : Tail(cs)[i] = cs[j]
<1>1. Tail(cs)[i] = cs[i + 1] /\ i + 1 \in 1..Len(cs)
  BY HeadTail
<1>2. QED
  BY <1>1

\* No step makes a prompt fresh again.
LEMMA FreshOnly ==
    ASSUME LoopInv, MailOK, OnceInv, Moves, NEW p \in Prompts, Fresh(p)'
    PROVE  Fresh(p)
<1>0. /\ cmds \in Seq(Commands) /\ pending \in Seq(Entries) /\ collector \in [Prompts -> Stages]
      /\ OnceIn(cmds, pending, collector) /\ mailbox \in Seq(Messages)
      /\ pending # <<>> => Head(pending).p = running
  BY DEF LoopInv, SessionOK, OnceInv, MailOK, FrontIsRunning
<1>1. CASE Stays
  BY <1>1 DEF Stays, Held, Fresh, Asked, Queued
<1>2. CASE Drops
  <2>1. Asked(p)' => Asked(p)
    BY <1>0, <1>2, AskedTail DEF Drops, Asked
  <2>2. QED
    BY <1>2, <2>1 DEF Drops, Held, Fresh, Queued
<1>3. CASE Adds
  <2>1. PICK c \in Commands :
          /\ cmds' = Append(cmds, c)
          /\ \/ c.op \notin {"prompt", "take"} /\ UNCHANGED collector
             \/ c.op = "prompt" /\ collector[c.p] = "unsent" /\ collector' = [collector EXCEPT ![c.p] = "waiting"]
             \/ c.op = "take" /\ collector[c.p] = "answered" /\ collector' = [collector EXCEPT ![c.p] = "taking"]
    BY <1>3 DEF Adds
  <2>2. collector'[p] = "unsent" => collector[p] = "unsent"
    BY <1>0, <2>1
  <2>3. ASSUME Asked(p)' PROVE Asked(p) \/ collector[p] = "unsent"
    <3>1. PICK i \in 1..Len(cmds') : cmds'[i].op = "prompt" /\ cmds'[i].p = p
      BY <2>3 DEF Asked
    <3>2. (i \in 1..Len(cmds) /\ cmds'[i] = cmds[i]) \/ cmds'[i] = c
      <4>1. Len(cmds') = Len(cmds) + 1 /\ Len(cmds) \in Nat
        BY <1>0, <2>1, AppendFacts, LenNat
      <4>2. i \in 1..Len(cmds) \/ i = Len(cmds) + 1
        BY <4>1, SMT
      <4>3. QED
        BY <1>0, <2>1, <4>2, AppendFacts
    <3>3. QED
      BY <2>1, <3>1, <3>2 DEF Asked
  <2>4. QED
    BY <1>3, <2>2, <2>3 DEF Adds, Held, Fresh, Queued
<1>4. CASE Enters
  <2>1. cmds # <<>> /\ cmds' = Tail(cmds) /\ Head(cmds).op = "prompt" /\ Head(cmds) = cmds[1] /\ 1 \in 1..Len(cmds)
    BY <1>0, <1>4, HeadTail DEF Enters
  <2>2. PICK r, e, at : /\ Entered(r, e, at)
                        /\ \/ running # None /\ Popped(r)
                           \/ pending' = r /\ UNCHANGED collector /\ (running # None => UNCHANGED <<running, turn>>)
    BY <1>4 DEF Enters
  <2>3. OnceIn(Tail(cmds), r, collector) /\ r \in Seq(Entries)
    BY <1>0, <2>1, <2>2, OnceInsert DEF Entered
  <2>4. Asked(p)' => Asked(p)
    BY <1>0, <2>1, AskedTail DEF Asked
  <2>5. p = Head(cmds).p => Asked(p)
    BY <2>1 DEF Asked
  <2>6. ASSUME NEW i \in 1..Len(r), r[i].p = p PROVE Asked(p) \/ Queued(p)
    <3>1. r[i] = e \/ \E j \in 1..Len(pending) : r[i] = pending[j]
      BY <1>0, <2>2, InsertedFrom DEF Entered
    <3>2. QED
      BY <2>2, <2>5, <2>6, <3>1 DEF Queued, Entered
  <2>7. CASE running # None /\ Popped(r)
    <3>1. Head(r).p = running
      BY <1>0, <2>2, <2>7 DEF Entered
    <3>2. ASSUME Queued(p)' PROVE p # running /\ (Asked(p) \/ Queued(p))
      <4>1. r # <<>> /\ pending' = Tail(r)
        BY <2>7 DEF Popped
      <4>2. PICK i \in 1..Len(Tail(r)) : Tail(r)[i].p = p
        BY <3>2, <4>1 DEF Queued
      <4>3. Tail(r)[i].p # Head(r).p /\ \E j \in 1..Len(r) : Tail(r)[i] = r[j]
        BY <2>3, <4>1, PoppedOthers
      <4>4. QED
        BY <2>6, <3>1, <4>2, <4>3
    <3>3. collector'[p] = "unsent" => collector[p] = "unsent"
      BY <2>7 DEF Popped
    <3>4. QED
      BY <2>4, <3>2, <3>3 DEF Fresh
  <2>8. CASE pending' = r /\ UNCHANGED collector /\ (running # None => UNCHANGED <<running, turn>>)
    <3>1. Queued(p)' => Asked(p) \/ Queued(p)
      BY <2>6, <2>8 DEF Queued
    <3>2. p # None
      BY NoneIsNoPrompt
    <3>3. QED
      BY <2>4, <2>8, <3>1, <3>2 DEF Fresh
  <2>9. QED
    BY <2>2, <2>7, <2>8
<1>5. CASE Leaves
  <2>1. Asked(p)' => Asked(p)
    <3>1. CASE cmds' = cmds
      BY <3>1 DEF Asked
    <3>2. CASE cmds # <<>> /\ cmds' = Tail(cmds)
      BY <1>0, <3>2, AskedTail DEF Asked
    <3>3. QED
      BY <1>5, <3>1, <3>2 DEF Leaves
  <2>2. pending # <<>> /\ pending' = Tail(pending)
    BY <1>5 DEF Leaves, Popped
  <2>3. ASSUME Queued(p)' PROVE p # running /\ Queued(p)
    <3>1. PICK i \in 1..Len(Tail(pending)) : Tail(pending)[i].p = p
      BY <2>2, <2>3 DEF Queued
    <3>2. Tail(pending)[i].p # Head(pending).p /\ \E j \in 1..Len(pending) : Tail(pending)[i] = pending[j]
      BY <1>0, <2>2, PoppedOthers
    <3>3. QED
      BY <1>0, <2>2, <3>1, <3>2 DEF Queued
  <2>4. collector'[p] = "unsent" => collector[p] = "unsent"
    BY <1>5 DEF Leaves, Popped
  <2>5. QED
    BY <2>1, <2>3, <2>4 DEF Fresh
<1>6. CASE Answers
  <2>1. collector'[p] = "unsent" => collector[p] = "unsent"
    BY <1>0, <1>6 DEF Answers
  <2>2. QED
    BY <1>6, <2>1 DEF Answers, Held, Fresh, Asked, Queued
<1>7. QED
  BY <1>1, <1>2, <1>3, <1>4, <1>5, <1>6 DEF Moves

LEMMA PromptKept ==
    ASSUME StateOK, MailOK, ActorStep, ~ActorIndex
    PROVE  st'.prompt = st.prompt
<1>0. st \in States
  BY DEF StateOK
<1>1. CASE ActorBegin
  BY <1>0, <1>1, BeginHandler DEF ActorBegin, Becoming
<1>2. CASE ActorPush
  <2>1. st' = PushMessage(st, Head(mailbox).item).st /\ Head(mailbox).item \in AllItems
    BY <1>2, PushedItem DEF ActorPush, Handle
  <2>2. QED
    BY <1>0, <2>1, PushHandler DEF Becoming
<1>3. CASE ActorPushUser
  <2>1. st' = PushUserMessage(st, Head(mailbox).item, "cancelled").st /\ Head(mailbox).item \in AllItems
    BY <1>3, PushedItem DEF ActorPushUser, Handle
  <2>2. PICK c \in Seq(AllItems) : Rebased(st, st', Len(c) - 1)
    BY <1>0, <2>1, PushUserHandler
  <2>3. QED
    BY <2>2 DEF Rebased
<1>4. CASE ActorBuild
  <2>1. PICK reminder \in BOOLEAN : st' = BuildRequest(st, reminder).st
    BY <1>4 DEF ActorBuild
  <2>2. Rebased(st, st', Len(st'.conv))
    BY <1>0, <2>1, BuildHandler
  <2>3. QED
    BY <2>2, Zenon DEF Rebased
<1>5. CASE ActorCompact
  <2>1. st' = ReplaceConversation(st, Compacted, TRUE).st
    BY <1>5 DEF ActorCompact
  <2>2. Compacted \in Seq(AllItems)
    BY CompactedType, AllStable, Zenon
  <2>3. TRUE \in BOOLEAN
    OBVIOUS
  <2>4. Rebased(st, st', Len(Compacted))
    BY <1>0, <2>1, <2>2, <2>3, ReplaceHandler, Zenon
  <2>5. QED
    BY <2>4, Zenon DEF Rebased
<1>6. CASE ActorHead
  <2>1. st' = ReplaceSystemHead(st, "new_head").st
    BY <1>6 DEF ActorHead
  <2>2. QED
    BY <1>0, <2>1, HeadHandler DEF Rebased
<1>7. CASE ActorRepair
  <2>1. st' = st \/ st' = DoRepairHistory(st).st
    BY <1>7 DEF ActorRepair
  <2>2. QED
    BY <1>0, <2>1, RepairHandler
<1>8. CASE ActorTake
  BY <1>0, <1>8, TakeHandler DEF ActorTake, Becoming
<1>9. QED
  BY <1>1, <1>2, <1>3, <1>4, <1>5, <1>6, <1>7, <1>8 DEF ActorStep

Started == {p \in Prompts : ~Fresh(p)}
Indexes == {i \in 1..Len(mailbox) : mailbox[i].op = "index"}

\* Each turn that has started asked for one increment of the prompt index: it has
\* been made or is on its way.
IndexInv == st.prompt + Cardinality(Indexes) <= Cardinality(Started)

LEMMA StartedFinite ==
    /\ IsFiniteSet(Started) /\ Cardinality(Started) \in Nat /\ Cardinality(Started) <= MaxPrompts
<1>1. IsFiniteSet(Prompts) /\ Cardinality(Prompts) = MaxPrompts
  <2>1. 1 \in Int /\ MaxPrompts \in Int /\ MaxPrompts >= 1
    BY CollectionAssumption, SMT
  <2>2. IsFiniteSet(1..MaxPrompts) /\ Cardinality(1..MaxPrompts) = IF 1 > MaxPrompts THEN 0 ELSE MaxPrompts - 1 + 1
    BY <2>1, FS_Interval
  <2>3. QED
    BY <2>1, <2>2, SMT DEF Prompts
<1>2. Started \subseteq Prompts
  BY DEF Started
<1>3. QED
  BY <1>1, <1>2, FS_Subset, FS_CardinalityType

LEMMA StartedNext == IsFiniteSet(Started)' /\ (Cardinality(Started) \in Nat)'
BY StartedFinite, PTL

LEMMA IndexesFinite ==
    ASSUME NEW s \in Seq(Messages), NEW T, T \subseteq 1..Len(s)
    PROVE  IsFiniteSet(T) /\ Cardinality(T) \in Nat
<1>1. Len(s) \in Nat
  BY LenNat
<1>2. IsFiniteSet(1..Len(s))
  BY <1>1, FS_Interval, SMT
<1>3. QED
  BY <1>2, FS_Subset, FS_CardinalityType

LEMMA IndexInit == Init => IndexInv
<1> SUFFICES ASSUME Init PROVE IndexInv
  OBVIOUS
<1>1. st.prompt = 0 /\ mailbox = <<>>
  BY DEF Init, NewState, State
<1>2. Indexes = {}
  <2>1. 1..Len(<<>>) = {}
    BY SMT
  <2>2. QED
    BY <1>1, <2>1 DEF Indexes
<1>3. Cardinality(Indexes) = 0
  BY <1>2, FS_EmptySet
<1>4. QED
  BY <1>1, <1>3, StartedFinite, SMT DEF IndexInv

LEMMA IndexNext ==
    ASSUME LoopInv, MailOK, OnceInv, StateOK, IndexInv, [Next]_vars
    PROVE  IndexInv'
<1>0. /\ mailbox \in Seq(Messages) /\ Len(mailbox) \in Nat /\ st.prompt \in Nat /\ collector \in [Prompts -> Stages]
      /\ IsFiniteSet(Indexes) /\ Cardinality(Indexes) \in Nat
  <2>1. mailbox \in Seq(Messages) /\ st \in States /\ collector \in [Prompts -> Stages]
    BY DEF MailOK, StateOK, OnceInv
  <2>2. Indexes \subseteq 1..Len(mailbox)
    BY DEF Indexes
  <2>3. QED
    BY <2>1, <2>2, LenNat, IndexesFinite DEF States
<1> DEFINE S == Started
           T == Started'
<1>1. IsFiniteSet(S) /\ Cardinality(S) \in Nat /\ IsFiniteSet(T) /\ Cardinality(T) \in Nat
  BY StartedFinite, StartedNext
<1>2. ASSUME Others \/ ActorStep PROVE S \subseteq T /\ Cardinality(S) <= Cardinality(T)
  <2>1. Moves
    BY <1>0, <1>2, AnyMove
  <2>2. \A p \in Prompts : Fresh(p)' => Fresh(p)
    BY <2>1, FreshOnly
  <2>3. S \subseteq T
    BY <2>2 DEF Started
  <2> HIDE DEF S, T
  <2>4. QED
    BY <1>1, <2>3, FS_Subset
<1>3. CASE Others /\ ~TurnStart
  <2>1. PICK msgs \in Seq(Postable) : mailbox' = mailbox \o msgs /\ st' = st
    BY <1>3, Posts
  <2>2. msgs \in Seq(Messages) /\ Len(msgs) \in Nat /\ \A i \in 1..Len(msgs) : Allowed(msgs[i])
    BY PostableSeq, LenNat
  <2>3. /\ \A i \in 1..Len(mailbox') :
              \/ i \in 1..Len(mailbox) /\ mailbox'[i] = mailbox[i]
              \/ i - Len(mailbox) \in 1..Len(msgs) /\ mailbox'[i] = msgs[i - Len(mailbox)]
        /\ \A i \in 1..Len(mailbox) : i \in 1..Len(mailbox') /\ mailbox'[i] = mailbox[i]
    <3>1. \A i \in 1..Len(mailbox) : i \in 1..Len(mailbox') /\ mailbox'[i] = mailbox[i]
      BY <1>0, <2>1, <2>2, SMT
    <3>2. QED
      BY <1>0, <2>1, <2>2, <3>1, Posted
  <2>4. \A i \in 1..Len(msgs) : msgs[i].op # "index"
    BY <1>3, <2>2 DEF Allowed
  <2>5. Indexes' = Indexes
    BY <2>3, <2>4 DEF Indexes
  <2>6. QED
    BY <1>0, <1>1, <1>2, <1>3, <2>1, <2>5, SMT DEF IndexInv
<1>4. CASE TurnStart
  <2>1. turn.pc = "start" /\ mailbox' = mailbox \o <<[op |-> "index"]>> /\ turn' = [turn EXCEPT !.pc = "begin"]
        /\ UNCHANGED <<cmds, pending, running, collector, st>>
    BY <1>4 DEF TurnStart, At, Post, session
  <2>2. /\ turn.p = running /\ running \in Prompts /\ turn \in Turns /\ pending # <<>> /\ Head(pending).p = running
        /\ pending \in Seq(Entries)
    BY <2>1 DEF LoopInv, SessionOK, Owned, FrontIsRunning, Shape
  <2>3. turn'.pc = "begin"
    <3>1. Becomes(turn, turn', "begin", turn.k, turn.open)
      BY <2>1, <2>2, PcUpdate DEF Pcs
    <3>2. QED
      BY <3>1 DEF Becomes
  <2>4. 1 \in 1..Len(pending) /\ pending[1].p = running
    BY <2>2, HeadTail
  <2>5. collector[running] = "waiting" /\ ~Asked(running)
    BY <2>4 DEF OnceInv, OnceIn, Asked
  <2>6. Fresh(running)
    BY <2>1, <2>4 DEF Fresh, Queued
  <2>7. running \notin S
    BY <2>6 DEF Started
  <2>8. PICK q \in Prompts : q = running
    BY <2>2
  <2>9. ~Asked(q)' /\ collector'[q] = "waiting" /\ running' = q
    BY <2>1, <2>5, <2>8 DEF Asked
  <2>10. ~Fresh(q)'
    BY <2>3, <2>9 DEF Fresh
  <2>11. q \in T
    BY <2>10 DEF Started
  <2>12. S \subseteq T
    BY <1>2, <1>4 DEF Others, TurnStep
  <2> HIDE DEF S, T
  <2>13. Cardinality(S \cup {q}) = Cardinality(S) + 1 /\ IsFiniteSet(S \cup {q})
    BY <1>1, <2>7, <2>8, FS_AddElement
  <2>14. Cardinality(S \cup {q}) <= Cardinality(T)
    BY <1>1, <2>11, <2>12, <2>13, FS_Subset
  <2>15. Cardinality(T) >= Cardinality(S) + 1
    BY <1>1, <2>13, <2>14, SMT
  <2>16. PICK n \in Nat : n = Len(mailbox) + 1
    BY <1>0, SMT
  <2>17. Indexes' = Indexes \cup {n} /\ n \notin Indexes
    <3>1. [op |-> "index"] \in Messages
      BY DEF Messages
    <3>2. mailbox' = Append(mailbox, [op |-> "index"])
      BY <1>0, <2>1 DEF Append
    <3>3. /\ Len(mailbox') = n /\ mailbox'[n] = [op |-> "index"]
          /\ \A i \in 1..Len(mailbox) : mailbox'[i] = mailbox[i]
      BY <1>0, <2>16, <3>1, <3>2, AppendFacts
    <3>4. (\A i : i \in 1..n <=> i \in 1..Len(mailbox) \/ i = n) /\ n \notin 1..Len(mailbox)
      BY <1>0, <2>16, SMT
    <3>5. QED
      BY <3>3, <3>4 DEF Indexes
  <2>18. Cardinality(Indexes') = Cardinality(Indexes) + 1
    BY <1>0, <2>17, FS_AddElement
  <2>19. QED
    BY <1>0, <1>1, <2>1, <2>15, <2>18, SMT DEF IndexInv, S, T
<1>5. CASE ActorStep
  <2>1. mailbox # <<>> /\ mailbox' = Tail(mailbox)
    BY <1>5, ActorLogs
  <2>2. /\ Len(mailbox') = Len(mailbox) - 1 /\ Len(mailbox') \in Nat /\ mailbox' \in Seq(Messages)
        /\ Head(mailbox) = mailbox[1] /\ 1 \in 1..Len(mailbox)
        /\ \A i \in 1..Len(mailbox') : mailbox'[i] = mailbox[i + 1] /\ i + 1 \in 1..Len(mailbox)
    BY <1>0, <2>1, HeadTail, LenNat
  <2> DEFINE I == Indexes
             J == Indexes'
             f == [i \in J |-> i + 1]
  <2>3. \A i \in J : i \in 1..Len(mailbox') /\ i \in Int /\ i + 1 \in I \ {1}
    <3> SUFFICES ASSUME NEW i \in J PROVE i \in 1..Len(mailbox') /\ i \in Int /\ i + 1 \in I \ {1}
      OBVIOUS
    <3>1. i \in 1..Len(mailbox') /\ mailbox'[i].op = "index"
      BY DEF Indexes
    <3>2. i \in Int /\ i + 1 # 1
      BY <2>2, <3>1, SMT
    <3>3. mailbox'[i] = mailbox[i + 1] /\ i + 1 \in 1..Len(mailbox)
      BY <2>2, <3>1
    <3>4. QED
      BY <3>1, <3>2, <3>3 DEF Indexes
  <2>4. \A k \in I \ {1} : k - 1 \in J /\ (k - 1) + 1 = k
    <3> SUFFICES ASSUME NEW k \in I \ {1} PROVE k - 1 \in J /\ (k - 1) + 1 = k
      OBVIOUS
    <3>1. k \in 1..Len(mailbox) /\ mailbox[k].op = "index" /\ k # 1
      BY DEF Indexes
    <3>2. k - 1 \in 1..Len(mailbox') /\ (k - 1) + 1 = k
      BY <1>0, <2>2, <3>1, SMT
    <3>3. mailbox'[k - 1] = mailbox[k]
      BY <2>2, <3>2
    <3>4. QED
      BY <3>1, <3>2, <3>3 DEF Indexes
  <2>5. IsFiniteSet(J) /\ Cardinality(J) \in Nat
    <3>1. J \subseteq 1..Len(mailbox')
      BY <2>3
    <3>2. QED
      BY <2>2, <3>1, IndexesFinite
  <2>6. IsFiniteSet(I) /\ Cardinality(I) \in Nat
    BY <1>0
  <2> HIDE DEF I, J
  <2>7. f \in Bijection(J, I \ {1})
    <3>1. f \in [J -> I \ {1}]
      BY <2>3
    <3>2. \A a, b \in J : f[a] = f[b] => a = b
      <4>1. \A a, b \in J : a \in Int /\ b \in Int
        BY <2>3
      <4>2. QED
        BY <4>1, SMT
    <3>3. \A k \in I \ {1} : \E a \in J : f[a] = k
      BY <2>4
    <3>4. QED
      BY <3>1, <3>2, <3>3 DEF Bijection, Injection, Surjection, IsInjective
  <2>8. Cardinality(J) = Cardinality(I \ {1})
    <3>1. ExistsBijection(J, I \ {1})
      BY <2>7 DEF ExistsBijection
    <3>2. QED
      BY <2>5, <3>1, FS_Bijection
  <2>9. CASE ActorIndex
    <3>1. Head(mailbox).op = "index" /\ st' = IncrementPromptIndex(st).st
      BY <2>9 DEF ActorIndex, Handle
    <3>2. st'.prompt = st.prompt + 1
      <4>1. st \in States
        BY DEF StateOK
      <4>2. QED
        BY <3>1, <4>1, IndexHandler DEF Becoming
    <3>3. 1 \in I
      BY <2>2, <3>1 DEF I, Indexes
    <3>4. Cardinality(I \ {1}) = Cardinality(I) - 1
      BY <2>6, <3>3, FS_RemoveElement
    <3>5. QED
      BY <1>0, <1>1, <1>2, <1>5, <2>5, <2>8, <3>2, <3>4, SMT DEF IndexInv, I, J
  <2>10. CASE ~ActorIndex
    <3>1. st'.prompt = st.prompt
      BY <1>5, <2>10, PromptKept
    <3>2. Head(mailbox).op # "index"
      BY <1>5, <2>10 DEF ActorStep, ActorBegin, ActorPush, ActorPushUser, ActorBuild, ActorCompact, ActorHead,
             ActorRepair, ActorTake, Handle
    <3>3. I \ {1} = I
      BY <2>2, <3>2 DEF I, Indexes
    <3>4. Cardinality(Indexes') = Cardinality(Indexes) /\ Cardinality(Started) <= Cardinality(Started')
      BY <1>2, <1>5, <2>8, <3>3 DEF I, J
    <3>5. QED
      BY <1>0, <1>1, <3>1, <3>4, SMT DEF IndexInv
  <2>11. QED
    BY <2>9, <2>10
<1>6. CASE UNCHANGED vars
  <2>1. UNCHANGED <<st, mailbox>> /\ UNCHANGED <<collector, cmds, pending, running, turn>>
    BY <1>6 DEF vars, session, task
  <2>2. Indexes' = Indexes
    BY <2>1 DEF Indexes
  <2>3. Started' = Started
    BY <2>1 DEF Started, Fresh, Asked, Queued
  <2>4. QED
    BY <2>1, <2>2, <2>3 DEF IndexInv
<1>7. QED
  BY <1>3, <1>4, <1>5, <1>6 DEF Next, Others

\* The inductive invariant of the session, the mailbox and the actor's state.
AllInv == LoopInv /\ MailOK /\ CommitInv /\ StateOK /\ OnceInv /\ IndexInv

LEMMA AllInvAlways == Spec => []AllInv
<1>1. Init => AllInv
  BY LoopInvInit, MailInit, StateInit, OnceInit, IndexInit DEF AllInv
<1>2. AllInv /\ [Next]_vars => AllInv'
  <2> SUFFICES ASSUME AllInv, [Next]_vars PROVE AllInv'
    OBVIOUS
  <2>1. LoopInv /\ MailOK /\ CommitInv /\ StateOK /\ OnceInv /\ IndexInv
    BY DEF AllInv
  <2>2. LoopInv' /\ MailOK' /\ CommitInv' /\ StateOK'
    BY <2>1, LoopInvNext, MailNext, CommitNext, StateNext
  <2>3. OnceInv' /\ IndexInv'
    BY <2>1, OnceNext, IndexNext
  <2>4. QED
    BY <2>2, <2>3 DEF AllInv
<1>3. QED
  BY <1>1, <1>2, PTL DEF Spec

\* Every variable has its type, for any number of prompts: the prompt index counts
\* each turn once although its increments are on their way while turns are cancelled
\* and started, and a capture never begins behind the end of the conversation, which
\* compaction, repair and pruning rewrite (turn_tail).
THEOREM SessionTypes == Spec => []TypeOK
<1>1. AllInv => TypeOK
  <2> SUFFICES ASSUME AllInv PROVE TypeOK
    OBVIOUS
  <2>1. LoopInv /\ MailOK /\ StateOK /\ OnceInv /\ IndexInv
    BY DEF AllInv
  <2>2. running \in Prompts \cup {None} /\ turn \in Turns
    BY <2>1 DEF LoopInv, SessionOK, Shape
  <2>3. turn.p \in Prompts \cup {None} /\ turn.k \in 0..MaxSamples
    BY <2>2 DEF Turns
  <2>4. collector \in [Prompts -> {"unsent", "waiting", "answered", "taking", "collected"}]
    BY <2>1 DEF OnceInv, Stages
  <2>5. /\ st.conv \in Seq(AllItems) /\ st.capture.pre \in Seq(AllItems) /\ st.prompt \in Nat
        /\ st.capture.offset \in Nat /\ (st.capture.on => st.capture.offset <= Len(st.conv))
    BY <2>1 DEF StateOK, States, Captures
  <2>6. st.prompt \in 0..MaxPrompts
    <3>1. Cardinality(Indexes) \in Nat
      <4>1. mailbox \in Seq(Messages) /\ Indexes \subseteq 1..Len(mailbox)
        BY <2>1 DEF MailOK, Indexes
      <4>2. QED
        BY <4>1, IndexesFinite
    <3>2. QED
      BY <2>1, <2>5, <3>1, StartedFinite, CollectionAssumption, SMT DEF IndexInv
  <2>7. st.capture.on => st.capture.offset \in 0..Len(st.conv)
    <3>1. Len(st.conv) \in Nat
      BY <2>5, LenNat
    <3>2. QED
      BY <2>5, <3>1, SMT
  <2>8. QED
    BY <2>2, <2>3, <2>4, <2>5, <2>6, <2>7 DEF TypeOK
<1>2. QED
  BY <1>1, AllInvAlways, PTL

-----------------------------------------------------------------------------
(* The ids of calls *)

Number(p, k) == (p - 1) * MaxSamples + k

LEMMA IdsAre ==
    ASSUME NEW p \in Prompts, NEW k \in 0..MaxSamples
    PROVE  Number(p, k) \in Nat /\ Number(p, k) >= k /\ IdsOf(p, k) = {2 * Number(p, k), 2 * Number(p, k) + 1}
<1> DEFINE n == 2 * Number(p, k)
<1>1. Number(p, k) \in Nat /\ Number(p, k) >= k
  <2>1. p - 1 \in Nat /\ k \in Nat /\ MaxSamples \in Nat
    BY CollectionAssumption, SMT DEF Prompts
  <2>2. \A x, y \in Nat : x * y \in Nat
    BY SMT
  <2>3. (p - 1) * MaxSamples \in Nat
    BY <2>1, <2>2
  <2>4. QED
    BY <2>1, <2>3, SMT DEF Number
<1>2. CallsOf(p, k) = {<<n>>, <<n, n + 1>>}
  BY DEF CallsOf, Number
<1> HIDE DEF n
<1>3. ToSet(<<n>>) = {n} /\ ToSet(<<n, n + 1>>) = {n, n + 1}
  BY SMT DEF ToSet
<1>4. IdsOf(p, k) = {n, n + 1}
  BY <1>2, <1>3 DEF IdsOf
<1>5. QED
  BY <1>1, <1>4 DEF n

\* Each reply of each prompt has ids of its own.
LEMMA IdsApart ==
    ASSUME NEW p \in Prompts, NEW k \in 1..MaxSamples, NEW q \in Prompts, NEW l \in 1..MaxSamples,
           NEW id \in IdsOf(p, k), id \in IdsOf(q, l)
    PROVE  p = q /\ k = l
<1>0. k \in 0..MaxSamples /\ l \in 0..MaxSamples /\ MaxSamples \in Nat /\ p \in Nat /\ q \in Nat /\ p >= 1 /\ q >= 1
  BY CollectionAssumption, SMT DEF Prompts
<1>1. PICK a \in Nat : a = Number(p, k)
  BY <1>0, IdsAre
<1>2. PICK b \in Nat : b = Number(q, l)
  BY <1>0, IdsAre
<1>3. id \in {2 * a, 2 * a + 1} /\ id \in {2 * b, 2 * b + 1}
  BY <1>0, <1>1, <1>2, IdsAre
<1>4. a = b
  BY <1>3, SMT
<1>5. ASSUME NEW x \in Nat, NEW y \in Nat, NEW m \in Nat, x < y PROVE x * m + m <= y * m
  <2>1. PICK d \in Nat : y = x + 1 + d
    <3>1. y - x - 1 \in Nat /\ y = x + 1 + (y - x - 1)
      BY <1>5, SMT
    <3>2. QED
      BY <3>1
  <2>2. y * m = x * m + m + d * m
    BY <2>1, SMT
  <2>3. d * m \in Nat /\ x * m \in Nat
    BY SMT
  <2>4. QED
    BY <2>2, <2>3, SMT
<1>6. (p - 1) * MaxSamples + k = (q - 1) * MaxSamples + l
  BY <1>1, <1>2, <1>4 DEF Number
<1>7. PICK u \in Nat : u = p - 1
  BY <1>0, SMT
<1>8. PICK v \in Nat : v = q - 1
  BY <1>0, SMT
<1>9. PICK um \in Nat : um = u * MaxSamples
  BY <1>0, SMT
<1>10. PICK vm \in Nat : vm = v * MaxSamples
  BY <1>0, SMT
<1>11. um + k = vm + l
  BY <1>6, <1>7, <1>8, <1>9, <1>10
<1>12. ~(u < v)
  <2> SUFFICES ASSUME u < v PROVE FALSE
    OBVIOUS
  <2>1. um + MaxSamples <= vm
    BY <1>0, <1>5, <1>9, <1>10
  <2>2. QED
    BY <1>0, <1>11, <2>1, SMT
<1>13. ~(v < u)
  <2> SUFFICES ASSUME v < u PROVE FALSE
    OBVIOUS
  <2>1. vm + MaxSamples <= um
    BY <1>0, <1>5, <1>9, <1>10
  <2>2. QED
    BY <1>0, <1>11, <2>1, SMT
<1>14. u = v
  BY <1>12, <1>13, SMT
<1>15. p = q
  BY <1>0, <1>7, <1>8, <1>14, SMT
<1>16. um = vm
  BY <1>9, <1>10, <1>14
<1>17. QED
  BY <1>0, <1>11, <1>15, <1>16, SMT

LEMMA IdsPositive ==
    ASSUME NEW id \in AllIds
    PROVE  id # NoCall /\ \E p \in Prompts, k \in 1..MaxSamples : id \in IdsOf(p, k)
<1>1. PICK p \in Prompts, k \in 1..MaxSamples : id \in IdsOf(p, k)
  BY DEF AllIds, AllCalls, IdsOf
<1>2. k \in 0..MaxSamples /\ k >= 1
  BY CollectionAssumption, SMT
<1>3. PICK n \in Nat : n = Number(p, k) /\ n >= k
  BY <1>2, IdsAre
<1>4. id \in {2 * n, 2 * n + 1}
  BY <1>1, <1>2, <1>3, IdsAre
<1>5. id # 0
  BY <1>2, <1>3, <1>4, SMT
<1>6. QED
  BY <1>1, <1>5 DEF NoCall

-----------------------------------------------------------------------------
(* Conversations whose items all have a property *)

Unmentioned(id) == {x \in AllItems : x.of # id /\ id \notin ToSet(x.calls)}
Uncalled(id)    == {x \in AllItems : id \notin ToSet(x.calls)}
IsFalse(x, id)  == IsResult(x) /\ x.body \in Reasons /\ x.of = id
Honest(id)      == {x \in AllItems : ~IsFalse(x, id)}
Untouched(id)   == Honest(id) \cap Uncalled(id)

LEMMA PlainItems ==
    ASSUME NEW x \in {System("head"), System("new_head"), System(Reminded), User(0, "summary")} \cup UserItems
    PROVE  x \in AllItems /\ x.of = NoCall /\ x.calls = <<>> /\ ~IsResult(x)
<1>1. x \in AllItems
  BY AllItemsAre
<1>2. QED
  BY <1>1 DEF UserItems, System, User, Item, IsResult

LEMMA NoIds == ToSet(<<>>) = {}
BY DEF ToSet

LEMMA StableSets ==
    ASSUME NEW id \in AllIds
    PROVE  Stable(Unmentioned(id)) /\ Stable(Uncalled(id)) /\ Stable(Honest(id)) /\ Stable(Untouched(id))
<1>0. id # NoCall /\ Cleared \notin Reasons
  BY IdsPositive DEF Cleared, Reasons
<1>1. \A x \in {System("head"), System("new_head"), System(Reminded), User(0, "summary")} \cup UserItems :
         x \in AllItems /\ x.of = NoCall /\ x.calls = <<>> /\ ~IsResult(x)
  BY PlainItems
<1>2. \A x \in {System("head"), System("new_head"), System(Reminded), User(0, "summary")} \cup UserItems :
         x \in Unmentioned(id) /\ x \in Uncalled(id) /\ x \in Honest(id)
  BY <1>0, <1>1, NoIds DEF Unmentioned, Uncalled, Honest, IsFalse
<1>3. ASSUME NEW x \in AllItems, IsResult(x)
      PROVE  /\ x \in Unmentioned(id) => [x EXCEPT !.body = Cleared] \in Unmentioned(id)
             /\ x \in Uncalled(id) => [x EXCEPT !.body = Cleared] \in Uncalled(id)
             /\ [x EXCEPT !.body = Cleared] \in Honest(id)
  <2>1. PICK y : y = [x EXCEPT !.body = Cleared]
    OBVIOUS
  <2>2. y \in AllItems /\ y.of = x.of /\ y.calls = x.calls /\ y.body = Cleared
    BY <1>3, <2>1, ClearedIs
  <2>3. QED
    BY <1>0, <2>1, <2>2 DEF Unmentioned, Uncalled, Honest, IsFalse
<1>4. Unmentioned(id) \subseteq AllItems /\ Uncalled(id) \subseteq AllItems /\ Honest(id) \subseteq AllItems
  BY DEF Unmentioned, Uncalled, Honest
<1>5. Stable(Unmentioned(id))
  BY <1>2, <1>3, <1>4 DEF Stable
<1>6. Stable(Uncalled(id))
  BY <1>2, <1>3, <1>4 DEF Stable
<1>7. Stable(Honest(id))
  BY <1>2, <1>3, <1>4 DEF Stable
<1>8. Stable(Untouched(id))
  BY <1>2, <1>3, <1>4 DEF Stable, Untouched
<1>9. QED
  BY <1>5, <1>6, <1>7, <1>8

\* No answer is made up for a call that is not in the conversation.
LEMMA AnswersOnlyCalls ==
    ASSUME NEW id \in AllIds, NEW reason \in Reasons
    PROVE  Answerable(Unmentioned(id), reason) /\ Answerable(Untouched(id), reason)
<1>1. ASSUME NEW x \in AllItems, id \notin ToSet(x.calls)
      PROVE  /\ x.calls \in Seq(ToSet(x.calls))
             /\ \A c \in ToSet(x.calls) : Synthetic(c, reason) \in Unmentioned(id) /\ Synthetic(c, reason) \in Untouched(id)
  <2>1. x.calls \in Seq(ToSet(x.calls)) /\ \A c \in ToSet(x.calls) : Synthetic(c, reason) \in AllItems
    BY AllAnswerable DEF Answerable
  <2>2. ASSUME NEW c \in ToSet(x.calls)
        PROVE  Synthetic(c, reason).of = c /\ Synthetic(c, reason).calls = <<>> /\ c # id
    BY <1>1 DEF Synthetic, Item
  <2>3. QED
    BY <2>1, <2>2, NoIds DEF Unmentioned, Untouched, Uncalled, Honest, IsFalse
<1>2. QED
  BY <1>1 DEF Answerable, Unmentioned, Untouched, Uncalled

\* What the actor's next step leaves in the conversation: items of a stable set, when
\* what is pushed is one and the answers that are made up are.
LEMMA ConvStep ==
    ASSUME StateOK, MailOK, ActorStep, NEW S, Stable(S), st.conv \in Seq(S),
           Head(mailbox).op = "push" => Head(mailbox).item \in S,
           Head(mailbox).op \in {"push_user", "build"} => Answerable(S, "cancelled"),
           Head(mailbox).op = "repair" => active \/ Answerable(S, "halted")
    PROVE  st'.conv \in Seq(S)
<1>0. st \in States
  BY DEF StateOK
<1>1. CASE ActorIndex
  BY <1>0, <1>1, IndexHandler DEF ActorIndex, Becoming
<1>2. CASE ActorBegin
  BY <1>0, <1>2, BeginHandler DEF ActorBegin, Becoming
<1>3. CASE ActorPush
  <2>1. /\ st' = PushMessage(st, Head(mailbox).item).st /\ Head(mailbox).item \in AllItems
        /\ Head(mailbox).op = "push"
    BY <1>3, PushedItem DEF ActorPush, Handle
  <2>2. st'.conv = Append(st.conv, Head(mailbox).item)
    BY <1>0, <2>1, PushHandler DEF Becoming
  <2>3. PICK x \in S : x = Head(mailbox).item
    BY <2>1
  <2>4. Append(st.conv, x) \in Seq(S)
    BY AppendFacts, Zenon
  <2>5. QED
    BY <2>2, <2>3, <2>4, Zenon
<1>4. CASE ActorPushUser
  <2>1. /\ st' = PushUserMessage(st, Head(mailbox).item, "cancelled").st /\ Head(mailbox).item \in AllItems
        /\ Head(mailbox).op = "push_user" /\ Head(mailbox) \in Messages
    BY <1>4, PushedItem, HeadTail DEF ActorPushUser, Handle, MailOK
  <2>2. st'.conv = PruneRetained(Append(Integrity(st.conv, "cancelled"), Head(mailbox).item), st.prompt, HardClearAge)
    BY <1>0, <2>1, PushUserHandler
  <2>3. Integrity(st.conv, "cancelled") \in Seq(S)
    BY <2>1, IntegrityType
  <2>4. Head(mailbox).item \in S
    BY <2>1, MessageFacts DEF Stable
  <2>5. Append(Integrity(st.conv, "cancelled"), Head(mailbox).item) \in Seq(S)
    BY <2>3, <2>4, AppendFacts
  <2>6. QED
    BY <2>2, <2>5, PruneType
<1>5. CASE ActorBuild
  <2>1. PICK reminder \in BOOLEAN : st' = BuildRequest(st, reminder).st /\ Head(mailbox).op = "build"
    BY <1>5 DEF ActorBuild, Handle
  <2>2. PICK c \in Seq(S) : c = Integrity(st.conv, "cancelled")
    BY <2>1, IntegrityType
  <2>3. SystemHead(c, Reminded) \in Seq(S)
    BY SystemHeadType
  <2>4. st'.conv \in Requested(st.conv)
    BY <1>0, <2>1, BuildHandler
  <2>5. QED
    BY <2>2, <2>3, <2>4 DEF Requested
<1>6. CASE ActorCompact
  <2>1. st' = ReplaceConversation(st, Compacted, TRUE).st
    BY <1>6 DEF ActorCompact
  <2>2. st'.conv = Compacted
    BY <1>0, <2>1, ReplaceHandler, CompactedType, AllStable
  <2>3. QED
    BY <2>2, CompactedType
<1>7. CASE ActorHead
  <2>1. st' = ReplaceSystemHead(st, "new_head").st
    BY <1>7 DEF ActorHead
  <2>2. st' = st \/ st'.conv = SystemHead(st.conv, "new_head")
    BY <1>0, <2>1, HeadHandler
  <2>3. QED
    BY <2>2, SystemHeadType
<1>8. CASE ActorRepair
  <2>1. Head(mailbox).op = "repair" /\ (st' = st \/ (~active /\ st' = DoRepairHistory(st).st))
    BY <1>8 DEF ActorRepair, Handle
  <2>2. st' = st \/ (~active /\ st'.conv = RepairHistory(st.conv))
    BY <1>0, <2>1, RepairHandler
  <2>3. QED
    BY <2>1, <2>2, RepairHistoryType
<1>9. CASE ActorTake
  BY <1>0, <1>9, TakeHandler DEF ActorTake, Becoming
<1>10. QED
  BY <1>1, <1>2, <1>3, <1>4, <1>5, <1>6, <1>7, <1>8, <1>9 DEF ActorStep

-----------------------------------------------------------------------------
(* A turn goes forward *)

\* A turn's step: it keeps its prompt, its replies are counted, and calls are opened
\* only by a reply.
Forward ==
    /\ turn'.p = turn.p /\ turn.pc # "done"
    /\ \/ turn'.k = turn.k /\ (turn'.pc = "reply" => turn.pc = "reply")
       \/ turn'.k = turn.k + 1 /\ turn'.open = {} /\ turn.open = {}
    /\ \/ turn'.open \subseteq turn.open
       \/ /\ turn.pc = "reply" /\ turn'.pc # "reply" /\ turn'.k = turn.k
          /\ \E c \in CallsOf(turn.p, turn.k) : TurnReply(c) /\ turn'.open = ToSet(c)

NewOrNone == turn'.pc \in {"start", "done"} /\ turn'.open = {}

LEMMA LoopForward ==
    ASSUME LoopInv, LoopStep
    PROVE  turn' = turn \/ NewOrNone
<1>0. SessionOK /\ QueueInv
  BY DEF LoopInv, QueueInv
<1>1. ASSUME NEW queue \in Seq(Entries), NEW run, NEW task1, MaybeStart(queue, run, task1)
      PROVE  turn' = task1 \/ NewOrNone
  <2>1. CASE run = None /\ queue # <<>>
    <3>1. turn' = NewTurn(Head(queue).p)
      BY <1>1, <2>1, Zenon DEF MaybeStart
    <3>2. Head(queue).p \in Prompts
      <4>1. Head(queue) \in Entries
        BY <2>1, HeadTail
      <4>2. QED
        BY <4>1 DEF Entries
    <3>3. QED
      BY <3>1, <3>2, FreshTurns DEF NewOrNone
  <2>2. CASE ~(run = None /\ queue # <<>>)
    BY <1>1, <2>2, Zenon DEF MaybeStart
  <2>3. QED
    BY <2>1, <2>2
<1>2. CASE LoopPrompt
  <2> DEFINE entry == [p |-> Head(cmds).p, now |-> Head(cmds).now]
             r     == QueueInput(entry)
  <2>1. cmds # <<>> /\ Head(cmds).op = "prompt"
    BY <1>2 DEF LoopPrompt, Receive
  <2>2. entry \in Entries
    BY <1>0, <2>1, HeadTail, CommandFacts DEF SessionOK
  <2>3. \/ CancelRunningTask(r, TRUE)
        \/ MaybeStart(r, running, turn)
    BY <1>2, Zenon DEF LoopPrompt
  <2> HIDE DEF entry
  <2>4. r \in Seq(Entries)
    BY <1>0, <2>2, QueueInputType
  <2> HIDE DEF r
  <2>5. CancelRunningTask(r, TRUE) => NewOrNone
    <3>1. CancelQueue(r) \in Seq(Entries)
      BY <2>4, CancelQueueType
    <3>2. CancelRunningTask(r, TRUE) => MaybeStart(CancelQueue(r), None, NoTurn)
      BY DEF CancelRunningTask
    <3>3. CancelRunningTask(r, TRUE) => turn' = NoTurn \/ NewOrNone
      BY <1>1, <3>1, <3>2
    <3>4. turn' = NoTurn => NewOrNone
      BY DEF NoTurn, NewOrNone
    <3>5. QED
      BY <3>1, <3>3, <3>4
  <2>6. QED
    BY <1>1, <2>3, <2>4, <2>5
<1>3. CASE LoopCancel
  <2>1. MaybeStart(CancelQueue(pending), None, NoTurn)
    BY <1>3 DEF LoopCancel, CancelRunningTask
  <2>2. CancelQueue(pending) \in Seq(Entries)
    BY <1>0, CancelQueueType DEF SessionOK
  <2>3. turn' = NoTurn \/ NewOrNone
    BY <1>1, <2>1, <2>2
  <2>4. QED
    BY <2>3 DEF NoTurn, NewOrNone
<1>4. CASE LoopTake \/ LoopRepair
  BY <1>4 DEF LoopTake, LoopRepair, task
<1>5. CASE LoopCompletion
  <2> DEFINE p     == Head(completions)
             owned == pending # <<>> /\ Head(pending).p = p
             ends  == owned \/ running = p
             queue == IF owned THEN Tail(pending) ELSE pending
             run   == IF ends THEN None ELSE running
             next  == IF ends THEN NoTurn ELSE turn
  <2>1. MaybeStart(queue, run, next)
    BY <1>5 DEF LoopCompletion
  <2>2. queue \in Seq(Entries)
    BY <1>0, HeadTail DEF SessionOK
  <2>3. next = turn \/ next = NoTurn
    OBVIOUS
  <2> HIDE DEF queue, run, next
  <2>4. turn' = next \/ NewOrNone
    BY <1>1, <2>1, <2>2
  <2>5. QED
    BY <2>3, <2>4 DEF NoTurn, NewOrNone
<1>6. QED
  BY <1>2, <1>3, <1>4, <1>5 DEF LoopStep

LEMMA TurnForward ==
    ASSUME LoopInv, TurnStep
    PROVE  turn' = turn \/ Forward
<1>0. turn \in Turns /\ Shape(turn)
  BY DEF LoopInv, Shape
<1>1. CASE TurnStart \/ TurnBegin \/ TurnSample \/ TurnFinish \/ TurnToolsDone \/ TurnInterject \/ TurnFails
  <2>1. turn.pc # "done" /\ \E x \in Pcs \ {"reply"} : turn' = [turn EXCEPT !.pc = x]
    BY <1>1 DEF TurnStart, TurnBegin, TurnSample, TurnFinish, TurnToolsDone, TurnInterject, TurnFails, Pcs, At
  <2>2. PICK x \in Pcs \ {"reply"} : turn' = [turn EXCEPT !.pc = x]
    BY <2>1
  <2>3. Becomes(turn, turn', x, turn.k, turn.open)
    BY <1>0, <2>2, PcUpdate
  <2>4. QED
    BY <2>1, <2>3 DEF Forward, Becomes
<1>2. CASE TurnCompact \/ DropAborted
  BY <1>2 DEF TurnCompact, DropAborted, task
<1>3. CASE TurnDispatchError
  <2>1. turn' = [turn EXCEPT !.pc = "sample", !.open = {}] /\ "sample" \in Pcs /\ turn.pc = "tools"
    BY <1>3 DEF TurnDispatchError, Pcs, At
  <2>2. Becomes(turn, turn', "sample", turn.k, {})
    BY <1>0, <2>1, PcOpenUpdate
  <2>3. QED
    BY <2>1, <2>2 DEF Forward, Becomes
<1>4. ASSUME NEW id \in turn.open, TurnResult(id) PROVE Forward
  <2>1. turn' = [turn EXCEPT !.open = turn.open \ {id}] /\ turn.open \ {id} \in SUBSET Nat /\ turn.pc = "tools"
    BY <1>0, <1>4 DEF TurnResult, Turns, At
  <2>2. Becomes(turn, turn', turn.pc, turn.k, turn.open \ {id})
    BY <1>0, <2>1, OpenUpdate
  <2>3. QED
    BY <2>1, <2>2 DEF Forward, Becomes
<1>5. ASSUME NEW c, TurnReply(c), ToSet(c) \subseteq Nat
      PROVE  /\ turn'.p = turn.p /\ turn.pc = "reply" /\ turn'.pc # "reply" /\ turn'.k = turn.k /\ turn'.open = ToSet(c)
  <2>0. PICK x \in Pcs \ {"reply"} : x = IF c = <<>> THEN "finish" ELSE "tools"
    BY DEF Pcs
  <2>1. turn' = [turn EXCEPT !.pc = x, !.open = ToSet(c)] /\ turn.pc = "reply"
    BY <1>5, <2>0 DEF TurnReply, At
  <2>2. Becomes(turn, turn', x, turn.k, ToSet(c))
    BY <1>0, <1>5, <2>1, PcOpenUpdate
  <2>3. QED
    BY <2>1, <2>2 DEF Becomes
<1>6. CASE TurnReply(<<>>)
  <2>1. ToSet(<<>>) \subseteq Nat /\ ToSet(<<>>) \subseteq turn.open
    BY NoIds
  <2>2. QED
    BY <1>5, <1>6, <2>1 DEF Forward
<1>7. ASSUME NEW c \in CallsOf(turn.p, turn.k), TurnReply(c) PROVE Forward
  <2>1. turn.pc = "reply"
    BY <1>7 DEF TurnReply, At
  <2>2. turn.p \in Prompts /\ turn.k \in 0..MaxSamples
    BY <2>1 DEF LoopInv, SessionOK, Owned, Shape, Turns
  <2>3. ToSet(c) \subseteq Nat
    BY <2>2, CallsFacts
  <2>4. turn'.p = turn.p /\ turn'.pc # "reply" /\ turn'.k = turn.k /\ turn'.open = ToSet(c)
    BY <1>5, <1>7, <2>3
  <2>5. QED
    BY <1>7, <2>1, <2>4 DEF Forward
<1>8. QED
  BY <1>1, <1>2, <1>3, <1>4, <1>6, <1>7 DEF TurnStep

LEMMA ActorForward ==
    ASSUME LoopInv, ActorStep
    PROVE  turn' = turn \/ (Forward /\ turn.open = {} /\ turn'.open = {})
<1>1. CASE ActorBuild /\ turn.p = Head(mailbox).p /\ turn.pc = "build"
  <2>1. turn' = [turn EXCEPT !.pc = "reply", !.k = @ + 1]
    BY <1>1 DEF ActorBuild
  <2>2. turn \in Turns /\ turn.k < MaxSamples /\ "reply" \in Pcs /\ turn.open = {}
    BY <1>1 DEF LoopInv, Shape, Pcs
  <2>3. Becomes(turn, turn', "reply", turn.k + 1, turn.open)
    BY <2>1, <2>2, ReplyUpdate
  <2>4. QED
    BY <1>1, <2>2, <2>3 DEF Becomes, Forward
<1>2. CASE ActorBuild /\ ~(turn.p = Head(mailbox).p /\ turn.pc = "build")
  BY <1>2 DEF ActorBuild
<1>3. CASE ~ActorBuild
  BY <1>3 DEF ActorStep, ActorIndex, ActorBegin, ActorPush, ActorPushUser, ActorCompact, ActorHead,
              ActorRepair, ActorTake, Handle
<1>4. QED
  BY <1>1, <1>2, <1>3

LEMMA AnyForward ==
    ASSUME LoopInv, Others \/ ActorStep
    PROVE  turn' = turn \/ NewOrNone \/ Forward
<1>1. CASE ClientStep \/ RepairCheck \/ \E p \in Prompts : Collect(p)
  BY <1>1 DEF ClientStep, ClientPrompt, ClientCancel, ClientRepair, ClientHead, RepairCheck, Collect, task
<1>2. QED
  BY <1>1, LoopForward, TurnForward, ActorForward DEF Others

-----------------------------------------------------------------------------
(* No call is answered for while its tool runs *)

\* The k-th reply of this prompt is still to come.
Unused(p, k) ==
    \/ Fresh(p)
    \/ p = turn.p /\ turn.pc # "done" /\ (turn.k < k \/ (turn.k = k /\ turn.pc = "reply"))

NewIds == {id \in AllIds : \E p \in Prompts, k \in 1..MaxSamples : Unused(p, k) /\ id \in IdsOf(p, k)}

PushesIn(S) == \A i \in 1..Len(mailbox) : mailbox[i].op = "push" => mailbox[i].item \in S

\* Nobody has heard of the ids of replies to come.
FreshInv == \A id \in NewIds : st.conv \in Seq(Unmentioned(id)) /\ PushesIn(Unmentioned(id))

LEMMA UnusedOnly ==
    ASSUME LoopInv, MailOK, OnceInv, Others \/ ActorStep, LoopInv',
           NEW p \in Prompts, NEW k \in 1..MaxSamples, Unused(p, k)'
    PROVE  Unused(p, k)
<1>0. /\ turn \in Turns /\ turn' \in Turns /\ turn.k \in Nat /\ turn'.k \in Nat /\ k \in Nat
      /\ collector \in [Prompts -> Stages]
  <2>1. turn \in Turns /\ turn' \in Turns /\ collector \in [Prompts -> Stages]
    BY DEF LoopInv, Shape, OnceInv
  <2>2. turn.k \in 0..MaxSamples /\ turn'.k \in 0..MaxSamples
    BY <2>1 DEF Turns
  <2>3. QED
    BY <2>1, <2>2, CollectionAssumption, SMT
<1>1. Fresh(p)' => Fresh(p)
  <2>1. Moves
    BY <1>0, AnyMove
  <2>2. QED
    BY <2>1, FreshOnly
<1>2. CASE Fresh(p)'
  BY <1>1, <1>2 DEF Unused
<1>3. CASE ~Fresh(p)'
  <2>1. p = turn'.p /\ turn'.pc # "done" /\ (turn'.k < k \/ (turn'.k = k /\ turn'.pc = "reply"))
    BY <1>3 DEF Unused
  <2>2. turn'.pc # "start"
    <3> SUFFICES ASSUME turn'.pc = "start" PROVE FALSE
      OBVIOUS
    <3>1. p = running' /\ pending' # <<>> /\ Head(pending').p = running' /\ pending' \in Seq(Entries)
      BY <2>1, NoneIsNoPrompt DEF LoopInv, SessionOK, Owned, FrontIsRunning
    <3>2. 1 \in 1..Len(pending') /\ pending'[1].p = p
      BY <3>1, HeadTail
    <3>3. Queued(p)'
      BY <3>2 DEF Queued
    <3>4. QED
      BY <1>3, <3>3 DEF Fresh
  <2>3. turn' = turn \/ Forward
    BY <2>1, <2>2, AnyForward DEF NewOrNone
  <2>4. CASE turn' = turn
    BY <2>1, <2>4 DEF Unused
  <2>5. CASE Forward
    <3>1. p = turn.p /\ turn.pc # "done"
      BY <2>1, <2>5 DEF Forward
    <3>2. (turn'.k = turn.k /\ (turn'.pc = "reply" => turn.pc = "reply")) \/ turn'.k = turn.k + 1
      BY <2>5 DEF Forward
    <3>3. turn.k < k \/ (turn.k = k /\ turn.pc = "reply")
      BY <1>0, <2>1, <3>2, SMT
    <3>4. QED
      BY <3>1, <3>3 DEF Unused
  <2>6. QED
    BY <2>3, <2>4, <2>5
<1>4. QED
  BY <1>2, <1>3

LEMMA NewIdsShrink ==
    ASSUME LoopInv, MailOK, OnceInv, Others \/ ActorStep, LoopInv'
    PROVE  NewIds' \subseteq NewIds
BY UnusedOnly DEF NewIds

\* A reply that has been given is not to come any more.
LEMMA UsedReply ==
    ASSUME LoopInv, OnceInv, turn.pc \in {"tools", "finish"}
    PROVE  turn.p \in Prompts /\ ~Unused(turn.p, turn.k)
<1>1. /\ turn.p = running /\ running \in Prompts /\ pending # <<>> /\ Head(pending).p = running
      /\ pending \in Seq(Entries)
  BY DEF LoopInv, SessionOK, Owned, FrontIsRunning
<1>2. 1 \in 1..Len(pending) /\ pending[1].p = running
  BY <1>1, HeadTail
<1>3. collector[running] = "waiting" /\ ~Asked(running)
  BY <1>2 DEF OnceInv, OnceIn, Asked
<1>4. ~Fresh(running)
  BY <1>3 DEF Fresh
<1>5. turn.k \in 0..MaxSamples
  BY DEF LoopInv, Shape, Turns
<1>6. ~(turn.k < turn.k)
  BY <1>5, SMT
<1>7. QED
  BY <1>1, <1>4, <1>6 DEF Unused

LEMMA UsedReplyNext == (LoopInv /\ OnceInv /\ turn.pc \in {"tools", "finish"} => turn.p \in Prompts /\ ~Unused(turn.p, turn.k))'
BY UsedReply, PTL

\* What is posted names no id of a reply to come.
LEMMA PostsNoNew ==
    ASSUME LoopInv, MailOK, OnceInv, Others, LoopInv', OnceInv',
           NEW id \in NewIds', NEW m \in Messages, Allowed(m), m.op = "push"
    PROVE  m.item \in Unmentioned(id)
<1>0. id \in AllIds /\ id \in NewIds /\ m.item \in AllItems /\ id # NoCall
  <2>1. id \in NewIds
    BY NewIdsShrink
  <2>2. m.item \in AllItems
    BY MessageFacts, PushedInAll
  <2>3. QED
    BY <2>1, <2>2, IdsPositive DEF NewIds
<1>1. ASSUME NEW c \in turn.open, m.item = Result(c, turn.p) PROVE m.item \in Unmentioned(id)
  <2>1. turn.pc = "tools" /\ turn.open \subseteq IdsOf(turn.p, turn.k) /\ turn.p \in Prompts /\ turn.k \in 1..MaxSamples
    BY <1>1, IdsFinite DEF LoopInv, Shape
  <2>2. ~Unused(turn.p, turn.k)
    BY <2>1, UsedReply
  <2>3. PICK p \in Prompts, k \in 1..MaxSamples : Unused(p, k) /\ id \in IdsOf(p, k)
    BY <1>0 DEF NewIds
  <2>4. c # id
    BY <2>1, <2>2, <2>3, IdsApart
  <2>5. Result(c, turn.p).of = c /\ Result(c, turn.p).calls = <<>>
    BY DEF Result, Item
  <2>6. QED
    BY <1>0, <1>1, <2>4, <2>5, NoIds DEF Unmentioned
<1>2. ASSUME NEW c \in CallsOf(turn.p, turn.k) \cup {<<>>}, TurnReply(c), m.item = Assistant(turn.p, c)
      PROVE  m.item \in Unmentioned(id)
  <2>1. Assistant(turn.p, c).of = NoCall /\ Assistant(turn.p, c).calls = c
    BY DEF Assistant, Item
  <2>2. id \notin ToSet(c)
    <3>1. CASE c = <<>>
      BY <3>1, NoIds
    <3>2. CASE c \in CallsOf(turn.p, turn.k)
      <4>1. turn.pc = "reply"
        BY <1>2 DEF TurnReply, At
      <4>2. turn.p \in Prompts /\ turn.k \in 1..MaxSamples /\ turn \in Turns
        <5>1. turn.k \in 0..MaxSamples /\ turn.k >= 1 /\ turn.p \in Prompts /\ turn \in Turns
          BY <4>1 DEF LoopInv, SessionOK, Owned, Shape, Turns
        <5>2. QED
          BY <5>1, CollectionAssumption, SMT
      <4>3. ToSet(c) \subseteq IdsOf(turn.p, turn.k)
        BY <3>2 DEF IdsOf
      <4>4. turn'.pc \in {"tools", "finish"} /\ turn'.p = turn.p /\ turn'.k = turn.k
        <5>1. PICK x \in Pcs \cap {"tools", "finish"} : x = IF c = <<>> THEN "finish" ELSE "tools"
          BY DEF Pcs
        <5>2. turn' = [turn EXCEPT !.pc = x, !.open = ToSet(c)]
          BY <1>2, <5>1 DEF TurnReply
        <5>3. ToSet(c) \subseteq Nat
          <6>1. turn.k \in 0..MaxSamples
            BY <4>2 DEF Turns
          <6>2. QED
            BY <3>2, <4>2, <6>1, CallsFacts
        <5>4. Becomes(turn, turn', x, turn.k, ToSet(c))
          BY <4>2, <5>2, <5>3, PcOpenUpdate
        <5>5. QED
          BY <5>4 DEF Becomes
      <4>5. PICK p \in Prompts, k \in 1..MaxSamples : Unused(p, k)' /\ id \in IdsOf(p, k)
        BY DEF NewIds
      <4>6. ~(p = turn.p /\ k = turn.k)
        <5> SUFFICES ASSUME p = turn.p, k = turn.k PROVE FALSE
          OBVIOUS
        <5>1. p = turn'.p /\ k = turn'.k
          BY <4>4
        <5>2. ~Unused(turn.p, turn.k)'
          BY <4>4, UsedReplyNext
        <5>3. Unused(p, k)' <=> Unused(turn.p, turn.k)'
          BY <5>1 DEF Unused, Fresh, Asked, Queued
        <5>4. QED
          BY <4>5, <5>2, <5>3
      <4>7. QED
        BY <4>2, <4>3, <4>5, <4>6, IdsApart
    <3>3. QED
      BY <3>1, <3>2
  <2>3. QED
    BY <1>0, <1>2, <2>1, <2>2 DEF Unmentioned
<1>3. QED
  BY <1>1, <1>2 DEF Allowed

LEMMA FreshInvNext ==
    ASSUME LoopInv, MailOK, OnceInv, StateOK, FreshInv, [Next]_vars, LoopInv', OnceInv'
    PROVE  FreshInv'
<1>0. mailbox \in Seq(Messages)
  BY DEF MailOK
<1>1. CASE Others
  <2> SUFFICES ASSUME NEW id \in NewIds' PROVE st'.conv \in Seq(Unmentioned(id)) /\ PushesIn(Unmentioned(id))'
    BY DEF FreshInv
  <2>1. st.conv \in Seq(Unmentioned(id)) /\ PushesIn(Unmentioned(id))
    BY <1>1, NewIdsShrink DEF FreshInv
  <2>2. PICK msgs \in Seq(Postable) : mailbox' = mailbox \o msgs /\ st' = st
    BY <1>1, Posts
  <2>3. msgs \in Seq(Messages) /\ \A i \in 1..Len(msgs) : Allowed(msgs[i])
    BY PostableSeq
  <2>4. ASSUME NEW i \in 1..Len(mailbox'), mailbox'[i].op = "push" PROVE mailbox'[i].item \in Unmentioned(id)
    <3>1. \/ i \in 1..Len(mailbox) /\ mailbox'[i] = mailbox[i]
          \/ i - Len(mailbox) \in 1..Len(msgs) /\ mailbox'[i] = msgs[i - Len(mailbox)]
      BY <1>0, <2>2, <2>3, Posted
    <3>2. CASE i \in 1..Len(mailbox) /\ mailbox'[i] = mailbox[i]
      BY <2>1, <2>4, <3>2 DEF PushesIn
    <3>3. CASE i - Len(mailbox) \in 1..Len(msgs) /\ mailbox'[i] = msgs[i - Len(mailbox)]
      <4>1. PICK j \in 1..Len(msgs) : mailbox'[i] = msgs[j]
        BY <3>3
      <4>2. msgs[j] \in Messages /\ Allowed(msgs[j])
        <5>1. \A l \in 1..Len(msgs) : msgs[l] \in Messages
          BY <2>3, SMT
        <5>2. QED
          BY <2>3, <5>1
      <4>3. QED
        BY <1>1, <2>4, <4>1, <4>2, PostsNoNew
    <3>4. QED
      BY <3>1, <3>2, <3>3
  <2>5. QED
    BY <2>1, <2>2, <2>4 DEF PushesIn
<1>2. CASE ActorStep
  <2> SUFFICES ASSUME NEW id \in NewIds' PROVE st'.conv \in Seq(Unmentioned(id)) /\ PushesIn(Unmentioned(id))'
    BY DEF FreshInv
  <2>1. id \in AllIds /\ st.conv \in Seq(Unmentioned(id)) /\ PushesIn(Unmentioned(id))
    BY <1>2, NewIdsShrink DEF FreshInv, NewIds
  <2>2. mailbox # <<>> /\ mailbox' = Tail(mailbox)
    BY <1>2, ActorLogs
  <2>3. /\ Head(mailbox) = mailbox[1] /\ 1 \in 1..Len(mailbox)
        /\ \A i \in 1..Len(mailbox') : mailbox'[i] = mailbox[i + 1] /\ i + 1 \in 1..Len(mailbox)
    BY <1>0, <2>2, HeadTail
  <2>4. Head(mailbox).op = "push" => Head(mailbox).item \in Unmentioned(id)
    BY <2>1, <2>3 DEF PushesIn
  <2>5. Answerable(Unmentioned(id), "cancelled") /\ Answerable(Unmentioned(id), "halted") /\ Stable(Unmentioned(id))
    BY <2>1, AnswersOnlyCalls, StableSets DEF Reasons
  <2>6. st'.conv \in Seq(Unmentioned(id))
    BY <1>2, <2>1, <2>4, <2>5, ConvStep
  <2>7. ASSUME NEW i \in 1..Len(mailbox'), mailbox'[i].op = "push" PROVE mailbox'[i].item \in Unmentioned(id)
    <3>1. mailbox'[i] = mailbox[i + 1] /\ i + 1 \in 1..Len(mailbox)
      BY <2>3
    <3>2. QED
      BY <2>1, <2>7, <3>1 DEF PushesIn
  <2>8. QED
    BY <2>6, <2>7 DEF PushesIn
<1>3. CASE UNCHANGED vars
  <2>1. UNCHANGED <<st, mailbox, collector, cmds, pending, running, turn>>
    BY <1>3 DEF vars, session, task
  <2>2. NewIds' = NewIds
    BY <2>1 DEF NewIds, Unused, Fresh, Asked, Queued
  <2>3. QED
    BY <2>1, <2>2 DEF FreshInv, PushesIn
<1>4. QED
  BY <1>1, <1>2, <1>3 DEF Next, Others

LEMMA FreshInvInit == Init => FreshInv
<1> SUFFICES ASSUME Init, NEW id \in AllIds PROVE st.conv \in Seq(Unmentioned(id)) /\ PushesIn(Unmentioned(id))
  BY DEF FreshInv, NewIds
<1>1. st.conv = Integrity(<<System("head")>>, "cancelled") /\ mailbox = <<>>
  BY DEF Init, NewState, State
<1>2. <<System("head")>> \in Seq(Unmentioned(id))
  <2>1. System("head") \in Unmentioned(id)
    BY StableSets DEF Stable
  <2>2. QED
    BY <2>1, OneMessage
<1>3. st.conv \in Seq(Unmentioned(id))
  BY <1>1, <1>2, IntegrityType, AnswersOnlyCalls DEF Reasons
<1>4. 1..Len(<<>>) = {}
  BY SMT
<1>5. QED
  BY <1>1, <1>3, <1>4 DEF PushesIn

\* The messages that make the actor answer the calls nobody answered.
Repairs(m) == m.op \in {"push_user", "build"}
NoRepairComes == \A i \in 1..Len(mailbox) : ~Repairs(mailbox[i])
Calls(m, id) == m.op = "push" /\ id \in ToSet(m.item.calls)

\* While a call's tool runs no answer is made up for it: before the conversation is
\* repaired again the call is in the mailbox only, or the results are.
OpenInv ==
    \A id \in turn.open :
        /\ st.conv \in Seq(Honest(id))
        /\ st.conv \in Seq(Uncalled(id)) \/ NoRepairComes
        /\ \A i, j \in 1..Len(mailbox) : Calls(mailbox[i], id) /\ j > i => ~Repairs(mailbox[j])

\* The items of a conversation one by one.
LEMMA SeqWithin ==
    ASSUME NEW S, NEW T, NEW s \in Seq(S), \A i \in 1..Len(s) : s[i] \in T
    PROVE  s \in Seq(T)
<1>1. Len(s) \in Nat /\ s = [i \in 1..Len(s) |-> s[i]]
  BY SMT
<1>2. s \in [1..Len(s) -> T]
  BY <1>1
<1>3. QED
  BY <1>1, <1>2, SMT

LEMMA SeqAll ==
    ASSUME NEW S, NEW s \in Seq(S)
    PROVE  \A i \in 1..Len(s) : s[i] \in S
BY SMT

LEMMA UnmentionedIs ==
    ASSUME NEW id, NEW s \in Seq(Unmentioned(id))
    PROVE  s \in Seq(Honest(id)) /\ s \in Seq(Uncalled(id))
<1>1. \A i \in 1..Len(s) : s[i] \in Unmentioned(id)
  BY SeqAll
<1>2. \A i \in 1..Len(s) : s[i] \in Honest(id) /\ s[i] \in Uncalled(id)
  BY <1>1 DEF Unmentioned, Honest, Uncalled, IsFalse
<1>3. QED
  BY <1>2, SeqWithin

LEMMA UntouchedIs ==
    ASSUME NEW id, NEW s
    PROVE  s \in Seq(Untouched(id)) <=> s \in Seq(Honest(id)) /\ s \in Seq(Uncalled(id))
<1>1. ASSUME s \in Seq(Untouched(id)) PROVE s \in Seq(Honest(id)) /\ s \in Seq(Uncalled(id))
  <2>1. \A i \in 1..Len(s) : s[i] \in Honest(id) /\ s[i] \in Uncalled(id)
    BY <1>1, SeqAll DEF Untouched
  <2>2. QED
    BY <1>1, <2>1, SeqWithin
<1>2. ASSUME s \in Seq(Honest(id)), s \in Seq(Uncalled(id)) PROVE s \in Seq(Untouched(id))
  <2>1. \A i \in 1..Len(s) : s[i] \in Untouched(id)
    BY <1>2, SeqAll DEF Untouched
  <2>2. QED
    BY <1>2, <2>1, SeqWithin
<1>3. QED
  BY <1>1, <1>2

\* A turn pushes no answer that is made up.
LEMMA PushedHonest ==
    ASSUME NEW x \in Pushed, NEW id
    PROVE  x \in Honest(id)
<1>1. x \in AllItems
  BY PushedInAll
<1>2. x.body = "real"
  BY DEF Pushed, Assistant, Result, Item
<1>3. QED
  BY <1>1, <1>2 DEF Honest, IsFalse, Reasons

\* An answer posted for an open call calls nothing.
LEMMA OpenOthers ==
    ASSUME LoopInv, MailOK, OnceInv, FreshInv, OpenInv, Others
    PROVE  OpenInv'
<1>0. mailbox \in Seq(Messages) /\ Len(mailbox) \in Nat
  BY LenNat DEF MailOK
<1> SUFFICES ASSUME NEW id \in turn'.open
             PROVE  /\ st'.conv \in Seq(Honest(id))
                    /\ st'.conv \in Seq(Uncalled(id)) \/ NoRepairComes'
                    /\ \A i, j \in 1..Len(mailbox') : Calls(mailbox'[i], id) /\ j > i => ~Repairs(mailbox'[j])
  BY DEF OpenInv
<1>1. PICK msgs \in Seq(Postable) : mailbox' = mailbox \o msgs /\ st' = st
  BY Posts
<1>2. msgs \in Seq(Messages) /\ Len(msgs) \in Nat /\ \A i \in 1..Len(msgs) : Allowed(msgs[i])
  BY PostableSeq, LenNat
<1>3. \A i \in 1..Len(mailbox') : \/ i \in 1..Len(mailbox) /\ mailbox'[i] = mailbox[i]
                                  \/ i - Len(mailbox) \in 1..Len(msgs) /\ mailbox'[i] = msgs[i - Len(mailbox)]
  BY <1>0, <1>1, <1>2, Posted
<1>4. Len(mailbox') = Len(mailbox) + Len(msgs)
  BY <1>0, <1>1, <1>2, SMT
<1>5. CASE id \in turn.open
  <2>1. \A i \in 1..Len(msgs) : ~Repairs(msgs[i]) /\ ~Calls(msgs[i], id)
    <3> SUFFICES ASSUME NEW i \in 1..Len(msgs) PROVE ~Repairs(msgs[i]) /\ ~Calls(msgs[i], id)
      OBVIOUS
    <3>1. Allowed(msgs[i]) /\ turn.open # {} /\ turn.pc = "tools"
      BY <1>2, <1>5 DEF LoopInv, Shape
    <3>2. ~Repairs(msgs[i])
      BY <3>1 DEF Allowed, Repairs
    <3>3. ASSUME msgs[i].op = "push" PROVE id \notin ToSet(msgs[i].item.calls)
      <4>1. \A c : ~TurnReply(c)
        BY <3>1 DEF TurnReply, At
      <4>2. PICK o \in turn.open : msgs[i].item = Result(o, turn.p)
        BY <3>1, <3>3, <4>1 DEF Allowed
      <4>3. Result(o, turn.p).calls = <<>>
        BY DEF Result, Item
      <4>4. QED
        BY <4>2, <4>3, NoIds
    <3>4. QED
      BY <3>2, <3>3 DEF Calls
  <2>2. NoRepairComes => NoRepairComes'
    BY <1>3, <2>1 DEF NoRepairComes
  <2>3. ASSUME NEW i \in 1..Len(mailbox'), NEW j \in 1..Len(mailbox'), Calls(mailbox'[i], id), j > i
        PROVE  ~Repairs(mailbox'[j])
    <3>1. i \in 1..Len(mailbox) /\ mailbox'[i] = mailbox[i]
      BY <1>3, <2>1, <2>3
    <3>2. CASE j \in 1..Len(mailbox) /\ mailbox'[j] = mailbox[j]
      BY <1>5, <2>3, <3>1, <3>2 DEF OpenInv
    <3>3. CASE j - Len(mailbox) \in 1..Len(msgs) /\ mailbox'[j] = msgs[j - Len(mailbox)]
      BY <2>1, <3>3
    <3>4. QED
      BY <1>3, <3>2, <3>3
  <2>4. QED
    BY <1>1, <1>5, <2>2, <2>3 DEF OpenInv
<1>6. CASE id \notin turn.open
  <2>1. PICK c \in CallsOf(turn.p, turn.k) : TurnReply(c) /\ turn.pc = "reply" /\ turn'.open = ToSet(c)
    BY <1>6, AnyForward DEF Forward, NewOrNone
  <2>2. turn.p \in Prompts /\ turn.k \in 1..MaxSamples
    <3>1. turn.k \in 0..MaxSamples /\ turn.k >= 1 /\ turn.p \in Prompts
      BY <2>1 DEF LoopInv, SessionOK, Owned, Shape, Turns
    <3>2. QED
      BY <3>1, CollectionAssumption, SMT
  <2>3. id \in IdsOf(turn.p, turn.k)
    BY <2>1 DEF IdsOf
  <2>4. id \in NewIds
    BY <2>1, <2>2, <2>3, IdsInAll DEF NewIds, Unused
  <2>5. st.conv \in Seq(Unmentioned(id)) /\ PushesIn(Unmentioned(id))
    BY <2>4 DEF FreshInv
  <2>6. mailbox' = mailbox \o <<[op |-> "push", item |-> Assistant(turn.p, c)]>>
    BY <2>1 DEF TurnReply, Post
  <2>7. Len(mailbox') = Len(mailbox) + 1 /\ \A i \in 1..Len(mailbox) : mailbox'[i] = mailbox[i]
    BY <1>0, <2>6, SMT
  <2>8. ASSUME NEW i \in 1..Len(mailbox'), NEW j \in 1..Len(mailbox'), Calls(mailbox'[i], id), j > i
        PROVE  ~Repairs(mailbox'[j])
    <3>1. i \in 1..Len(mailbox)
      BY <1>0, <2>7, <2>8, SMT
    <3>2. mailbox[i].op = "push" /\ id \in ToSet(mailbox[i].item.calls)
      BY <2>7, <2>8, <3>1 DEF Calls
    <3>3. QED
      BY <2>5, <3>1, <3>2 DEF PushesIn, Unmentioned
  <2>9. QED
    BY <1>1, <2>5, <2>8, UnmentionedIs
<1>7. QED
  BY <1>5, <1>6

LEMMA OpenActor ==
    ASSUME LoopInv, MailOK, StateOK, OpenInv, ActorStep
    PROVE  OpenInv'
<1>0. mailbox \in Seq(Messages) /\ Len(mailbox) \in Nat
  BY LenNat DEF MailOK
<1>1. turn'.open = turn.open
  BY ActorForward
<1>2. mailbox # <<>> /\ mailbox' = Tail(mailbox)
  BY ActorLogs
<1>3. /\ Head(mailbox) = mailbox[1] /\ 1 \in 1..Len(mailbox) /\ Head(mailbox) \in Messages
      /\ \A i \in 1..Len(mailbox') : mailbox'[i] = mailbox[i + 1] /\ i + 1 \in 1..Len(mailbox)
  BY <1>0, <1>2, HeadTail
<1>4. Len(mailbox') \in Nat
  BY <1>0, <1>2, HeadTail, LenNat
<1> SUFFICES ASSUME NEW id \in turn.open
             PROVE  /\ st'.conv \in Seq(Honest(id))
                    /\ st'.conv \in Seq(Uncalled(id)) \/ NoRepairComes'
                    /\ \A i, j \in 1..Len(mailbox') : Calls(mailbox'[i], id) /\ j > i => ~Repairs(mailbox'[j])
  BY <1>1 DEF OpenInv
<1>5. active /\ id \in AllIds
  BY IdsFinite DEF LoopInv, Shape, Guarded
<1>6. /\ st.conv \in Seq(Honest(id))
      /\ st.conv \in Seq(Uncalled(id)) \/ NoRepairComes
      /\ \A i, j \in 1..Len(mailbox) : Calls(mailbox[i], id) /\ j > i => ~Repairs(mailbox[j])
  BY DEF OpenInv
<1>7. ASSUME NEW i \in 1..Len(mailbox'), NEW j \in 1..Len(mailbox'), Calls(mailbox'[i], id), j > i
      PROVE  ~Repairs(mailbox'[j])
  <2>1. /\ mailbox'[i] = mailbox[i + 1] /\ i + 1 \in 1..Len(mailbox)
        /\ mailbox'[j] = mailbox[j + 1] /\ j + 1 \in 1..Len(mailbox)
    BY <1>3
  <2>2. j + 1 > i + 1
    BY <1>4, <1>7, SMT
  <2>3. QED
    BY <1>6, <1>7, <2>1, <2>2
<1>8. NoRepairComes => NoRepairComes'
  BY <1>3 DEF NoRepairComes
<1>9. Stable(Honest(id)) /\ Stable(Uncalled(id)) /\ Stable(Untouched(id)) /\ Answerable(Untouched(id), "cancelled")
  BY <1>5, StableSets, AnswersOnlyCalls DEF Reasons
<1>10. CASE Repairs(Head(mailbox))
  <2>1. st.conv \in Seq(Untouched(id))
    BY <1>3, <1>6, <1>10, UntouchedIs DEF NoRepairComes
  <2>2. Head(mailbox).op # "push" /\ Head(mailbox).op # "repair"
    BY <1>10 DEF Repairs
  <2>3. st'.conv \in Seq(Untouched(id))
    BY <1>9, <2>1, <2>2, ConvStep
  <2>4. QED
    BY <1>7, <2>3, UntouchedIs
<1>11. CASE ~Repairs(Head(mailbox))
  <2>1. Head(mailbox).op \notin {"push_user", "build"}
    BY <1>11 DEF Repairs
  <2>2. st'.conv \in Seq(Honest(id))
    <3>1. Head(mailbox).op = "push" => Head(mailbox).item \in Honest(id)
      BY <1>3, MessageFacts, PushedHonest
    <3>2. QED
      BY <1>5, <1>6, <1>9, <2>1, <3>1, ConvStep
  <2>3. st'.conv \in Seq(Uncalled(id)) \/ NoRepairComes'
    <3>1. CASE NoRepairComes
      BY <1>8, <3>1
    <3>2. CASE Calls(Head(mailbox), id)
      <4>1. \A j \in 1..Len(mailbox') : ~Repairs(mailbox'[j])
        <5> SUFFICES ASSUME NEW j \in 1..Len(mailbox') PROVE ~Repairs(mailbox'[j])
          OBVIOUS
        <5>1. mailbox'[j] = mailbox[j + 1] /\ j + 1 \in 1..Len(mailbox)
          BY <1>3
        <5>2. j + 1 > 1
          BY <1>4, SMT
        <5>3. QED
          BY <1>3, <1>6, <3>2, <5>1, <5>2
      <4>2. QED
        BY <4>1 DEF NoRepairComes
    <3>3. CASE ~NoRepairComes /\ ~Calls(Head(mailbox), id)
      <4>1. st.conv \in Seq(Uncalled(id))
        BY <1>6, <3>3
      <4>2. Head(mailbox).op = "push" => Head(mailbox).item \in Uncalled(id)
        BY <1>3, <3>3, MessageFacts, PushedInAll DEF Calls, Uncalled
      <4>3. st'.conv \in Seq(Uncalled(id))
        BY <1>5, <1>9, <2>1, <4>1, <4>2, ConvStep
      <4>4. QED
        BY <4>3
    <3>4. QED
      BY <3>1, <3>2, <3>3
  <2>4. QED
    BY <1>7, <2>2, <2>3
<1>12. QED
  BY <1>10, <1>11

LEMMA OpenInit == Init => OpenInv
BY DEF Init, NoTurn, OpenInv

LEMMA OpenNext ==
    ASSUME LoopInv, MailOK, OnceInv, StateOK, FreshInv, OpenInv, [Next]_vars
    PROVE  OpenInv'
<1>1. CASE UNCHANGED vars
  <2>1. UNCHANGED <<st, mailbox, turn>>
    BY <1>1 DEF vars, task
  <2>2. QED
    BY <2>1 DEF OpenInv, NoRepairComes
<1>2. QED
  BY <1>1, OpenOthers, OpenActor DEF Next, Others

AnswerInv == AllInv /\ FreshInv /\ OpenInv

LEMMA AnswerInvNext == AnswerInv /\ [Next]_vars => AnswerInv'
<1> SUFFICES ASSUME AnswerInv, [Next]_vars PROVE AnswerInv'
  OBVIOUS
<1>1. LoopInv /\ MailOK /\ CommitInv /\ StateOK /\ OnceInv /\ IndexInv /\ FreshInv /\ OpenInv
  BY DEF AnswerInv, AllInv
<1>2. LoopInv' /\ MailOK' /\ CommitInv' /\ StateOK' /\ OnceInv' /\ IndexInv'
  BY <1>1, LoopInvNext, MailNext, CommitNext, StateNext, OnceNext, IndexNext
<1>3. FreshInv' /\ OpenInv'
  BY <1>1, <1>2, FreshInvNext, OpenNext
<1>4. QED
  BY <1>2, <1>3 DEF AnswerInv, AllInv

\* While a tool runs, no answer is made up for its call: neither by the repair that
\* comes with each user message and each request, whatever the mailbox holds when
\* the turn is cancelled, interjected or replaced, nor by a repair request that
\* passed its first check before the turn started (handle_repair_history).
THEOREM NoCallAnsweredFalsely == Spec => []NoFalseAnswer
<1>1. Init => AnswerInv
  BY LoopInvInit, MailInit, StateInit, OnceInit, IndexInit, FreshInvInit, OpenInit DEF AnswerInv, AllInv
<1>2. AnswerInv => NoFalseAnswer
  <2> SUFFICES ASSUME AnswerInv, NEW i \in DOMAIN st.conv, st.conv[i].body \in Reasons, IsResult(st.conv[i]),
                      st.conv[i].of \in turn.open
               PROVE  FALSE
    BY DEF NoFalseAnswer
  <2>1. PICK id \in turn.open : id = st.conv[i].of
    OBVIOUS
  <2>2. st.conv \in Seq(Honest(id))
    BY DEF AnswerInv, OpenInv
  <2>3. DOMAIN st.conv = 1..Len(st.conv)
    BY <2>2, SMT
  <2>4. st.conv[i] \in Honest(id)
    BY <2>2, <2>3, SeqAll
  <2>5. QED
    BY <2>1, <2>4 DEF Honest, IsFalse
<1>3. QED
  BY <1>1, <1>2, AnswerInvNext, PTL DEF Spec

-----------------------------------------------------------------------------
(* What is sent to the provider is valid *)

\* A reply does not call the same id twice.
LEMMA AllWellFormed == WellFormed(AllItems)
<1> SUFFICES ASSUME NEW x \in AllItems
             PROVE  /\ IsResult(x) => x.calls = <<>>
                    /\ \A a, b \in 1..Len(x.calls) : a # b => x.calls[a] # x.calls[b]
  BY DEF WellFormed
<1>1. IsResult(x) => x.calls = <<>>
  BY ItemKinds DEF Results
<1>2. CASE x.calls = <<>>
  BY <1>1, <1>2, SMT
<1>3. CASE x.calls \in AllCalls
  <2>1. PICK p \in Prompts, k \in 1..MaxSamples : x.calls \in CallsOf(p, k)
    BY <1>3 DEF AllCalls
  <2>2. PICK n : n = 2 * Number(p, k)
    OBVIOUS
  <2>3. n \in Nat
    <3>1. k \in 0..MaxSamples
      BY CollectionAssumption, SMT
    <3>2. Number(p, k) \in Nat
      BY <3>1, IdsAre
    <3>3. QED
      BY <2>2, <3>2, SMT
  <2>4. x.calls = <<n>> \/ x.calls = <<n, n + 1>>
    BY <2>1, <2>2 DEF CallsOf, Number
  <2>5. \A a, b \in 1..Len(x.calls) : a # b => x.calls[a] # x.calls[b]
    BY <2>3, <2>4, SMT
  <2>6. QED
    BY <1>1, <2>5
<1>4. QED
  BY <1>2, <1>3, ItemKinds

\* The retained prune changes texts only.
LEMMA PruneAlike ==
    ASSUME NEW conv \in Seq(AllItems), NEW n, NEW age
    PROVE  /\ Placed(conv) => Placed(PruneRetained(conv, n, age))
           /\ LastCalls(PruneRetained(conv, n, age)) = LastCalls(conv)
<1> DEFINE old(i) == IsResult(conv[i]) /\ TurnFromEnd(conv, i) >= ClearAge(conv, n, age)
           pruned == [i \in DOMAIN conv |-> IF old(i) THEN [conv[i] EXCEPT !.body = Cleared] ELSE conv[i]]
<1>1. PruneRetained(conv, n, age) = conv \/ PruneRetained(conv, n, age) = pruned
  BY DEF PruneRetained
<1>2. Len(conv) \in Nat /\ DOMAIN conv = 1..Len(conv) /\ \A i \in 1..Len(conv) : conv[i] \in AllItems
  BY SMT
<1>3. PICK t : t = PruneRetained(conv, n, age)
  OBVIOUS
<1>4. Len(t) = Len(conv)
  BY <1>3, PruneType, AllStable
<1>5. ASSUME NEW i \in 1..Len(conv)
      PROVE  (IsResult(conv[i]) <=> IsResult(t[i])) /\ conv[i].calls = t[i].calls /\ conv[i].of = t[i].of
  <2>1. t[i] = conv[i] \/ (IsResult(conv[i]) /\ t[i] = [conv[i] EXCEPT !.body = Cleared])
    BY <1>1, <1>2, <1>3
  <2>2. CASE t[i] = conv[i]
    BY <2>2
  <2>3. CASE IsResult(conv[i]) /\ t[i] = [conv[i] EXCEPT !.body = Cleared]
    <3>1. conv[i] \in Results
      BY <1>2, <2>3, ItemKinds
    <3>2. t[i].calls = conv[i].calls /\ t[i].of = conv[i].of /\ t[i].kind = conv[i].kind
      BY <2>3, <3>1 DEF Results
    <3>3. QED
      BY <2>3, <3>2 DEF IsResult
  <2>4. QED
    BY <2>1, <2>2, <2>3
<1>6. Alike(conv, t, Len(conv))
  BY <1>5 DEF Alike
<1>7. QED
  BY <1>2, <1>3, <1>4, <1>6, AlikePlaced

\* Nor does another system prompt.
LEMMA SystemHeadPlaced ==
    ASSUME NEW conv \in Seq(AllItems), NEW prompt \in {"new_head", Reminded}
    PROVE  /\ Placed(conv) => Placed(SystemHead(conv, prompt))
           /\ ProviderValid(conv) => ProviderValid(SystemHead(conv, prompt))
           /\ LastCalls(SystemHead(conv, prompt)) = LastCalls(conv)
<1>0. PICK x \in AllItems : x = System(prompt) /\ ~IsResult(x) /\ x.calls = <<>> /\ x.of = NoCall
  BY PlainItems
<1>1. CASE conv # <<>> /\ conv[1].kind = "system"
  <2>1. PICK t : t = <<x>> \o Tail(conv)
    OBVIOUS
  <2>2. conv[1] \in AllItems /\ Tail(conv) \in Seq(AllItems)
    BY <1>1, HeadTail
  <2>3. conv[1] \in {System("head"), System("new_head"), System(Reminded)}
    BY <1>1, <2>2, ItemKinds
  <2>4. [conv[1] EXCEPT !.body = prompt] = x
    BY <1>0, <2>3 DEF System, Item
  <2>5. ~IsResult(conv[1]) /\ conv[1].calls = <<>> /\ conv[1].of = NoCall
    BY <2>3, PlainItems
  <2>6. /\ Len(conv) \in Nat /\ Len(t) = Len(conv) /\ t[1] = x
        /\ \A j \in 1..Len(conv) : j # 1 => t[j] = conv[j]
    BY <1>1, <2>1, SMT
  <2>7. Alike(conv, t, Len(conv))
    BY <1>0, <2>5, <2>6 DEF Alike
  <2>8. SystemHead(conv, prompt) = t
    BY <1>1, <2>1, <2>4 DEF SystemHead
  <2>9. (Placed(conv) => Placed(t)) /\ LastCalls(t) = LastCalls(conv)
    BY <2>6, <2>7, AlikePlaced, Zenon
  <2>10. ProviderValid(conv) => ProviderValid(t)
    <3>1. t \in Seq(AllItems)
      <4>1. <<x>> \in Seq(AllItems)
        BY <1>0, SMT
      <4>2. QED
        BY <2>1, <2>2, <4>1, ConcatFacts
    <3>2. QED
      BY <2>6, <2>7, <3>1, AlikeValid
  <2>11. QED
    BY <2>8, <2>9, <2>10, Zenon
<1>2. CASE ~(conv # <<>> /\ conv[1].kind = "system")
  <2>1. SystemHead(conv, prompt) = <<x>> \o conv
    BY <1>0, <1>2 DEF SystemHead
  <2>2. (Placed(conv) => Placed(<<x>> \o conv)) /\ LastCalls(<<x>> \o conv) = LastCalls(conv)
    BY <1>0, PrependPlaced, Zenon
  <2>3. ProviderValid(conv) => ProviderValid(<<x>> \o conv)
    BY <1>0, PrependValid
  <2>4. QED
    BY <2>1, <2>2, <2>3, Zenon
<1>3. QED
  BY <1>1, <1>2

\* What a message taken from the mailbox does to the run at the end of the conversation: one that
\* is neither a message of the model or the user nor a compaction leaves it as it was.
Harmless(m) == m.op \notin {"push_user", "compact"} /\ (m.op = "push" => IsResult(m.item))
Speaks(m)   == m.op = "push" /\ ~IsResult(m.item)

Applied(m, conv, next) ==
    /\ Harmless(m) => LastCalls(next) = LastCalls(conv)
    /\ Speaks(m) => LastCalls(next) = m.item.calls

\* When the first n messages are applied the call id is one of the run at the end.
Comes(mb, conv, id, n) ==
    \/ \E j \in 1..n : /\ Speaks(mb[j]) /\ Contains(mb[j].item.calls, id)
                       /\ \A k \in (j + 1)..n : Harmless(mb[k])
    \/ Contains(LastCalls(conv), id) /\ \A k \in 1..n : Harmless(mb[k])

\* Every result is in the run of its call, or will be when it is pushed: those in the mailbox,
\* and those of the tools that run.
PlacedInv ==
    /\ Placed(st.conv)
    /\ \A i \in 1..Len(mailbox) : mailbox[i].op = "push" /\ IsResult(mailbox[i].item)
                                    => Comes(mailbox, st.conv, mailbox[i].item.of, i - 1)
    /\ \A id \in turn.open : Comes(mailbox, st.conv, id, Len(mailbox))

LEMMA ComesOn ==
    ASSUME NEW u, NEW v, NEW conv, NEW id, NEW n \in Nat, NEW m \in Nat, n <= m,
           \A j \in 1..n : v[j] = u[j], \A k \in (n + 1)..m : Harmless(v[k]), Comes(u, conv, id, n)
    PROVE  Comes(v, conv, id, m)
<1>1. CASE Contains(LastCalls(conv), id) /\ \A k \in 1..n : Harmless(u[k])
  <2>1. ASSUME NEW k \in 1..m PROVE Harmless(v[k])
    <3>1. k \in 1..n \/ k \in (n + 1)..m
      BY SMT
    <3>2. QED
      BY <1>1, <3>1
  <2>2. QED
    BY <1>1, <2>1 DEF Comes
<1>2. CASE \E j \in 1..n : /\ Speaks(u[j]) /\ Contains(u[j].item.calls, id)
                           /\ \A k \in (j + 1)..n : Harmless(u[k])
  <2>1. PICK j \in 1..n : /\ Speaks(u[j]) /\ Contains(u[j].item.calls, id)
                          /\ \A k \in (j + 1)..n : Harmless(u[k])
    BY <1>2
  <2>2. ASSUME NEW k \in (j + 1)..m PROVE Harmless(v[k])
    <3>1. (k \in (j + 1)..n /\ k \in 1..n) \/ k \in (n + 1)..m
      BY SMT
    <3>2. QED
      BY <2>1, <3>1
  <2>3. j \in 1..m
    BY SMT
  <2>4. QED
    BY <2>1, <2>2, <2>3 DEF Comes
<1>3. QED
  BY <1>1, <1>2 DEF Comes

LEMMA ComesShift ==
    ASSUME NEW u, NEW v, NEW conv, NEW next, NEW id, NEW n \in Nat, Applied(u[1], conv, next),
           \A j \in 1..n : v[j] = u[j + 1], Comes(u, conv, id, n + 1)
    PROVE  Comes(v, next, id, n)
<1>0. 1 \in 1..(n + 1)
  BY SMT
<1>1. ASSUME \A k \in 2..(n + 1) : Harmless(u[k]), NEW k \in 1..n PROVE Harmless(v[k])
  <2>1. k + 1 \in 2..(n + 1)
    BY SMT
  <2>2. QED
    BY <1>1, <2>1
<1>2. CASE Contains(LastCalls(conv), id) /\ \A k \in 1..(n + 1) : Harmless(u[k])
  <2>1. LastCalls(next) = LastCalls(conv)
    BY <1>0, <1>2 DEF Applied
  <2>2. \A k \in 2..(n + 1) : k \in 1..(n + 1)
    BY SMT
  <2>3. \A k \in 1..n : Harmless(v[k])
    BY <1>1, <1>2, <2>2
  <2>4. QED
    BY <1>2, <2>1, <2>3 DEF Comes
<1>3. CASE \E j \in 1..(n + 1) : /\ Speaks(u[j]) /\ Contains(u[j].item.calls, id)
                                 /\ \A k \in (j + 1)..(n + 1) : Harmless(u[k])
  <2>1. PICK j \in 1..(n + 1) : /\ Speaks(u[j]) /\ Contains(u[j].item.calls, id)
                                /\ \A k \in (j + 1)..(n + 1) : Harmless(u[k])
    BY <1>3
  <2>2. CASE j = 1
    <3>1. Contains(LastCalls(next), id)
      BY <2>1, <2>2 DEF Applied
    <3>2. \A k \in 2..(n + 1) : Harmless(u[k])
      BY <2>1, <2>2, SMT
    <3>3. \A k \in 1..n : Harmless(v[k])
      BY <1>1, <3>2
    <3>4. QED
      BY <3>1, <3>3 DEF Comes
  <2>3. CASE j # 1
    <3>1. PICK i \in 1..n : j = i + 1
      <4>1. j - 1 \in 1..n /\ j = (j - 1) + 1
        BY <2>3, SMT
      <4>2. QED
        BY <4>1
    <3>2. Speaks(v[i]) /\ Contains(v[i].item.calls, id)
      BY <2>1, <3>1
    <3>3. ASSUME NEW k \in (i + 1)..n PROVE Harmless(v[k])
      <4>1. k \in 1..n /\ k + 1 \in (j + 1)..(n + 1)
        BY <3>1, SMT
      <4>2. QED
        BY <2>1, <4>1
    <3>4. QED
      BY <3>2, <3>3 DEF Comes
  <2>4. QED
    BY <2>2, <2>3
<1>4. QED
  BY <1>2, <1>3 DEF Comes

\* What the actor's next step does to the runs, and what it sends.
LEMMA PlacedActor ==
    ASSUME StateOK, MailOK, ActorStep, Placed(st.conv),
           Head(mailbox).op = "push" /\ IsResult(Head(mailbox).item)
              => Contains(LastCalls(st.conv), Head(mailbox).item.of)
    PROVE  /\ Placed(st'.conv) /\ Applied(Head(mailbox), st.conv, st'.conv)
           /\ request' = request \/ ProviderValid(request')
<1>0. st \in States /\ st.conv \in Seq(AllItems) /\ Head(mailbox) \in Messages
  <2>1. mailbox # <<>>
    BY ActorLogs
  <2>2. QED
    BY <2>1, HeadTail DEF StateOK, States, MailOK
<1>1. \A reason \in Reasons : Answerable(AllItems, reason) /\ WellFormed(AllItems)
  BY AllAnswerable, AllWellFormed
<1>2. ASSUME st'.conv = st.conv, Head(mailbox).op # "push"
      PROVE  Placed(st'.conv) /\ Applied(Head(mailbox), st.conv, st'.conv)
  BY <1>2 DEF Applied, Speaks
<1>3. CASE ActorIndex
  <2>1. st'.conv = st.conv /\ Head(mailbox).op = "index" /\ request' = request
    BY <1>0, <1>3, IndexHandler DEF ActorIndex, Becoming, Handle
  <2>2. QED
    BY <1>2, <2>1
<1>4. CASE ActorBegin
  <2>1. st'.conv = st.conv /\ Head(mailbox).op = "begin" /\ request' = request
    BY <1>0, <1>4, BeginHandler DEF ActorBegin, Becoming, Handle
  <2>2. QED
    BY <1>2, <2>1
<1>5. CASE ActorPush
  <2>1. /\ st' = PushMessage(st, Head(mailbox).item).st /\ Head(mailbox).item \in AllItems
        /\ Head(mailbox).op = "push" /\ request' = request
    BY <1>5, PushedItem DEF ActorPush, Handle
  <2>2. st'.conv = Append(st.conv, Head(mailbox).item)
    BY <1>0, <2>1, PushHandler DEF Becoming
  <2>3. /\ Placed(st'.conv)
        /\ IsResult(Head(mailbox).item) => LastCalls(st'.conv) = LastCalls(st.conv)
        /\ ~IsResult(Head(mailbox).item) => LastCalls(st'.conv) = Head(mailbox).item.calls
    <3>1. PICK x \in AllItems : x = Head(mailbox).item
      BY <2>1
    <3>2. PICK c \in Seq(AllItems) : c = st.conv
      BY <1>0
    <3>3. Placed(c) /\ (IsResult(x) => Contains(LastCalls(c), x.of))
      BY <2>1, <3>1, <3>2
    <3>4. /\ Placed(Append(c, x))
          /\ IsResult(x) => LastCalls(Append(c, x)) = LastCalls(c)
          /\ ~IsResult(x) => LastCalls(Append(c, x)) = x.calls
      BY <3>3, AppendPlaced
    <3>5. QED
      BY <2>2, <3>1, <3>2, <3>4
  <2>4. QED
    BY <2>1, <2>3 DEF Applied, Speaks, Harmless
<1>6. CASE ActorPushUser
  <2>1. /\ st' = PushUserMessage(st, Head(mailbox).item, "cancelled").st /\ Head(mailbox).item \in AllItems
        /\ Head(mailbox).op = "push_user" /\ request' = request
    BY <1>6, PushedItem DEF ActorPushUser, Handle
  <2>2. st'.conv = PruneRetained(Append(Integrity(st.conv, "cancelled"), Head(mailbox).item), st.prompt, HardClearAge)
    BY <1>0, <2>1, PushUserHandler
  <2>3. PICK c \in Seq(AllItems) : c = Integrity(st.conv, "cancelled")
    BY <1>0, <1>1, IntegrityType DEF Reasons
  <2>4. Placed(c)
    BY <1>0, <1>1, <2>3, IntegrityPlaced DEF Reasons
  <2>5. ~IsResult(Head(mailbox).item)
    BY <1>0, <2>1, MessageFacts, PlainItems
  <2>6. PICK d \in Seq(AllItems) : d = Append(c, Head(mailbox).item)
    BY <2>1, AppendFacts
  <2>7. Placed(d)
    BY <2>1, <2>4, <2>5, <2>6, AppendPlaced
  <2>8. Placed(st'.conv)
    BY <2>2, <2>3, <2>6, <2>7, PruneAlike
  <2>9. QED
    BY <2>1, <2>8 DEF Applied, Speaks, Harmless
<1>7. CASE ActorBuild
  <2>1. PICK reminder \in BOOLEAN : /\ st' = BuildRequest(st, reminder).st /\ Head(mailbox).op = "build"
                                    /\ request' = st'.conv
    BY <1>7 DEF ActorBuild, Handle
  <2>2. PICK c \in Seq(AllItems) : c = Integrity(st.conv, "cancelled")
    BY <1>0, <1>1, IntegrityType DEF Reasons
  <2>3. ProviderValid(c) /\ Placed(c) /\ LastCalls(c) = LastCalls(st.conv)
    BY <1>0, <1>1, <2>2, IntegrityPlaced DEF Reasons
  <2>4. PICK d : d = SystemHead(c, Reminded)
    OBVIOUS
  <2>5. ProviderValid(d) /\ Placed(d) /\ LastCalls(d) = LastCalls(c)
    BY <2>3, <2>4, SystemHeadPlaced
  <2>6. st'.conv \in {c, d}
    BY <1>0, <2>1, <2>2, <2>4, BuildHandler DEF Requested
  <2>7. ProviderValid(st'.conv) /\ Placed(st'.conv) /\ LastCalls(st'.conv) = LastCalls(st.conv)
    BY <2>3, <2>5, <2>6
  <2>8. QED
    BY <2>1, <2>7 DEF Applied, Speaks
<1>8. CASE ActorCompact
  <2>1. st' = ReplaceConversation(st, Compacted, TRUE).st /\ Head(mailbox).op = "compact" /\ request' = request
    BY <1>8 DEF ActorCompact, Handle
  <2>2. st'.conv = Compacted
    BY <1>0, <2>1, ReplaceHandler, CompactedType, AllStable
  <2>3. Placed(Compacted)
    <3>1. ~IsResult(System("head")) /\ ~IsResult(User(0, "summary"))
      BY PlainItems
    <3>2. \A i \in 1..Len(Compacted) : Compacted[i] \in {System("head"), User(0, "summary")}
      BY SMT DEF Compacted
    <3>3. QED
      BY <3>1, <3>2 DEF Placed
  <2>4. QED
    BY <2>1, <2>2, <2>3 DEF Applied, Speaks, Harmless
<1>9. CASE ActorHead
  <2>1. st' = ReplaceSystemHead(st, "new_head").st /\ Head(mailbox).op = "head" /\ request' = request
    BY <1>9 DEF ActorHead, Handle
  <2>2. st' = st \/ st'.conv = SystemHead(st.conv, "new_head")
    BY <1>0, <2>1, HeadHandler
  <2>3. Placed(st'.conv) /\ LastCalls(st'.conv) = LastCalls(st.conv)
    BY <1>0, <2>2, SystemHeadPlaced
  <2>4. QED
    BY <2>1, <2>3 DEF Applied, Speaks
<1>10. CASE ActorRepair
  <2>1. (st' = st \/ st' = DoRepairHistory(st).st) /\ Head(mailbox).op = "repair" /\ request' = request
    BY <1>10 DEF ActorRepair, Handle
  <2>2. st' = st \/ st'.conv = RepairHistory(st.conv)
    BY <1>0, <2>1, RepairHandler
  <2>3. Placed(st'.conv) /\ LastCalls(st'.conv) = LastCalls(st.conv)
    BY <1>0, <1>1, <2>2, RepairHistoryPlaced DEF Reasons
  <2>4. QED
    BY <2>1, <2>3 DEF Applied, Speaks
<1>11. CASE ActorTake
  <2>1. st'.conv = st.conv /\ Head(mailbox).op = "take" /\ request' = request
    BY <1>0, <1>11, TakeHandler DEF ActorTake, Becoming, Handle
  <2>2. QED
    BY <1>2, <2>1
<1>12. QED
  BY <1>3, <1>4, <1>5, <1>6, <1>7, <1>8, <1>9, <1>10, <1>11 DEF ActorStep

LEMMA PlacedInvActor ==
    ASSUME LoopInv, MailOK, StateOK, PlacedInv, ActorStep
    PROVE  PlacedInv' /\ (request' = request \/ ProviderValid(request'))
<1>0. mailbox \in Seq(Messages) /\ Len(mailbox) \in Nat
  BY LenNat DEF MailOK
<1>1. turn'.open = turn.open
  BY ActorForward
<1>2. mailbox # <<>> /\ mailbox' = Tail(mailbox)
  BY ActorLogs
<1>3. /\ Head(mailbox) = mailbox[1] /\ 1 \in 1..Len(mailbox)
      /\ \A i \in 1..Len(mailbox') : mailbox'[i] = mailbox[i + 1] /\ i + 1 \in 1..Len(mailbox)
  BY <1>0, <1>2, HeadTail
<1>4. Len(mailbox') \in Nat /\ Len(mailbox) = Len(mailbox') + 1
  BY <1>0, <1>2, SMT
<1>5. Head(mailbox).op = "push" /\ IsResult(Head(mailbox).item)
         => Contains(LastCalls(st.conv), Head(mailbox).item.of)
  <2> SUFFICES ASSUME Head(mailbox).op = "push", IsResult(Head(mailbox).item)
               PROVE  Contains(LastCalls(st.conv), Head(mailbox).item.of)
    OBVIOUS
  <2>1. Comes(mailbox, st.conv, Head(mailbox).item.of, 1 - 1)
    BY <1>3 DEF PlacedInv
  <2>2. ~(\E j \in 1..(1 - 1) : TRUE)
    BY SMT
  <2>3. QED
    BY <2>1, <2>2 DEF Comes
<1>6. /\ Placed(st'.conv) /\ Applied(Head(mailbox), st.conv, st'.conv)
      /\ request' = request \/ ProviderValid(request')
  BY <1>5, PlacedActor DEF PlacedInv
<1>7. ASSUME NEW id, NEW n \in 0..Len(mailbox'), Comes(mailbox, st.conv, id, n + 1)
      PROVE  Comes(mailbox', st'.conv, id, n)
  <2>1. n \in Nat /\ \A j \in 1..n : j \in 1..Len(mailbox')
    BY <1>4, SMT
  <2>2. \A j \in 1..n : mailbox'[j] = mailbox[j + 1]
    BY <1>3, <2>1
  <2>3. Applied(mailbox[1], st.conv, st'.conv)
    BY <1>3, <1>6
  <2>4. QED
    BY <1>7, <2>1, <2>2, <2>3, ComesShift
<1>8. ASSUME NEW i \in 1..Len(mailbox'), mailbox'[i].op = "push", IsResult(mailbox'[i].item)
      PROVE  Comes(mailbox', st'.conv, mailbox'[i].item.of, i - 1)
  <2>1. mailbox'[i] = mailbox[i + 1] /\ i + 1 \in 1..Len(mailbox)
    BY <1>3
  <2>2. Comes(mailbox, st.conv, mailbox'[i].item.of, (i + 1) - 1)
    BY <1>8, <2>1 DEF PlacedInv
  <2>3. i - 1 \in 0..Len(mailbox') /\ (i + 1) - 1 = (i - 1) + 1
    BY <1>4, SMT
  <2>4. QED
    BY <1>7, <2>2, <2>3
<1>9. ASSUME NEW id \in turn'.open PROVE Comes(mailbox', st'.conv, id, Len(mailbox'))
  <2>1. Comes(mailbox, st.conv, id, Len(mailbox') + 1)
    BY <1>1, <1>4, <1>9 DEF PlacedInv
  <2>2. Len(mailbox') \in 0..Len(mailbox')
    BY <1>4, SMT
  <2>3. QED
    BY <1>7, <2>1, <2>2
<1>10. QED
  BY <1>6, <1>8, <1>9 DEF PlacedInv

\* While a tool runs nothing is posted that closes the run its result belongs to.
LEMMA PlacedInvOthers ==
    ASSUME LoopInv, MailOK, PlacedInv, Others
    PROVE  PlacedInv' /\ request' = request
<1>0. mailbox \in Seq(Messages) /\ Len(mailbox) \in Nat
  BY LenNat DEF MailOK
<1>1. PICK msgs \in Seq(Postable) : mailbox' = mailbox \o msgs /\ st' = st
  BY Posts
<1>2. msgs \in Seq(Messages) /\ Len(msgs) \in Nat /\ \A i \in 1..Len(msgs) : Allowed(msgs[i])
  BY PostableSeq, LenNat
<1>3. \A i \in 1..Len(mailbox') : \/ i \in 1..Len(mailbox) /\ mailbox'[i] = mailbox[i]
                                  \/ i - Len(mailbox) \in 1..Len(msgs) /\ mailbox'[i] = msgs[i - Len(mailbox)]
  BY <1>0, <1>1, <1>2, Posted
<1>4. Len(mailbox') = Len(mailbox) + Len(msgs) /\ Len(mailbox') \in Nat /\ Len(mailbox) <= Len(mailbox')
  BY <1>0, <1>1, <1>2, SMT
<1>5. \A i \in 1..Len(mailbox) : mailbox'[i] = mailbox[i]
  BY <1>0, <1>1, <1>2, SMT
<1>6. request' = request
  BY DEF Others, ClientStep, ClientPrompt, ClientCancel, ClientRepair, ClientHead, Collect, LoopStep, LoopPrompt,
         LoopCancel, LoopTake, LoopRepair, LoopCompletion, RepairCheck, TurnStep, TurnStart, TurnBegin, TurnCompact,
         TurnSample, TurnFinish, DropAborted, TurnReply, TurnResult, TurnToolsDone, TurnInterject, TurnFails,
         TurnDispatchError, history
<1>7. ASSUME turn.open # {}, NEW i \in (Len(mailbox) + 1)..Len(mailbox') PROVE Harmless(mailbox'[i])
  <2>1. i \in 1..Len(mailbox') /\ i \notin 1..Len(mailbox)
    BY <1>0, <1>4, SMT
  <2>2. PICK m : m = mailbox'[i] /\ Allowed(m)
    BY <1>2, <1>3, <2>1
  <2>3. turn.pc = "tools"
    BY <1>7 DEF LoopInv, Shape
  <2>4. \A c : ~TurnReply(c)
    BY <2>3 DEF TurnReply, At
  <2>5. m.op \notin {"push_user", "compact"}
    BY <1>7, <2>2 DEF Allowed
  <2>6. ASSUME m.op = "push" PROVE IsResult(m.item)
    <3>1. PICK o \in turn.open : m.item = Result(o, turn.p)
      BY <2>2, <2>4, <2>6 DEF Allowed
    <3>2. QED
      BY <3>1 DEF Result, Item, IsResult
  <2>7. QED
    BY <2>2, <2>5, <2>6 DEF Harmless
<1>8. ASSUME NEW id \in turn.open, NEW m \in Len(mailbox)..Len(mailbox')
      PROVE  Comes(mailbox', st'.conv, id, m)
  <2>1. Comes(mailbox, st.conv, id, Len(mailbox))
    BY DEF PlacedInv
  <2>2. m \in Nat /\ Len(mailbox) <= m /\ \A k \in (Len(mailbox) + 1)..m : k \in (Len(mailbox) + 1)..Len(mailbox')
    BY <1>0, <1>4, SMT
  <2>3. \A k \in (Len(mailbox) + 1)..m : Harmless(mailbox'[k])
    BY <1>7, <1>8, <2>2
  <2>4. Comes(mailbox', st.conv, id, m)
    BY <1>0, <1>5, <2>1, <2>2, <2>3, ComesOn
  <2>5. QED
    BY <1>1, <2>4
<1>9. ASSUME NEW i \in 1..Len(mailbox'), mailbox'[i].op = "push", IsResult(mailbox'[i].item)
      PROVE  Comes(mailbox', st'.conv, mailbox'[i].item.of, i - 1)
  <2>1. CASE i \in 1..Len(mailbox) /\ mailbox'[i] = mailbox[i]
    <3>1. PICK id : id = mailbox[i].item.of
      OBVIOUS
    <3>2. Comes(mailbox, st.conv, id, i - 1)
      BY <1>9, <2>1, <3>1 DEF PlacedInv
    <3>3. i - 1 \in Nat /\ \A j \in 1..(i - 1) : j \in 1..Len(mailbox)
      BY <1>0, <2>1, SMT
    <3>4. \A k \in ((i - 1) + 1)..(i - 1) : Harmless(mailbox'[k])
      BY <3>3, SMT
    <3>5. \A j \in 1..(i - 1) : mailbox'[j] = mailbox[j]
      BY <1>5, <3>3
    <3>6. PICK n \in Nat : n = i - 1
      BY <3>3
    <3>7. Comes(mailbox', st.conv, id, n)
      BY <3>2, <3>4, <3>5, <3>6, ComesOn
    <3>8. QED
      BY <1>1, <2>1, <3>1, <3>6, <3>7
  <2>2. CASE i - Len(mailbox) \in 1..Len(msgs) /\ mailbox'[i] = msgs[i - Len(mailbox)]
    <3>1. Allowed(mailbox'[i])
      BY <1>2, <2>2
    <3>2. \A c : ~IsResult(Assistant(turn.p, c))
      BY DEF Assistant, Item, IsResult
    <3>3. PICK id \in turn.open : mailbox'[i].item = Result(id, turn.p)
      BY <1>9, <3>1, <3>2 DEF Allowed
    <3>4. mailbox'[i].item.of = id
      BY <3>3 DEF Result, Item
    <3>5. i - 1 \in Len(mailbox)..Len(mailbox')
      BY <1>0, <1>2, <1>4, <2>2, SMT
    <3>6. QED
      BY <1>8, <3>4, <3>5
  <2>3. QED
    BY <1>3, <2>1, <2>2
<1>10. ASSUME NEW id \in turn'.open PROVE Comes(mailbox', st'.conv, id, Len(mailbox'))
  <2>1. CASE id \in turn.open
    <3>1. Len(mailbox') \in Len(mailbox)..Len(mailbox')
      BY <1>0, <1>4, SMT
    <3>2. QED
      BY <1>8, <2>1, <3>1
  <2>2. CASE id \notin turn.open
    <3>1. PICK c \in CallsOf(turn.p, turn.k) : TurnReply(c) /\ turn'.open = ToSet(c)
      BY <1>10, <2>2, AnyForward DEF Forward, NewOrNone
    <3>0. PICK x : x = Assistant(turn.p, c)
      OBVIOUS
    <3>2. x = Assistant(turn.p, c) /\ ~IsResult(x) /\ x.calls = c
      BY <3>0 DEF Assistant, Item, IsResult
    <3>3. mailbox' = mailbox \o <<[op |-> "push", item |-> x]>>
      BY <3>1, <3>2 DEF TurnReply, Post
    <3>4. Len(mailbox') = Len(mailbox) + 1 /\ mailbox'[Len(mailbox')] = [op |-> "push", item |-> x]
      BY <1>0, <3>3, SMT
    <3>5. PICK j \in 1..Len(mailbox') : j = Len(mailbox')
      BY <1>0, <3>4, SMT
    <3>6. Speaks(mailbox'[j]) /\ mailbox'[j].item.calls = c
      BY <3>2, <3>4, <3>5 DEF Speaks
    <3>7. Contains(c, id)
      <4>1. turn.p \in Prompts /\ turn.k \in 0..MaxSamples
        BY <3>1 DEF LoopInv, SessionOK, Owned, Shape, Turns, TurnReply, At
      <4>2. c \in Seq(Nat)
        BY <4>1, CallsFacts
      <4>3. DOMAIN c = 1..Len(c)
        BY <4>2, SMT
      <4>4. QED
        BY <1>10, <3>1, <4>3 DEF ToSet, Contains
    <3>8. \A k \in (j + 1)..Len(mailbox') : Harmless(mailbox'[k])
      BY <1>4, <3>5, SMT
    <3>9. QED
      BY <3>5, <3>6, <3>7, <3>8 DEF Comes
  <2>3. QED
    BY <2>1, <2>2
<1>11. Placed(st'.conv)
  BY <1>1 DEF PlacedInv
<1>12. QED
  BY <1>6, <1>9, <1>10, <1>11 DEF PlacedInv

LEMMA PlacedInvInit == Init => PlacedInv /\ RequestValid
<1> SUFFICES ASSUME Init PROVE PlacedInv /\ RequestValid
  OBVIOUS
<1>1. PICK c \in Seq(AllItems) : c = <<System("head")>>
  <2>1. <<System("head")>> \in Seq(AllItems)
    BY PushedInAll, SMT
  <2>2. QED
    BY <2>1
<1>2. Placed(c)
  <2>1. ~IsResult(System("head"))
    BY PlainItems
  <2>2. \A i \in 1..Len(c) : c[i] = System("head")
    BY <1>1, SMT
  <2>3. QED
    BY <2>1, <2>2 DEF Placed
<1>3. st = [conv |-> Integrity(c, "cancelled"), prompt |-> 0, capture |-> NoCapture]
  BY <1>1 DEF Init, NewState, State
<1>4. st.conv = Integrity(c, "cancelled")
  BY <1>3
<1>5. Placed(st.conv)
  BY <1>2, <1>4, AllAnswerable, AllWellFormed, IntegrityPlaced DEF Reasons
<1>6. mailbox = <<>> /\ turn.open = {} /\ request = <<>>
  BY DEF Init, NoTurn
<1>7. Len(mailbox) = 0 /\ DOMAIN request = {}
  BY <1>6, SMT
<1>8. ~(\E i \in 1..Len(mailbox) : TRUE)
  BY <1>7, SMT
<1>9. QED
  BY <1>5, <1>6, <1>7, <1>8 DEF PlacedInv, RequestValid, ProviderValid

\* Every request the session builds is one the provider accepts: each call has one answer, in
\* the run of the message that called it, whatever was cancelled, sent now, compacted, interjected
\* or repaired before (build_conversation_request works on a
\* clone that "starts from an already-repaired state").
THEOREM RequestsAreValid == Spec => []RequestValid
<1> DEFINE Inv == LoopInv /\ MailOK /\ StateOK /\ PlacedInv /\ RequestValid
<1>1. Init => Inv
  BY LoopInvInit, MailInit, StateInit, PlacedInvInit
<1>2. Inv /\ [Next]_vars => Inv'
  <2> SUFFICES ASSUME LoopInv, MailOK, StateOK, PlacedInv, RequestValid, [Next]_vars PROVE Inv'
    OBVIOUS
  <2>1. LoopInv' /\ MailOK' /\ StateOK'
    BY LoopInvNext, MailNext, StateNext
  <2>2. CASE UNCHANGED vars
    <3>1. UNCHANGED <<st, mailbox, turn, request>>
      BY <2>2 DEF vars, task, history
    <3>2. PlacedInv' /\ RequestValid'
      BY <3>1 DEF PlacedInv, RequestValid
    <3>3. QED
      BY <2>1, <3>2
  <2>3. CASE Others
    <3>1. PlacedInv' /\ request' = request
      BY <2>3, PlacedInvOthers
    <3>2. QED
      BY <2>1, <3>1 DEF RequestValid
  <2>4. CASE ActorStep
    <3>1. PlacedInv' /\ (request' = request \/ ProviderValid(request'))
      BY <2>4, PlacedInvActor
    <3>2. QED
      BY <2>1, <3>1 DEF RequestValid
  <2>5. QED
    BY <2>2, <2>3, <2>4 DEF Next, Others
<1>3. QED
  BY <1>1, <1>2, PTL DEF Spec

-----------------------------------------------------------------------------
(* The messages of a turn are collected for its own prompt *)

LEMMA SeqItem ==
    ASSUME NEW S, NEW s \in Seq(S), NEW i \in 1..Len(s)
    PROVE  s[i] \in S
BY SMT

LEMMA LastBehind ==
    ASSUME NEW S, NEW s \in Seq(S), NEW n \in Nat, Len(s) = n + 1
    PROVE  TurnTail(s, n) = <<s[n + 1]>> /\ s[n + 1] \in S
<1>0. n + 1 \in 1..Len(s)
  BY SMT
<1>1. n <= Len(s) /\ Len(s) - n = 1 /\ s[n + 1] \in S
  <2>1. n <= Len(s) /\ Len(s) - n = 1
    BY SMT
  <2>2. s[n + 1] \in S
    BY <1>0, SeqItem
  <2>3. QED
    BY <2>1, <2>2
<1>2. PICK t \in Seq(S) : t = TurnTail(s, n) /\ Len(t) = Len(s) - n /\ \A i \in 1..(Len(s) - n) : t[i] = s[n + i]
  <2>1. n <= Len(s)
    BY <1>1
  <2>2. /\ TurnTail(s, n) \in Seq(S) /\ Len(TurnTail(s, n)) = Len(s) - n
        /\ \A i \in 1..(Len(s) - n) : TurnTail(s, n)[i] = s[n + i]
    BY <2>1, TailItems
  <2>3. QED
    BY <2>2
<1>3. PICK e \in S : e = s[n + 1]
  BY <1>1
<1>4. Len(t) = 1 /\ t[1] = e
  BY <1>1, <1>2, <1>3, SMT
<1>5. <<e>> \in Seq(S) /\ Len(<<e>>) = 1 /\ <<e>>[1] = e
  BY SMT
<1>6. \A i \in 1..Len(t) : t[i] = <<e>>[i]
  BY <1>4, <1>5, SMT
<1>7. t = <<e>>
  BY <1>4, <1>5, <1>6, SameSeq
<1>8. QED
  BY <1>2, <1>3, <1>7

LEMMA MoreBehind ==
    ASSUME NEW S, NEW s \in Seq(S), NEW e \in S, NEW n \in Nat, n <= Len(s)
    PROVE  TurnTail(Append(s, e), n) = Append(TurnTail(s, n), e)
<1>1. Len(s) \in Nat
  BY LenNat
<1>2. PICK x \in Seq(S) : /\ x = Append(s, e) /\ Len(x) = Len(s) + 1
                          /\ \A i \in 1..Len(s) : x[i] = s[i]
                          /\ x[Len(s) + 1] = e
  BY AppendFacts
<1>3. PICK t \in Seq(S) : t = TurnTail(s, n) /\ Len(t) = Len(s) - n /\ \A i \in 1..(Len(s) - n) : t[i] = s[n + i]
  BY TailItems
<1>4. n <= Len(x)
  BY <1>1, <1>2, SMT
<1>5. PICK a \in Seq(S) : a = TurnTail(x, n) /\ Len(a) = Len(x) - n /\ \A i \in 1..(Len(x) - n) : a[i] = x[n + i]
  BY <1>4, TailItems
<1>6. PICK b \in Seq(S) : /\ b = Append(t, e) /\ Len(b) = Len(t) + 1
                          /\ \A i \in 1..Len(t) : b[i] = t[i]
                          /\ b[Len(t) + 1] = e
  BY AppendFacts
<1>7. Len(a) = Len(b)
  BY <1>1, <1>2, <1>3, <1>5, <1>6, SMT
<1>8. ASSUME NEW i \in 1..Len(a) PROVE a[i] = b[i]
  <2>1. CASE i <= Len(s) - n
    <3>1. i \in 1..(Len(s) - n) /\ i \in 1..Len(t) /\ n + i \in 1..Len(s) /\ i \in 1..(Len(x) - n)
      BY <1>1, <1>2, <1>3, <1>5, <2>1, SMT
    <3>2. QED
      BY <1>2, <1>3, <1>5, <1>6, <3>1
  <2>2. CASE i = Len(s) - n + 1
    <3>1. n + i = Len(s) + 1 /\ i = Len(t) + 1 /\ i \in 1..(Len(x) - n)
      BY <1>1, <1>2, <1>3, <1>5, <2>2, SMT
    <3>2. QED
      BY <1>2, <1>5, <1>6, <3>1
  <2>3. i <= Len(s) - n \/ i = Len(s) - n + 1
    <3>1. Len(a) = Len(s) + 1 - n
      BY <1>2, <1>5
    <3>2. QED
      BY <1>1, <3>1, SMT
  <2>4. QED
    BY <2>1, <2>2, <2>3
<1>9. a = b
  BY <1>7, <1>8, SameSeq
<1>10. QED
  BY <1>2, <1>3, <1>5, <1>6, <1>9

LEMMA JoinAppend ==
    ASSUME NEW S, NEW s \in Seq(S), NEW t \in Seq(S), NEW e \in S
    PROVE  /\ s \o Append(t, e) = Append(s \o t, e) /\ s \o <<e>> = Append(s, e)
           /\ s \o <<>> = s /\ <<>> \o s = s
<1>1. Append(t, e) = t \o <<e>> /\ <<e>> \in Seq(S) /\ s \o <<e>> = Append(s, e)
  BY AppendIsConcat
<1>2. s \o t \in Seq(S)
  BY ConcatFacts
<1>3. Append(s \o t, e) = (s \o t) \o <<e>>
  BY <1>2, AppendIsConcat
<1>4. s \o (t \o <<e>>) = (s \o t) \o <<e>>
  BY <1>1, ConcatAssociative
<1>5. s \o <<>> = s /\ <<>> \o s = s
  BY SMT
<1>6. QED
  BY <1>1, <1>3, <1>4, <1>5

\* A rewrite of the conversation leaves the captured messages alone.
LEMMA RebasedSame ==
    ASSUME NEW s \in States, NEW u, s.capture.on => s.capture.offset <= Len(s.conv),
           Rebased(s, u, Len(u.conv))
    PROVE  (u.capture.on <=> s.capture.on) /\ TurnMessages(u) = TurnMessages(s)
<1>1. /\ u \in States /\ u.conv \in Seq(AllItems) /\ s.conv \in Seq(AllItems) /\ s.capture.offset \in Nat
      /\ s.capture.pre \in Seq(AllItems)
  BY DEF Rebased, States, Captures
<1>2. PICK t \in Seq(AllItems) : t = TurnTail(s.conv, s.capture.offset)
  BY <1>1, TailIsSeq
<1>3. TurnTail(u.conv, Len(u.conv)) = <<>>
  BY <1>1, NothingBehind
<1>4. s.capture.pre \o t \in Seq(AllItems)
  BY <1>1, ConcatFacts
<1>5. (s.capture.pre \o t) \o <<>> = s.capture.pre \o t
  BY <1>4, SMT
<1>6. CASE s.capture.on
  <2>1. TurnMessages(s) = s.capture.pre \o t
    BY <1>2, <1>6 DEF TurnMessages
  <2>2. u.capture.on /\ u.capture.offset = Len(u.conv) /\ u.capture.pre = s.capture.pre \o t
    BY <1>2, <1>6 DEF Rebased
  <2>3. TurnMessages(u) = (s.capture.pre \o t) \o <<>>
    BY <1>3, <2>2 DEF TurnMessages
  <2>4. QED
    BY <1>5, <1>6, <2>1, <2>2, <2>3
<1>7. CASE ~s.capture.on
  BY <1>7 DEF Rebased, TurnMessages
<1>8. QED
  BY <1>6, <1>7

\* A message is captured once, also behind a rewrite.
LEMMA PushCaptured ==
    ASSUME NEW s \in States, NEW item \in AllItems, s.capture.on, s.capture.offset <= Len(s.conv),
           NEW u, u = PushMessage(s, item).st
    PROVE  u.capture.on /\ TurnMessages(u) = Append(TurnMessages(s), item)
<1>1. s.conv \in Seq(AllItems) /\ s.capture.offset \in Nat /\ s.capture.pre \in Seq(AllItems)
  BY DEF States, Captures
<1>2. Becoming(s, u, Append(s.conv, item), s.prompt, s.capture.on, s.capture.offset, s.capture.pre)
  BY PushHandler
<1>3. /\ u.conv = Append(s.conv, item) /\ u.capture.on /\ u.capture.offset = s.capture.offset
      /\ u.capture.pre = s.capture.pre
  BY <1>2 DEF Becoming
<1>4. PICK t \in Seq(AllItems) : t = TurnTail(s.conv, s.capture.offset)
  BY <1>1, TailIsSeq
<1>5. TurnTail(u.conv, u.capture.offset) = Append(t, item)
  <2>1. TurnTail(Append(s.conv, item), s.capture.offset) = Append(TurnTail(s.conv, s.capture.offset), item)
    BY <1>1, MoreBehind
  <2>2. QED
    BY <1>3, <1>4, <2>1, Zenon
<1>6. s.capture.pre \o Append(t, item) = Append(s.capture.pre \o t, item)
  <2>1. PICK w \in Seq(AllItems) : w = s.capture.pre
    BY <1>1
  <2>2. w \o Append(t, item) = Append(w \o t, item)
    BY JoinAppend
  <2>3. QED
    BY <2>1, <2>2
<1>7. TurnMessages(s) = s.capture.pre \o t /\ TurnMessages(u) = s.capture.pre \o Append(t, item)
  BY <1>3, <1>4, <1>5 DEF TurnMessages
<1>8. QED
  BY <1>3, <1>6, <1>7

\* The prune leaves a user message alone.
LEMMA PruneKeepsLast ==
    ASSUME NEW c \in Seq(AllItems), NEW item \in AllItems, ~IsResult(item), NEW n, NEW age
    PROVE  PruneRetained(Append(c, item), n, age)[Len(c) + 1] = item
<1>1. PICK d \in Seq(AllItems) : d = Append(c, item) /\ Len(d) = Len(c) + 1 /\ d[Len(c) + 1] = item
  BY AppendFacts
<1>2. Len(c) + 1 \in DOMAIN d
  BY <1>1, SMT
<1>3. PICK i \in DOMAIN d : i = Len(c) + 1
  BY <1>2
<1>4. PruneRetained(d, n, age)[i] = d[i]
  BY <1>1, <1>3 DEF PruneRetained
<1>5. QED
  BY <1>1, <1>3, <1>4

LEMMA PushUserCaptured ==
    ASSUME NEW s \in States, NEW item \in AllItems, ~IsResult(item), s.capture.on, s.capture.offset <= Len(s.conv),
           NEW u, u = PushUserMessage(s, item, "cancelled").st
    PROVE  u.capture.on /\ TurnMessages(u) = Append(TurnMessages(s), item)
<1>1. s.conv \in Seq(AllItems) /\ s.capture.offset \in Nat /\ s.capture.pre \in Seq(AllItems)
  BY DEF States, Captures
<1>2. PICK c \in Seq(AllItems) :
              /\ c # <<>> /\ u.conv = c
              /\ c = PruneRetained(Append(Integrity(s.conv, "cancelled"), item), s.prompt, HardClearAge)
              /\ Len(c) - 1 = Len(Integrity(s.conv, "cancelled"))
              /\ Rebased(s, u, Len(c) - 1)
  BY PushUserHandler
<1>3. PICK d \in Seq(AllItems) : d = Integrity(s.conv, "cancelled")
  BY IntegrityHandler DEF Reasons
<1>4. PICK n \in Nat : n = Len(d) /\ Len(c) = n + 1 /\ Len(c) - 1 = n
  <2>1. Len(d) \in Nat /\ Len(c) \in Nat /\ Len(c) - 1 = Len(d)
    BY <1>2, <1>3, LenNat
  <2>2. Len(c) = Len(d) + 1
    BY <2>1, SMT
  <2>3. QED
    BY <2>1, <2>2
<1>5. c[n + 1] = item
  BY <1>2, <1>3, <1>4, PruneKeepsLast
<1>6. TurnTail(c, n) = <<item>>
  BY <1>4, <1>5, LastBehind
<1>7. PICK t \in Seq(AllItems) : t = TurnTail(s.conv, s.capture.offset)
  BY <1>1, TailIsSeq
<1>8. u.capture.on /\ u.capture.offset = n /\ u.capture.pre = s.capture.pre \o t
  BY <1>2, <1>4, <1>7 DEF Rebased
<1>9. PICK v \in Seq(AllItems) : v = s.capture.pre \o t
  BY <1>1, ConcatFacts
<1>10. v \o <<item>> = Append(v, item)
  BY AppendIsConcat
<1>11. TurnMessages(s) = v /\ TurnMessages(u) = v \o <<item>>
  BY <1>2, <1>6, <1>7, <1>8, <1>9 DEF TurnMessages
<1>12. QED
  BY <1>8, <1>10, <1>11

\* What a message of the mailbox does to the captured messages.
LEMMA ActorCaptures ==
    ASSUME StateOK, MailOK, Quiet, ActorStep
    PROVE  LET m == Head(mailbox)
           IN  /\ m.op = "begin" => st'.capture.on /\ TurnMessages(st') = <<>>
               /\ m.op = "take" => ~st'.capture.on
               /\ m.op \in {"push", "push_user"} /\ st.capture.on =>
                     st'.capture.on /\ TurnMessages(st') = Append(TurnMessages(st), m.item)
               /\ m.op \notin {"begin", "take", "push", "push_user"} =>
                     (st'.capture.on <=> st.capture.on) /\ TurnMessages(st') = TurnMessages(st)
<1>0. /\ st \in States /\ (st.capture.on => st.capture.offset <= Len(st.conv))
      /\ st.conv \in Seq(AllItems)
  BY DEF StateOK, States
<1>1. CASE ActorIndex
  <2>1. Head(mailbox).op = "index" /\ st' = IncrementPromptIndex(st).st
    BY <1>1 DEF ActorIndex, Handle
  <2>2. /\ st'.conv = st.conv /\ (st'.capture.on <=> st.capture.on) /\ st'.capture.offset = st.capture.offset
        /\ st'.capture.pre = st.capture.pre
    BY <1>0, <2>1, IndexHandler DEF Becoming
  <2>3. TurnMessages(st') = TurnMessages(st)
    BY <2>2 DEF TurnMessages
  <2>4. QED
    BY <2>1, <2>2, <2>3
<1>2. CASE ActorBegin
  <2>1. Head(mailbox).op = "begin" /\ st' = BeginTurnCapture(st).st
    BY <1>2 DEF ActorBegin, Handle
  <2>2. st'.conv = st.conv /\ st'.capture.on /\ st'.capture.offset = Len(st.conv) /\ st'.capture.pre = <<>>
    BY <1>0, <2>1, BeginHandler DEF Becoming
  <2>3. TurnTail(st.conv, Len(st.conv)) = <<>>
    BY <1>0, NothingBehind
  <2>4. <<>> \o <<>> = <<>>
    BY SMT
  <2>5. TurnMessages(st') = <<>>
    BY <2>2, <2>3, <2>4 DEF TurnMessages
  <2>6. QED
    BY <2>1, <2>2, <2>5
<1>3. CASE ActorPush
  <2>1. /\ Head(mailbox).op = "push" /\ st' = PushMessage(st, Head(mailbox).item).st
        /\ Head(mailbox).item \in AllItems
    BY <1>3, PushedItem DEF ActorPush, Handle
  <2>2. QED
    BY <1>0, <2>1, PushCaptured
<1>4. CASE ActorPushUser
  <2>1. /\ Head(mailbox).op = "push_user" /\ st' = PushUserMessage(st, Head(mailbox).item, "cancelled").st
        /\ Head(mailbox).item \in AllItems /\ mailbox # <<>>
    BY <1>4, PushedItem DEF ActorPushUser, Handle
  <2>2. Head(mailbox).item \in UserItems
    BY <2>1, HeadTail, MessageFacts DEF MailOK
  <2>3. ~IsResult(Head(mailbox).item)
    <3>1. PICK p \in Prompts, b \in {"prompt", "interjection"} : Head(mailbox).item = User(p, b)
      BY <2>2 DEF UserItems
    <3>2. User(p, b).kind = "user"
      BY DEF User, Item
    <3>3. QED
      BY <3>1, <3>2 DEF IsResult
  <2>4. QED
    BY <1>0, <2>1, <2>3, PushUserCaptured
<1>5. CASE ActorBuild \/ ActorCompact
  <2>1. /\ Head(mailbox).op \in {"build", "compact"}
        /\ \/ \E reminder \in BOOLEAN : st' = BuildRequest(st, reminder).st
           \/ st' = ReplaceConversation(st, Compacted, TRUE).st
    BY <1>5 DEF ActorBuild, ActorCompact, Handle
  <2>2. Rebased(st, st', Len(st'.conv))
    <3>1. CASE \E reminder \in BOOLEAN : st' = BuildRequest(st, reminder).st
      BY <1>0, <3>1, BuildHandler
    <3>2. CASE st' = ReplaceConversation(st, Compacted, TRUE).st
      <4>1. Compacted \in Seq(AllItems)
        BY AllStable, CompactedType
      <4>2. QED
        BY <1>0, <3>2, <4>1, ReplaceHandler
    <3>3. QED
      BY <2>1, <3>1, <3>2
  <2>3. (st'.capture.on <=> st.capture.on) /\ TurnMessages(st') = TurnMessages(st)
    BY <1>0, <2>2, RebasedSame
  <2>4. QED
    BY <2>1, <2>3
<1>6. CASE ActorHead
  <2>1. Head(mailbox).op = "head" /\ st' = ReplaceSystemHead(st, "new_head").st
    BY <1>6 DEF ActorHead, Handle
  <2>2. CASE st' = st
    BY <2>1, <2>2
  <2>3. CASE st' # st
    <3>1. Rebased(st, st', Len(st'.conv))
      BY <1>0, <2>1, <2>3, HeadHandler
    <3>2. (st'.capture.on <=> st.capture.on) /\ TurnMessages(st') = TurnMessages(st)
      BY <1>0, <3>1, RebasedSame
    <3>3. QED
      BY <2>1, <3>2
  <2>4. QED
    BY <2>2, <2>3
<1>7. CASE ActorRepair
  <2>1. mailbox # <<>> /\ Head(mailbox).op = "repair"
    BY <1>7 DEF ActorRepair, Handle
  <2>2. 1 \in 1..Len(mailbox) /\ Head(mailbox) = mailbox[1]
    BY <2>1, SMT DEF MailOK
  <2>3. QED
    BY <2>1, <2>2 DEF Quiet
<1>8. CASE ActorTake
  <2>1. Head(mailbox).op = "take" /\ st' = TakeTurnMessages(st).st
    BY <1>8 DEF ActorTake, Handle
  <2>2. ~st'.capture.on
    BY <1>0, <2>1, TakeHandler DEF Becoming
  <2>3. QED
    BY <2>1, <2>2
<1>9. QED
  BY <1>1, <1>2, <1>3, <1>4, <1>5, <1>6, <1>7, <1>8 DEF ActorStep

\* Whether a message is pushed; whether a prompt has been sent and its messages
\* are still to be collected; whether the turn of a prompt has begun to push.
Currents   == {"waiting", "answered", "taking"}
IsPush(m)  == m.op \in {"push", "push_user"}
Current(p) == collector[p] \in Currents
New(p)     == Fresh(p) \/ (turn.p = p /\ turn.pc = "begin")

\* The client waits for the last prompt to be collected.
Solo == \A p, q \in Prompts : q < p /\ collector[p] # "unsent" => collector[q] = "collected"

\* The capture runs when the actor comes to the n-th message.
Opened(n) == st.capture.on \/ \E j \in 1..Len(mailbox) : j < n /\ mailbox[j].op = "begin"

RunPcs == {"sample", "build", "reply", "tools", "finish"}

\* A message is pushed for the current prompt, and its capture runs by then.
PushesInv ==
    \A i \in 1..Len(mailbox) : IsPush(mailbox[i]) => Current(mailbox[i].item.by) /\ Opened(i)

\* A capture begins before anything is pushed for the current prompt.
BeginsInv ==
    \A i \in 1..Len(mailbox) : mailbox[i].op = "begin" =>
        /\ \E p \in Prompts : Current(p)
        /\ \A p \in Prompts : Current(p) => log[p] = <<>>
        /\ \A j \in 1..Len(mailbox) : IsPush(mailbox[j]) => i < j

\* Nothing is pushed before the turn's capture is asked for.
NewInv ==
    \A p \in Prompts : New(p) =>
        /\ log[p] = <<>>
        /\ \A i \in 1..Len(mailbox) : IsPush(mailbox[i]) => mailbox[i].item.by # p

\* One take is under way at most, and nothing of a turn is behind it.
AskedTakes ==
    \A i \in 1..Len(cmds) : cmds[i].op = "take" =>
        /\ collector[cmds[i].p] = "taking"
        /\ \A j \in 1..Len(cmds) : cmds[j].op = "take" => j = i

SentTakes ==
    \A i \in 1..Len(mailbox) : mailbox[i].op = "take" =>
        /\ awaiting /\ collector[mailbox[i].p] = "taking"
        /\ \A j \in 1..Len(cmds) : cmds[j].op # "take"
        /\ \A j \in 1..Len(mailbox) : j > i => mailbox[j].op \notin {"begin", "take"} /\ ~IsPush(mailbox[j])

\* What is captured is what was pushed for the current prompt.
CaptureInv ==
    /\ st.capture.on => \E p \in Prompts : Current(p)
    /\ \A p \in Prompts : Current(p) => TurnMessages(st) = log[p]

\* The turn's capture runs when the turn's next message comes.
RunInv == turn.pc \in RunPcs => Opened(Len(mailbox) + 1)

OwnInv ==
    /\ Solo /\ PushesInv /\ BeginsInv /\ NewInv /\ AskedTakes /\ SentTakes /\ CaptureInv /\ RunInv
    /\ DOMAIN got = Prompts /\ TakeReturnsOwnTurn

LEMMA OneCurrent ==
    ASSUME Solo, NEW p \in Prompts, NEW q \in Prompts, Current(p), Current(q)
    PROVE  p = q
<1>1. p \in Int /\ q \in Int
  BY DEF Prompts
<1>2. collector[p] # "collected" /\ collector[q] # "collected" /\ collector[p] # "unsent" /\ collector[q] # "unsent"
  BY DEF Current, Currents
<1>3. ~(p < q) /\ ~(q < p)
  BY <1>2 DEF Solo
<1>4. QED
  BY <1>1, <1>3, SMT

\* The prompt of a turn that is not done is the current one.
LEMMA RunningCurrent ==
    ASSUME LoopInv, OnceInv, turn.pc # "done"
    PROVE  /\ turn.p \in Prompts /\ collector[turn.p] = "waiting" /\ Current(turn.p) /\ running = turn.p
           /\ pending # <<>> /\ Queued(turn.p)
           /\ turn.pc # "start" => ~Fresh(turn.p)
           /\ turn.pc \in RunPcs => ~New(turn.p)
<1>0. pending \in Seq(Entries) /\ OnceIn(cmds, pending, collector)
  BY DEF LoopInv, SessionOK, OnceInv
<1>1. turn.p = running /\ running # None /\ running \in Prompts
  BY DEF LoopInv, Owned, SessionOK
<1>2. pending # <<>> /\ Head(pending).p = running
  BY <1>1 DEF LoopInv, FrontIsRunning
<1>3. Head(pending) = pending[1] /\ 1 \in 1..Len(pending)
  BY <1>0, <1>2, HeadTail
<1>4. collector[turn.p] = "waiting"
  BY <1>0, <1>1, <1>2, <1>3 DEF OnceIn
<1>5. ~Asked(turn.p)
  BY <1>0, <1>1, <1>2, <1>3 DEF OnceIn, Asked
<1>6. Queued(turn.p)
  BY <1>1, <1>2, <1>3 DEF Queued
<1>7. turn.pc # "start" => ~Fresh(turn.p)
  BY <1>1, <1>4, <1>5 DEF Fresh
<1>8. turn.pc \in RunPcs => ~New(turn.p)
  BY <1>7 DEF New, RunPcs
<1>9. QED
  BY <1>1, <1>2, <1>4, <1>6, <1>7, <1>8 DEF Current, Currents

\* The prompt at the head of the commands finds no turn running.
LEMMA PromptAlone ==
    ASSUME LoopInv, OnceInv, Solo, cmds # <<>>, Head(cmds).op = "prompt"
    PROVE  running = None
<1>0. /\ cmds \in Seq(Commands) /\ pending \in Seq(Entries) /\ OnceIn(cmds, pending, collector)
  BY DEF LoopInv, SessionOK, OnceInv
<1>1. Head(cmds) = cmds[1] /\ 1 \in 1..Len(cmds) /\ Head(cmds) \in Commands
  BY <1>0, HeadTail
<1>2. Head(cmds).p \in Prompts /\ collector[Head(cmds).p] = "waiting"
  BY <1>0, <1>1, CommandFacts DEF OnceIn
<1>3. SUFFICES ASSUME running # None PROVE FALSE
  OBVIOUS
<1>4. pending # <<>>
  BY <1>3 DEF LoopInv, FrontIsRunning
<1>5. Head(pending) = pending[1] /\ 1 \in 1..Len(pending) /\ Head(pending) \in Entries
  BY <1>0, <1>4, HeadTail
<1>6. Head(pending).p \in Prompts /\ collector[Head(pending).p] = "waiting" /\ Head(pending).p # Head(cmds).p
  BY <1>0, <1>1, <1>5 DEF OnceIn, Entries
<1>7. PICK p \in Prompts, q \in Prompts : p # q /\ Current(p) /\ Current(q)
  BY <1>2, <1>6 DEF Current, Currents
<1>8. QED
  BY <1>7, OneCurrent

\* A cancel posts nothing.
LEMMA CancelSilent ==
    ASSUME MailOK, LoopCancel
    PROVE  mailbox' = mailbox
<1>1. PICK background \in SUBSET {} :
         mailbox' = mailbox \o [i \in 1..Cardinality(background) |->
                      [op |-> "push", item |-> Result(SetToSeq(background)[i], turn.p)]]
  BY DEF LoopCancel, CancelRunningTask
<1>2. background = {}
  BY <1>1
<1>3. Cardinality(background) = 0
  BY <1>2, FS_EmptySet
<1>4. [i \in 1..Cardinality(background) |->
                      [op |-> "push", item |-> Result(SetToSeq(background)[i], turn.p)]] = <<>>
  BY <1>3, SMT
<1>5. mailbox \o <<>> = mailbox
  BY SMT DEF MailOK
<1>6. QED
  BY <1>1, <1>4, <1>5

\* What a step posts: pushes of the running turn, behind a begin when it is its
\* first step; one take.
Says(msgs) ==
    /\ msgs \in Seq(Messages) /\ mailbox' = mailbox \o msgs
    /\ \A i \in 1..Len(msgs) :
          /\ IsPush(msgs[i]) =>
                /\ turn.pc \in RunPcs \cup {"begin"} /\ turn'.pc # "begin" /\ msgs[i].item.by = turn.p
                /\ turn.pc = "begin" => \E j \in 1..Len(msgs) : j < i /\ msgs[j].op = "begin"
          /\ msgs[i].op = "begin" =>
                turn.pc = "begin" /\ \A j \in 1..Len(msgs) : IsPush(msgs[j]) => i < j
          /\ msgs[i].op = "take" => LoopTake /\ msgs[i].p = Head(cmds).p /\ Len(msgs) = 1
    /\ turn'.pc \in RunPcs => turn.pc \in RunPcs \/ \E i \in 1..Len(msgs) : msgs[i].op = "begin"
    /\ turn'.pc = "begin" => turn.pc \in {"start", "begin"} /\ turn'.p = turn.p

\* The stages of a turn's own steps.
LEMMA TurnPcs ==
    ASSUME LoopInv, TurnStep
    PROVE  /\ turn'.p = turn.p
           /\ \/ turn' = turn
              \/ TurnStart /\ turn.pc = "start" /\ turn'.pc = "begin"
              \/ TurnBegin /\ turn.pc = "begin" /\ turn'.pc = "sample"
              \/ turn.pc \in RunPcs /\ turn'.pc \in RunPcs
              \/ turn'.pc \in {"done", "failed"}
<1>0. turn \in Turns /\ Shape(turn)
  BY DEF LoopInv, Shape
<1>1. turn'.p = turn.p
  BY TurnForward DEF Forward
<1>2. CASE TurnStart
  <2>1. turn' = [turn EXCEPT !.pc = "begin"] /\ "begin" \in Pcs /\ turn.pc = "start"
    BY <1>2 DEF TurnStart, Pcs, At
  <2>2. Becomes(turn, turn', "begin", turn.k, turn.open)
    BY <1>0, <2>1, PcUpdate
  <2>3. QED
    BY <1>1, <1>2, <2>1, <2>2 DEF Becomes
<1>3. CASE TurnBegin \/ TurnSample \/ TurnToolsDone \/ TurnInterject
  <2>1. /\ \E x \in {"sample", "build"} : turn' = [turn EXCEPT !.pc = x]
        /\ TurnBegin => turn.pc = "begin" /\ turn' = [turn EXCEPT !.pc = "sample"]
        /\ ~TurnBegin => turn.pc \in RunPcs
    BY <1>3 DEF TurnBegin, TurnSample, TurnToolsDone, TurnInterject, At, RunPcs
  <2>2. PICK x \in {"sample", "build"} : turn' = [turn EXCEPT !.pc = x]
    BY <2>1
  <2>3. x \in Pcs /\ x \in RunPcs /\ "sample" \in Pcs
    BY DEF Pcs, RunPcs
  <2>4. Becomes(turn, turn', x, turn.k, turn.open)
    BY <1>0, <2>2, <2>3, PcUpdate
  <2>5. TurnBegin => Becomes(turn, turn', "sample", turn.k, turn.open)
    BY <1>0, <2>1, <2>3, PcUpdate
  <2>6. QED
    BY <1>1, <2>1, <2>3, <2>4, <2>5 DEF Becomes
<1>4. CASE TurnFinish \/ TurnFails
  <2>1. PICK x \in {"done", "failed"} : turn' = [turn EXCEPT !.pc = x]
    BY <1>4 DEF TurnFinish, TurnFails
  <2>2. x \in Pcs
    BY DEF Pcs
  <2>3. Becomes(turn, turn', x, turn.k, turn.open)
    BY <1>0, <2>1, <2>2, PcUpdate
  <2>4. QED
    BY <1>1, <2>3 DEF Becomes
<1>5. CASE TurnCompact \/ DropAborted
  BY <1>5 DEF TurnCompact, DropAborted, task
<1>6. CASE TurnDispatchError
  <2>1. turn' = [turn EXCEPT !.pc = "sample", !.open = {}] /\ "sample" \in Pcs /\ turn.pc = "tools"
    BY <1>6 DEF TurnDispatchError, Pcs, At
  <2>2. Becomes(turn, turn', "sample", turn.k, {})
    BY <1>0, <2>1, PcOpenUpdate
  <2>3. QED
    BY <1>1, <2>1, <2>2 DEF RunPcs, Becomes
<1>7. ASSUME NEW id \in turn.open, TurnResult(id) PROVE turn.pc \in RunPcs /\ turn'.pc \in RunPcs
  <2>1. turn' = [turn EXCEPT !.open = turn.open \ {id}] /\ turn.open \ {id} \in SUBSET Nat /\ turn.pc = "tools"
    BY <1>0, <1>7 DEF TurnResult, Turns, At
  <2>2. Becomes(turn, turn', turn.pc, turn.k, turn.open \ {id})
    BY <1>0, <2>1, OpenUpdate
  <2>3. QED
    BY <2>1, <2>2 DEF RunPcs, Becomes
<1>8. ASSUME NEW c, TurnReply(c), c = <<>> \/ c \in CallsOf(turn.p, turn.k)
      PROVE  turn.pc \in RunPcs /\ turn'.pc \in RunPcs
  <2>1. turn.pc = "reply"
    BY <1>8 DEF TurnReply, At
  <2>2. turn.p \in Prompts /\ turn.k \in 0..MaxSamples
    BY <2>1 DEF LoopInv, SessionOK, Owned, Shape, Turns
  <2>3. ToSet(c) \subseteq Nat
    BY <1>8, <2>2, CallsFacts, NoIds
  <2>4. PICK x \in {"finish", "tools"} : x = IF c = <<>> THEN "finish" ELSE "tools"
    OBVIOUS
  <2>5. turn' = [turn EXCEPT !.pc = x, !.open = ToSet(c)] /\ x \in Pcs
    BY <1>8, <2>4 DEF TurnReply, Pcs
  <2>6. Becomes(turn, turn', x, turn.k, ToSet(c))
    BY <1>0, <2>3, <2>5, PcOpenUpdate
  <2>7. QED
    BY <2>1, <2>6 DEF RunPcs, Becomes
<1>9. QED
  BY <1>1, <1>2, <1>3, <1>4, <1>5, <1>6, <1>7, <1>8 DEF TurnStep

LEMMA OneSaid ==
    ASSUME NEW m \in Messages, mailbox' = mailbox \o <<m>>, m.op # "begin",
           IsPush(m) => turn.pc \in RunPcs /\ turn'.pc # "begin" /\ m.item.by = turn.p,
           m.op = "take" => LoopTake /\ m.p = Head(cmds).p,
           turn'.pc \in RunPcs => turn.pc \in RunPcs,
           turn'.pc = "begin" => turn.pc \in {"start", "begin"} /\ turn'.p = turn.p
    PROVE  \E msgs : Says(msgs)
<1>1. <<m>> \in Seq(Messages)
  BY OneMessage
<1>2. Len(<<m>>) = 1 /\ \A i \in 1..1 : <<m>>[i] = m
  BY SMT
<1>3. turn.pc \in RunPcs => turn.pc # "begin"
  BY DEF RunPcs
<1>4. PICK t : t = <<m>>
  OBVIOUS
<1>5. t \in Seq(Messages) /\ mailbox' = mailbox \o t /\ Len(t) = 1 /\ \A i \in 1..Len(t) : t[i] = m
  BY <1>1, <1>2, <1>4
<1>6. Says(t)
  BY <1>3, <1>5 DEF Says
<1>7. QED
  BY <1>6

LEMMA NothingSaid ==
    ASSUME MailOK, mailbox' = mailbox,
           turn'.pc \in RunPcs => turn.pc \in RunPcs,
           turn'.pc = "begin" => turn.pc \in {"start", "begin"} /\ turn'.p = turn.p
    PROVE  \E msgs : Says(msgs)
<1>1. <<>> \in Seq(Messages) /\ mailbox \o <<>> = mailbox /\ 1..Len(<<>>) = {}
  BY SMT DEF MailOK
<1>2. PICK t : t = <<>>
  OBVIOUS
<1>3. t \in Seq(Messages) /\ mailbox' = mailbox \o t /\ 1..Len(t) = {}
  BY <1>1, <1>2
<1>4. Says(t)
  BY <1>3 DEF Says
<1>5. QED
  BY <1>4

LEMMA OwnSays ==
    ASSUME LoopInv, MailOK, OnceInv, Solo, Quiet, Others
    PROVE  \E msgs : Says(msgs)
<1>0. turn.pc # "done" => turn.p \in Prompts
  BY RunningCurrent
<1>1. CASE ClientStep \/ \E p \in Prompts : Collect(p)
  <2>1. turn' = turn /\ (mailbox' = mailbox \/ mailbox' = Append(mailbox, [op |-> "head"]))
    BY <1>1 DEF ClientStep, ClientPrompt, ClientCancel, ClientRepair, ClientHead, Collect, task
  <2>2. CASE mailbox' = mailbox
    BY <2>1, <2>2, NothingSaid
  <2>3. CASE mailbox' = Append(mailbox, [op |-> "head"])
    <3>1. PICK m \in Messages : m = [op |-> "head"]
      BY DEF Messages
    <3>2. m.op = "head"
      BY <3>1
    <3>3. mailbox' = mailbox \o <<m>>
      BY <2>3, <3>1 DEF Append, MailOK
    <3>4. QED
      BY <2>1, <3>2, <3>3, OneSaid DEF IsPush
  <2>4. QED
    BY <2>1, <2>2, <2>3
<1>2. CASE LoopStep
  <2>1. (turn'.pc \notin RunPcs /\ turn'.pc # "begin") \/ turn' = turn
    BY <1>2, LoopForward DEF NewOrNone, RunPcs
  <2>2. CASE LoopTake
    <3>1. cmds # <<>> /\ Head(cmds).op = "take" /\ mailbox' = Append(mailbox, [op |-> "take", p |-> Head(cmds).p])
      BY <2>2 DEF LoopTake, Receive
    <3>2. Head(cmds).p \in Prompts
      BY <3>1, HeadTail, CommandFacts DEF LoopInv, SessionOK
    <3>3. PICK m \in Messages : m = [op |-> "take", p |-> Head(cmds).p]
      BY <3>2 DEF Messages
    <3>4. m.op = "take" /\ m.p = Head(cmds).p
      BY <3>3
    <3>5. mailbox' = mailbox \o <<m>>
      BY <3>1, <3>3 DEF Append, MailOK
    <3>6. QED
      BY <2>1, <2>2, <3>4, <3>5, OneSaid DEF IsPush
  <2>3. CASE ~LoopTake
    <3>1. CASE LoopPrompt
      <4>1. running = None
        BY <3>1, PromptAlone DEF LoopPrompt, Receive
      <4>2. mailbox' = mailbox
        BY <3>1, <4>1, Zenon DEF LoopPrompt, SendNowCancels
      <4>3. QED
        BY <2>1, <4>2, NothingSaid
    <3>2. CASE LoopCancel \/ LoopRepair \/ LoopCompletion
      <4>1. mailbox' = mailbox
        BY <3>2, CancelSilent DEF LoopRepair, LoopCompletion
      <4>2. QED
        BY <2>1, <4>1, NothingSaid
    <3>3. QED
      BY <1>2, <2>3, <3>1, <3>2 DEF LoopStep
  <2>4. QED
    BY <2>2, <2>3
<1>3. CASE RepairCheck
  BY <1>3 DEF RepairCheck, Quiet
<1>4. CASE TurnStep
  <2>0. turn'.p = turn.p
    BY <1>4, TurnPcs
  <2>1. CASE TurnStart
    <3>1. turn.pc = "start" /\ turn'.pc = "begin" /\ mailbox' = mailbox \o <<[op |-> "index"]>>
      <4>1. turn.pc = "start" /\ mailbox' = mailbox \o <<[op |-> "index"]>> /\ turn' = [turn EXCEPT !.pc = "begin"]
        BY <2>1 DEF TurnStart, At, Post
      <4>2. turn \in Turns /\ "begin" \in Pcs
        BY DEF LoopInv, Shape, Pcs
      <4>3. QED
        BY <4>1, <4>2, PcUpdate DEF Becomes
    <3>2. PICK m \in Messages : m = [op |-> "index"]
      BY DEF Messages
    <3>3. m.op = "index"
      BY <3>2
    <3>4. QED
      BY <2>0, <3>1, <3>2, <3>3, OneSaid DEF IsPush, RunPcs
  <2>2. CASE TurnBegin
    <3>1. /\ turn.pc = "begin" /\ turn' = [turn EXCEPT !.pc = "sample"]
          /\ mailbox' = mailbox \o <<[op |-> "begin"], [op |-> "push_user", item |-> User(turn.p, "prompt")]>>
      BY <2>2 DEF TurnBegin, At, Post
    <3>2. turn'.pc = "sample"
      <4>1. turn \in Turns /\ "sample" \in Pcs
        BY DEF LoopInv, Shape, Pcs
      <4>2. QED
        BY <3>1, <4>1, PcUpdate DEF Becomes
    <3>3. turn.p \in Prompts
      BY <1>0, <3>1
    <3>4. PICK m1 \in Messages : m1 = [op |-> "begin"]
      BY DEF Messages
    <3>5. User(turn.p, "prompt") \in UserItems
      BY <3>3 DEF UserItems
    <3>6. PICK m2 \in Messages : m2 = [op |-> "push_user", item |-> User(turn.p, "prompt")]
      BY <3>5 DEF Messages
    <3>7. m1.op = "begin" /\ m2.op = "push_user" /\ m2.item.by = turn.p
      BY <3>4, <3>6, ItemFacts
    <3>8. PICK t \in Seq(Messages) : t = <<m1, m2>> /\ Len(t) = 2 /\ t[1] = m1 /\ t[2] = m2
      <4>1. <<m1, m2>> \in Seq(Messages) /\ Len(<<m1, m2>>) = 2 /\ <<m1, m2>>[1] = m1 /\ <<m1, m2>>[2] = m2
        BY SMT
      <4>2. QED
        BY <4>1
    <3>9. mailbox' = mailbox \o t
      BY <3>1, <3>4, <3>6, <3>8
    <3>10. \A i \in 1..Len(t) : i = 1 \/ i = 2
      BY <3>8, SMT
    <3>11. 1 \in 1..Len(t) /\ 2 \in 1..Len(t) /\ 1 < 2
      BY <3>8, SMT
    <3>12. ~IsPush(m1) /\ m2.op # "begin" /\ m1.op # "take" /\ m2.op # "take"
      BY <3>7 DEF IsPush
    <3>13. ASSUME NEW i \in 1..Len(t)
           PROVE  /\ IsPush(t[i]) =>
                        /\ turn.pc \in RunPcs \cup {"begin"} /\ turn'.pc # "begin" /\ t[i].item.by = turn.p
                        /\ turn.pc = "begin" => \E j \in 1..Len(t) : j < i /\ t[j].op = "begin"
                  /\ t[i].op = "begin" => turn.pc = "begin" /\ \A j \in 1..Len(t) : IsPush(t[j]) => i < j
                  /\ t[i].op # "take"
      <4>1. CASE i = 1
        BY <3>1, <3>8, <3>10, <3>11, <3>12, <4>1
      <4>2. CASE i = 2
        BY <3>1, <3>2, <3>7, <3>8, <3>11, <3>12, <4>2
      <4>3. QED
        BY <3>10, <4>1, <4>2
    <3>14. Says(t)
      BY <3>2, <3>7, <3>8, <3>9, <3>11, <3>13 DEF Says
    <3>15. QED
      BY <3>14
  <2>3. CASE TurnCompact
    <3>1. turn' = turn /\ mailbox' = mailbox \o <<[op |-> "compact"]>>
      BY <2>3 DEF TurnCompact, Post, task
    <3>2. PICK m \in Messages : m = [op |-> "compact"]
      BY DEF Messages
    <3>3. m.op = "compact"
      BY <3>2
    <3>4. QED
      BY <3>1, <3>2, <3>3, OneSaid DEF IsPush
  <2>4. CASE TurnSample \/ TurnInterject \/ (\E c : (c = <<>> \/ c \in CallsOf(turn.p, turn.k)) /\ TurnReply(c))
                \/ \E id \in turn.open : TurnResult(id)
    <3>1. PICK m :
             /\ mailbox' = mailbox \o <<m>>
             /\ \/ m = [op |-> "build", p |-> turn.p]
                \/ m = [op |-> "push_user", item |-> User(turn.p, "interjection")]
                \/ \E c : m = [op |-> "push", item |-> Assistant(turn.p, c)]
                \/ \E id : m = [op |-> "push", item |-> Result(id, turn.p)]
      BY <2>4 DEF TurnSample, TurnInterject, TurnReply, TurnResult, Post
    <3>2. PICK posted \in Seq(Messages) : mailbox' = mailbox \o posted
      BY <1>4, Posts, PostableSeq DEF Others
    <3>3. mailbox' \in Seq(Messages) /\ mailbox \in Seq(Messages)
      BY <3>2, ConcatFacts DEF MailOK
    <3>4. mailbox' = Append(mailbox, m)
      BY <3>1, <3>3 DEF Append
    <3>5. m \in Messages
      <4>1. Len(mailbox) \in Nat /\ Len(mailbox') = Len(mailbox) + 1 /\ mailbox'[Len(mailbox) + 1] = m
        BY <3>3, <3>4, SMT
      <4>2. Len(mailbox) + 1 \in 1..Len(mailbox')
        BY <4>1, SMT
      <4>3. mailbox'[Len(mailbox) + 1] \in Messages
        BY <3>3, <4>2, SeqItem
      <4>4. QED
        BY <4>1, <4>3
    <3>6. m.op \in {"build", "push", "push_user"} /\ (IsPush(m) => m.item.by = turn.p)
      BY <3>1 DEF IsPush, User, Assistant, Result, Item
    <3>7. turn.pc \in RunPcs /\ turn'.pc # "begin"
      <4>1. turn.pc \in RunPcs
        BY <2>4 DEF TurnSample, TurnInterject, TurnReply, TurnResult, At, RunPcs
      <4>2. turn.pc \notin {"start", "begin"}
        BY <4>1 DEF RunPcs
      <4>3. QED
        BY <1>4, <4>1, <4>2, TurnPcs DEF RunPcs
    <3>8. QED
      BY <3>1, <3>5, <3>6, <3>7, OneSaid
  <2>5. CASE TurnFinish \/ DropAborted \/ TurnToolsDone \/ TurnFails \/ TurnDispatchError
    <3>1. mailbox' = mailbox
      BY <2>5 DEF TurnFinish, DropAborted, TurnToolsDone, TurnFails, TurnDispatchError
    <3>2. CASE DropAborted
      BY <3>1, <3>2, NothingSaid DEF DropAborted
    <3>3. CASE ~DropAborted
      <4>1. turn.pc \in RunPcs \/ turn'.pc \in {"done", "failed"}
        <5>1. CASE TurnToolsDone \/ TurnDispatchError
          BY <5>1 DEF TurnToolsDone, TurnDispatchError, At, RunPcs
        <5>2. CASE TurnFinish \/ TurnFails
          <6>1. PICK x \in {"done", "failed"} : turn' = [turn EXCEPT !.pc = x]
            BY <5>2 DEF TurnFinish, TurnFails
          <6>2. x \in Pcs /\ turn \in Turns
            BY DEF Pcs, LoopInv, Shape
          <6>3. QED
            BY <6>1, <6>2, PcUpdate DEF Becomes
        <5>3. QED
          BY <2>5, <3>3, <5>1, <5>2
      <4>2. turn'.pc # "begin" \/ turn' = turn
        <5>1. turn.pc \in RunPcs => turn.pc \notin {"start", "begin"}
          BY DEF RunPcs
        <5>2. QED
          BY <1>4, <4>1, <5>1, TurnPcs DEF RunPcs
      <4>3. turn'.pc \in RunPcs => turn.pc \in RunPcs
        BY <4>1 DEF RunPcs
      <4>4. QED
        BY <2>0, <3>1, <4>2, <4>3, NothingSaid
    <3>4. QED
      BY <3>2, <3>3
  <2>6. QED
    BY <1>4, <2>1, <2>2, <2>3, <2>4, <2>5 DEF TurnStep
<1>5. QED
  BY <1>1, <1>2, <1>3, <1>4 DEF Others

\* Who is current changes only when a prompt is sent.
StageKept(p) ==
    /\ collector'[p] = "unsent" <=> collector[p] = "unsent"
    /\ collector'[p] = "collected" <=> collector[p] = "collected"
    /\ collector[p] = "taking" => collector'[p] = "taking"

SentNow(p) ==
    /\ collector[p] = "unsent" /\ collector'[p] = "waiting" /\ UNCHANGED <<mailbox, turn>>
    /\ \A q \in Prompts : q # p => collector'[q] = collector[q]
    /\ \A q \in Prompts : q < p => collector[q] = "collected"

LEMMA OwnStages ==
    ASSUME ~Pipelined, LoopInv, MailOK, OnceInv, Solo, Others
    PROVE  (\A p \in Prompts : StageKept(p)) \/ \E p \in Prompts : SentNow(p)
<1>0. /\ collector \in [Prompts -> Stages] /\ pending \in Seq(Entries) /\ OnceIn(cmds, pending, collector)
  BY DEF OnceInv, LoopInv, SessionOK
<1>1. ASSUME NEW p \in Prompts, NEW now \in BOOLEAN, ClientPrompt(p, now) PROVE SentNow(p)
  <2>1. /\ collector[p] = "unsent" /\ collector' = [collector EXCEPT ![p] = "waiting"] /\ UNCHANGED <<mailbox, turn>>
        /\ \A q \in 1..(p - 1) : collector[q] = "collected"
    BY <1>1 DEF ClientPrompt, task
  <2>2. \A q \in Prompts : q < p => q \in 1..(p - 1)
    BY SMT DEF Prompts
  <2>3. collector'[p] = "waiting" /\ \A q \in Prompts : q # p => collector'[q] = collector[q]
    BY <1>0, <2>1
  <2>4. QED
    BY <2>1, <2>2, <2>3 DEF SentNow
<1>2. collector' = collector => \A p \in Prompts : StageKept(p)
  BY DEF StageKept
<1>3. ASSUME NEW p \in Prompts, Collect(p) PROVE \A q \in Prompts : StageKept(q)
  <2>1. collector[p] = "answered" /\ collector' = [collector EXCEPT ![p] = "taking"]
    BY <1>3 DEF Collect
  <2>2. collector'[p] = "taking" /\ \A q \in Prompts : q # p => collector'[q] = collector[q]
    BY <1>0, <2>1
  <2>3. QED
    BY <2>1, <2>2 DEF StageKept
<1>4. CASE LoopStep
  <2>1. ASSUME Popped(pending) PROVE \A q \in Prompts : StageKept(q)
    <3>1. pending # <<>> /\ \A p \in Prompts : IF p = Head(pending).p THEN collector'[p] = "answered" ELSE collector'[p] = collector[p]
      BY <2>1 DEF Popped
    <3>2. Head(pending) = pending[1] /\ 1 \in 1..Len(pending)
      BY <1>0, <3>1, HeadTail
    <3>3. collector[Head(pending).p] = "waiting"
      BY <1>0, <3>2 DEF OnceIn
    <3>4. QED
      BY <3>1, <3>3 DEF StageKept
  <2>2. CASE Enters
    <3>1. running = None
      BY <2>2, PromptAlone DEF Enters
    <3>2. collector' = collector
      BY <2>2, <3>1 DEF Enters
    <3>3. QED
      BY <1>2, <3>2
  <2>3. QED
    BY <1>0, <1>2, <1>4, <2>1, <2>2, LoopMoves DEF Drops, Leaves, Stays
<1>5. CASE TurnStep
  BY <1>2, <1>5, TurnMoves DEF Stays
<1>6. CASE RepairCheck
  BY <1>2, <1>6 DEF RepairCheck
<1>7. CASE ClientCancel \/ ClientRepair \/ ClientHead
  BY <1>2, <1>7 DEF ClientCancel, ClientRepair, ClientHead
<1>8. QED
  BY <1>1, <1>3, <1>4, <1>5, <1>6, <1>7 DEF Others, ClientStep

\* The loop waits until a take is answered, and what was collected stays.
LEMMA OthersHold ==
    ASSUME Others
    PROVE  got' = got /\ (awaiting' = awaiting \/ LoopTake)
<1>1. CASE ClientStep \/ \E p \in Prompts : Collect(p)
  BY <1>1 DEF ClientStep, ClientPrompt, ClientCancel, ClientRepair, ClientHead, Collect, history, session
<1>2. CASE LoopStep
  BY <1>2 DEF LoopStep, LoopPrompt, LoopCancel, LoopTake, LoopRepair, LoopCompletion, history
<1>3. CASE TurnStep
  BY <1>3 DEF TurnStep, TurnStart, TurnBegin, TurnCompact, TurnSample, TurnFinish, DropAborted, TurnReply,
              TurnResult, TurnToolsDone, TurnInterject, TurnFails, TurnDispatchError, history, session
<1>4. CASE RepairCheck
  BY <1>4 DEF RepairCheck, history, session
<1>5. QED
  BY <1>1, <1>2, <1>3, <1>4 DEF Others

\* The commands after a step: those before, all but the first of them, or one more.
LEMMA OwnCommands ==
    ASSUME LoopInv, MailOK, OnceInv, Others
    PROVE  /\ ~LoopTake =>
                 \/ \A i \in 1..Len(cmds') : cmds'[i].op = "take" => i \in 1..Len(cmds) /\ cmds'[i] = cmds[i]
                 \/ \A i \in 1..Len(cmds') : i + 1 \in 1..Len(cmds) /\ cmds'[i] = cmds[i + 1]
                 \/ \E p \in Prompts :
                       /\ collector[p] = "answered" /\ collector'[p] = "taking"
                       /\ \A i \in 1..Len(cmds') :
                             \/ i \in 1..Len(cmds) /\ cmds'[i] = cmds[i]
                             \/ i = Len(cmds) + 1 /\ cmds'[i].p = p
           /\ LoopTake =>
                 /\ cmds # <<>> /\ Head(cmds).op = "take" /\ Head(cmds) = cmds[1] /\ 1 \in 1..Len(cmds)
                 /\ Head(cmds).p \in Prompts /\ ~awaiting /\ awaiting' /\ turn' = turn
                 /\ \A i \in 1..Len(cmds') : i + 1 \in 1..Len(cmds) /\ cmds'[i] = cmds[i + 1]
<1>0. cmds \in Seq(Commands) /\ collector \in [Prompts -> Stages] /\ Len(cmds) \in Nat
  BY LenNat DEF LoopInv, SessionOK, OnceInv
<1>1. cmds # <<>> /\ cmds' = Tail(cmds) => \A i \in 1..Len(cmds') : i + 1 \in 1..Len(cmds) /\ cmds'[i] = cmds[i + 1]
  BY <1>0, HeadTail
<1>2. ASSUME NEW c \in Commands, cmds' = Append(cmds, c)
      PROVE  \A i \in 1..Len(cmds') : (i \in 1..Len(cmds) /\ cmds'[i] = cmds[i]) \/ (i = Len(cmds) + 1 /\ cmds'[i] = c)
  <2>1. Len(cmds') = Len(cmds) + 1 /\ cmds'[Len(cmds) + 1] = c /\ \A i \in 1..Len(cmds) : cmds'[i] = cmds[i]
    BY <1>0, <1>2, AppendFacts
  <2>2. \A i \in 1..Len(cmds') : i \in 1..Len(cmds) \/ i = Len(cmds) + 1
    BY <1>0, <2>1, SMT
  <2>3. QED
    BY <2>1, <2>2
<1>3. CASE LoopTake
  <2>1. cmds # <<>> /\ Head(cmds).op = "take" /\ cmds' = Tail(cmds) /\ ~awaiting /\ awaiting' /\ turn' = turn
    BY <1>3 DEF LoopTake, Receive, task
  <2>2. Head(cmds) = cmds[1] /\ 1 \in 1..Len(cmds) /\ Head(cmds) \in Commands
    BY <1>0, <2>1, HeadTail
  <2>3. Head(cmds).p \in Prompts
    BY <2>1, <2>2, CommandFacts
  <2>4. QED
    BY <1>1, <1>3, <2>1, <2>2, <2>3
<1>4. CASE ~LoopTake
  <2>1. CASE Adds
    <3>1. PICK c \in Commands :
            /\ cmds' = Append(cmds, c)
            /\ \/ c.op \notin {"prompt", "take"} /\ UNCHANGED collector
               \/ c.op = "prompt" /\ collector[c.p] = "unsent" /\ collector' = [collector EXCEPT ![c.p] = "waiting"]
               \/ c.op = "take" /\ collector[c.p] = "answered" /\ collector' = [collector EXCEPT ![c.p] = "taking"]
      BY <2>1 DEF Adds
    <3>2. \A i \in 1..Len(cmds') : (i \in 1..Len(cmds) /\ cmds'[i] = cmds[i]) \/ (i = Len(cmds) + 1 /\ cmds'[i] = c)
      BY <1>2, <3>1
    <3>3. CASE c.op # "take"
      BY <1>4, <3>2, <3>3
    <3>4. CASE c.op = "take"
      <4>1. c.p \in Prompts
        BY <3>4, CommandFacts
      <4>2. collector[c.p] = "answered" /\ collector'[c.p] = "taking"
        BY <1>0, <3>1, <3>4, <4>1
      <4>3. QED
        BY <1>4, <3>2, <4>1, <4>2
    <3>5. QED
      BY <3>3, <3>4
  <2>2. CASE cmds' = cmds
    BY <1>4, <2>2
  <2>3. CASE cmds # <<>> /\ cmds' = Tail(cmds)
    BY <1>1, <1>4, <2>3
  <2>4. Moves
    BY <1>0, AnyMove
  <2>5. ~Answers \/ cmds' = cmds
    BY DEF Answers
  <2>6. QED
    BY <2>1, <2>2, <2>3, <2>4, <2>5 DEF Moves, Drops, Enters, Leaves, Stays
<1>5. QED
  BY <1>3, <1>4

\* What a step of anyone but the actor does to the turns' messages.
LEMMA OthersSolo ==
    ASSUME LoopInv, MailOK, OnceInv, OwnInv, NEW p \in Prompts, SentNow(p)
    PROVE  /\ ~st.capture.on /\ log[p] = <<>> /\ \A q \in Prompts : ~Current(q)
           /\ \A i \in 1..Len(mailbox) : mailbox[i].op # "begin" /\ ~IsPush(mailbox[i])
<1>1. ASSUME NEW q \in Prompts PROVE ~Current(q)
  <2>1. p \in Int /\ q \in Int
    BY DEF Prompts
  <2>2. q < p => collector[q] = "collected"
    BY DEF SentNow
  <2>3. p < q => collector[q] = "unsent"
    BY DEF OwnInv, Solo, SentNow
  <2>4. q = p => collector[q] = "unsent"
    BY DEF SentNow
  <2>5. q < p \/ p < q \/ p = q
    BY <2>1, SMT
  <2>6. QED
    BY <2>2, <2>3, <2>4, <2>5 DEF Current, Currents
<1>2. ~st.capture.on
  BY <1>1 DEF OwnInv, CaptureInv
<1>3. log[p] = <<>>
  BY DEF SentNow, OwnInv, NewInv, New, Fresh
<1>4. ASSUME NEW i \in 1..Len(mailbox) PROVE mailbox[i].op # "begin" /\ ~IsPush(mailbox[i])
  <2>1. mailbox[i] \in Messages
    BY SeqItem DEF MailOK
  <2>2. IsPush(mailbox[i]) => mailbox[i].item.by \in Prompts
    BY <2>1, MessageFacts, ItemFacts DEF IsPush
  <2>3. QED
    BY <1>1, <2>2 DEF OwnInv, PushesInv, BeginsInv
<1>5. QED
  BY <1>1, <1>2, <1>3, <1>4

LEMMA OwnOthers ==
    ASSUME ~Pipelined, LoopInv, MailOK, OnceInv, Quiet, OwnInv, Others, OnceInv'
    PROVE  OwnInv'
<1>0. /\ mailbox \in Seq(Messages) /\ Len(mailbox) \in Nat /\ collector \in [Prompts -> Stages]
      /\ UNCHANGED <<st, log, got>>
  BY Posts, OthersHold, LenNat DEF MailOK, OnceInv
<1>1. PICK msgs : Says(msgs)
  BY OwnSays DEF OwnInv
<1>2. /\ msgs \in Seq(Messages) /\ mailbox' = mailbox \o msgs /\ Len(msgs) \in Nat
      /\ Len(mailbox') = Len(mailbox) + Len(msgs)
      /\ \A i \in 1..Len(mailbox) : i \in 1..Len(mailbox') /\ mailbox'[i] = mailbox[i]
      /\ \A i \in 1..Len(msgs) : Len(mailbox) + i \in 1..Len(mailbox') /\ mailbox'[Len(mailbox) + i] = msgs[i]
  <2>1. msgs \in Seq(Messages) /\ mailbox' = mailbox \o msgs
    BY <1>1 DEF Says
  <2>2. /\ Len(msgs) \in Nat /\ Len(mailbox') = Len(mailbox) + Len(msgs)
        /\ \A i \in 1..Len(mailbox) : mailbox'[i] = mailbox[i]
        /\ \A i \in 1..Len(msgs) : mailbox'[Len(mailbox) + i] = msgs[i]
    BY <1>0, <2>1, ConcatFacts
  <2>3. /\ \A i \in 1..Len(mailbox) : i \in 1..Len(mailbox')
        /\ \A i \in 1..Len(msgs) : Len(mailbox) + i \in 1..Len(mailbox')
    BY <1>0, <2>2, SMT
  <2>4. QED
    BY <2>1, <2>2, <2>3
<1>3. \A i \in 1..Len(mailbox') :
         \/ i \in 1..Len(mailbox) /\ mailbox'[i] = mailbox[i]
         \/ \E k \in 1..Len(msgs) : i = Len(mailbox) + k /\ mailbox'[i] = msgs[k]
  <2>1. \A i \in 1..Len(mailbox') : i \in 1..Len(mailbox) \/ (i - Len(mailbox) \in 1..Len(msgs) /\ Len(mailbox) + (i - Len(mailbox)) = i)
    BY <1>0, <1>2, SMT
  <2>2. QED
    BY <1>2, <2>1
<1>4. /\ \A i \in 1..Len(mailbox), k \in 1..Len(msgs) : i < Len(mailbox) + k /\ i < Len(mailbox) + 1 /\ Len(mailbox) + k > i
      /\ \A i, k \in 1..Len(msgs) : i < k => Len(mailbox) + i < Len(mailbox) + k
      /\ \A k \in 1..Len(msgs) : Len(mailbox) + k < Len(mailbox') + 1
      /\ \A i \in 1..Len(mailbox) : i < Len(mailbox') + 1
  BY <1>0, <1>2, SMT
<1>5. \A p \in Prompts : Current(p) => Current(p)'
  <2>1. \A p \in Prompts : StageKept(p) => (Current(p) => Current(p)')
    <3>1. collector' \in [Prompts -> Stages]
      BY DEF OnceInv
    <3>2. QED
      BY <1>0, <3>1 DEF StageKept, Current, Currents, Stages
  <2>2. ASSUME NEW q \in Prompts, SentNow(q), NEW p \in Prompts, Current(p) PROVE Current(p)'
    BY <2>2, OthersSolo
  <2>3. QED
    BY <2>1, <2>2, OwnStages DEF OwnInv
<1>6. (\A p \in Prompts : Current(p)' <=> Current(p)) \/ \E p \in Prompts : SentNow(p)
  <2>1. \A p \in Prompts : StageKept(p) => (Current(p) <=> Current(p)')
    <3>1. collector' \in [Prompts -> Stages]
      BY DEF OnceInv
    <3>2. QED
      BY <1>0, <3>1 DEF StageKept, Current, Currents, Stages
  <2>2. QED
    BY <2>1, OwnStages DEF OwnInv
<1>7. \A p \in Prompts : /\ collector[p] = "taking" => collector'[p] = "taking"
                         /\ collector'[p] = "collected" <=> collector[p] = "collected"
  BY OwnStages DEF OwnInv, StageKept, SentNow
<1>8. ASSUME NEW n \in Nat, NEW k \in Nat, n <= k, Opened(n) PROVE Opened(k)'
  <2>1. CASE st.capture.on
    BY <1>0, <2>1 DEF Opened
  <2>2. CASE ~st.capture.on
    <3>1. PICK j \in 1..Len(mailbox) : j < n /\ mailbox[j].op = "begin"
      BY <1>8, <2>2 DEF Opened
    <3>2. j < k
      BY <1>8, <3>1, SMT
    <3>3. QED
      BY <1>2, <3>1, <3>2 DEF Opened
  <2>3. QED
    BY <2>1, <2>2
<1>9. \A i \in 1..Len(mailbox) : IsPush(mailbox[i]) => mailbox[i].item.by \in Prompts
  <2>1. \A i \in 1..Len(mailbox) : mailbox[i] \in Messages
    BY <1>0, SeqItem
  <2>2. QED
    BY <2>1, MessageFacts, ItemFacts DEF IsPush
<1>10. \A k \in 1..Len(msgs) :
         /\ IsPush(msgs[k]) =>
               /\ turn.p \in Prompts /\ msgs[k].item.by = turn.p /\ Current(turn.p) /\ collector'[turn.p] \in Currents /\ ~Fresh(turn.p)
               /\ turn.pc # "begin" => ~New(turn.p) /\ turn.pc \in RunPcs
               /\ turn'.pc # "begin"
         /\ msgs[k].op = "begin" => turn.pc = "begin" /\ turn.p \in Prompts /\ Current(turn.p) /\ collector'[turn.p] \in Currents
  <2> SUFFICES ASSUME NEW k \in 1..Len(msgs)
               PROVE  /\ IsPush(msgs[k]) =>
                            /\ turn.p \in Prompts /\ msgs[k].item.by = turn.p /\ Current(turn.p) /\ collector'[turn.p] \in Currents /\ ~Fresh(turn.p)
                            /\ turn.pc # "begin" => ~New(turn.p) /\ turn.pc \in RunPcs
                            /\ turn'.pc # "begin"
                      /\ msgs[k].op = "begin" => turn.pc = "begin" /\ turn.p \in Prompts /\ Current(turn.p) /\ collector'[turn.p] \in Currents
    OBVIOUS
  <2>1. ASSUME IsPush(msgs[k])
        PROVE  turn.pc \in RunPcs \cup {"begin"} /\ turn'.pc # "begin" /\ msgs[k].item.by = turn.p
    BY <1>1, <2>1 DEF Says
  <2>2. msgs[k].op = "begin" => turn.pc = "begin"
    BY <1>1 DEF Says
  <2>3. turn.pc \in RunPcs \cup {"begin"} => turn.pc # "done" /\ turn.pc # "start"
    BY DEF RunPcs
  <2>4. turn.pc \in RunPcs \cup {"begin"} =>
           /\ turn.p \in Prompts /\ Current(turn.p) /\ collector'[turn.p] \in Currents /\ ~Fresh(turn.p)
           /\ turn.pc \in RunPcs => ~New(turn.p)
    <3> SUFFICES ASSUME turn.pc \in RunPcs \cup {"begin"}
                 PROVE  /\ turn.p \in Prompts /\ Current(turn.p) /\ collector'[turn.p] \in Currents /\ ~Fresh(turn.p)
                        /\ turn.pc \in RunPcs => ~New(turn.p)
      OBVIOUS
    <3>1. turn.p \in Prompts /\ Current(turn.p) /\ ~Fresh(turn.p) /\ (turn.pc \in RunPcs => ~New(turn.p))
      BY <2>3, RunningCurrent
    <3>2. \A p \in Prompts : Current(p) => collector'[p] \in Currents
      BY <1>5 DEF Current
    <3>3. QED
      BY <3>1, <3>2
  <2>5. QED
    BY <2>1, <2>2, <2>4
<1>11. Solo'
  <2>1. CASE \A p \in Prompts : StageKept(p)
    BY <2>1 DEF OwnInv, Solo, StageKept
  <2>2. CASE \E p \in Prompts : SentNow(p)
    <3>1. PICK r \in Prompts : SentNow(r)
      BY <2>2
    <3>2. ASSUME NEW p \in Prompts, NEW q \in Prompts, q < p, collector'[p] # "unsent" PROVE collector'[q] = "collected"
      <4>1. CASE p = r
        BY <3>1, <3>2, <4>1, <1>7 DEF SentNow
      <4>2. CASE p # r
        BY <1>7, <3>1, <3>2, <4>2 DEF OwnInv, Solo, SentNow
      <4>3. QED
        BY <4>1, <4>2
    <3>3. QED
      BY <3>2 DEF Solo
  <2>3. QED
    BY <2>1, <2>2, OwnStages DEF OwnInv
<1>12. \A p \in Prompts : New(p)' => New(p)
  <2>1. Moves
    BY <1>0, AnyMove
  <2>2. SUFFICES ASSUME NEW p \in Prompts, New(p)' PROVE New(p)
    OBVIOUS
  <2>3. CASE Fresh(p)'
    BY <2>1, <2>3, FreshOnly DEF New
  <2>4. CASE turn'.p = p /\ turn'.pc = "begin"
    <3>1. turn.pc \in {"start", "begin"} /\ turn.p = p
      BY <1>1, <2>4 DEF Says
    <3>2. turn.pc = "start" => Queued(p)
      BY <3>1, RunningCurrent
    <3>3. QED
      BY <3>1, <3>2 DEF New, Fresh
  <2>5. QED
    BY <2>2, <2>3, <2>4 DEF New
<1>13. PushesInv'
  <2> SUFFICES ASSUME NEW i \in 1..Len(mailbox'), IsPush(mailbox'[i])
               PROVE  collector'[mailbox'[i].item.by] \in Currents /\ Opened(i)'
    BY DEF PushesInv, IsPush, Current
  <2>1. CASE i \in 1..Len(mailbox) /\ mailbox'[i] = mailbox[i]
    <3>1. Current(mailbox[i].item.by) /\ Opened(i) /\ mailbox[i].item.by \in Prompts
      BY <1>9, <2>1 DEF OwnInv, PushesInv
    <3>2. i \in Nat /\ i <= i
      BY SMT
    <3>3. Opened(i)'
      BY <1>8, <3>1, <3>2
    <3>4. QED
      BY <1>5, <2>1, <3>1, <3>3 DEF Current
  <2>2. CASE \E k \in 1..Len(msgs) : i = Len(mailbox) + k /\ mailbox'[i] = msgs[k]
    <3>1. PICK k \in 1..Len(msgs) : i = Len(mailbox) + k /\ mailbox'[i] = msgs[k]
      BY <2>2
    <3>2. collector'[turn.p] \in Currents /\ msgs[k].item.by = turn.p /\ (turn.pc # "begin" => turn.pc \in RunPcs)
      BY <1>10, <3>1
    <3>3. CASE turn.pc = "begin"
      <4>1. PICK j \in 1..Len(msgs) : j < k /\ msgs[j].op = "begin"
        BY <1>1, <3>1, <3>3 DEF Says
      <4>2. Len(mailbox) + j \in 1..Len(mailbox') /\ mailbox'[Len(mailbox) + j].op = "begin" /\ Len(mailbox) + j < i
        BY <1>2, <1>4, <3>1, <4>1
      <4>3. Opened(i)'
        BY <4>2 DEF Opened
      <4>4. QED
        BY <3>1, <3>2, <4>3
    <3>4. CASE turn.pc # "begin"
      <4>1. Opened(Len(mailbox) + 1)
        BY <3>2, <3>4 DEF OwnInv, RunInv
      <4>2. Len(mailbox) + 1 \in Nat /\ i \in Nat /\ Len(mailbox) + 1 <= i
        BY <1>0, <1>2, <3>1, SMT
      <4>3. Opened(i)'
        BY <1>8, <4>1, <4>2
      <4>4. QED
        BY <3>1, <3>2, <4>3
    <3>5. QED
      BY <3>3, <3>4
  <2>3. QED
    BY <1>3, <2>1, <2>2
<1>14. BeginsInv'
  <2> SUFFICES ASSUME NEW i \in 1..Len(mailbox'), mailbox'[i].op = "begin"
               PROVE  /\ \E p \in Prompts : Current(p)'
                      /\ \A p \in Prompts : Current(p)' => log'[p] = <<>>
                      /\ \A j \in 1..Len(mailbox') : IsPush(mailbox'[j]) => i < j
    BY DEF BeginsInv, IsPush
  <2>1. CASE i \in 1..Len(mailbox) /\ mailbox'[i] = mailbox[i]
    <3>1. /\ \E p \in Prompts : Current(p)
          /\ \A p \in Prompts : Current(p) => log[p] = <<>>
          /\ \A j \in 1..Len(mailbox) : IsPush(mailbox[j]) => i < j
      BY <2>1 DEF OwnInv, BeginsInv
    <3>2. \A p \in Prompts : Current(p)' <=> Current(p)
      BY <1>6, <3>1, OthersSolo
    <3>3. \A j \in 1..Len(mailbox') : IsPush(mailbox'[j]) => i < j
      BY <1>3, <1>4, <2>1, <3>1
    <3>4. QED
      BY <1>0, <3>1, <3>2, <3>3
  <2>2. CASE \E k \in 1..Len(msgs) : i = Len(mailbox) + k /\ mailbox'[i] = msgs[k]
    <3>1. PICK k \in 1..Len(msgs) : i = Len(mailbox) + k /\ mailbox'[i] = msgs[k]
      BY <2>2
    <3>2. turn.pc = "begin" /\ turn.p \in Prompts /\ Current(turn.p) /\ collector'[turn.p] \in Currents
      BY <1>10, <3>1
    <3>3. \A p \in Prompts : Current(p)' <=> Current(p)
      BY <1>6, <3>2, OthersSolo
    <3>4. log[turn.p] = <<>> /\ \A j \in 1..Len(mailbox) : IsPush(mailbox[j]) => mailbox[j].item.by # turn.p
      BY <3>2 DEF OwnInv, NewInv, New
    <3>5. \A p \in Prompts : Current(p) => p = turn.p
      BY <3>2, OneCurrent DEF OwnInv
    <3>6. \A j \in 1..Len(mailbox) : ~IsPush(mailbox[j])
      BY <1>9, <3>4, <3>5 DEF OwnInv, PushesInv
    <3>7. \A j \in 1..Len(msgs) : IsPush(msgs[j]) => k < j
      BY <1>1, <3>1 DEF Says
    <3>8. \A j \in 1..Len(mailbox') : IsPush(mailbox'[j]) => i < j
      BY <1>3, <1>4, <3>1, <3>6, <3>7
    <3>9. QED
      BY <1>0, <3>2, <3>3, <3>4, <3>5, <3>8
  <2>3. QED
    BY <1>3, <2>1, <2>2
<1>15. NewInv'
  <2> SUFFICES ASSUME NEW p \in Prompts, New(p)'
               PROVE  log'[p] = <<>> /\ \A i \in 1..Len(mailbox') : IsPush(mailbox'[i]) => mailbox'[i].item.by # p
    BY DEF NewInv, IsPush
  <2>1. New(p) /\ log[p] = <<>> /\ \A i \in 1..Len(mailbox) : IsPush(mailbox[i]) => mailbox[i].item.by # p
    BY <1>12 DEF OwnInv, NewInv
  <2>2. \A k \in 1..Len(msgs) : IsPush(msgs[k]) => msgs[k].item.by # p
    <3> SUFFICES ASSUME NEW k \in 1..Len(msgs), IsPush(msgs[k]), msgs[k].item.by = p PROVE FALSE
      OBVIOUS
    <3>1. p = turn.p /\ ~Fresh(p) /\ turn'.pc # "begin" /\ (turn.pc # "begin" => ~New(turn.p))
      BY <1>10
    <3>2. Moves
      BY <1>0, AnyMove
    <3>3. ~Fresh(p)'
      BY <3>1, <3>2, FreshOnly
    <3>4. QED
      BY <3>1, <3>3 DEF New
  <2>3. QED
    BY <1>0, <1>3, <2>1, <2>2
<1>16. CaptureInv'
  <2>1. CASE \A p \in Prompts : Current(p)' <=> Current(p)
    BY <1>0, <2>1 DEF OwnInv, CaptureInv
  <2>2. CASE \E p \in Prompts : SentNow(p)
    <3>1. PICK r \in Prompts : SentNow(r)
      BY <2>2
    <3>2. ~st.capture.on /\ log[r] = <<>> /\ \A q \in Prompts : ~Current(q)
      BY <3>1, OthersSolo
    <3>3. TurnMessages(st) = <<>>
      BY <3>2 DEF TurnMessages
    <3>4. \A p \in Prompts : Current(p)' => p = r
      BY <3>1, <3>2 DEF SentNow, Current, Currents
    <3>5. QED
      BY <1>0, <3>2, <3>3, <3>4 DEF CaptureInv
  <2>3. QED
    BY <1>6, <2>1, <2>2
<1>17. RunInv'
  <2> SUFFICES ASSUME turn'.pc \in RunPcs PROVE st'.capture.on \/ \E j \in 1..Len(mailbox') : j < Len(mailbox') + 1 /\ mailbox'[j].op = "begin"
    BY DEF RunInv, Opened
  <2>1. CASE turn.pc \in RunPcs
    <3>1. Opened(Len(mailbox) + 1)
      BY <2>1 DEF OwnInv, RunInv
    <3>2. PICK n \in Nat, k \in Nat : n = Len(mailbox) + 1 /\ k = Len(mailbox') + 1 /\ n <= k
      <4>1. Len(mailbox) + 1 \in Nat /\ Len(mailbox') + 1 \in Nat /\ Len(mailbox) + 1 <= Len(mailbox') + 1
        BY <1>0, <1>2, SMT
      <4>2. QED
        BY <4>1
    <3>3. Opened(n)
      BY <3>1, <3>2
    <3>4. Opened(k)'
      BY <1>8, <3>2, <3>3
    <3>5. QED
      BY <3>2, <3>4 DEF Opened
  <2>2. CASE turn.pc \notin RunPcs
    <3>1. PICK k \in 1..Len(msgs) : msgs[k].op = "begin"
      BY <1>1, <2>2 DEF Says
    <3>2. Len(mailbox) + k \in 1..Len(mailbox') /\ mailbox'[Len(mailbox) + k].op = "begin" /\ Len(mailbox) + k < Len(mailbox') + 1
      BY <1>2, <1>4, <3>1
    <3>3. QED
      BY <3>2
  <2>3. QED
    BY <2>1, <2>2
<1>18. TakeReturnsOwnTurn'
  BY <1>0, <1>7 DEF OwnInv, TakeReturnsOwnTurn
<1>19. \A i \in 1..Len(cmds) : cmds[i].op = "take" =>
          cmds[i].p \in Prompts /\ collector[cmds[i].p] = "taking" /\ Current(cmds[i].p)
  <2>1. \A i \in 1..Len(cmds) : cmds[i] \in Commands
    BY SeqItem DEF LoopInv, SessionOK
  <2>2. QED
    BY <2>1, CommandFacts DEF OwnInv, AskedTakes, Current, Currents
<1>20. \A i \in 1..Len(mailbox) : mailbox[i].op = "take" =>
          mailbox[i].p \in Prompts /\ collector[mailbox[i].p] = "taking" /\ Current(mailbox[i].p)
  <2>1. \A i \in 1..Len(mailbox) : mailbox[i] \in Messages
    BY <1>0, SeqItem
  <2>2. QED
    BY <2>1, MessageFacts DEF OwnInv, SentTakes, Current, Currents
<1>21. Len(cmds) \in Nat /\ \A i, j \in 1..Len(cmds) : i + 1 = j + 1 => i = j
  BY LenNat, SMT DEF LoopInv, SessionOK
<1>22. ASSUME NEW i \in 1..Len(cmds'), cmds'[i].op = "take"
       PROVE  /\ collector'[cmds'[i].p] = "taking"
              /\ \A j \in 1..Len(cmds') : cmds'[j].op = "take" => j = i
              /\ \/ \E k \in 1..Len(cmds) : cmds[k].op = "take" /\ (LoopTake => k # 1)
                 \/ ~LoopTake /\ \E p \in Prompts : collector[p] = "answered"
  <2>0. \A x, y \in 1..Len(cmds') : x + 1 = y + 1 => x = y
    BY SMT
  <2>1. CASE ~LoopTake /\ \A k \in 1..Len(cmds') : cmds'[k].op = "take" => k \in 1..Len(cmds) /\ cmds'[k] = cmds[k]
    <3>1. i \in 1..Len(cmds) /\ cmds'[i] = cmds[i]
      BY <1>22, <2>1
    <3>2. collector'[cmds'[i].p] = "taking"
      BY <1>7, <1>19, <1>22, <3>1
    <3>3. \A j \in 1..Len(cmds') : cmds'[j].op = "take" => j = i
      BY <1>22, <2>1, <3>1 DEF OwnInv, AskedTakes
    <3>4. QED
      BY <1>22, <2>1, <3>1, <3>2, <3>3
  <2>2. CASE \A k \in 1..Len(cmds') : k + 1 \in 1..Len(cmds) /\ cmds'[k] = cmds[k + 1]
    <3>1. i + 1 \in 1..Len(cmds) /\ cmds'[i] = cmds[i + 1] /\ i + 1 # 1
      <4>1. i + 1 # 1
        BY SMT
      <4>2. QED
        BY <2>2, <4>1
    <3>2. collector'[cmds'[i].p] = "taking"
      BY <1>7, <1>19, <1>22, <3>1
    <3>3. \A j \in 1..Len(cmds') : cmds'[j].op = "take" => j + 1 = i + 1
      BY <1>22, <2>2, <3>1 DEF OwnInv, AskedTakes
    <3>4. QED
      BY <1>22, <2>0, <3>1, <3>2, <3>3
  <2>3. CASE ~LoopTake /\ \E p \in Prompts :
                       /\ collector[p] = "answered" /\ collector'[p] = "taking"
                       /\ \A k \in 1..Len(cmds') :
                             \/ k \in 1..Len(cmds) /\ cmds'[k] = cmds[k]
                             \/ k = Len(cmds) + 1 /\ cmds'[k].p = p
    <3>1. PICK p \in Prompts :
                       /\ collector[p] = "answered" /\ collector'[p] = "taking"
                       /\ \A k \in 1..Len(cmds') :
                             \/ k \in 1..Len(cmds) /\ cmds'[k] = cmds[k]
                             \/ k = Len(cmds) + 1 /\ cmds'[k].p = p
      BY <2>3
    <3>2. \A k \in 1..Len(cmds) : cmds[k].op # "take"
      <4>1. Current(p)
        BY <3>1 DEF Current, Currents
      <4>2. ASSUME NEW k \in 1..Len(cmds), cmds[k].op = "take" PROVE FALSE
        <5>1. PICK q \in Prompts : q = cmds[k].p /\ collector[q] = "taking" /\ Current(q)
          BY <1>19, <4>2
        <5>2. q = p
          BY <4>1, <5>1, OneCurrent DEF OwnInv
        <5>3. QED
          BY <3>1, <5>1, <5>2
      <4>3. QED
        BY <4>2
    <3>3. \A k \in 1..Len(cmds') : cmds'[k].op = "take" => k = Len(cmds) + 1 /\ cmds'[k].p = p
      BY <3>1, <3>2
    <3>4. QED
      BY <1>22, <2>3, <3>1, <3>3
  <2>4. CASE LoopTake /\ ~(\A k \in 1..Len(cmds') : k + 1 \in 1..Len(cmds) /\ cmds'[k] = cmds[k + 1])
    BY <2>4, OwnCommands
  <2>5. QED
    BY <2>1, <2>2, <2>3, <2>4, OwnCommands
<1>23. AskedTakes'
  BY <1>22 DEF AskedTakes
<1>24. ASSUME NEW i \in 1..Len(mailbox), mailbox[i].op = "take"
       PROVE  /\ turn.pc = "done" /\ awaiting /\ ~LoopTake
              /\ \A j \in 1..Len(cmds') : cmds'[j].op # "take"
  <2>1. awaiting /\ \A j \in 1..Len(cmds) : cmds[j].op # "take"
    BY <1>24 DEF OwnInv, SentTakes
  <2>2. PICK q \in Prompts : collector[q] = "taking" /\ Current(q)
    BY <1>20, <1>24
  <2>3. turn.pc = "done"
    <3> SUFFICES ASSUME turn.pc # "done" PROVE FALSE
      OBVIOUS
    <3>1. turn.p \in Prompts /\ collector[turn.p] = "waiting" /\ Current(turn.p)
      BY RunningCurrent
    <3>2. turn.p = q
      BY <2>2, <3>1, OneCurrent DEF OwnInv
    <3>3. QED
      BY <2>2, <3>1, <3>2
  <2>4. ~LoopTake
    BY <2>1, OwnCommands
  <2>5. ASSUME NEW p \in Prompts, collector[p] = "answered" PROVE FALSE
    <3>1. Current(p)
      BY <2>5 DEF Current, Currents
    <3>2. p = q
      BY <2>2, <3>1, OneCurrent DEF OwnInv
    <3>3. QED
      BY <2>2, <2>5, <3>2
  <2>6. \A j \in 1..Len(cmds') : cmds'[j].op # "take"
    BY <1>22, <2>1, <2>5
  <2>7. QED
    BY <2>1, <2>3, <2>4, <2>6
<1>25. SentTakes'
  <2> SUFFICES ASSUME NEW i \in 1..Len(mailbox'), mailbox'[i].op = "take"
               PROVE  /\ awaiting' /\ collector'[mailbox'[i].p] = "taking"
                      /\ \A j \in 1..Len(cmds') : cmds'[j].op # "take"
                      /\ \A j \in 1..Len(mailbox') : j > i => mailbox'[j].op \notin {"begin", "take"} /\ ~IsPush(mailbox'[j])
    BY DEF SentTakes, IsPush
  <2>1. CASE i \in 1..Len(mailbox) /\ mailbox'[i] = mailbox[i]
    <3>1. turn.pc = "done" /\ awaiting /\ ~LoopTake /\ \A j \in 1..Len(cmds') : cmds'[j].op # "take"
      BY <1>24, <2>1
    <3>2. awaiting'
      BY <3>1, OthersHold
    <3>3. collector'[mailbox'[i].p] = "taking"
      BY <1>7, <1>20, <2>1
    <3>4. \A k \in 1..Len(msgs) : msgs[k].op \notin {"begin", "take"} /\ ~IsPush(msgs[k])
      BY <1>1, <3>1 DEF Says, RunPcs
    <3>5. \A j \in 1..Len(mailbox) : j > i => mailbox[j].op \notin {"begin", "take"} /\ ~IsPush(mailbox[j])
      BY <2>1 DEF OwnInv, SentTakes
    <3>6. \A j \in 1..Len(mailbox') : j > i => mailbox'[j].op \notin {"begin", "take"} /\ ~IsPush(mailbox'[j])
      BY <1>3, <3>4, <3>5
    <3>7. QED
      BY <3>1, <3>2, <3>3, <3>6
  <2>2. CASE \E k \in 1..Len(msgs) : i = Len(mailbox) + k /\ mailbox'[i] = msgs[k]
    <3>1. PICK k \in 1..Len(msgs) : i = Len(mailbox) + k /\ mailbox'[i] = msgs[k]
      BY <2>2
    <3>2. LoopTake /\ msgs[k].p = Head(cmds).p /\ Len(msgs) = 1
      BY <1>1, <3>1 DEF Says
    <3>3. cmds[1].op = "take" /\ Head(cmds) = cmds[1] /\ 1 \in 1..Len(cmds) /\ awaiting'
      BY <3>2, OwnCommands
    <3>4. collector'[msgs[k].p] = "taking"
      BY <1>7, <1>19, <3>2, <3>3
    <3>5. \A j \in 1..Len(cmds') : cmds'[j].op # "take"
      BY <1>22, <3>2, <3>3 DEF OwnInv, AskedTakes
    <3>6. \A j \in 1..Len(mailbox') : ~(j > i)
      <4>1. k = 1
        BY <3>1, <3>2, SMT
      <4>2. i = Len(mailbox')
        BY <1>2, <3>1, <3>2, <4>1
      <4>3. QED
        BY <4>2, SMT
    <3>7. QED
      BY <3>1, <3>3, <3>4, <3>5, <3>6
  <2>3. QED
    BY <1>3, <2>1, <2>2
<1>26. (DOMAIN got = Prompts)'
  BY <1>0 DEF OwnInv
<1>27. QED
  BY <1>11, <1>13, <1>14, <1>15, <1>16, <1>17, <1>18, <1>23, <1>25, <1>26 DEF OwnInv

\* What a step of the actor leaves alone.
LEMMA ActorHolds ==
    ASSUME LoopInv, MailOK, ActorStep
    PROVE  /\ cmds' = cmds
           /\ turn'.pc = "begin" => turn' = turn
           /\ turn'.pc \in RunPcs => turn.pc \in RunPcs
           /\ Head(mailbox).op # "take" => UNCHANGED <<collector, got, awaiting>>
           /\ Head(mailbox).op = "take" => ActorTake
<1>1. cmds' = cmds
  BY ActorLogs
<1>2. (turn'.pc = "begin" => turn' = turn) /\ (turn'.pc \in RunPcs => turn.pc \in RunPcs)
  <2>1. CASE ActorBuild /\ turn.p = Head(mailbox).p /\ turn.pc = "build"
    <3>1. turn' = [turn EXCEPT !.pc = "reply", !.k = @ + 1]
      BY <2>1 DEF ActorBuild
    <3>2. turn \in Turns /\ turn.k < MaxSamples /\ "reply" \in Pcs
      BY <2>1 DEF LoopInv, Shape, Pcs
    <3>3. Becomes(turn, turn', "reply", turn.k + 1, turn.open)
      BY <3>1, <3>2, ReplyUpdate
    <3>4. QED
      BY <2>1, <3>3 DEF Becomes, RunPcs
  <2>2. CASE ActorBuild /\ ~(turn.p = Head(mailbox).p /\ turn.pc = "build")
    BY <2>2 DEF ActorBuild
  <2>3. CASE ~ActorBuild
    BY <2>3 DEF ActorStep, ActorIndex, ActorBegin, ActorPush, ActorPushUser, ActorCompact, ActorHead,
                ActorRepair, ActorTake, Handle
  <2>4. QED
    BY <2>1, <2>2, <2>3
<1>3. Head(mailbox).op = "take" => ActorTake
  BY DEF ActorStep, ActorIndex, ActorBegin, ActorPush, ActorPushUser, ActorBuild, ActorCompact, ActorHead,
         ActorRepair, Handle
<1>4. Head(mailbox).op # "take" => UNCHANGED <<collector, got, awaiting>>
  BY DEF ActorStep, ActorIndex, ActorBegin, ActorPush, ActorPushUser, ActorBuild, ActorCompact, ActorHead,
         ActorRepair, ActorTake, Handle
<1>5. QED
  BY <1>1, <1>2, <1>3, <1>4

LEMMA OwnActor ==
    ASSUME LoopInv, MailOK, StateOK, OnceInv, Quiet, OwnInv, ActorStep
    PROVE  OwnInv'
<1> DEFINE m == Head(mailbox)
<1>0. /\ mailbox \in Seq(Messages) /\ collector \in [Prompts -> Stages] /\ cmds' = cmds
      /\ mailbox # <<>> /\ mailbox' = Tail(mailbox)
  BY ActorLogs, ActorHolds DEF MailOK, OnceInv
<1>1. /\ m \in Messages /\ m = mailbox[1] /\ 1 \in 1..Len(mailbox) /\ Len(mailbox) \in Nat
      /\ Len(mailbox') = Len(mailbox) - 1
      /\ \A i \in 1..Len(mailbox') : mailbox'[i] = mailbox[i + 1] /\ i + 1 \in 1..Len(mailbox)
  BY <1>0, HeadTail
<1> HIDE DEF m
<1>2. Len(mailbox') + 1 = Len(mailbox)
  BY <1>1, SMT
<1>3. /\ \A i, j \in 1..Len(mailbox') : (i + 1 < j + 1 => i < j) /\ (i > j => i + 1 > j + 1)
      /\ \A i \in 1..Len(mailbox') : i + 1 > 1 /\ ~(i + 1 < 1)
  BY SMT
<1>4. IsPush(m) => m.item \in Pushed \cup UserItems /\ m.item.by \in Prompts
  BY <1>1, MessageFacts, ItemFacts DEF IsPush
<1>5. IF IsPush(m) THEN Logged(m.item) ELSE log' = log
  BY ActorLogs DEF IsPush, m
<1>6. /\ m.op = "begin" => st'.capture.on /\ TurnMessages(st') = <<>>
      /\ m.op = "take" => ~st'.capture.on
      /\ IsPush(m) /\ st.capture.on => st'.capture.on /\ TurnMessages(st') = Append(TurnMessages(st), m.item)
      /\ m.op \notin {"begin", "take"} /\ ~IsPush(m) =>
            (st'.capture.on <=> st.capture.on) /\ TurnMessages(st') = TurnMessages(st)
  BY ActorCaptures DEF IsPush, m
<1>7. /\ turn'.pc \in RunPcs => turn.pc \in RunPcs
      /\ m.op # "take" => UNCHANGED <<collector, got, awaiting>>
      /\ m.op = "take" => ActorTake
  BY ActorHolds DEF m
<1>8. \A p \in Prompts : New(p)' => New(p)
  <2>1. Moves
    BY <1>0, AnyMove
  <2>2. SUFFICES ASSUME NEW p \in Prompts, New(p)' PROVE New(p)
    OBVIOUS
  <2>3. CASE Fresh(p)'
    BY <2>1, <2>3, FreshOnly DEF New
  <2>4. CASE turn'.p = p /\ turn'.pc = "begin"
    BY <2>4, ActorHolds DEF New
  <2>5. QED
    BY <2>2, <2>3, <2>4 DEF New
\* Messages but a take leave the stages alone.
<1>9. CASE m.op # "take"
  <2>0. collector' = collector /\ got' = got /\ awaiting' = awaiting
    BY <1>7, <1>9
  <2>1. Solo' /\ AskedTakes' /\ \A p \in Prompts : Current(p)' <=> Current(p)
    BY <1>0, <2>0 DEF OwnInv, Solo, AskedTakes, Current
  <2>2. SentTakes'
    <3> SUFFICES ASSUME NEW i \in 1..Len(mailbox'), mailbox'[i].op = "take"
                 PROVE  /\ awaiting' /\ collector'[mailbox'[i].p] = "taking"
                        /\ \A j \in 1..Len(cmds') : cmds'[j].op # "take"
                        /\ \A j \in 1..Len(mailbox') : j > i => mailbox'[j].op \notin {"begin", "take"} /\ ~IsPush(mailbox'[j])
      BY DEF SentTakes, IsPush
    <3>1. mailbox'[i] = mailbox[i + 1] /\ i + 1 \in 1..Len(mailbox)
      BY <1>1
    <3>2. /\ awaiting /\ collector[mailbox[i + 1].p] = "taking"
          /\ \A j \in 1..Len(cmds) : cmds[j].op # "take"
          /\ \A j \in 1..Len(mailbox) : j > i + 1 => mailbox[j].op \notin {"begin", "take"} /\ ~IsPush(mailbox[j])
      BY <3>1 DEF OwnInv, SentTakes
    <3>3. awaiting'
      BY <2>0, <3>2
    <3>4. \A j \in 1..Len(mailbox') : j > i => mailbox'[j].op \notin {"begin", "take"} /\ ~IsPush(mailbox'[j])
      BY <1>1, <1>3, <3>2
    <3>5. QED
      BY <1>0, <2>0, <3>1, <3>2, <3>3, <3>4
  <2>3. \A i \in 1..Len(mailbox') : IsPush(mailbox'[i]) => mailbox'[i].item.by \in Prompts /\ Current(mailbox[i + 1].item.by)
    <3>1. \A i \in 1..Len(mailbox) : mailbox[i] \in Messages
      BY <1>0, SeqItem
    <3>2. \A i \in 1..Len(mailbox) : IsPush(mailbox[i]) => mailbox[i].item.by \in Prompts
      BY <3>1, MessageFacts, ItemFacts DEF IsPush
    <3>3. QED
      BY <1>1, <3>2 DEF OwnInv, PushesInv
  <2>4. ASSUME NEW n \in Nat, Opened(n + 1), m.op = "begin" \/ IsPush(m) => st'.capture.on,
               ~(m.op = "begin" \/ IsPush(m)) => (st'.capture.on <=> st.capture.on)
        PROVE  Opened(n)'
    <3>1. CASE st'.capture.on
      BY <3>1 DEF Opened
    <3>2. CASE ~st'.capture.on
      <4>1. ~st.capture.on /\ m.op # "begin"
        BY <2>4, <3>2
      <4>2. PICK j \in 1..Len(mailbox) : j < n + 1 /\ mailbox[j].op = "begin"
        BY <2>4, <4>1 DEF Opened
      <4>3. j # 1
        BY <1>1, <4>1, <4>2
      <4>4. PICK k \in 1..Len(mailbox') : k + 1 = j /\ k < n
        <5>1. j - 1 \in 1..Len(mailbox') /\ (j - 1) + 1 = j /\ j - 1 < n
          BY <1>1, <4>2, <4>3, SMT
        <5>2. QED
          BY <5>1
      <4>5. mailbox'[k].op = "begin"
        BY <1>1, <4>2, <4>4
      <4>6. QED
        BY <4>4, <4>5 DEF Opened
    <3>3. QED
      BY <3>1, <3>2
  <2>5. ASSUME IsPush(m) PROVE st.capture.on /\ st'.capture.on /\ Current(m.item.by)
    <3>1. Current(m.item.by) /\ Opened(1)
      BY <1>1, <2>5 DEF OwnInv, PushesInv
    <3>2. \A j \in 1..Len(mailbox) : ~(j < 1)
      BY <1>1, SMT
    <3>3. st.capture.on
      BY <3>1, <3>2 DEF Opened
    <3>4. QED
      BY <1>6, <2>5, <3>1, <3>3
  <2>6. /\ m.op = "begin" \/ IsPush(m) => st'.capture.on
        /\ ~(m.op = "begin" \/ IsPush(m)) => (st'.capture.on <=> st.capture.on)
    BY <1>6, <1>9, <2>5
  <2>7. ASSUME NEW n \in Nat, Opened(n + 1) PROVE Opened(n)'
    BY <2>4, <2>6, <2>7
  <2>8. PushesInv'
    <3> SUFFICES ASSUME NEW i \in 1..Len(mailbox'), IsPush(mailbox'[i])
                 PROVE  collector'[mailbox'[i].item.by] \in Currents /\ Opened(i)'
      BY DEF PushesInv, IsPush, Current
    <3>1. mailbox'[i] = mailbox[i + 1] /\ i + 1 \in 1..Len(mailbox) /\ Current(mailbox[i + 1].item.by) /\ Opened(i + 1)
      BY <1>1 DEF OwnInv, PushesInv
    <3>2. i \in Nat
      BY SMT
    <3>3. Opened(i)'
      BY <2>7, <3>1, <3>2
    <3>4. QED
      BY <2>0, <3>1, <3>3 DEF Current
  <2>9. RunInv'
    <3> SUFFICES ASSUME turn'.pc \in RunPcs
                 PROVE  st'.capture.on \/ \E j \in 1..Len(mailbox') : j < Len(mailbox') + 1 /\ mailbox'[j].op = "begin"
      BY DEF RunInv, Opened
    <3>1. PICK n \in Nat : n = Len(mailbox)
      BY <1>1
    <3>2. Opened(n + 1)
      BY <1>7, <3>1 DEF OwnInv, RunInv
    <3>3. Opened(n)'
      BY <2>7, <3>2
    <3>4. QED
      BY <1>2, <3>1, <3>3 DEF Opened
  <2>10. \A p \in Prompts : Current(p) /\ IsPush(m) => p = m.item.by
    BY <1>4, <2>5, OneCurrent DEF OwnInv
  <2>11. IsPush(m) => /\ log'[m.item.by] = Append(log[m.item.by], m.item)
                      /\ \A p \in Prompts : p # m.item.by => log'[p] = log[p]
    BY <1>4, <1>5, LoggedType
  <2>12. BeginsInv'
    <3> SUFFICES ASSUME NEW i \in 1..Len(mailbox'), mailbox'[i].op = "begin"
                 PROVE  /\ \E p \in Prompts : Current(p)'
                        /\ \A p \in Prompts : Current(p)' => log'[p] = <<>>
                        /\ \A j \in 1..Len(mailbox') : IsPush(mailbox'[j]) => i < j
      BY DEF BeginsInv, IsPush
    <3>1. /\ \E p \in Prompts : Current(p)
          /\ \A p \in Prompts : Current(p) => log[p] = <<>>
          /\ \A j \in 1..Len(mailbox) : IsPush(mailbox[j]) => i + 1 < j
      BY <1>1 DEF OwnInv, BeginsInv
    <3>2. ~IsPush(m)
      BY <1>1, <1>3, <3>1
    <3>3. \A j \in 1..Len(mailbox') : IsPush(mailbox'[j]) => i < j
      BY <1>1, <1>3, <3>1
    <3>4. QED
      BY <1>5, <2>1, <3>1, <3>2, <3>3
  <2>13. NewInv'
    <3> SUFFICES ASSUME NEW p \in Prompts, New(p)'
                 PROVE  log'[p] = <<>> /\ \A i \in 1..Len(mailbox') : IsPush(mailbox'[i]) => mailbox'[i].item.by # p
      BY DEF NewInv, IsPush
    <3>1. log[p] = <<>> /\ \A i \in 1..Len(mailbox) : IsPush(mailbox[i]) => mailbox[i].item.by # p
      BY <1>8 DEF OwnInv, NewInv
    <3>2. log'[p] = <<>>
      BY <1>1, <1>5, <2>11, <3>1
    <3>3. QED
      BY <1>1, <3>1, <3>2
  <2>14. CaptureInv'
    <3>1. CASE m.op = "begin"
      <4>1. ~IsPush(m)
        BY <3>1 DEF IsPush
      <4>2. (\E p \in Prompts : Current(p)) /\ \A p \in Prompts : Current(p) => log[p] = <<>>
        BY <1>1, <3>1 DEF OwnInv, BeginsInv
      <4>3. QED
        BY <1>5, <1>6, <2>1, <3>1, <4>1, <4>2 DEF CaptureInv
    <3>2. CASE IsPush(m)
      <4>1. \A p \in Prompts : Current(p) => TurnMessages(st) = log[p]
        BY DEF OwnInv, CaptureInv
      <4>2. TurnMessages(st') = Append(TurnMessages(st), m.item)
        BY <1>6, <2>5, <3>2
      <4>3. \A p \in Prompts : Current(p) => TurnMessages(st') = log'[p]
        BY <2>10, <2>11, <3>2, <4>1, <4>2
      <4>4. \E p \in Prompts : Current(p)
        BY <1>4, <2>5, <3>2
      <4>5. QED
        BY <2>1, <4>3, <4>4 DEF CaptureInv
    <3>3. CASE m.op # "begin" /\ ~IsPush(m)
      <4>1. (st'.capture.on <=> st.capture.on) /\ TurnMessages(st') = TurnMessages(st) /\ log' = log
        BY <1>5, <1>6, <1>9, <3>3
      <4>2. QED
        BY <2>1, <4>1 DEF OwnInv, CaptureInv
    <3>4. QED
      BY <3>1, <3>2, <3>3
  <2>15. TakeReturnsOwnTurn'
    <3> SUFFICES ASSUME NEW p \in Prompts, collector'[p] = "collected" PROVE got'[p] = log'[p]
      BY DEF TakeReturnsOwnTurn
    <3>1. got[p] = log[p] /\ ~Current(p)
      BY <2>0 DEF OwnInv, TakeReturnsOwnTurn, Current, Currents
    <3>2. log'[p] = log[p]
      BY <1>5, <2>5, <2>11, <3>1
    <3>3. QED
      BY <2>0, <3>1, <3>2
  <2>16. (DOMAIN got = Prompts)'
    BY <2>0 DEF OwnInv
  <2>17. QED
    BY <2>1, <2>2, <2>8, <2>9, <2>12, <2>13, <2>14, <2>15, <2>16 DEF OwnInv
\* A take ends the current prompt, and nothing of its turn is behind it.
<1>10. CASE m.op = "take"
  <2>1. PICK r : r = m.p
    OBVIOUS
  <2>2. /\ r \in Prompts /\ collector[r] = "taking" /\ Current(r)
        /\ \A j \in 1..Len(cmds) : cmds[j].op # "take"
        /\ \A j \in 1..Len(mailbox) : j > 1 => mailbox[j].op \notin {"begin", "take"} /\ ~IsPush(mailbox[j])
    BY <1>1, <1>10, <2>1, MessageFacts DEF OwnInv, SentTakes, Current, Currents
  <2>3. /\ got' = [got EXCEPT ![r] = TurnMessages(st)] /\ collector' = [collector EXCEPT ![r] = "collected"]
        /\ turn' = turn /\ log' = log
    BY <1>7, <1>10, <2>1 DEF ActorTake, m
  <2>4. ~st'.capture.on
    BY <1>6, <1>10
  <2>5. collector'[r] = "collected" /\ \A p \in Prompts : p # r => collector'[p] = collector[p]
    BY <1>0, <2>2, <2>3
  <2>6. \A p \in Prompts : ~Current(p)'
    <3> SUFFICES ASSUME NEW p \in Prompts, Current(p)' PROVE FALSE
      OBVIOUS
    <3>1. p # r /\ Current(p)
      BY <2>5 DEF Current, Currents
    <3>2. QED
      BY <2>2, <3>1, OneCurrent DEF OwnInv
  <2>7. \A j \in 1..Len(mailbox') : mailbox'[j].op \notin {"begin", "take"} /\ ~IsPush(mailbox'[j])
    BY <1>1, <1>3, <2>2
  <2>8. Solo'
    BY <2>2, <2>5 DEF OwnInv, Solo
  <2>9. PushesInv' /\ BeginsInv' /\ SentTakes' /\ AskedTakes'
    BY <1>0, <2>2, <2>7 DEF PushesInv, BeginsInv, SentTakes, AskedTakes, IsPush
  <2>10. NewInv'
    BY <1>8, <2>3, <2>7 DEF OwnInv, NewInv, IsPush
  <2>11. CaptureInv'
    BY <2>4, <2>6 DEF CaptureInv
  <2>12. RunInv'
    <3>1. turn.pc = "done"
      <4> SUFFICES ASSUME turn.pc # "done" PROVE FALSE
        OBVIOUS
      <4>1. turn.p \in Prompts /\ collector[turn.p] = "waiting" /\ Current(turn.p)
        BY RunningCurrent
      <4>2. turn.p = r
        BY <2>2, <4>1, OneCurrent DEF OwnInv
      <4>3. QED
        BY <2>2, <4>1, <4>2
    <3>2. QED
      BY <2>3, <3>1 DEF RunInv, RunPcs
  <2>13. TakeReturnsOwnTurn'
    <3>1. TurnMessages(st) = log[r]
      BY <2>2 DEF OwnInv, CaptureInv
    <3>2. DOMAIN got = Prompts
      BY DEF OwnInv
    <3>3. got'[r] = TurnMessages(st) /\ \A p \in Prompts : p # r => got'[p] = got[p]
      BY <2>2, <2>3, <3>2
    <3>4. QED
      BY <2>2, <2>3, <2>5, <3>1, <3>3 DEF OwnInv, TakeReturnsOwnTurn
  <2>14. (DOMAIN got = Prompts)'
    BY <2>3 DEF OwnInv
  <2>15. QED
    BY <2>8, <2>9, <2>10, <2>11, <2>12, <2>13, <2>14 DEF OwnInv
<1>11. QED
  BY <1>9, <1>10

LEMMA OwnInit == Init => OwnInv
<1> SUFFICES ASSUME Init PROVE OwnInv
  OBVIOUS
<1>1. /\ cmds = <<>> /\ mailbox = <<>> /\ collector = [p \in Prompts |-> "unsent"] /\ turn = NoTurn
      /\ log = [p \in Prompts |-> <<>>] /\ got = [p \in Prompts |-> <<>>] /\ st = NewState(<<System("head")>>)
  BY DEF Init
<1>2. 1..Len(<<>>) = {}
  BY SMT
<1>3. \A p \in Prompts : collector[p] = "unsent" /\ log[p] = <<>> /\ ~Current(p)
  BY <1>1 DEF Current, Currents
<1>4. ~st.capture.on
  BY <1>1 DEF NewState, State, NoCapture
<1>5. turn.pc \notin RunPcs
  BY <1>1 DEF NoTurn, RunPcs
<1>6. PushesInv /\ BeginsInv /\ AskedTakes /\ SentTakes
  BY <1>1, <1>2 DEF PushesInv, BeginsInv, AskedTakes, SentTakes
<1>7. Solo /\ NewInv /\ CaptureInv /\ RunInv /\ TakeReturnsOwnTurn /\ DOMAIN got = Prompts
  BY <1>1, <1>2, <1>3, <1>4, <1>5 DEF Solo, NewInv, CaptureInv, RunInv, TakeReturnsOwnTurn
<1>8. QED
  BY <1>6, <1>7 DEF OwnInv

LEMMA OwnNext ==
    ASSUME ~Pipelined, AllInv, Quiet, OwnInv, [Next]_vars
    PROVE  OwnInv'
<1>0. LoopInv /\ MailOK /\ StateOK /\ OnceInv
  BY DEF AllInv
<1>1. CASE Others
  <2>1. OnceInv'
    BY <1>0, OnceNext
  <2>2. QED
    BY <1>0, <1>1, <2>1, OwnOthers
<1>2. CASE ActorStep
  BY <1>0, <1>2, OwnActor
<1>3. CASE UNCHANGED vars
  <2>1. UNCHANGED <<cmds, pending, running, awaiting, turn, mailbox, st, collector, log, got>>
    BY <1>3 DEF vars, session, task, history
  <2>2. UNCHANGED <<Solo, PushesInv, BeginsInv, NewInv, AskedTakes, SentTakes, CaptureInv, RunInv, TakeReturnsOwnTurn>>
    BY <2>1 DEF Solo, PushesInv, BeginsInv, NewInv, AskedTakes, SentTakes, CaptureInv, RunInv, TakeReturnsOwnTurn,
                New, Fresh, Asked, Queued, Current, Opened
  <2>3. QED
    BY <2>1, <2>2 DEF OwnInv
<1>4. QED
  BY <1>1, <1>2, <1>3 DEF Next, Others

\* A client that waits for each answer gets, for every prompt, exactly the messages
\* its turn pushed: all of them, once and in order, and none of another turn's,
\* through compactions, cancels, a changed system prompt and repairs of calls that a
\* stopped turn left open (take_turn_messages behind the turn's pushes; the
\* rebase of the capture when the conversation is rewritten).  A repair on
\* request is no part of it: nobody asks for one.
THEOREM TakesAreOwn ==
    ASSUME ~Pipelined, NoRepairs
    PROVE  Spec => []TakeReturnsOwnTurn
<1>1. Init => Quiet /\ OwnInv
  BY QuietInit, OwnInit
<1>2. AllInv /\ Quiet /\ OwnInv /\ [Next]_vars => (Quiet /\ OwnInv)'
  <2> SUFFICES ASSUME AllInv, Quiet, OwnInv, [Next]_vars PROVE Quiet' /\ OwnInv'
    OBVIOUS
  <2>1. Quiet'
    BY QuietNext DEF AllInv
  <2>2. OwnInv'
    BY OwnNext
  <2>3. QED
    BY <2>1, <2>2
<1>3. OwnInv => TakeReturnsOwnTurn
  BY DEF OwnInv
<1>4. QED
  BY <1>1, <1>2, <1>3, AllInvAlways, PTL DEF Spec
=============================================================================
