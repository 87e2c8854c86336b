--------------------------- MODULE TurnCollection ---------------------------
(***************************************************************************)
(* A session runs the turns of its prompts and their messages are collected *)
(* for upload (hystersis-shell/src/session, hystersis-chat-state/src/actor). *)
(*                                                                         *)
(*   client     sends prompts and cancels on the session's command channel  *)
(*   session    the session actor's loop: the prompt queue, the running     *)
(*              turn, commands before completions (a biased select)         *)
(*   turn       the running turn's task: it sends chat-state commands       *)
(*   actor      the chat-state actor: its mailbox and its state             *)
(*   collector  MvpAgent::prompt, once for each prompt: when the prompt is  *)
(*              answered it asks the session for the turn's messages        *)
(*   repairer   the task that serves hystersis.com/session/repair           *)
(*                                                                         *)
(* Session, turn, collector and repairer are tasks of one thread, so a step *)
(* is what one of them does up to its next await.  The model's replies and  *)
(* the tools' results are choices; what is sampled is reduced to the calls  *)
(* it makes.                                                                *)
(***************************************************************************)
EXTENDS ChatState

CONSTANTS
    MaxPrompts,     \* bound: prompts 1..MaxPrompts, in the order they are sent
    MaxSamples,     \* bound: model replies in a turn; the last one calls no tool
    Pipelined,      \* a prompt may be sent before the last one is collected
    Scenarios       \* bound: sets of what else may happen, each at most once

OpNames == {"cancel", "send_now", "repair", "head", "compact", "interject", "error", "memory"}

ASSUME CollectionAssumption ==
    /\ MaxPrompts \in Nat \ {0} /\ MaxSamples \in Nat \ {0}
    /\ Pipelined \in BOOLEAN
    /\ Scenarios \subseteq SUBSET OpNames

VARIABLES
    cmds,           \* SessionCommand channel
    pending,        \* State::pending_inputs; the front is the running prompt
    running,        \* State::running_task, by prompt
    committed,      \* State::front_message_committed
    completions,    \* the completion channel
    awaiting,       \* the loop waits for a chat-state reply
    turn,           \* the running turn's task
    doomed,         \* an aborted task whose future is not dropped yet
    active,         \* SessionActor::session_turn_active
    mailbox,        \* ChatStateCommand channel
    st,             \* the chat-state actor's state
    collector,      \* where each prompt's collector is
    repairer,       \* where the repair request is
    left,           \* the operations of the scenario not used yet
    log,            \* history: what each turn pushed, as the actor applied it
    got,            \* history: what each collector was given
    taken,          \* history: the last answer to a take
    request,        \* history: the last request built
    replaced        \* history: prompts a send-now cancelled

session == <<cmds, pending, running, committed, completions, awaiting>>
task    == <<turn, doomed, active>>
history == <<log, got, taken, request, replaced>>
vars    == <<session, task, mailbox, st, collector, repairer, left, history>>

Prompts == 1..MaxPrompts
None    == 0

\* The calls a model reply may make: those of the k-th reply of prompt p.
CallsOf(p, k) == LET n == 2 * ((p - 1) * MaxSamples + k) IN {<<n>>, <<n, n + 1>>}

\* The conversation a compaction leaves: system message and summary.
Compacted == <<System("head"), User(0, "summary")>>

\* Every item that can be in a conversation.
AllItems ==
    LET calls == UNION {CallsOf(p, k) : p \in Prompts, k \in 1..MaxSamples}
        ids   == UNION {ToSet(c) : c \in calls}
    IN  {System("head"), System("new_head"), System(Reminded), User(0, "summary")}
            \cup {User(p, b) : p \in Prompts, b \in {"prompt", "interjection"}}
            \cup {Assistant(p, c) : p \in Prompts, c \in calls \cup {<<>>}}
            \cup [kind : {"tool_result"}, calls : {<<>>}, of : ids, by : Prompts \cup {0},
                  body : {"real", Cleared} \cup Reasons]

\* pc: start, begin, sample, build (awaits the request), reply (awaits the
\* model), tools, finish, failed, done (the completion is sent)
NoTurn     == [p |-> None, pc |-> "done", k |-> 0, open |-> {}]
NewTurn(p) == [p |-> p, pc |-> "start", k |-> 0, open |-> {}]

Init ==
    /\ cmds = <<>> /\ pending = <<>> /\ running = None /\ committed = FALSE
    /\ completions = <<>> /\ awaiting = FALSE
    /\ turn = NoTurn /\ doomed = FALSE /\ active = FALSE
    /\ mailbox = <<>>
    /\ st = NewState(<<System("head")>>)
    /\ collector = [p \in Prompts |-> "unsent"]
    /\ repairer = "idle"
    /\ left \in Scenarios
    /\ log = [p \in Prompts |-> <<>>] /\ got = [p \in Prompts |-> <<>>]
    /\ taken = <<>> /\ request = <<>> /\ replaced = {}

-----------------------------------------------------------------------------
(* Client *)

Use(op) == op \in left /\ left' = left \ {op}

Send(cmd) == cmds' = Append(cmds, cmd)

\* session/prompt; a client that does not queue waits for the response.
ClientPrompt(p, now) ==
    /\ collector[p] = "unsent"
    /\ \A q \in 1..(p - 1) : collector[q] # "unsent" /\ (Pipelined \/ collector[q] = "collected")
    /\ IF now THEN Use("send_now") ELSE UNCHANGED left
    /\ collector' = [collector EXCEPT ![p] = "waiting"]
    /\ Send([op |-> "prompt", p |-> p, now |-> now])
    /\ UNCHANGED <<pending, running, committed, completions, awaiting, task, mailbox, st,
                   repairer, history>>

ClientCancel ==
    /\ Use("cancel")
    /\ Send([op |-> "cancel"])
    /\ UNCHANGED <<pending, running, committed, completions, awaiting, task, mailbox, st,
                   collector, repairer, history>>

ClientRepair ==
    /\ Use("repair")
    /\ Send([op |-> "repair"])
    /\ UNCHANGED <<pending, running, committed, completions, awaiting, task, mailbox, st,
                   collector, repairer, history>>

\* A client reconnects with another system prompt: straight to the actor.
ClientHead ==
    /\ Use("head")
    /\ mailbox' = Append(mailbox, [op |-> "head"])
    /\ UNCHANGED <<session, task, st, collector, repairer, history>>

\* MvpAgent::prompt, when its prompt is answered.
Collect(p) ==
    /\ collector[p] = "answered"
    /\ collector' = [collector EXCEPT ![p] = "taking"]
    /\ Send([op |-> "take", p |-> p])
    /\ UNCHANGED <<pending, running, committed, completions, awaiting, task, mailbox, st,
                   repairer, left, history>>

-----------------------------------------------------------------------------
(* The session loop *)

Receive(op) ==
    /\ ~awaiting
    /\ cmds # <<>> /\ Head(cmds).op = op
    /\ cmds' = Tail(cmds)

\* maybe_start_running_task with this queue and this running prompt: the front
\* is promoted, and stays in the queue.
MaybeStart(queue, run, task1) ==
    /\ pending' = queue
    /\ IF run = None /\ queue # <<>>
       THEN /\ running' = Head(queue).p
            /\ turn' = NewTurn(Head(queue).p)
            /\ committed' = FALSE
       ELSE /\ running' = run
            /\ turn' = task1
            /\ UNCHANGED committed

\* Fault: a prompt sent now goes to the front of the queue.
QueueInput_AtFront(entry) ==
    IF entry.now THEN <<entry>> \o pending ELSE Append(pending, entry)

\* queue_input: a prompt sent now goes behind the running one and behind
\* earlier ones sent now.
QueueInput(entry) ==
    LET from == IF running # None THEN 1 ELSE 0
        at   == Min({i \in from..Len(pending) : i = Len(pending) \/ ~pending[i + 1].now})
    IN  IF entry.now THEN SubSeq(pending, 1, at) \o <<entry>> \o SubSeq(pending, at + 1, Len(pending))
                     ELSE Append(pending, entry)

\* Fault: a turn is cancelled although its message is not stored yet.
SendNowCancels_Early(entry) == entry.now /\ running # None

\* send_now_cancels_running_turn
SendNowCancels(entry) == entry.now /\ running # None /\ committed

\* Fault: the prompts behind the cancelled one are thrown away.
CancelQueue_All(queue) == <<>>

\* The queue after cancel_running_task: the front is gone.
CancelQueue(queue) == IF queue = <<>> THEN <<>> ELSE Tail(queue)

\* cancel_running_task with this queue: the task is aborted, the front is
\* answered, the next prompt promoted.  A send-now leaves commands running and
\* answers their calls (some of the open ones).
CancelRunningTask(queue, sendNow) ==
    LET front == {queue[i].p : i \in DOMAIN queue \cap {1}}
    IN  /\ doomed' = (doomed \/ (running # None /\ turn.pc # "done"))
        /\ collector' = [p \in Prompts |-> IF p \in front THEN "answered" ELSE collector[p]]
        /\ \E background \in SUBSET (IF sendNow THEN turn.open ELSE {}) :
              mailbox' = mailbox \o [i \in 1..Cardinality(background) |->
                             [op |-> "push",
                              item |-> Result(SetToSeq(background)[i], turn.p)]]
        /\ MaybeStart(CancelQueue(queue), None, NoTurn)
        /\ UNCHANGED active

LoopPrompt ==
    LET entry == [p |-> Head(cmds).p, now |-> Head(cmds).now]
    IN  /\ Receive("prompt")
        /\ IF SendNowCancels(entry)
           THEN CancelRunningTask(QueueInput(entry), TRUE) /\ replaced' = replaced \cup {running}
           ELSE /\ MaybeStart(QueueInput(entry), running, turn)
                /\ UNCHANGED <<doomed, active, mailbox, collector, replaced>>
        /\ UNCHANGED <<completions, awaiting, st, repairer, left, log, got, taken, request>>

LoopCancel ==
    /\ Receive("cancel")
    /\ CancelRunningTask(pending, FALSE)
    /\ UNCHANGED <<completions, awaiting, st, repairer, left, history>>

\* The loop forwards a take and waits for the answer.
LoopTake ==
    /\ Receive("take")
    /\ mailbox' = Append(mailbox, [op |-> "take", p |-> Head(cmds).p])
    /\ awaiting' = TRUE
    /\ UNCHANGED <<pending, running, committed, completions, task, st, collector, repairer,
                   left, history>>

LoopRepair ==
    /\ Receive("repair")
    /\ repairer' = "check"
    /\ UNCHANGED <<pending, running, committed, completions, awaiting, task, mailbox, st,
                   collector, left, history>>

\* handle_completion: a completion whose prompt is not the front any more is
\* stale, and leaves the turn that runs now alone.
LoopCompletion ==
    LET p     == Head(completions)
        owned == pending # <<>> /\ Head(pending).p = p
        ends  == owned \/ running = p
    IN  /\ ~awaiting /\ cmds = <<>> /\ completions # <<>>
        /\ completions' = Tail(completions)
        /\ collector' = IF owned THEN [collector EXCEPT ![p] = "answered"] ELSE collector
        /\ MaybeStart(IF owned THEN Tail(pending) ELSE pending,
                      IF ends THEN None ELSE running,
                      IF ends THEN NoTurn ELSE turn)
        /\ UNCHANGED <<cmds, awaiting, doomed, active, mailbox, st, repairer, left, history>>

-----------------------------------------------------------------------------
(* The turn's task *)

At(pc) == ~doomed /\ turn.pc = pc

Post(msgs) == mailbox' = mailbox \o msgs

\* Fault: the turn does not say that it runs.
TurnStart_NoGuard ==
    /\ At("start")
    /\ Post(<<[op |-> "index"]>>)
    /\ turn' = [turn EXCEPT !.pc = "begin"]
    /\ UNCHANGED <<session, doomed, active, st, collector, repairer, left, history>>

\* The guard of the turn's flag is taken before anything is sent.
TurnStart ==
    /\ At("start")
    /\ active' = TRUE
    /\ Post(<<[op |-> "index"]>>)
    /\ turn' = [turn EXCEPT !.pc = "begin"]
    /\ UNCHANGED <<session, doomed, st, collector, repairer, left, history>>

\* The capture begins and the prompt's message is pushed: it is committed.
TurnBegin ==
    /\ At("begin")
    /\ Post(<<[op |-> "begin"], [op |-> "push_user", item |-> User(turn.p, "prompt")]>>)
    /\ committed' = TRUE
    /\ turn' = [turn EXCEPT !.pc = "sample"]
    /\ UNCHANGED <<cmds, pending, running, completions, awaiting, doomed, active, st,
                   collector, repairer, left, history>>

\* The history is compacted before it is sampled.
TurnCompact ==
    /\ At("sample")
    /\ Use("compact")
    /\ Post(<<[op |-> "compact"]>>)
    /\ UNCHANGED <<session, task, st, collector, repairer, history>>

TurnSample ==
    /\ At("sample")
    /\ Post(<<[op |-> "build", p |-> turn.p]>>)
    /\ turn' = [turn EXCEPT !.pc = "build"]
    /\ UNCHANGED <<session, doomed, active, st, collector, repairer, left, history>>

\* record_assistant_response: the reply calls tools, or ends the turn.
TurnReply(calls) ==
    /\ At("reply")
    /\ Post(<<[op |-> "push", item |-> Assistant(turn.p, calls)]>>)
    /\ turn' = [turn EXCEPT !.pc = IF calls = <<>> THEN "finish" ELSE "tools",
                            !.open = ToSet(calls)]
    /\ UNCHANGED <<session, doomed, active, st, collector, repairer, left, history>>

\* A tool finished: results come in any order.
TurnResult(id) ==
    /\ At("tools") /\ id \in turn.open
    /\ Post(<<[op |-> "push", item |-> Result(id, turn.p)]>>)
    /\ turn' = [turn EXCEPT !.open = @ \ {id}]
    /\ UNCHANGED <<session, doomed, active, st, collector, repairer, left, history>>

\* Every tool has finished: the next sample.
TurnToolsDone ==
    /\ At("tools") /\ turn.open = {}
    /\ turn' = [turn EXCEPT !.pc = "sample"]
    /\ UNCHANGED <<session, doomed, active, mailbox, st, collector, repairer, left, history>>

\* drain_interjections_at_safe_point: before a sample, and before the turn
\* completes, which then goes on with another sample.
TurnInterject ==
    /\ At("sample") \/ At("finish")
    /\ turn.k < MaxSamples
    /\ Use("interject")
    /\ Post(<<[op |-> "push_user", item |-> User(turn.p, "interjection")]>>)
    /\ turn' = [turn EXCEPT !.pc = "sample"]
    /\ UNCHANGED <<session, doomed, active, st, collector, repairer, history>>

\* The turn ends early: the disk is not writable, the model fails, or a tool was
\* rejected and every call has its answer.
TurnFails ==
    /\ At("start") \/ At("begin") \/ At("reply") \/ (At("tools") /\ turn.open = {})
    /\ Use("error")
    /\ turn' = [turn EXCEPT !.pc = "failed"]
    /\ UNCHANGED <<session, doomed, active, mailbox, st, collector, repairer, history>>

\* execute_tool_calls returns an error: the calls that are open stay unanswered
\* and the turn goes on.
TurnDispatchError ==
    /\ At("tools") /\ turn.open # {}
    /\ Use("error")
    /\ turn' = [turn EXCEPT !.pc = "sample", !.open = {}]
    /\ UNCHANGED <<session, doomed, active, mailbox, st, collector, repairer, history>>

\* The guard is dropped, then the completion is sent.
TurnFinish ==
    /\ At("finish") \/ At("failed")
    /\ active' = FALSE
    /\ completions' = Append(completions, turn.p)
    /\ turn' = [turn EXCEPT !.pc = "done"]
    /\ UNCHANGED <<cmds, pending, running, committed, awaiting, doomed, mailbox, st, collector,
                   repairer, left, history>>

\* An aborted task is dropped, its guard with it, before a newer task runs.
DropAborted ==
    /\ doomed
    /\ doomed' = FALSE
    /\ active' = FALSE
    /\ UNCHANGED <<session, turn, mailbox, st, collector, repairer, left, history>>

TurnStep ==
    \/ TurnStart \/ TurnBegin \/ TurnCompact \/ TurnSample \/ TurnFinish \/ DropAborted
    \/ TurnReply(<<>>)
    \/ \E calls \in CallsOf(turn.p, turn.k) : turn.k < MaxSamples /\ TurnReply(calls)
    \/ \E id \in turn.open : TurnResult(id)
    \/ TurnToolsDone \/ TurnInterject \/ TurnFails \/ TurnDispatchError

-----------------------------------------------------------------------------
(* The repair request *)

\* handle_repair_history: refused at once while a turn runs.
RepairCheck ==
    /\ repairer = "check"
    /\ IF active THEN repairer' = "refused" /\ UNCHANGED mailbox
                 ELSE repairer' = "sent" /\ Post(<<[op |-> "repair"]>>)
    /\ UNCHANGED <<session, task, st, collector, left, history>>

-----------------------------------------------------------------------------
(* The chat-state actor *)

Handle(op) ==
    /\ mailbox # <<>> /\ Head(mailbox).op = op
    /\ mailbox' = Tail(mailbox)
    /\ UNCHANGED <<cmds, pending, running, committed, completions, doomed, active, left, replaced>>

Logged(item) == log' = [log EXCEPT ![item.by] = Append(@, item)]

ActorIndex ==
    /\ Handle("index")
    /\ st' = IncrementPromptIndex(st).st
    /\ UNCHANGED <<awaiting, turn, collector, repairer, log, got, taken, request>>

ActorBegin ==
    /\ Handle("begin")
    /\ st' = BeginTurnCapture(st).st
    /\ UNCHANGED <<awaiting, turn, collector, repairer, log, got, taken, request>>

ActorPush ==
    /\ Handle("push")
    /\ st' = PushMessage(st, Head(mailbox).item).st
    /\ Logged(Head(mailbox).item)
    /\ UNCHANGED <<awaiting, turn, collector, repairer, got, taken, request>>

ActorPushUser ==
    /\ Handle("push_user")
    /\ st' = PushUserMessage(st, Head(mailbox).item, "cancelled").st
    /\ Logged(Head(mailbox).item)
    /\ UNCHANGED <<awaiting, turn, collector, repairer, got, taken, request>>

\* first_turn_memory_reminder: in a session with memory, when the system message
\* has no reminder and the search finds something.
MayRemind(reminder) == reminder => "memory" \in left /\ ~HasMemoryContext(st.conv)

\* The reply is lost when the turn that asked was aborted.
ActorBuild ==
    /\ Handle("build")
    /\ \E reminder \in BOOLEAN : MayRemind(reminder) /\ st' = BuildRequest(st, reminder).st
    /\ request' = st'.conv
    /\ turn' = IF turn.p = Head(mailbox).p /\ turn.pc = "build"
               THEN [turn EXCEPT !.pc = "reply", !.k = @ + 1] ELSE turn
    /\ UNCHANGED <<awaiting, collector, repairer, log, got, taken>>

ActorCompact ==
    /\ Handle("compact")
    /\ st' = ReplaceConversation(st, Compacted, TRUE).st
    /\ UNCHANGED <<awaiting, turn, collector, repairer, log, got, taken, request>>

ActorHead ==
    /\ Handle("head")
    /\ st' = ReplaceSystemHead(st, "new_head").st
    /\ UNCHANGED <<awaiting, turn, collector, repairer, log, got, taken, request>>

\* The flag is read again where the history is changed.
ActorRepair ==
    /\ Handle("repair")
    /\ st' = IF active THEN st ELSE DoRepairHistory(st).st
    /\ repairer' = IF active THEN "refused" ELSE "repaired"
    /\ UNCHANGED <<awaiting, turn, collector, log, got, taken, request>>

ActorTake ==
    LET p == Head(mailbox).p
    IN  /\ Handle("take")
        /\ st' = TakeTurnMessages(st).st
        /\ taken' = TurnMessages(st)
        /\ got' = [got EXCEPT ![p] = TurnMessages(st)]
        /\ collector' = [collector EXCEPT ![p] = "collected"]
        /\ awaiting' = FALSE
        /\ UNCHANGED <<turn, repairer, log, request>>

-----------------------------------------------------------------------------
(* Specification *)

ClientStep ==
    \/ \E p \in Prompts, now \in BOOLEAN : ClientPrompt(p, now)
    \/ ClientCancel \/ ClientRepair \/ ClientHead

LoopStep == LoopPrompt \/ LoopCancel \/ LoopTake \/ LoopRepair \/ LoopCompletion

ActorStep ==
    \/ ActorIndex \/ ActorBegin \/ ActorPush \/ ActorPushUser \/ ActorBuild
    \/ ActorCompact \/ ActorHead \/ ActorRepair \/ ActorTake

Next ==
    \/ ClientStep \/ LoopStep \/ TurnStep \/ RepairCheck \/ ActorStep
    \/ \E p \in Prompts : Collect(p)

Spec == Init /\ [][Next]_vars

\* The actor takes the next command: only its handlers shorten the mailbox.
ActorTakes == mailbox # <<>> /\ mailbox' = Tail(mailbox)

\* Every task that can go on does in the end, the model and the tools answer;
\* the client need not do anything.
Fairness ==
    /\ WF_vars(LoopStep) /\ WF_vars(TurnStep) /\ WF_mailbox(ActorTakes) /\ WF_vars(RepairCheck)
    /\ \A p \in Prompts : WF_vars(Collect(p))

FairSpec == Spec /\ Fairness

-----------------------------------------------------------------------------
(* Properties *)

\* The types, and the bound turn_tail asserts: the offset of a capture is inside
\* the conversation.
TypeOK ==
    /\ running \in Prompts \cup {None}
    /\ turn.p \in Prompts \cup {None} /\ turn.k \in 0..MaxSamples
    /\ collector \in [Prompts -> {"unsent", "waiting", "answered", "taking", "collected"}]
    /\ st.conv \in Seq(AllItems) /\ st.capture.pre \in Seq(AllItems)
    /\ st.prompt \in 0..MaxPrompts
    /\ st.capture.on => st.capture.offset \in 0..Len(st.conv)

\* The messages collected for a prompt are those of its turn: all of them, in
\* order, whether the turn was compacted, cancelled or its system prompt changed
\* in between, and none of another turn (commands.rs: routed through the session
\* so that "the drain is ordered ahead of any subsequent turn").
TakeReturnsOwnTurn ==
    \A p \in Prompts : collector[p] = "collected" => got[p] = log[p]

\* Cutting the turn out of the conversation is all the actor does to it: the
\* session implements the capture mechanism, and so (by the theorem
\* CaptureImplementsLog) the log it promises.
Capture == INSTANCE TurnCapture WITH
    Items <- AllItems, conv <- st.conv, on <- st.capture.on,
    offset <- st.capture.offset, pre <- st.capture.pre

CaptureSpec == Capture!Spec

\* A call is not answered with "was not executed" while its tool runs: the repair
\* request is refused while a turn runs, even one that started after the request
\* passed its first check (handle_repair_history: "Refused while a turn is in
\* flight").
NoFalseAnswer ==
    \A i \in DOMAIN st.conv :
        st.conv[i].body \in Reasons /\ IsResult(st.conv[i]) => st.conv[i].of \notin turn.open

\* What is sent to the provider is accepted by it, also after a turn was stopped
\* between a call and its result.
RequestValid == ProviderValid(request)

\* The running turn is the front of the queue, and no other task runs
\* (cancel_running_task: "The in-flight turn is always `pending_inputs.front()`").
FrontIsRunning ==
    /\ running = None <=> pending = <<>>
    /\ pending # <<>> => Head(pending).p = running /\ turn.p = running

\* A prompt sent now never cancels a turn whose own message the actor has not
\* been given: the message would be gone before the model saw it
\* (front_awaiting_commit).
SendNowKeepsMessage ==
    \A p \in replaced :
        LET message == User(p, "prompt")
        IN  Contains(log[p], message)
                \/ \E i \in DOMAIN mailbox : mailbox[i].op = "push_user" /\ mailbox[i].item = message

\* Every prompt is answered and its messages are collected, also when it waits
\* behind a turn that is cancelled or that finishes while the cancel is on its way.
EveryPromptCollected ==
    \A p \in Prompts : collector[p] = "waiting" ~> collector[p] = "collected"
=============================================================================
