--------------------------- MODULE ChatDurability ---------------------------
(***************************************************************************)
(* A session's conversation in memory, on its way to the file and in the    *)
(* file (hystersis-chat-state/src/actor, hystersis-shell/src/session/        *)
(* persistence.rs and storage).  The chat-state actor changes its           *)
(* conversation at once and posts what it changed to the persistence        *)
(* actor, which writes it later and only logs what it could not write; the  *)
(* process may be killed at any time and loads the file when it comes back. *)
(*                                                                         *)
(* The session is a loop of turns: a user message, requests to the model,   *)
(* replies that call tools, results.  A turn may be given up anywhere.      *)
(***************************************************************************)
EXTENDS ChatState, ChatFile

CONSTANT Budgets     \* bound: how often each operation may happen, in each scenario

OpNames == {"user", "image", "reply", "interject", "compact", "strip", "repair",
            "memory", "switch", "fail", "fail_copy", "crash"}

ASSUME DurabilityAssumption == Budgets \subseteq [OpNames -> Nat] /\ HardClearAge \in Nat

VARIABLES
    up,             \* the process runs
    st,             \* the chat-state actor's state
    phase,          \* where the turn is: loaded, idle, ask, reply, tools, end
    pending,        \* the calls whose tools still run
    awaiting,       \* the actor waits for the acknowledgement of a switch
    queue,          \* the persistence channel
    file,           \* chat_history.jsonl
    backup,         \* chat_history.jsonl.pre-strip: its lines, and whether it exists
    report,         \* history: the repaired history and the file when a repair reported success
    durable,        \* history: what the persistence actor wrote without an error
    lost,           \* history: a write failed and no rewrite succeeded since
    left            \* the operations that may still happen

actor   == <<st, phase, pending, awaiting>>
disk    == <<file, backup>>
history == <<report, durable, lost>>
vars    == <<up, actor, queue, disk, history, left>>

NoBackup == [made |-> FALSE, items |-> <<>>]
NoReport == [given |-> FALSE, repaired |-> <<>>, found |-> <<>>]

Init ==
    /\ up = TRUE
    /\ st = NewState(<<System("head")>>)
    /\ phase = "idle" /\ pending = {} /\ awaiting = FALSE
    /\ queue = <<>>
    /\ file = File(<<System("head")>>, FALSE) /\ backup = NoBackup
    /\ report = NoReport
    /\ durable = <<System("head")>> /\ lost = FALSE
    /\ left \in Budgets

Use(op) == left[op] > 0 /\ left' = [left EXCEPT ![op] = @ - 1]

\* The calls of the next reply: new ids.
NewCalls == LET n == 2 * left["reply"] IN <<n + 1, n + 2>>

Compacted == <<System("head"), User(0, "summary")>>

-----------------------------------------------------------------------------
(* The chat-state actor, by the turn's commands *)

\* The actor handles a command: its new state, and what it posts.
Handle(effect) ==
    /\ up /\ ~awaiting
    /\ st' = effect.st
    /\ queue' = queue \o effect.out
    /\ UNCHANGED <<up, awaiting, disk, history>>

\* A turn starts: the prompt index goes up, the user's message is pushed.  What
\* ran before is given up.
UserMessage(body) ==
    /\ left["user"] > 0 /\ (body = "image" => left["image"] > 0)
    /\ Handle(PushUserMessage(IncrementPromptIndex(st).st, User(st.prompt + 1, body), "cancelled"))
    /\ phase' = "ask" /\ pending' = {}
    /\ left' = [left EXCEPT !["user"] = @ - 1, !["image"] = IF body = "image" THEN @ - 1 ELSE @]

\* A reminder comes when the system message has none.
BuildConversationRequest(reminder) ==
    /\ phase = "ask"
    /\ IF reminder THEN Use("memory") /\ ~HasMemoryContext(st.conv) ELSE UNCHANGED left
    /\ Handle(BuildRequest(st, reminder))
    /\ phase' = "reply"
    /\ UNCHANGED pending

AssistantReply(calls) ==
    /\ phase = "reply" /\ Use("reply")
    /\ Handle(PushMessage(st, Assistant(st.prompt, calls)))
    /\ phase' = IF calls = <<>> THEN "end" ELSE "tools"
    /\ pending' = ToSet(calls)

ToolResult(id) ==
    /\ phase = "tools" /\ id \in pending
    /\ Handle(PushMessage(st, Result(id, st.prompt)))
    /\ pending' = pending \ {id}
    /\ phase' = IF pending' = {} THEN "ask" ELSE "tools"
    /\ UNCHANGED left

\* A user message inside a turn: before a request, or before the turn completes,
\* which then goes on.
Interject ==
    /\ phase \in {"ask", "end"} /\ Use("interject")
    /\ Handle(PushUserMessage(st, User(st.prompt, "interjection"), "cancelled"))
    /\ phase' = "ask"
    /\ UNCHANGED pending

Compact ==
    /\ phase = "ask" /\ Use("compact")
    /\ Handle(ReplaceConversation(st, Compacted, TRUE))
    /\ UNCHANGED <<phase, pending>>

\* A request without the images was answered: they leave the conversation.
StripRejectedImages ==
    /\ phase = "reply" /\ Use("strip")
    /\ Handle(StripConversationImages(st))
    /\ UNCHANGED <<phase, pending>>

\* A turn is cancelled and none follows.
GiveUp ==
    /\ phase = "tools"
    /\ Handle(Effect(st, <<>>))
    /\ phase' = "idle" /\ pending' = {}
    /\ UNCHANGED left

\* handle_repair_history: when something was repaired, a flush barrier follows.
Repair ==
    LET effect == DoRepairHistory(st)
        flush  == IF effect.out = <<>> THEN <<>> ELSE <<[op |-> "flush", items |-> effect.st.conv]>>
    IN  /\ phase \in {"idle", "loaded", "end"} /\ Use("repair")
        /\ Handle(Effect(effect.st, effect.out \o flush))
        /\ phase' = IF phase = "end" THEN "idle" ELSE phase
        /\ UNCHANGED pending

\* AppendWorkingDirectorySwitchAndAck: posted first, and the actor waits.
PostSwitch(generation, text) ==
    /\ Use("switch")
    /\ up /\ ~awaiting /\ awaiting' = TRUE
    /\ queue' = Append(queue, [op |-> "switch", items |-> <<Switch(generation, text)>>])
    /\ UNCHANGED <<up, st, phase, pending, disk, history>>

-----------------------------------------------------------------------------
(* The persistence actor *)

Take(op) == up /\ queue # <<>> /\ Head(queue).op = op /\ queue' = Tail(queue)

Fails(how) == IF how = "ok" THEN UNCHANGED left ELSE Use("fail")

\* An error is logged and nothing else.
PersistChat(how) ==
    LET item == Head(queue).items[1]
    IN  /\ Take("chat") /\ Fails(how)
        /\ file' = AppendLine(file, item, how)
        /\ durable' = IF Written(how) THEN Append(durable, item) ELSE durable
        /\ lost' = (lost \/ ~Written(how))
        /\ UNCHANGED <<up, actor, backup, report>>

Rewrite(items, how) ==
    /\ file' = RewriteFile(file, items, how)
    /\ durable' = IF Written(how) THEN items ELSE durable
    /\ lost' = ~Written(how)

PersistReplace(how) ==
    /\ Take("replace") /\ Fails(how)
    /\ Rewrite(Head(queue).items, how)
    /\ UNCHANGED <<up, actor, backup, report>>

\* Fault: the copy is made after the rewrite.
Backup_Late == IF backup.made THEN backup ELSE [made |-> TRUE, items |-> Head(queue).items]

\* backup_chat_history_before_strip: the first copy of the file is kept.
Backup == IF backup.made THEN backup ELSE [made |-> TRUE, items |-> ReadChat(file)]

\* strip_rewrite_gated: the file is copied, then rewritten.
PersistStrip(backedUp, how) ==
    /\ Take("strip")
    /\ IF backedUp THEN Fails(how) ELSE Use("fail_copy")
    /\ backup' = IF backedUp THEN Backup ELSE backup
    /\ Rewrite(Head(queue).items, IF backedUp THEN how ELSE "none")
    /\ UNCHANGED <<up, actor, report>>

\* converge_working_directory_switch: memory takes the text the file has.
Converge(conv, authoritative, candidate) ==
    LET same(i) == GenerationOf(conv[i]) = GenerationOf(authoritative)
    IN  IF \E i \in DOMAIN conv : same(i)
        THEN [conv EXCEPT ![Min({i \in DOMAIN conv : same(i)})] = authoritative]
        ELSE Append(conv, authoritative)

\* append_cwd_switch_commit_aware: nothing is appended when the file has this
\* generation.  The actor is answered, and converges when it was committed.
PersistSwitch(how) ==
    LET item  == Head(queue).items[1]
        found == SwitchOnFile(file, GenerationOf(item))
    IN  /\ Take("switch")
        /\ Fails(how)
        /\ found # <<>> => how \in RewriteOutcomes
        /\ awaiting' = FALSE
        /\ IF found # <<>>
           THEN UNCHANGED <<file, durable, lost>>
           ELSE /\ file' = AppendLine(file, item, how)
                /\ durable' = IF Written(how) THEN Append(durable, item) ELSE durable
                /\ lost' = (lost \/ how = "unterminated")
        /\ st' = IF Written(how)
                 THEN [st EXCEPT !.conv = Converge(@, (found \o <<item>>)[1], item)] ELSE st
        /\ UNCHANGED <<up, phase, pending, backup, report>>

\* FlushAndAck: what was posted before has been tried.
PersistFlush ==
    /\ Take("flush")
    /\ report' = [given |-> TRUE, repaired |-> Head(queue).items, found |-> ReadChat(file)]
    /\ UNCHANGED <<up, actor, disk, durable, lost, left>>

-----------------------------------------------------------------------------
(* Crash and resume *)

\* What a kill may leave of the write in progress: the file and the copy.
Interrupted ==
    LET msg == Head(queue)
        appended == {<<AppendLine(file, msg.items[1], how), backup>> : how \in AppendOutcomes}
    IN  {<<file, backup>>} \cup
        IF queue = <<>> THEN {}
        ELSE CASE msg.op = "chat"    -> appended
               [] msg.op = "switch"  -> IF SwitchOnFile(file, GenerationOf(msg.items[1])) = <<>>
                                        THEN appended ELSE {}
               [] msg.op = "replace" -> {<<File(msg.items, FALSE), backup>>}
               [] msg.op = "strip"   -> {<<file, Backup>>, <<File(msg.items, FALSE), Backup>>}
               [] OTHER              -> {}

\* Memory is gone; the prompt index is in the summary file.
Crash ==
    /\ up /\ Use("crash")
    /\ \E remains \in Interrupted : file' = remains[1] /\ backup' = remains[2]
    /\ up' = FALSE
    /\ st' = State(<<>>, st.prompt, NoCapture)
    /\ phase' = "idle" /\ pending' = {} /\ awaiting' = FALSE
    /\ queue' = <<>>
    /\ lost' = FALSE
    /\ durable' = ReadChat(file')
    /\ UNCHANGED report

\* The file is loaded into a new actor and rewritten at once (best effort); then
\* the actor's conversation is replaced by what was loaded.  The
\* summary file has the prompt index.
Resume(how) ==
    LET loaded == ReadChat(file)
        effect == ReplaceConversation(NewState(loaded), loaded, FALSE)
    IN  /\ ~up /\ up' = TRUE
        /\ Fails(how)
        /\ file' = RewriteFile(file, loaded, how)
        /\ st' = [effect.st EXCEPT !.prompt = st.prompt]
        /\ queue' = effect.out
        /\ phase' = "loaded"
        /\ UNCHANGED <<pending, awaiting, backup, history>>

-----------------------------------------------------------------------------
(* Specification *)

ActorStep ==
    \/ \E body \in {"text", "image"} : UserMessage(body)
    \/ \E reminder \in BOOLEAN : BuildConversationRequest(reminder)
    \/ AssistantReply(<<>>) \/ AssistantReply(NewCalls)
    \/ \E id \in pending : ToolResult(id)
    \/ Interject \/ Compact \/ StripRejectedImages \/ GiveUp \/ Repair
    \/ \E text \in SwitchTexts : PostSwitch(1, text)

PersistStep ==
    \/ \E how \in AppendOutcomes : PersistChat(how) \/ PersistSwitch(how)
    \/ \E how \in RewriteOutcomes : PersistReplace(how)
    \/ \E backedUp \in BOOLEAN, how \in RewriteOutcomes : PersistStrip(backedUp, how)
    \/ PersistFlush

Next == ActorStep \/ PersistStep \/ Crash \/ \E how \in RewriteOutcomes : Resume(how)

Spec == Init /\ [][Next]_vars

-----------------------------------------------------------------------------
(* Properties *)

\* What is read from the file after a posted message was written.  A posted switch
\* is not in memory yet.
Applied(items, msg) ==
    CASE msg.op = "chat" -> items \o msg.items
      [] msg.op \in {"replace", "strip"} -> msg.items
      [] OTHER -> items

\* What is read from a file of these items when all posted messages were written.
Replay(items, msgs) ==
    LET after[n \in 0..Len(msgs)] == IF n = 0 THEN items ELSE Applied(after[n - 1], msgs[n])
    IN  after[Len(msgs)]

\* What is on disk and on its way there is the conversation in memory: a session that
\* is resumed goes on where it was.  A failed write may break this, until the next
\* rewrite succeeds (push_user_message: "so the on-disk and in-memory state stay
\* consistent").
ReloadIsFaithful == up /\ ~lost => Replay(ReadChat(file), queue) = st.conv

\* Nothing that was written without an error is lost by a later append that
\* stops anywhere: a torn line costs one record (append_jsonl_line_sync: "bounds
\* the damage of any torn write to exactly one record").  What was written is what
\* is read, less some items of writes that failed.
DurableSurvives ==
    LET read == ReadChat(file)
    IN  \E kept \in SUBSET DOMAIN read : Keep(read, kept) = durable

\* A switch of a generation is at most once in memory and in the file, and with
\* the same text, however often it was retried, with another text too, after an
\* error or after a crash (AppendCwdSwitchAndAck: "retry by generation").
SwitchOnce ==
    LET inFile   == SwitchOnFile(file, 1)
        inMemory == SwitchesOf(st.conv, 1)
    IN  /\ Len(inFile) <= 1 /\ Len(inMemory) <= 1
        /\ inFile # <<>> /\ inMemory # <<>> => inFile = inMemory

\* A step that takes an image out of the file by stripping its message leaves it in
\* the copy (strip_rewrite_gated: "recoverability can never be silently
\* forfeited").
StripRecoverable ==
    [][\A i \in DOMAIN file.lines :
           LET image == file.lines[i]
           IN  image.body = "image" /\ Contains(file'.lines, [image EXCEPT !.body = "stripped"])
                   => Contains(backup'.items, image)]_vars

\* The text of a tool result stays for HardClearAge real turns
\* (prune_retained_conversation: "never cleared before `hard_clear_age_turns` REAL
\* turns have elapsed").
PruneRespectsAge ==
    \A i \in DOMAIN st.conv :
        st.conv[i].body = Cleared => st.prompt - st.conv[i].by >= HardClearAge

\* A tool result without its text has at least HardClearAge turns behind it, as the
\* prune counts them (prune_retained_conversation's turn_from_end), also when the
\* conversation was compacted, repaired or loaded from what a crash left of the
\* file: the last turns of a session always have their results.
ClearedIsBehind ==
    \A i \in DOMAIN st.conv :
        st.conv[i].body = Cleared => TurnFromEnd(st.conv, i) >= HardClearAge

\* When a repair reported success its result was on disk (handle_repair_history:
\* "success must mean the rewrite is on disk").
RepairReachesDisk == report.given => report.found = report.repaired
=============================================================================
