------------------------------ MODULE ChatState ------------------------------
(***************************************************************************)
(* The chat-state actor (hystersis-chat-state/src/actor): the handlers of   *)
(* its commands, as functions from the actor's state and the command's      *)
(* arguments to the new state and the messages the handler puts on the      *)
(* persistence channel.  The actor takes one command at a time from its     *)
(* mailbox, so a handler is atomic for everyone else; the modules that      *)
(* compose the actor with the session decide who sends which command and    *)
(* when.                                                                    *)
(*                                                                         *)
(* The state is reduced to the fields these commands share: the             *)
(* conversation, the prompt index and the capture of the current turn.      *)
(* Token estimates, usage ledgers, credentials and events are left out.     *)
(***************************************************************************)
EXTENDS Conversation

CONSTANT HardClearAge    \* PruningConfig::hard_clear_age_turns

\* TurnCaptureState; NoCapture stands for None.
NoCapture == [on |-> FALSE, offset |-> 0, pre |-> <<>>, compacted |-> FALSE]
NewCapture(conv) == [on |-> TRUE, offset |-> Len(conv), pre |-> <<>>, compacted |-> FALSE]

State(conv, prompt, capture) ==
    [conv |-> conv, prompt |-> prompt, capture |-> capture]

\* A handler's effect: the new state and what it sends to persistence.
Effect(st, out) == [st |-> st, out |-> out]

\* The persistence messages: PersistenceMsg::Chat, ReplaceChatHistory and
\* ReplaceChatHistoryForStripAndAck.
Chat(item)    == [op |-> "chat", items |-> <<item>>]
Replace(conv) == [op |-> "replace", items |-> conv]
Strip(conv)   == [op |-> "strip", items |-> conv]

\* ChatState::new: a loaded history is repaired in memory only.
NewState(conv) == State(Integrity(conv, "cancelled"), 0, NoCapture)

-----------------------------------------------------------------------------
(* Turn capture *)

\* turn_tail: conversation[offset..], empty when the offset is past the end.
TurnTail(conv, offset) == SubSeq(conv, offset + 1, Len(conv))

\* Fault: an offset is not moved when the conversation is rewritten.
Rewritten_NoRebase(st, conv) ==
    [st EXCEPT !.conv = conv,
               !.capture.pre = IF @ = <<>> /\ ~st.capture.on THEN @
                               ELSE @ \o TurnTail(st.conv, st.capture.offset)]

\* snapshot_turn_slice, the new conversation, rebase_turn_capture_offset.
Rewritten(st, conv) ==
    IF st.capture.on
    THEN [st EXCEPT !.conv = conv,
                    !.capture.pre = @ \o TurnTail(st.conv, st.capture.offset),
                    !.capture.offset = Len(conv)]
    ELSE [st EXCEPT !.conv = conv]

\* Fault: the capture starts behind the message that is pushed next.
BeginTurnCapture_PastEnd(st) ==
    Effect([st EXCEPT !.capture = [NewCapture(st.conv) EXCEPT !.offset = @ + 1]], <<>>)

BeginTurnCapture(st) == Effect([st EXCEPT !.capture = NewCapture(st.conv)], <<>>)

\* What TakeTurnMessages answers (nothing for None), and the state after it.
TurnMessages(st) ==
    IF st.capture.on THEN st.capture.pre \o TurnTail(st.conv, st.capture.offset) ELSE <<>>
TakeTurnMessages(st) == Effect([st EXCEPT !.capture = NoCapture], <<>>)

-----------------------------------------------------------------------------
(* Mutations *)

\* ensure_conversation_integrity_with_reason: persisted when anything changed.
EnsureIntegrity(st, reason) ==
    LET conv == Integrity(st.conv, reason)
    IN  Effect(Rewritten(st, conv), IF conv = st.conv THEN <<>> ELSE <<Replace(conv)>>)

\* push_message, push_model_output, push_unreported_model_output.
PushMessage(st, item) ==
    Effect([st EXCEPT !.conv = Append(@, item)], <<Chat(item)>>)

\* prune_retained_conversation: in place, so the capture's offset stays valid.
Prune(st) ==
    LET conv == PruneRetained(st.conv, st.prompt, HardClearAge)
    IN  Effect([st EXCEPT !.conv = conv], IF conv = st.conv THEN <<>> ELSE <<Replace(conv)>>)

\* Fault: the message is posted before the history it was added to.
PushUserMessage_Reordered(st, item, reason) ==
    LET repaired == EnsureIntegrity(st, reason)
        pushed   == PushMessage(repaired.st, item)
        pruned   == Prune(pushed.st)
    IN  Effect(pruned.st, pushed.out \o repaired.out \o pruned.out)

\* push_user_message_with_repair_reason: repair, push, prune.
PushUserMessage(st, item, reason) ==
    LET repaired == EnsureIntegrity(st, reason)
        pushed   == PushMessage(repaired.st, item)
        pruned   == Prune(pushed.st)
    IN  Effect(pruned.st, repaired.out \o pushed.out \o pruned.out)

IncrementPromptIndex(st) == Effect([st EXCEPT !.prompt = @ + 1], <<>>)

\* Fault: the tail of the turn is not saved before the conversation is swapped.
ReplaceConversation_NoSnapshot(st, items, isCompaction) ==
    Effect([st EXCEPT !.conv = items,
                      !.capture.offset = IF st.capture.on THEN Len(items) ELSE 0,
                      !.capture.compacted = @ \/ (isCompaction /\ st.capture.on)],
           <<Replace(items)>>)

\* replace_conversation
ReplaceConversation(st, items, isCompaction) ==
    LET st1 == Rewritten(st, items)
    IN  Effect([st1 EXCEPT !.capture.compacted = @ \/ (isCompaction /\ st.capture.on)],
               <<Replace(items)>>)

\* repair_history: the conversation is taken out of the state first, so that is
\* what replace_conversation finds when it saves the tail of the turn.
DoRepairHistory(st) ==
    LET items == RepairHistory(st.conv)
    IN  IF items = st.conv THEN Effect(st, <<>>)
        ELSE ReplaceConversation([st EXCEPT !.conv = <<>>], items, FALSE)

\* replace_system_head: nothing to do when the head is this prompt already.
ReplaceSystemHead(st, prompt) ==
    IF st.conv # <<>> /\ st.conv[1].kind = "system" /\ st.conv[1].body = prompt
    THEN Effect(st, <<>>)
    ELSE ReplaceConversation(st, SystemHead(st.conv, prompt), FALSE)

\* strip_conversation_images: in place; the rewrite of the file is acknowledged.
StripConversationImages(st) ==
    LET conv == StripImages(st.conv)
    IN  Effect([st EXCEPT !.conv = conv], IF conv = st.conv THEN <<>> ELSE <<Strip(conv)>>)

\* A system message with the memory reminder in it.
Reminded == "reminded"

HasMemoryContext(conv) == conv # <<>> /\ conv[1] = System(Reminded)

\* inject_memory_reminder, between the snapshot and the rebase of the capture.
InjectReminder(st) ==
    LET conv == SystemHead(st.conv, Reminded)
    IN  Effect(Rewritten(st, conv), IF conv = st.conv THEN <<>> ELSE <<Replace(conv)>>)

\* BuildConversationRequest: repair, a reminder that is to stay goes into the
\* conversation, then the request is made from a copy.
BuildRequest(st, reminder) ==
    LET repaired == EnsureIntegrity(st, "cancelled")
        injected == InjectReminder(repaired.st)
    IN  IF reminder THEN Effect(injected.st, repaired.out \o injected.out) ELSE repaired
=============================================================================
