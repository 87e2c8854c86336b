---------------------------- MODULE TurnCapture -----------------------------
(***************************************************************************)
(* The mechanism behind turn capture (hystersis-chat-state/src/actor): the  *)
(* turn is not recorded as it happens but cut out of the conversation, from *)
(* an offset to the end, when it is asked for.  Every pass that rewrites    *)
(* the conversation must first save the part after the offset               *)
(* (snapshot_turn_slice) and then move the offset to the end of what it     *)
(* wrote (rebase_turn_capture_offset).                                      *)
(***************************************************************************)
EXTENDS Integers, Sequences

CONSTANT Items          \* the conversation items

VARIABLES
    conv,               \* ChatState::conversation
    on,                 \* ChatState::turn_capture is Some
    offset,             \* TurnCaptureState::turn_start_offset
    pre,                \* TurnCaptureState::pre_replacement_messages
    taken               \* the last answer given

vars == <<conv, on, offset, pre, taken>>

\* turn_tail
TurnTail(c, from) == SubSeq(c, from + 1, Len(c))

\* What a take answers now.
Captured == IF on THEN pre \o TurnTail(conv, offset) ELSE <<>>

Init ==
    /\ conv \in Seq(Items)
    /\ on = FALSE /\ offset = 0 /\ pre = <<>>
    /\ taken = <<>>

BeginTurnCapture ==
    /\ on' = TRUE
    /\ offset' = Len(conv)
    /\ pre' = <<>>
    /\ UNCHANGED <<conv, taken>>

\* push_message
Push(item) ==
    /\ conv' = Append(conv, item)
    /\ UNCHANGED <<on, offset, pre, taken>>

\* snapshot_turn_slice before the conversation changes, and
\* rebase_turn_capture_offset when it is len items long.
Rebase(len) ==
    /\ pre' = IF on THEN pre \o TurnTail(conv, offset) ELSE pre
    /\ offset' = IF on THEN len ELSE offset
    /\ UNCHANGED <<on, taken>>

\* replace_conversation, replace_system_head, restore_snapshot and
\* ensure_conversation_integrity: the conversation becomes any other.
Rewrite == conv' \in Seq(Items) /\ Rebase(Len(conv'))

\* push_user_message: the conversation is rewritten, then the item pushed.
PushUser == conv' \in Seq(Items) \ {<<>>} /\ Rebase(Len(conv') - 1)

\* The capture ends: the offset and the saved items go with it.
Close == on' = FALSE /\ offset' = 0 /\ pre' = <<>>

TakeTurnMessages ==
    /\ Close
    /\ taken' = Captured
    /\ UNCHANGED conv

\* truncate_to_prompt_index drops the capture.
Truncate == conv' \in Seq(Items) /\ Close /\ UNCHANGED taken

Next ==
    \/ BeginTurnCapture \/ TakeTurnMessages \/ Rewrite \/ PushUser \/ Truncate
    \/ \E item \in Items : Push(item)

Spec == Init /\ [][Next]_vars

-----------------------------------------------------------------------------
(* Properties *)

\* The state is well formed and the offset is inside the conversation: what
\* turn_tail asserts of it.
TypeOK ==
    /\ conv \in Seq(Items)
    /\ on \in BOOLEAN
    /\ offset \in Nat
    /\ pre \in Seq(Items)
    /\ taken \in Seq(Items)
    /\ on => offset <= Len(conv)

\* The mechanism keeps the promise: what it would answer is the log.
Log == INSTANCE TurnLog WITH log <- Captured

LogSpec == Log!Spec
=============================================================================
