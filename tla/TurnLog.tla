------------------------------- MODULE TurnLog -------------------------------
(***************************************************************************)
(* What turn capture promises (hystersis-chat-state, BeginTurnCapture and   *)
(* TakeTurnMessages): the answer to a take is the list of the items that    *)
(* were pushed since the last begin, in order, whatever happened to the     *)
(* conversation in between.                                                 *)
(***************************************************************************)
EXTENDS Integers, Sequences

CONSTANT Items          \* the conversation items

VARIABLES
    on,                 \* a turn is being captured
    log,                \* what was pushed since it began
    taken               \* the last answer given

vars == <<on, log, taken>>

Init == on = FALSE /\ log = <<>> /\ taken = <<>>

Begin == on' = TRUE /\ log' = <<>> /\ UNCHANGED taken

Push(item) ==
    /\ log' = IF on THEN Append(log, item) ELSE log
    /\ UNCHANGED <<on, taken>>

Take ==
    /\ on' = FALSE
    /\ log' = <<>>
    /\ taken' = log

\* A rewind drops the capture unread.
Drop == on' = FALSE /\ log' = <<>> /\ UNCHANGED taken

Next == Begin \/ (\E item \in Items : Push(item)) \/ Take \/ Drop

Spec == Init /\ [][Next]_vars
=============================================================================
