--------------------------- MODULE HistoryRepair ----------------------------
(***************************************************************************)
(* The repair passes of Conversation on every history a damaged file can    *)
(* give.  A session is loaded line by line from chat_history.jsonl; a line  *)
(* that does not parse is skipped, so any message may be missing, and the   *)
(* session may have been written by another provider or an older version.   *)
(* The module builds every such history up to a length and states what the  *)
(* passes promise of it.                                                   *)
(***************************************************************************)
EXTENDS Conversation

CONSTANTS
    MaxLines,      \* bound: lines of the file
    Calls          \* what an assistant message may call: sequences of ids

ASSUME HistoryAssumption == MaxLines \in Nat /\ \A ids \in Calls : ids \in Seq(Nat \ {NoCall})

VARIABLE history

Ids == UNION {ToSet(ids) : ids \in Calls}

Lines == {User(1, "real")}
            \cup {Assistant(1, ids) : ids \in Calls}
            \cup {Result(id, 1) : id \in Ids}
            \cup {Synthetic(id, "cancelled") : id \in Ids}

Init == history = <<>>

\* read_chat_history_sync: the next line that parses.
ReadLine(line) ==
    /\ Len(history) < MaxLines
    /\ history' = Append(history, line)

Next == \E line \in Lines : ReadLine(line)

Spec == Init /\ [][Next]_history

-----------------------------------------------------------------------------
(* Properties *)

\* What repair_history returns is accepted by a provider, whatever it was given:
\* orphaned, displaced, duplicated and missing results (compaction_utils.rs:
\* "Repair provider tool-pairing violations in a conversation").
RepairedIsValid == ProviderValid(RepairHistory(history))

\* The repair touches results only, leaves a valid history alone, and of several
\* answers to a call keeps the last one, the real result.
RepairIsConservative ==
    LET repaired == RepairHistory(history) IN
    /\ Spoken(repaired) = Spoken(history)
    /\ ProviderValid(history) => repaired = history
    /\ \A i \in DOMAIN history :
          /\ IsResult(history[i])
          /\ Contains(RunCalls(history, i), history[i].of)
          /\ \A j \in (i + 1)..Len(history) :
                RunHead(history, j) = RunHead(history, i) => history[j].of # history[i].of
          => Contains(repaired, history[i])

\* has_dangling_tool_calls predicts whether repair_dangling_tool_calls inserts
\* anything: it "Lets callers decide whether the repair would fire".
DanglingIsPredicted ==
    HasDangling(history) <=> RepairDangling(history, "cancelled") # history
=============================================================================
