------------------------------ MODULE ChatFile ------------------------------
(***************************************************************************)
(* chat_history.jsonl (hystersis-shell/src/session/storage): one item on    *)
(* each line.  A file is the sequence of its lines and whether the last one *)
(* still lacks its newline.  An append can stop anywhere: a crash or a full *)
(* disk leaves a line that does not parse, or a whole one that is not       *)
(* terminated.  A rewrite is a new file renamed over the old one, so it     *)
(* happens or it does not.                                                  *)
(***************************************************************************)
EXTENDS Conversation

\* A line that does not parse.
Torn == Item("torn", <<>>, NoCall, 0, "")

File(lines, open) == [lines |-> lines, open |-> open]
NoFile == File(<<>>, FALSE)

\* How a write ends.  ok; late: everything is written and a later step fails
\* (fsync, the summary file); none: nothing is written; torn and unterminated:
\* the append stopped inside the line or before its newline.
AppendOutcomes == {"ok", "late", "none", "torn", "unterminated"}
RewriteOutcomes == {"ok", "late", "none"}
Written(how) == how \in {"ok", "late"}

\* read_chat_history_sync: lines that do not parse are skipped.
ReadChat(file) == Keep(file.lines, {i \in DOMAIN file.lines : file.lines[i] # Torn})

\* Fault: a line is written behind an unterminated one, which ruins both.
AppendLine_NoHeal(file, item, how) ==
    LET lines == IF file.open THEN Front(file.lines) ELSE file.lines
        line  == IF file.open \/ how = "torn" THEN Torn ELSE item
    IN  IF how = "none" THEN file ELSE File(Append(lines, line), ~Written(how))

\* append_jsonl_line_sync: an unterminated line is terminated first.
AppendLine(file, item, how) ==
    IF how = "none" THEN file
    ELSE File(Append(file.lines, IF how = "torn" THEN Torn ELSE item), ~Written(how))

\* write_jsonl_atomic
RewriteFile(file, items, how) == IF Written(how) THEN File(items, FALSE) ELSE file

\* ConversationItem::working_directory_switch, and its generation (0 for none).
Switch(generation, text) == User(generation, text)
SwitchTexts == {"cwd_a", "cwd_b"}
GenerationOf(item) == IF IsUser(item) /\ item.body \in SwitchTexts THEN item.by ELSE 0

\* find_cwd_switch_generation: the lines of that generation.
SwitchesOf(items, generation) ==
    Keep(items, {i \in DOMAIN items : GenerationOf(items[i]) = generation})

\* Fault: a retry is not looked for in the file.
SwitchOnFile_Never(file, generation) == <<>>

SwitchOnFile(file, generation) == SwitchesOf(ReadChat(file), generation)
=============================================================================
