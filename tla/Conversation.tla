---------------------------- MODULE Conversation ----------------------------
(***************************************************************************)
(* The stored conversation and the passes that rewrite it                  *)
(* (hystersis-sampling-types/src/conversation.rs and, in hystersis-chat-    *)
(* state, compaction_utils.rs, conversation_util.rs and the retained prune  *)
(* of actor/mutations.rs).  A conversation is a sequence of items; what an  *)
(* item says is reduced to a tag, what it calls and answers is kept.        *)
(*                                                                         *)
(* A provider accepts a conversation when each assistant message that calls *)
(* tools is followed at once by one result for each call and by nothing    *)
(* else that is a result.  The results that follow a message at once are    *)
(* its run.                                                                 *)
(***************************************************************************)
EXTENDS Integers, Sequences, FiniteSets, SequencesExt

Kinds == {"system", "user", "assistant", "tool_result", "reasoning"}

NoCall == 0

\* calls: the ids an assistant message calls, in order; of: the id a result
\* answers; by: the turn that produced the item; body: what is left of its text.
Item(kind, calls, of, by, body) ==
    [kind |-> kind, calls |-> calls, of |-> of, by |-> by, body |-> body]

System(prompt)      == Item("system", <<>>, NoCall, 0, prompt)
User(by, body)      == Item("user", <<>>, NoCall, by, body)
Assistant(by, ids)  == Item("assistant", ids, NoCall, by, "real")
Result(id, by)      == Item("tool_result", <<>>, id, by, "real")

\* synthetic_dangling_result_text: the answer given for a call nobody answered.
Synthetic(id, reason) == Item("tool_result", <<>>, id, 0, reason)
Reasons == {"cancelled", "halted"}

\* HARD_CLEAR_PLACEHOLDER
Cleared == "cleared"

IsResult(item) == item.kind = "tool_result"
IsUser(item)   == item.kind = "user"

\* The items of s at the positions in kept, in order.
Keep(s, kept) == FlattenSeq([i \in DOMAIN s |-> IF i \in kept THEN <<s[i]>> ELSE <<>>])

\* The position of the item whose run position i is in: the last one before i
\* that is not a result, 0 when there is none.
RunHead(conv, i) ==
    Max({0} \cup {j \in 1..(i - 1) : ~IsResult(conv[j])})

\* The ids called by the message whose run position i is in.
RunCalls(conv, i) ==
    IF RunHead(conv, i) = 0 THEN <<>> ELSE conv[RunHead(conv, i)].calls

\* Fault: the first answer is kept, not the last.
Dedup_KeepsFirst(conv) ==
    Keep(conv, {i \in DOMAIN conv : ~ /\ IsResult(conv[i]) /\ RunCalls(conv, i) # <<>>
                                      /\ \E j \in 1..(i - 1) : /\ conv[j].of = conv[i].of
                                                               /\ IsResult(conv[j])
                                                               /\ RunHead(conv, j) = RunHead(conv, i)})

\* A later result of the run answers the same call.
Superseded(conv, i) ==
    /\ IsResult(conv[i])
    /\ RunCalls(conv, i) # <<>>
    /\ \E j \in (i + 1)..Len(conv) :
          /\ IsResult(conv[j])
          /\ RunHead(conv, j) = RunHead(conv, i)
          /\ conv[j].of = conv[i].of

\* dedup_duplicate_tool_results: of the results of a run that answer the same
\* call, the last one stays.
Dedup(conv) == Keep(conv, {i \in DOMAIN conv : ~Superseded(conv, i)})

\* strip_displaced_tool_results: a result stays only in the run of the message
\* that called it.
StripDisplaced(conv) ==
    Keep(conv, {i \in DOMAIN conv : IsResult(conv[i]) => Contains(RunCalls(conv, i), conv[i].of)})

\* The calls of the message at h that no result of its run answers.
Unanswered(conv, h) ==
    LET ids      == conv[h].calls
        answered == {conv[j].of : j \in {k \in (h + 1)..Len(conv) :
                                            IsResult(conv[k]) /\ RunHead(conv, k) = h}}
    IN  Keep(ids, {k \in DOMAIN ids : ids[k] \notin answered})

\* Fault: only a message whose run is still open at the end is looked at, and
\* only when it has no result yet.
RepairDangling_TailOnly(conv, reason) ==
    LET last == Len(conv)
        open == IF last = 0 THEN <<>> ELSE Unanswered(conv, last)
    IN  conv \o [k \in DOMAIN open |-> Synthetic(open[k], reason)]

\* The run ends at position i, and the message whose run it is.
EndsRun(conv, i) == i = Len(conv) \/ ~IsResult(conv[i + 1])
HeadOf(conv, i)  == IF IsResult(conv[i]) THEN RunHead(conv, i) ELSE i

\* The answers added behind position i.
Missing(conv, i, reason) ==
    LET open == IF EndsRun(conv, i) /\ HeadOf(conv, i) # 0 THEN Unanswered(conv, HeadOf(conv, i)) ELSE <<>>
    IN  [k \in DOMAIN open |-> Synthetic(open[k], reason)]

\* repair_dangling_tool_calls: the answers missing from a run are added at its
\* end, in the order of the calls.
RepairDangling(conv, reason) ==
    FlattenSeq([i \in DOMAIN conv |-> <<conv[i]>> \o Missing(conv, i, reason)])

\* Fault: a result anywhere in the history answers a call.
HasDangling_Anywhere(conv) ==
    \E h \in DOMAIN conv : ~ToSet(conv[h].calls) \subseteq {conv[j].of : j \in DOMAIN conv}

\* has_dangling_tool_calls
HasDangling(conv) == \E h \in DOMAIN conv : ~IsResult(conv[h]) /\ Unanswered(conv, h) # <<>>

\* What ensure_conversation_integrity and ChatState::new do to a history.
Integrity(conv, reason) == RepairDangling(Dedup(conv), reason)

\* Fault: the results that belong nowhere are kept.
RepairHistory_NoStrip(conv) == RepairDangling(Dedup(conv), "halted")

\* repair_history
RepairHistory(conv) == RepairDangling(StripDisplaced(Dedup(conv)), "halted")

-----------------------------------------------------------------------------
(* Pruning and rewriting *)

CountUsers(conv, from) == Cardinality({i \in from..Len(conv) : IsUser(conv[i])})

\* The number of turns between position i and the end: the last user message
\* opens turn 0.
TurnFromEnd(conv, i) == LET n == CountUsers(conv, i + 1) IN IF n = 0 THEN 0 ELSE n - 1

\* Fault: the difference is not saturating.
ClearAge_Wraps(conv, promptIndex, age) == age + CountUsers(conv, 1) - promptIndex

\* The age at which prune_retained_conversation clears: user messages that are
\* no turns (total_user_items - prompt_index, saturating) raise it.
ClearAge(conv, promptIndex, age) ==
    LET users == CountUsers(conv, 1)
    IN  age + (IF users > promptIndex THEN users - promptIndex ELSE 0)

\* prune_retained_conversation: results of old turns lose their text.
PruneRetained(conv, promptIndex, age) ==
    IF promptIndex < age THEN conv
    ELSE [i \in DOMAIN conv |->
            IF IsResult(conv[i]) /\ TurnFromEnd(conv, i) >= ClearAge(conv, promptIndex, age)
            THEN [conv[i] EXCEPT !.body = Cleared] ELSE conv[i]]

\* replace_or_insert_system_head
SystemHead(conv, prompt) ==
    IF conv # <<>> /\ conv[1].kind = "system"
    THEN <<[conv[1] EXCEPT !.body = prompt]>> \o Tail(conv)
    ELSE <<System(prompt)>> \o conv

\* strip_images_by_url: the image parts of a message are replaced in place.
StripImages(conv) ==
    [i \in DOMAIN conv |-> IF conv[i].body = "image" THEN [conv[i] EXCEPT !.body = "stripped"]
                                                    ELSE conv[i]]

-----------------------------------------------------------------------------
(* What a provider accepts *)

\* Every call is answered in its run, exactly once, and nothing else is.
ProviderValid(conv) ==
    /\ \A i \in DOMAIN conv : IsResult(conv[i]) => Contains(RunCalls(conv, i), conv[i].of)
    /\ \A h \in DOMAIN conv : \A k \in DOMAIN conv[h].calls :
          Cardinality({j \in DOMAIN conv : /\ IsResult(conv[j]) /\ RunHead(conv, j) = h
                                           /\ conv[j].of = conv[h].calls[k]}) = 1

\* The part of a conversation that is not tool results.
Spoken(conv) == Keep(conv, {i \in DOMAIN conv : ~IsResult(conv[i])})
=============================================================================
