------------------------------ MODULE Sampler ------------------------------
(***************************************************************************)
(* The sampler (hystersis-sampler): an actor that takes commands from an    *)
(* unbounded channel and runs every request in a task of its own, which      *)
(* sends the request to the model, follows the stream of the answer and      *)
(* retries (actor/mod.rs, actor/state.rs, actor/request_task.rs, retry.rs,   *)
(* handle.rs).                                                              *)
(*                                                                         *)
(* The actor, the tasks and the callers run on several threads.  A task is  *)
(* polled from one await to the next: that is a step.  The model service    *)
(* and the errors it answers with are the environment.                      *)
(***************************************************************************)
EXTENDS Integers, Sequences

CONSTANTS
    Subs,           \* the submissions
    Ids,            \* the request ids
    Naming,         \* bound: the ways their callers name the submissions
    Cfg,            \* the configuration of each, its own or the actor's: max_retries and the
                    \* budget of doom-loop retries
    WithImages,     \* the submissions that have images
    RateLimit,      \* rate_limit_retry_threshold
    None            \* no submission

ASSUME SamplerAssumption ==
    /\ Naming \subseteq [Subs -> Ids] /\ Cfg \in [Subs -> [retries : Nat, doom : Nat]]
    /\ WithImages \subseteq Subs
    /\ RateLimit \in Nat \ {0} /\ None \notin Subs

VARIABLES
    mailbox,        \* the actor's commands
    actor,          \* run, closing
    active,         \* active_requests: the submission whose token is registered for an id
    onlyBefore,     \* RetryPolicy.retry_only_before_output
    open,           \* some handle is left
    pc,             \* where each submission is
    id,             \* its request id
    cancelled,      \* its token
    retries, doom,  \* retry_count, doom_retry_count
    output,         \* output_observed
    images,         \* the request still has images
    sent,           \* history: attempts begun
    terminals,      \* history: Completed and Failed events emitted
    caller          \* none, away (submit), waiting, answered (submit_and_collect), gone

actorVars == <<mailbox, actor, active, onlyBefore, open>>
taskVars  == <<retries, doom, output, images, sent>>
vars == <<actorVars, pc, id, cancelled, taskVars, terminals, caller>>

Running == {"start", "loop", "connect", "stream", "sleep"}
Errors  == {"auth", "image", "vetoed", "rate", "reset", "retryable", "other"}

Init ==
    /\ mailbox = <<>> /\ actor = "run" /\ active = [r \in Ids |-> None]
    /\ onlyBefore \in BOOLEAN /\ open = TRUE
    /\ pc = [s \in Subs |-> "none"] /\ id \in Naming
    /\ cancelled = [s \in Subs |-> FALSE]
    /\ retries = [s \in Subs |-> 0] /\ doom = [s \in Subs |-> 0]
    /\ output = [s \in Subs |-> FALSE] /\ images = [s \in Subs |-> s \in WithImages]
    /\ sent = [s \in Subs |-> 0] /\ terminals = [s \in Subs |-> 0]
    /\ caller = [s \in Subs |-> "none"]

----------------------------------------------------------------------------
(* Callers: submit, submit_and_collect, cancel, update_config.             *)

Send(command) ==
    /\ mailbox' = Append(mailbox, command)
    /\ UNCHANGED <<actor, active, onlyBefore, open>>

Submit(s, waits) ==
    /\ open /\ pc[s] = "none"
    /\ Send([op |-> "submit", sub |-> s])
    /\ pc' = [pc EXCEPT ![s] = "queued"]
    /\ caller' = [caller EXCEPT ![s] = IF waits THEN "waiting" ELSE "away"]
    /\ UNCHANGED <<id, cancelled, taskVars, terminals>>

\* cancel(), and the drop of submit_and_collect's future before and after the answer.
Cancel(s) ==
    /\ open /\ caller[s] \in {"away", "waiting", "answered"}
    /\ Send([op |-> "cancel", sub |-> s])
    /\ caller' = [caller EXCEPT ![s] = "gone"]
    /\ UNCHANGED <<pc, id, cancelled, taskVars, terminals>>

\* The last handle is dropped; whoever waits for an answer holds one.
DropHandles ==
    /\ open /\ \A s \in Subs : caller[s] \notin {"waiting", "answered"}
    /\ open' = FALSE
    /\ UNCHANGED <<mailbox, actor, active, onlyBefore, pc, id, cancelled, taskVars,
                   terminals, caller>>

----------------------------------------------------------------------------
(* The actor: run, handle_command.                                         *)

Took(op) == actor = "run" /\ mailbox # <<>> /\ Head(mailbox).op = op

Handled(a) ==
    /\ mailbox' = Tail(mailbox) /\ active' = a
    /\ UNCHANGED <<actor, onlyBefore, open, id, taskVars, terminals, caller>>

\* A request that has the same id is cancelled.
HandleSubmit ==
    /\ Took("submit")
    /\ LET s == Head(mailbox).sub IN
         /\ Handled([active EXCEPT ![id[s]] = s])
         /\ pc' = [pc EXCEPT ![s] = "start"]
         /\ cancelled' = [t \in Subs |-> cancelled[t] \/ t = active[id[s]]]

\* ActorState::cancel: an unknown id is ignored.
HandleCancelKeeps ==
    /\ Took("cancel")
    /\ Handled([active EXCEPT ![id[Head(mailbox).sub]] = None])
    /\ UNCHANGED <<pc, cancelled>>

HandleCancel ==
    /\ Took("cancel")
    /\ LET r == id[Head(mailbox).sub] IN
         /\ Handled([active EXCEPT ![r] = None])
         /\ cancelled' = [t \in Subs |-> cancelled[t] \/ t = active[r]]
    /\ UNCHANGED pc

\* The actor joins a task that returned: its id leaves the active set.
Join(s) ==
    /\ actor = "run" /\ pc[s] = "gone" /\ pc' = [pc EXCEPT ![s] = "joined"]
    /\ active' = [active EXCEPT ![id[s]] = None]
    /\ UNCHANGED <<mailbox, actor, onlyBefore, open, id, cancelled, taskVars,
                   terminals, caller>>

\* No handle and no command is left: the actor cancels what it knows and aborts its tasks.
Exit ==
    /\ actor = "run" /\ ~open /\ mailbox = <<>>
    /\ actor' = "closing" /\ active' = [r \in Ids |-> None]
    /\ cancelled' = [t \in Subs |-> cancelled[t] \/ \E r \in Ids : active[r] = t]
    /\ UNCHANGED <<mailbox, onlyBefore, open, pc, id, taskVars, terminals, caller>>

Abort(s) ==
    /\ actor = "closing" /\ pc[s] \in Running /\ pc' = [pc EXCEPT ![s] = "aborted"]
    /\ UNCHANGED <<actorVars, id, cancelled, taskVars, terminals, caller>>

----------------------------------------------------------------------------
(* A request's task: run_request_task.                                     *)

\* The last event and the answer to submit_and_collect; the task returns.
End(s) ==
    /\ pc' = [pc EXCEPT ![s] = "gone"]
    /\ terminals' = [terminals EXCEPT ![s] = @ + 1]
    /\ caller' = [caller EXCEPT ![s] = IF @ = "waiting" THEN "answered" ELSE @]

Continue(s, to) == pc' = [pc EXCEPT ![s] = to] /\ UNCHANGED <<terminals, caller>>
TaskOnly == UNCHANGED <<actorVars, id, cancelled>>

\* SamplingClient::new; with an invalid configuration the request fails.
Build(s) ==
    /\ pc[s] = "start" /\ (Continue(s, "loop") \/ End(s))
    /\ TaskOnly /\ UNCHANGED taskVars

\* The top of the loop: a cancelled request begins no attempt.
LoopUnchecked(s) ==
    /\ pc[s] = "loop"
    /\ Continue(s, "connect") /\ sent' = [sent EXCEPT ![s] = @ + 1]
    /\ TaskOnly /\ UNCHANGED <<retries, doom, output, images>>

Loop(s) ==
    /\ pc[s] = "loop"
    /\ IF cancelled[s] THEN End(s) /\ UNCHANGED sent
       ELSE Continue(s, "connect") /\ sent' = [sent EXCEPT ![s] = @ + 1]
    /\ TaskOnly /\ UNCHANGED <<retries, doom, output, images>>

EffectiveAlways(s, out) == Cfg[s].retries
EffectiveMaxRetries(s, out) == IF onlyBefore /\ out THEN 0 ELSE Cfg[s].retries

\* classify_error.  The three decisions that wait and try again differ in how long they wait,
\* and the first one in a client without HTTP/2.
ClassifyLate(err, count, max) ==
    CASE err = "auth" -> "emit"
      [] err # "auth" /\ max = 0 -> "fatal"
      [] max # 0 /\ err = "image" -> "strip"
      [] max # 0 /\ err = "rate" -> IF count + 1 >= max \/ count + 1 >= RateLimit THEN "fatal" ELSE "retry"
      [] max # 0 /\ err \in {"reset", "retryable"} -> IF count > max THEN "fatal" ELSE "retry"
      [] OTHER -> "fatal"

Classify(err, count, max) ==
    CASE err = "auth" -> "emit"
      [] err # "auth" /\ max = 0 -> "fatal"
      [] max # 0 /\ err = "image" -> "strip"
      [] max # 0 /\ err = "rate" -> IF count + 1 >= max \/ count + 1 >= RateLimit THEN "fatal" ELSE "retry"
      [] max # 0 /\ err \in {"reset", "retryable"} -> IF count + 1 >= max THEN "fatal" ELSE "retry"
      [] OTHER -> "fatal"

\* apply_retry_decision.  A connection that was reset on the body may be an oversized one: the
\* images go before the retry.  An image error with no image left is final.
Strips(s, decision) == decision = "strip" /\ images[s]

Decide(s, err, out) ==
    LET decision == Classify(err, retries[s], EffectiveMaxRetries(s, out)) IN
    /\ IF decision = "retry" \/ Strips(s, decision)
       THEN /\ retries' = [retries EXCEPT ![s] = @ + 1]
            /\ images' = [images EXCEPT ![s] = @ /\ err \notin {"image", "reset"}]
            /\ Continue(s, IF decision = "retry" THEN "sleep" ELSE "loop")
       ELSE End(s) /\ UNCHANGED <<retries, images>>
    /\ output' = [output EXCEPT ![s] = out]
    /\ TaskOnly /\ UNCHANGED <<doom, sent>>

\* sleep_or_cancel.
WakeGoesOn(s) ==
    /\ pc[s] = "sleep" /\ pc' = [pc EXCEPT ![s] = "loop"]
    /\ terminals' = [terminals EXCEPT ![s] = IF cancelled[s] THEN @ + 1 ELSE @]
    /\ TaskOnly /\ UNCHANGED <<taskVars, caller>>

WakeSleepsOn(s) ==
    /\ pc[s] = "sleep" /\ ~cancelled[s] /\ Continue(s, "loop")
    /\ TaskOnly /\ UNCHANGED taskVars

Wake(s) ==
    /\ pc[s] = "sleep" /\ (IF cancelled[s] THEN End(s) ELSE Continue(s, "loop"))
    /\ TaskOnly /\ UNCHANGED taskVars

\* The request is sent and the head of the answer awaited: the token is not looked at.
InitFails(s) ==
    /\ pc[s] = "connect"
    /\ \E err \in Errors : Decide(s, err, output[s])

Opens(s) ==
    /\ pc[s] = "connect" /\ Continue(s, "stream")
    /\ TaskOnly /\ UNCHANGED taskVars

(* drive_l2: at every poll the token comes first.                          *)
StreamCancelled(s) ==
    /\ pc[s] = "stream" /\ cancelled[s] /\ End(s)
    /\ TaskOnly /\ UNCHANGED taskVars

Observe(s) == output' = [output EXCEPT ![s] = TRUE]

Emits(s) ==
    /\ pc[s] = "stream" /\ ~cancelled[s] /\ ~output[s] /\ Observe(s)
    /\ TaskOnly /\ UNCHANGED <<pc, retries, doom, images, sent, terminals, caller>>

CompletesForwarding(s) ==
    /\ pc[s] = "stream" /\ ~cancelled[s] /\ Observe(s)
    /\ pc' = [pc EXCEPT ![s] = "gone"] /\ terminals' = [terminals EXCEPT ![s] = @ + 2]
    /\ caller' = [caller EXCEPT ![s] = IF @ = "waiting" THEN "answered" ELSE @]
    /\ TaskOnly /\ UNCHANGED <<retries, doom, images, sent>>

\* The event of the stream is held back until the loop accepts the answer.
Completes(s) ==
    /\ pc[s] = "stream" /\ ~cancelled[s] /\ Observe(s) /\ End(s)
    /\ TaskOnly /\ UNCHANGED <<retries, doom, images, sent>>

\* The answer ends but is empty (worth a retry) or was cut off (not).
CompletesUseless(s) ==
    /\ pc[s] = "stream" /\ ~cancelled[s]
    /\ \E err \in {"retryable", "other"} : Decide(s, err, TRUE)

\* A failure in the stream, or its loss.
StreamFails(s) ==
    /\ pc[s] = "stream" /\ ~cancelled[s]
    /\ \E err \in Errors : Decide(s, err, output[s])

\* No chunk, or none with content, for the idle timeout: from the start of the stream.
IdleOnceStarted(s) ==
    /\ pc[s] = "stream" /\ ~cancelled[s] /\ output[s]
    /\ Decide(s, "other", output[s])

IdleTimeout(s) ==
    /\ pc[s] = "stream" /\ ~cancelled[s]
    /\ Decide(s, "other", output[s])

\* The model repeats itself: in the middle of the stream or in what it answered.  When the
\* budget of these retries is spent the detection is off.
Armed(s) == doom[s] < Cfg[s].doom
MayResample(s, out) == ~(onlyBefore /\ out)

DoomLoop(s) ==
    /\ pc[s] = "stream" /\ ~cancelled[s] /\ Armed(s)
    /\ \E out \in {output[s], TRUE} :
         /\ IF MayResample(s, out)
            THEN Continue(s, "sleep") /\ doom' = [doom EXCEPT ![s] = @ + 1]
            ELSE End(s) /\ UNCHANGED doom
         /\ output' = [output EXCEPT ![s] = out]
    /\ TaskOnly /\ UNCHANGED <<retries, images, sent>>

----------------------------------------------------------------------------
Step(s)   == Build(s) \/ Loop(s) \/ Wake(s) \/ StreamCancelled(s) \/ IdleTimeout(s)
Answer(s) == InitFails(s) \/ Opens(s) \/ Emits(s) \/ Completes(s) \/ CompletesUseless(s)
                \/ StreamFails(s) \/ DoomLoop(s)
Actor == HandleSubmit \/ HandleCancel \/ Exit \/ \E s \in Subs : Join(s) \/ Abort(s)

Next ==
    \/ \E s \in Subs : Cancel(s) \/ Step(s) \/ Answer(s)
    \/ \E s \in Subs, waits \in BOOLEAN : Submit(s, waits)
    \/ Actor \/ DropHandles

Spec == Init /\ [][Next]_vars

\* The actor and the tasks are polled as long as they can run; a backoff passes, and a stream
\* that stops has its idle timeout (no answer is endless).  What the service does is not
\* assumed, and nothing bounds the wait for the head of an answer.
Fairness == WF_vars(Actor) /\ \A s \in Subs : WF_vars(Step(s))

FairSpec == Spec /\ Fairness

----------------------------------------------------------------------------
Commands == [op : {"submit", "cancel"}, sub : Subs]

\* Every variable has its type.
TypeOK ==
    /\ mailbox \in Seq(Commands) /\ actor \in {"run", "closing"} /\ active \in [Ids -> Subs \cup {None}]
    /\ onlyBefore \in BOOLEAN /\ open \in BOOLEAN
    /\ pc \in [Subs -> {"none", "queued", "gone", "joined", "aborted"} \cup Running]
    /\ id \in Naming /\ cancelled \in [Subs -> BOOLEAN]
    /\ retries \in [Subs -> Nat] /\ doom \in [Subs -> Nat]
    /\ output \in [Subs -> BOOLEAN] /\ images \in [Subs -> BOOLEAN]
    /\ sent \in [Subs -> Nat] /\ terminals \in [Subs -> 0..1]
    /\ caller \in [Subs -> {"none", "away", "waiting", "answered", "gone"}]

\* A request ends with exactly one Completed or Failed event, also when it is cancelled while it
\* waits to retry, and whoever waits in submit_and_collect has its answer by then; only a task
\* that the closing actor aborts ends without one.
OneTerminal ==
    \A s \in Subs :
      /\ terminals[s] = IF pc[s] \in {"gone", "joined"} THEN 1 ELSE 0
      /\ caller[s] = "waiting" => pc[s] \in {"queued"} \cup Running

\* The two budgets are kept, each by its own failures: stripping images is not stopped by the
\* budget of the retries and still cannot exceed it.  What the metrics report as attempts
\* (retry_count + doom_retry_count + 1) is what was sent.
BudgetsKept ==
    \A s \in Subs :
      /\ retries[s] <= Cfg[s].retries /\ doom[s] <= Cfg[s].doom
      /\ pc[s] \in {"connect", "stream"} => sent[s] = retries[s] + doom[s] + 1

\* With retry_only_before_output nothing is sent again once the caller saw output: not for a
\* failure in the stream, not without its images and not to leave a doom loop.
NoResendAfterOutput ==
    [][\A s \in Subs : onlyBefore /\ output[s] => sent'[s] = sent[s]]_vars

\* A cancelled request begins no other attempt, wherever the cancellation meets it.
NoAttemptAfterCancel == [][\A s \in Subs : cancelled[s] => sent'[s] = sent[s]]_vars

\* A request whose id nobody else uses can be found, and so cancelled, as long as it runs: it is
\* in the active set until it was cancelled or its task returned.
Alone(s) == \A t \in Subs \ {s} : id[t] # id[s]
Cancellable ==
    \A s \in Subs :
      Alone(s) /\ actor = "run" /\ pc[s] \in Running /\ ~cancelled[s] => active[id[s]] = s

\* A cancelled request ends, or waits for the head of an answer that never comes.
CancelEnds ==
    \A s \in Subs : cancelled[s] ~> pc[s] \in {"gone", "joined", "aborted", "connect"}

\* A request does not retry for ever: it ends, or waits for the head of an answer.
RetriesEnd ==
    \A s \in Subs : <>[](pc[s] \in {"none", "queued", "gone", "joined", "aborted", "connect"})
=============================================================================
