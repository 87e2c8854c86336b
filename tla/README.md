# Verification of the Hystersis agent runtime

TLA+ models of the parts of this repository that keep state across
interleavings, failures and restarts; TLC runs that check them on small
instances; TLAPS proofs of what matters most. Every definition is a translation
of Rust source; `PROJECT.json` (`map`) names the lines of each.

Run a check with `tlc -config TurnQueued.cfg TurnCollection` (module and
configuration of each run are in `PROJECT.json`), a proof with
`tlapm CircuitBreaker_proofs.tla`.

## 1. Inventory

The repository is a terminal coding agent. A *session* owns a conversation with
a model provider; a client (terminal interface, editor, leader process) sends it
prompts; a turn samples the model, runs the tools it calls and appends what
happened to the conversation, which is kept in a file and can be resumed.

| component | state | operations | talks to | what is hard |
|---|---|---|---|---|
| circuit breaker (`crates/common/hystersis-circuit-breaker`) | `state`, `opened_at`, `half_open_probes`, `probe_claimed_at`, `is_open_fast` (five atomics), a window under a mutex | `check`, `record`, `is_open`, `error_rate`, `force_half_open` | every request that shares it | no lock covers the atomics; a caller may never report; the clock races the cool-down |
| conversation repair (`hystersis-sampling-types/src/conversation.rs`, `hystersis-chat-state/src/compaction_utils.rs`) | none (pure passes over a history) | dedup, strip displaced results, answer unanswered calls, prune, replace the system message, strip images | chat-state actor, session load | the passes depend on each other; a damaged file can hold any sequence |
| chat-state actor (`hystersis-chat-state/src/actor`) | conversation, prompt index, turn capture, token estimates, ledgers | about fifty commands on one channel | session loop, turns, collectors, persistence | many senders on one channel; captures must survive every rewrite |
| session loop and prompt queue (`hystersis-shell/src/session/acp_session_impl`) | `pending_inputs`, `running_task`, `front_message_committed`, `session_turn_active` | prompt, send now, cancel, completion, take, repair, edits of the queue | client, turn tasks, chat-state actor | completions and cancels cross; a task is aborted at any await; answers and collection are two messages |
| session persistence and storage (`hystersis-shell/src/session/{persistence.rs,storage}`) | `chat_history.jsonl`, its copy before a strip, `updates.jsonl`, the summary file, the pending notifications | append, atomic rewrite, directory switch, strip, flush, load | chat-state actor, disk | memory is ahead of the disk; torn and failed writes; kill and resume; retries |
| compaction (`session/compaction.rs`, `hystersis-compaction-transcript`) | suppression and retry state, the running compaction | automatic, manual, fork | model, chat-state actor | snapshot, await, replace |
| sampler (`hystersis-sampler`) | the actor's map of active requests and their cancellation tokens; in each request's task the retry and doom-loop counters, whether output was seen, whether images are left | submit, submit and collect, cancel, retry, strip images, idle timeout, exit | provider, session | a cancel meets the task at any await; a timeout races a late answer; several budgets in one loop; the id of a request used twice |
| upload queue (`hystersis-file-utils/src/queue.rs`) and its startup recovery (`hystersis-workspace/src/recovery.rs`) | temp files and sidecars on disk, a bounded channel, the worker's semaphore, `UploadQueueStats`, the set of paths in flight, the permits of inline uploads | three ways to enqueue, dispatch, upload with retries, park for credentials, settle, drain, abort, recover, clean up | cloud storage, disk, a later process | counters kept by many threads without a lock; rollback of half an enqueue; kill between any two writes; an abort in the middle of an upload; a recovery beside new work |
| authentication (`hystersis-shell/src/auth`, `hystersis-auth`) | tokens, a lock file between processes | refresh, login, logout | provider, other processes | single flight in and between processes |
| workflow engine (`session/workflow`, `hystersis-workflow`) | run manifest with revisions, journal | start, step, resume | session, disk | crash between manifest and journal |
| hub SDK, leader election, active sessions, memory consolidation | reference counts, lock files, on-disk queues | see PROJECT.json | other processes | locks and restarts |
| tools, MCP clients, file watcher, hunk tracker, worktree pool | mostly the operating system's | I/O | turns | environment of a turn here |
| terminal interface (`hystersis-pager*`, `hystersis-ratatui-*`) | view state | rendering, input | session | out of a model checker's reach |

Vendored crates, the npm packages, the gateway workers and the generated code
are not part of the inventory's core and are not modelled.

The properties that make the modelled components correct:

* **breaker**: an open breaker is tried again, after its cool-down; probes are
  bounded, one caller takes a lost one over and it does not stop the recovery; the error
  rate is computed from an exact count; `is_open()` tells the truth at rest;
* **conversation**: what is sent is accepted by a provider; a repair invents and
  loses nothing it need not;
* **session**: the queue's front is what runs; every prompt is answered; the
  messages collected for a prompt are those of its turn; a running tool is not
  answered for; a prompt sent now loses no message;
* **persistence**: disk and channel together are the conversation in memory; what
  was written survives; a retried switch is recorded once; a strip can be undone;
  a success that was reported is on disk;
* **sampler**: a request ends once and its caller is answered; retries stay within
  their budgets and do not repeat output the caller saw; a cancelled request sends
  nothing more, and ends;
* **upload queue**: an accepted artifact is never lost by a kill or an aborted drain and
  never uploaded torn; counters, permits and marks are exact; if storage answers, a drain
  ends and items are settled; a pair on disk has one owner; nothing outlives its age.

Not all of them hold: section 3 says which a run or an observation refutes. The hazards, each with its line
and its property, are in `PROJECT.json`.

## 2. Modules

```
Conversation --- HistoryRepair --- MCHistoryRepair
     |   \
     |    ChatFile --------.
     |                      ChatDurability --- MCChatDurability
 ChatState ----------------'
     |
 TurnCollection --INSTANCE--> TurnCapture --INSTANCE--> TurnLog

 CircuitBreaker --- MCCircuitBreaker      Sampler --- MCSampler      UploadQueue --- MCUploadQueue
```

The proofs are in modules of their own, each an extension of the module it is about:

```
Conversation_proofs --- HistoryRepair_proofs
   |         |
   |   TurnCollection_proofs        TurnCapture_proofs     CircuitBreaker_proofs
   |
ChatDurability_proofs               UploadQueue_proofs     Sampler_proofs
```

**CircuitBreaker.** One action for each atomic load, store, read-modify-write and
each critical section of the window's mutex, and for each reading of the clock
whose value is used later. `pc` is where a caller is, `loc` the values it carries.
`half_open_probes` is a residue modulo `Usize`. Callers interleave between any two of
these steps, as the threads of the runtime that share a breaker do. `Abandon` is a caller
whose future is dropped, or whose outcome is one it does not report.

**Conversation.** Items with their kind, the ids an assistant message calls, the
id a result answers, the turn they come from and a tag for their text. The repair
passes are operators; the *run* of a message (the results that follow it at once)
is the notion all of them share. `ProviderValid` is the reference definition.

**HistoryRepair.** Builds every bounded history line by line, as a loader that
skips lines it cannot parse may, and states what the passes promise.

**ChatState.** The actor's handlers as functions from state and arguments to the
new state and the messages posted to persistence. The actor handles one command
at a time, so a handler is atomic; `TurnCollection` and `ChatDurability` both use
these definitions. Building a request repairs the conversation and may store the memory
reminder in it (`InjectReminder`): in the system message, or before everything when there
is none, between the snapshot and the rebase of the running capture. `Reminded` is the
body of a system message with a reminder; its former text is not told apart.

**TurnLog, TurnCapture.** What turn capture promises (a log of what was pushed
since the turn began) and the mechanism (an offset into the conversation, and a
snapshot of the tail before every rewrite). `Rewrite` stands for any pass that
saves the tail and moves the offset, with any new conversation.

**TurnCollection.** Client, session loop, turn task, chat-state actor, collector
and repair request, joined by the command channel (`cmds`), the completion
channel and the actor's mailbox. All but the actor are tasks of one thread, so a
step is what one of them does up to its next await. The loop's select is biased:
commands before completions. An aborted task (`doomed`) is dropped, and its guard
with it, before a newer task runs: `abort` schedules the old task before the
promoted one is spawned on the same `LocalSet`.
A turn may also end with an error or a rejected tool (`TurnFails`), go on after an
error that leaves calls unanswered (`TurnDispatchError`), or be prolonged by an
interjection at its end (`TurnInterject`).

**ChatFile, ChatDurability.** The file is its lines and whether the last one lacks
its newline; `AppendLine` can stop before, inside or at the end of a line,
`RewriteFile` (write and rename) happens or does not. The chat-state actor posts
what it changed; the persistence actor writes it later and only logs errors;
`Crash` may interrupt the write in progress and loses memory and channel; `Resume`
loads the file. `AppendOutcomes` includes *late*: the line is written and a later
step (fsync, the summary file) reports an error.

**Sampler.** The actor with its mailbox, and for each submission the task that runs
it: build the client, then a loop of send, stream, decide, sleep. `pc` is the await a
task is at. The token is looked at where the code looks at it: at the top of the loop,
at every poll of the stream and in the sleep, and not while the head of an answer is
awaited (`connect`). `Classify` is `classify_error`, over classes of errors instead of
errors; `Decide` is `apply_retry_decision` with the counters it changes. `id` is a
variable so that two submissions can have the same id.

**UploadQueue.** One process life after another on one directory. An item is a file
and who handed it over: a caller (`Own`) or the recovery (`Rec`). A caller is at one of
four points between its writes and its send, the worker at one of seven, the task of an
item at one of nine; each counter changes in the step where the code changes it.
`DrainTimeout` is the abort by `drain`'s deadline: it stops every task that waits, and
not one in `Ending`, which has no await left. `RecoveryAwaited` tells the two programs
apart that run this queue: the workspace server awaits the recovery before it takes calls
(handle.rs:4250-4265), the shell starts it in a task of its own (trace.rs:1206), so that
its callers may write, enqueue and remove a pair before, during and after the scan.
`Crash` ends a process at any point: in a kill the directory stays as it is; in a power
loss a temp file, which is not synced, may be torn (`torn`) or gone (`gone`), and a
sidecar may be gone (`bare`), because `write_atomic` syncs the file and not the directory
after its rename. A power loss that undoes a removal is not modelled. `fate` is a history
variable: what the queue promised for an artifact, and `lost` when a power loss damaged the
pair of an accepted one.

Next to some definitions stands the same definition with a plausible bug: `X_Y` for
`X`, or a name that tells the bug (`RollbackCountOnly` for `Rollback`, `ReleaseNothing` for
`ReleasePermit`). They are not used by any specification; `PROJECT.json` (`mutants`)
says which property each one breaks, so no property holds for want of anything to
catch.

## 3. Runs

| run | checks | result |
|---|---|---|
| BreakerConcurrent | `TypeOK`, `WindowCountExact`, `OneTakeover`, `LostProbeReplaced`, `OpenRetried`; 2 callers interleaved atomic by atomic, fair | hold |
| BreakerMirror | `MirrorAtRest`; the same interleavings | violated |
| RepairDistinct | `RepairedIsValid`, `RepairIsConservative`, `DanglingIsPredicted`; every history of up to 5 lines | hold |
| TurnOrdered | `TypeOK`, `TakeReturnsOwnTurn`, `CaptureSpec`; a client that waits for responses | hold |
| TurnQueued | `FrontIsRunning`, `SendNowKeepsMessage`, `NoFalseAnswer`, `RequestValid`, `EveryPromptCollected`; queued prompts, fair | hold |
| TurnRepairTake | `TakeReturnsOwnTurn`; a repair before the take | violated |
| ChatDurable | `ReloadIsFaithful`, `DurableSurvives`, `SwitchOnce`, `ClearedIsBehind`, `StripRecoverable`; five scenarios | hold |
| ChatPruneEarly | `PruneRespectsAge`; a compaction, then interjections | violated |
| ChatRepairFlush | `RepairReachesDisk`; the rewrite of a repair fails | violated |
| UploadSafe | `TypeOK`, `CountsExact`, `PermitsExact`, `DedupExact`, `DurableAccepted`, `UploadedIntact`; the shell: one or two artifacts, recovery beside the callers, drains, aborts and one restart | hold |
| UploadLive | `BytesExact`, `DrainFinishes`, `AcceptedSettles`, `InlineFinishes`; the workspace server: one process, fair, for the last three if storage answers | hold |
| SamplerRequests | `TypeOK`, `OneTerminal`, `BudgetsKept`, `Cancellable`, `NoResendAfterOutput`, `NoAttemptAfterCancel`, `CancelEnds`, `RetriesEnd`; two requests under one id or two, fair | hold |

### What the violated runs show

* **BreakerMirror.** A trip is four stores: state, clock, probe counter, mirror. Another
  caller's `check` may fall between any two. If it raises the breaker to half-open and lowers
  the mirror before the trip's last store, the mirror says open at rest until the next
  transition. What holds for every interleaving is in BreakerConcurrent: no mixture of these
  stores leaves the breaker open or half-open for ever.
* **TurnRepairTake.** `repair_history` takes the conversation out of the state before
  it calls `replace_conversation`, which therefore saves an empty tail. A repair
  between the end of a cancelled turn and its take loses the turn's messages.
* **ChatPruneEarly.** User messages that are no turns are counted as
  `total_user_items - prompt_index`, saturating. A compaction leaves few user items (one in
  the model, about four in the code) and the prompt index as it was; the difference is then
  0, and interjections age the results of the running turn until they lose their text, where
  mutations.rs:318 says "never". (A crash that loses the user messages of two turns has the
  same effect.) What the arithmetic does give is `ClearedIsBehind`: a cleared result has
  `HardClearAge` messages of the user behind it.
* **ChatRepairFlush.** A failed rewrite is only logged, and the flush barrier answers
  for pending notifications alone.

### Observations without a run of their own

Each of these is where a property above needs an assumption, or where what a comment or a
test says fails, and how to see it. The properties named are in the modules; a run does not
check them.

* *A probe before its cool-down* (`CoolDownRespected`, with BreakerMirror.cfg). A trip publishes
  `Open` before it stores `opened_at`, and a caller may have read `opened_at` before the trip:
  its compare-and-swap then succeeds on an old clock, and lets a probe in before the cool-down
  of this trip. The test at state_machine.rs:72 says that a breaker just opened refuses; it has
  one thread.
* *The counter on the way to half-open* (`ProbesZeroOnEntry`, with BreakerMirror.cfg). The same
  compare-and-swap may come before the trip zeroes `half_open_probes`, where breaker.rs:211 says
  "It is already 0". The slot the old probe seems to hold is then free only when its lease is
  over, which `LostProbeReplaced` shows it is.
* *A strip without a copy* (`StripRecoverable`, with `Budgets <- CopyFails`). When the copy fails
  the rewrite is refused, but memory is stripped already (mutations.rs:68): the next ordinary
  rewrite takes the image out of the file, where storage/mod.rs:1304-1306 says "the destructive
  rewrite runs only when the backup landed, so recoverability can never be silently forfeited".
  The copy is also made only once: with two strips in a session, the second image is in no copy.
* *Two owners of a pair* (`OneOwner`, with UploadSafe.cfg, in five steps). The scan of the
  shell's recovery finds a pair that a caller has just written, and enqueues it a second time;
  recovery.rs:8-10 says that what a former process left drains before any new turn, which is so
  in the workspace server only. The artifact is uploaded twice. UploadSafe shows that counts,
  permits, marks and the disk survive it, and `IdleBytesZero` that the bytes do not.
* *Bytes that are not given back* (`IdleBytesZero`, with UploadSafe.cfg). An
  item gives back the size its file has when its upload starts (queue.rs:1921), and the other
  item of the pair may have removed it. `pending_bytes` then stays high, with nothing pending,
  and the disk budget low until the process ends.
* *A service that does not answer* (`OldDropped`, with UploadLive.cfg). `max_age` is looked at
  when an upload starts and while it waits for credentials (queue.rs:1925, 2103, 2141). The
  storage clients on this path have no request timeout (trace.rs:1252-1257, storage_client.rs:1203
  and 1327), so a request that is never answered keeps its item, its permit and its bytes for
  ever, where queue.rs:164 says that older items "are dropped to prevent unbounded growth".
* *A take behind a queued prompt* (TurnOrdered with `Pipelined = TRUE`). Answering a
  prompt and promoting the next one are one step of the loop; the collector can ask only
  after the answer. The next turn may begin its capture, which replaces the old one,
  before the take is handled: the collector is given nothing, or the other turn's
  messages.
* *Parked items at a shutdown.* A parked item that sees the draining flag counts as
  failed and its pair is deleted, while the items an abort drops keep theirs
  (`ParkGivesUp`, `AbortFiles`).
* *An id used twice.* The join of a superseded task removes the entry of its successor
  (actor/mod.rs:71), which can then not be cancelled; `Cancellable` therefore speaks of
  ids used once.
* *The head of an answer.* The wait for it is not raced with the token
  (request_task.rs:542): `CancelEnds` and `RetriesEnd` allow a request to stay there.
* *Rate limits.* The comment on `classify_error` says the threshold caps consecutive
  429 retries; the counter it is compared with counts all retries.
* *Repeated ids in one message.* A message that calls one id twice is given two
  synthetic answers by a repair and loses one in the next, so "idempotent"
  (compaction_utils.rs:1125) needs distinct ids, which is what `DistinctCalls` gives.
* *Resume* puts the unrepaired history back after `ChatState::new` repaired its own;
  `RequestValid` is not affected, since every request repairs first.

### Bounds, and why they are enough

* *Breaker*: 2 callers, a clock up to 2, a cool-down of 1, one probe slot, a window of one
  entry that trips at one sample. Every pair of transitions can race at every pair of atomics, a
  lease can run out while its owner is alive or gone, the window overflows and expires. Three
  callers are needed for none of the violations; the theorems cover any number of callers, and
  `WindowCount` windows of any length.
* *Repair*: five lines hold a call, a displaced, a duplicated and a missing result
  around another message; ids 1 and 2 in either order.
* *Turns*: two prompts, two samples each (the first may call one or two tools).
  `Scenarios` are sets of operations that may each happen once. TurnOrdered: a cancel, a
  change of the system prompt, a compaction and an interjection; or an error, a
  compaction and a memory reminder. TurnQueued: a cancel and a prompt sent now; a cancel and a repair; an
  error. A third prompt
  only waits. The properties of takes need two turns, those of promotion one
  queued prompt. Pruning needs three turns and never fires in these runs;
  ChatDurable and ChatPruneEarly cover it.
* *Chat file*: `Budgets` says how often each operation may happen in a scenario:
  two turns with a strip, a failed write and a crash; two crashes around a strip;
  three attempts at a directory switch with two failures, a crash and a compaction;
  three turns with an interjection, a compaction and a crash; a memory reminder whose rewrite
  fails or is interrupted. `HardClearAge` is 1, so that results get old. ChatPruneEarly has a
  second interjection and no crash.
* *Upload queue*: three artifacts, of which UploadSafe hands over one or two in a behaviour:
  two with the same content-addressed path, through `enqueue_bytes_blocking` and `enqueue`, or one
  through `enqueue_blocking` that is larger than all inline permits and as large as the budget of
  3. Channel and semaphore have one place, so that one item fills either and the second meets
  the limit; a breaker threshold of 1. UploadSafe has two attempts and two processes, and
  the recovery may start before, during or after the callers' work, so the behaviours of a server
  that awaits it are among its own; an artifact has a caller's and a recovery's item at once.
  UploadLive has two artifacts that have sidecars (one of them the large one), one attempt, one
  process and an awaited recovery. Files do not get old during a scan or a drain, which are
  short against `max_age`.
* *Sampler*: two requests, one with images, three retries and one doom-loop retry, one
  with no budget at all, under one id or two; a rate-limit threshold of 2, below the
  retries, so that both limits are met. Interference between requests is through the
  actor's map only, and takes two.

Runs that end because their budgets are used up do not check for deadlock; the
breaker's runs do, and none of their states is stuck.

### Fairness

* *Breaker* (`FairSpec`): a caller inside `check` or `record` goes on (it never
  blocks), time passes, requests keep arriving. Nothing is assumed of how a
  request ends: a probe may be held or lost forever.
* *Turns* (`FairSpec`): the loop, the running turn, the actor, the repair task and
  each collector go on when they can: they are tasks of a fair executor. That
  the turn goes on includes that the model and the tools answer, which is an assumption on
  them: the code bounds a silent stream (the sampler's idle timeout), and not the wait for
  the head of an answer (see the observations). `EveryPromptCollected` is about prompts whose
  turns are not stuck there. The client need not do anything.

* *Upload queue* (`FairSpec`): callers, recovery, worker and tasks go on when they can
  (they are tasks of a fair executor) and time passes. Waiting for a permit is strongly
  fair, since tokio's semaphores serve their queue in order. Nothing is assumed of when
  credentials come back, of crashes, of whether `drain` is called or gives up, or of
  storage: a request on the wire (`Wire`) or of an inline upload (`InlineDone`) may stay
  unanswered, for the storage clients set no timeout. `StorageAnswers`, that no request
  hangs for ever, is therefore a premise of `DrainFinishes`, `AcceptedSettles` and
  `InlineFinishes`: they say that the queue itself does not get stuck. When a request
  hangs, `drain`'s deadline is what ends a shutdown, the item is never settled (see the
  observations), and an inline upload that holds all permits stops those behind it.
* *Sampler* (`FairSpec`): the actor and the tasks are polled; a backoff passes and a
  stream that stops has its idle timeout. The service need not answer.

With the mailbox in order, either of the two checks of `session_turn_active`, that of
the request or that of the actor, is enough for `NoFalseAnswer` in this model;
the flag itself is not dispensable (the mutant `TurnStart_NoGuard`).

## 4. Proofs

TLAPS proves, for every value of the constants:

| theorem | says |
|---|---|
| `CircuitBreaker_proofs!TypeCorrect` | types; clocks are never ahead of time; counters stay in range, for any callers, interleaved in any way |
| `CircuitBreaker_proofs!WindowCount` | `WindowCountExact`: the count of failures kept beside the window is that of its entries, for any interleaving |
| `CircuitBreaker_proofs!TakeoverExclusive` | `OneTakeover`: a claim that is taken over is a full lease old, for any callers and interleaving |
| `HistoryRepair_proofs!RepairGivesValid` | `RepairedIsValid` for histories of any length in which no message calls an id twice |
| `HistoryRepair_proofs!RepairConserves` | `RepairIsConservative` for histories of any length |
| `HistoryRepair_proofs!DanglingPredicted` | `DanglingIsPredicted` for histories of any length |
| `TurnCapture_proofs!TypeCorrect` | the capture's offset is inside the conversation (what `turn_tail` asserts) |
| `TurnCapture_proofs!CaptureImplementsLog` | TurnCapture implements TurnLog |
| `TurnCollection_proofs!FrontRuns` | `FrontIsRunning` |
| `TurnCollection_proofs!SendNowKeeps` | `SendNowKeepsMessage` |
| `TurnCollection_proofs!SessionTypes` | `TypeOK` of the session |
| `TurnCollection_proofs!SessionImplementsCapture` | `CaptureSpec`: without repair requests the session implements TurnCapture |
| `TurnCollection_proofs!NoCallAnsweredFalsely` | `NoFalseAnswer` |
| `TurnCollection_proofs!RequestsAreValid` | `RequestValid` |
| `TurnCollection_proofs!TakesAreOwn` | `TakeReturnsOwnTurn`, for a client that waits for each answer, without repair requests |
| `Sampler_proofs!TypeCorrect` | types, for any number of requests |
| `Sampler_proofs!EveryRequestEndsOnce` | one terminal event for each request, and an answer for whoever waits |
| `Sampler_proofs!RetriesAreBounded` | both budgets are kept and the attempts reported are those sent |
| `Sampler_proofs!RunningIsCancellable` | a running request with an id of its own is in the actor's map |
| `Sampler_proofs!OutputIsNotRepeated` | with `retry_only_before_output`, nothing is sent again after output |
| `Sampler_proofs!CancelledStaysSilent` | a cancelled request begins no attempt |
| `ChatDurability_proofs!ReloadFaithful` | `ReloadIsFaithful`: file and channel together are exactly the conversation in memory while no write is lost |
| `ChatDurability_proofs!DurableKept` | `DurableSurvives`: what was written without an error is what is read, less items of failed writes |
| `ChatDurability_proofs!SwitchRecordedOnce` | `SwitchOnce`: a retried switch is recorded once, with one text |
| `ChatDurability_proofs!ClearedStaysBehind` | `ClearedIsBehind`, through compactions, repairs, reminders, failed writes, crashes and resumes |
| `ChatDurability_proofs!StripUndoable` | `StripRecoverable`, with one strip in a session and a copy that can be made |
| `ChatDurability_proofs!DurabilityInvariant` | the invariant of memory, channel and file that the others rest on |
| `UploadQueue_proofs!AcceptedIsDurable` | an accepted artifact with a sidecar is a pair on disk until it is settled, unless a power loss damages the pair; for either program |
| `UploadQueue_proofs!UploadsAreIntact` | torn bytes are never uploaded |
| `UploadQueue_proofs!TypeCorrect` | `TypeOK` of the upload queue: no unsigned counter is taken below zero |
| `UploadQueue_proofs!AccountingIsExact` | `CountsExact`, for either program |
| `UploadQueue_proofs!BytesAreExact` | `BytesExact`, where the recovery is awaited |
| `UploadQueue_proofs!PermitsAreExact` | `PermitsExact` |
| `UploadQueue_proofs!MarksAreExact` | `DedupExact` |

*Breaker.* The assumption is `ConstantsAssumption` (evaluated by TLC in the runs); no theorem
assumes anything of the interleaving. The window is under a mutex, so `WindowCount` is about
what a critical section does to it; its lemmas say how the number of failed entries changes
when an entry is appended and when old ones are cut off at the front. `TakeoverExclusive`
rests on `ReadExpired`: a caller that is about to exchange the claim read one whose lease was
over. Its compare-and-swap succeeds only while the claim is still that one, so what it
replaces is that old, and whoever read the same claim finds another one. Nothing is
proved of mirror, probe counter and cool-down: between threads they are what BreakerMirror and
the observations show.

*Repair passes.* `Conversation_proofs` says what the passes do to a conversation of any
length. A pass builds its result from pieces (`Keep`: each item or nothing;
`RepairDangling`: each item and the answers behind it), so the first lemmas are about
flattening: where the pieces end up (`FlattenParts`, `KeepPicks`, `RepairBlocks`). The
next ones follow runs through a pass: removing results leaves every message in place, so
each position stays in the run of the same message (`KeepRuns`), and answers are added at
the end of a run only, so they are in it (`RepairRuns`). From these:
after the dedup no two results of a run answer one call (`AnsweredOnce`), after the strip
every result is in the run of its call (`Placed`), and a conversation with both has
exactly one answer for each call once the missing ones are added (`RepairedValid`).
`RepairGivesValid` assumes `DistinctIds`, which the observation on repeated ids above shows
to be needed; `RepairConserves` and `DanglingPredicted` assume nothing. In HistoryRepair the
state is the history itself, so the invariant is its type and the theorems are the lemmas.

*Turn capture.* `TypeOK` is inductive. The refinement maps the log to `Captured`, what
a take would answer now: a push appends to it because the offset is inside the
conversation, and a rewrite leaves it alone because what leaves the tail enters the
snapshot.

*Session.* The assumption is `CollectionAssumption`: any number of prompts and samples, any
scenarios, pipelined or not. The invariants build on each other:

* `LoopInv` gives `FrontIsRunning`. It adds that a task which is not done is the running
  prompt's (`Owned`), that the flag `session_turn_active` is set while a turn runs past its
  start (`Guarded`), and what a turn's record may look like at each point (`Shape`: calls are
  open only at `tools`, and are those of the current reply).
* `CommitInv` gives `SendNowKeepsMessage`: a committed front has its message in the mailbox
  or in the log. `MailOK` and the lemma `Posts` say which messages a step may post.
* `StateOK`, `OnceInv` (a prompt that waits is in one place, on its way to the loop or in the
  queue) and `IndexInv` (the prompt index and the increments on their way are no more
  than the prompts started) give `TypeOK`. This proof found that `AllItems`, the set of items
  a conversation may hold, did not have the results whose text the retained prune had cleared;
  with two prompts nothing gets old enough to show it, and TLC agrees with three.
* `SessionImplementsCapture` shows each step of the session to be a step of TurnCapture or a
  stutter, with the conversation's operations as its rewrites. It assumes `NoRepairs`
  (no scenario has a repair): `repair_history` does not save the tail, which is what
  TurnRepairTake shows, so the statement is false with repairs. With `CaptureImplementsLog` the
  whole session then keeps the log of a turn.
* `FreshInv` and `OpenInv` give `NoFalseAnswer`. The ids of replies still to come are mentioned
  nowhere; while a call's tool runs, either the call is not in the conversation yet or
  nothing that repairs it is in the mailbox. The client's repair is kept away by the flag.
* `PlacedInv` gives `RequestValid`. Every result in the conversation is in the run of its call
  (`Placed`), and so will be every result in the mailbox and of every tool that runs when the
  messages before it have been applied (`Comes`): its call is pushed before it, or ends
  the conversation already, and nothing in between closes the run. A memory reminder put before
  everything moves each run by one place and closes none (`PrependPlaced`, `PrependValid`). This is where the order of
  the mailbox matters, including the results a send-now posts for a turn it has aborted.
  A request is then valid because `Integrity` dedups and fills in, and does not strip.
* `OwnInv` gives `TakeReturnsOwnTurn`. It assumes `~Pipelined` and `NoRepairs`, and both are
  needed: without the one it fails as the observation on a queued prompt says, without the
  other as TurnRepairTake shows. A client that waits has one current prompt at a time
  (`Solo`), and what is captured is what the actor has logged for it (`CaptureInv`), a
  relation between the capture and the whole turn. For a push to keep it, the capture must
  run when the actor comes to the push (`PushesInv`, and `RunInv` for pushes still to
  come); for a begin to keep it, nothing of the turn may be logged yet (`BeginsInv`, `NewInv`);
  and nothing of a turn may be behind its take (`SentTakes`), which holds because the loop
  waits for the answer and the prompt's turn is over when its collector asks. Rewrites
  of the conversation leave `TurnMessages` alone (`RebasedSame`), and the prune that a user
  message causes leaves that message alone, which is all of the turn that can be behind the
  new offset (`PushUserCaptured`).

*Sampler.* The assumption is `SamplerAssumption`. The inductive invariant `Inv` adds to
the properties: `MailboxInv` (a submission is in the mailbox at most once, and only
while it is queued, so it is started once), `HandleInv` (a handle is left as long as
somebody waits, so the actor does not exit under them), `CountInv` (attempts against the
counters at every point of the loop, not only on the wire; a request that still has
images has a retry in hand, so that stripping them cannot exceed the budget) and `OutputInv` (a request
that saw output under `retry_only_before_output` is not on the way to another attempt,
which is what makes the action property hold).

*Chat file.* The assumption is `DurabilityAssumption`: any budgets, any `HardClearAge`.
The inductive invariant `DurInv` has these parts besides the types (`TypeInv`):

* `ChannelInv`: a switch is the last message of the channel and the actor waits for it, so
  nothing is posted behind a switch whose fate is open; an append posts one item.
* `FaithInv`: the property, strengthened to hold also when a write was lost and a
  rewrite is still on its way (`HasRewrite`). Without this the step that writes the rewrite, and
  so clears `lost`, cannot be shown to restore the equality. `Replay` is what the file holds
  when the posted messages are applied; the lemmas say how it changes when a message is
  posted (at the end) and when one is written (at the front). Each command posts exactly
  the change it made (`Posts`), which for a user message is a repair, a push and a prune, in
  this order.
* `SwitchInv` and `KeptInv`: file, memory and every rewrite on its way have at most one switch
  and the same one, and a switch in memory is in the file and in those rewrites. The second
  is why a retry finds it on file and takes its text. The passes never touch
  a user item (lemmas on `Keep` and the repair), so a rewrite keeps the switch unless a compaction
  drops it, from memory first.
* `DurableSurvives` is inductive with these: a torn line costs the line it tears, because the
  next append starts a new one.

`ClearedStaysBehind` follows items through the passes. `Behind` is the property of one
conversation; `BehindInv` has it for memory, for what the file holds, and for every rewrite on its
way (`Fine`), because a resume takes either. A pass `Follows` its input when each item of
its output is an item of the input or new, in the same order, with every user message kept and no
text cleared but where enough user messages are behind it: then nothing has fewer
turns behind it afterwards (`UsersFollow`). The repairs, the prune, the strip and the new system
head do; the compaction keeps no result at all, and appends, torn ones too, only put more behind.
The arithmetic of the prune matters in one place: its threshold is at least `HardClearAge`
whatever the prompt index is, because the correction saturates at 0 (`ClearAge_Wraps` does not).

`StripUndoable` follows one strip. `StripInv` says that an image is of a turn that has begun
(`Known`), and that the session is in one of two states: a strip waits at some place of the
channel (`Waiting`), where nothing before it is stripped and nothing from it on has an image
that was stripped; or none does (`Settled`), and an image whose stripped form is anywhere is in
the copy, or is nowhere any more because it never was in the file. Writing the strip, or a crash
around it, leads from the first state to the second. The hypothesis is that no budget has two
strips or a failed copy: the copy is made once, so what a second strip removes is not in it, and
after a failed copy the next rewrite removes the image all the same (see the observations).

*Upload queue.* The assumption is `QueueAssumption`, with any artifacts, sizes, limits and
number of processes, and with the recovery awaited or not. `AcceptedIsDurable` and
`UploadsAreIntact` need each other: in the shell a pair has two items, and one may remove what
the other uploads, but only after it has settled the artifact, and whatever an item finds on disk
is whole because the recovery looks at the hash of what a power loss may have torn. `Inv` is
`Shape` (the types these arguments need), `ChannelInv` (the channel holds no item twice, and
only items whose phase says so) and for each file `FileInv`: `FreshInv` (what is not begun has
nothing), `CallingInv` (unless the recovery has settled its artifact, a caller at work has its
temp file whole and its sidecar in time), `OwnerInv` (the recovery takes an artifact once),
`AwaitInv` (what is more where the recovery is awaited), `InlineInv` (an inline upload is of an
artifact the queue refused), `DiskInv` (an accepted pair is on disk) and `ItemInv` (no live item
has a torn file; a pair is removed only once its artifact is settled or refused).

*Upload accounting.* The counters are compared with the cardinalities of sets of items
(for the bytes, of the set of pairs of an item and a place in it, `BytesOf`), so a step's
proof is which items enter or leave which set, and the counter follows. An aborted drain drops
items and leaves their charges behind; the invariant therefore keeps an inequality then,
which is what the unsigned counters need, and the equality otherwise. `CountInv` assumes
nothing of the recovery. `BytesInv` does: what an item gives back is the size its file has
when its upload starts, which is what was charged when nobody else owns the pair
(`ChargeOK`). Where somebody does it is that or 0, so the counter only covers the items that
will still take their bytes off it (`OwedItems`): it does not go below zero (`TypeCorrect`),
and no more can be said.

Only model-checked:

* every liveness property (`LostProbeReplaced`, `OpenRetried`, `EveryPromptCollected`, `DrainFinishes`,
  `AcceptedSettles`, `InlineFinishes`, `CancelEnds`, `RetriesEnd`): out of the prover's reach.

Every invariant and every action property of a passing run is stated by a theorem.

The library's induction theorems take an operator as a parameter, which the installed
provers cannot instantiate. `SetInduction` in `Conversation_proofs` is what the proofs here
use instead: a set of numbers that has 0 and with each number the next one has all of them.
Facts about all prefixes of a sequence are put as membership in such a set.

## 5. What is left out, and why

* Breaker: the disabled mode, observers, `force_half_open`; reading `is_open` changes
  nothing and is part of a property.
* Chat-state: token estimates, usage ledgers, snapshots, credentials, harness traces;
  reasoning items behave as assistant messages without calls.
* Session: edit holds, combined prompts, synthetic wakes, the goal loop, subagents,
  rewound cancels.
* Storage: `updates.jsonl` and its merging, the summary file beyond the prompt
  index, remote copies.
* Sampler: updates and queries of its configuration while it runs, wire formats and the
  transformation of streams, panics of a task.
* Upload queue: `enqueue_file`, `enqueue_file_blocking` and `enqueue_file_reference` (files
  the queue does not own), the purge of spilled items, several queues or processes on one
  directory at a time, panics.
* Authentication, compaction, the workflow engine and the other components that
  `PROJECT.json` lists as not modelled, each with its reason: the first three are
  the next steps of the plan, the rest is mostly I/O or rendering.
* Tools, model and disk are environment: their outcomes are choices.

## 6. Plan

Done: the breaker, the repair passes, the turn's life and its collection, the
conversation's file, the sampler, the upload queue and its recovery. Next, in this order:

1. **Compaction**: the flow around the model call (snapshot, await, replace), the manual
   command that runs beside the loop, suppression after failures; property: nothing
   pushed during the call is lost.
2. **Rewind and rewound cancels** with `updates.jsonl` as a second file; property: a
   resume does not bring back what was rewound.
3. **Model and mode switches**: read-modify-write of the conversation across awaits.
4. **Authentication**: single-flight refresh and the lock between processes.
5. **Workflow manifest** revisions and journal on resume.
