---------------------------- MODULE UploadQueue ----------------------------
(***************************************************************************)
(* The spill-to-disk upload queue (hystersis-file-utils/src/queue.rs) and    *)
(* the startup recovery of what a former process left in its directory      *)
(* (hystersis-workspace/src/recovery.rs).  An artifact is written to a temp *)
(* file, beside it a sidecar that lets a later process find it again; a     *)
(* worker takes the items from a bounded channel and uploads each in a task *)
(* of its own, under a semaphore, with retries; an artifact the queue has   *)
(* no room for is uploaded inline, under a semaphore of permits by size.    *)
(*                                                                         *)
(* Callers, the worker, its tasks and the recovery run on several threads.  *)
(* An item is a file and whether it was handed over by a caller of this     *)
(* process or by the recovery.  One process life follows another.           *)
(***************************************************************************)
EXTENDS Integers, Sequences, FiniteSets

CONSTANTS
    Files,          \* the artifacts, each handed over at most once
    Offers,         \* bound: the sets of artifacts that are handed over in one behaviour
    Kind,           \* the function its caller uses: enqueue, bytes or blocking
    Path,           \* where it goes in cloud storage
    Addressed,      \* the paths named by a content hash
    Size,           \* its bytes
    MaxBytes,       \* max_queue_bytes, the disk budget
    Capacity,       \* CHANNEL_CAPACITY
    MaxConcurrent,  \* the worker's semaphore
    MaxAttempts,    \* UploadRetryPolicy.max_attempts
    Threshold,      \* CIRCUIT_BREAKER_THRESHOLD
    InlineTotal,    \* INLINE_FALLBACK_TOTAL_PERMITS
    RecoveryAwaited,    \* the recovery ends before the first call: the workspace server, not the shell
    MaxLives        \* bound: the processes that run one after the other

ASSUME QueueAssumption ==
    /\ Kind \in [Files -> {"enqueue", "bytes", "blocking"}]
    /\ Size \in [Files -> Nat \ {0}] /\ DOMAIN Path = Files
    /\ {MaxBytes, Capacity, MaxConcurrent, MaxAttempts, Threshold, InlineTotal, MaxLives}
         \subseteq Nat \ {0}
    /\ Offers \subseteq SUBSET Files /\ RecoveryAwaited \in BOOLEAN

VARIABLES
    phase,          \* where each item is
    task,           \* the local state of an item's upload
    channel,        \* the worker's channel
    worker,         \* check, cool, select, dispatch, drain, join, exited
    shutdown,       \* drain() has sent its signal
    draining,       \* the worker's flag for its tasks
    aborted,        \* drain() ran out of time
    fails,          \* consecutive_failures
    permits,        \* free permits of the worker's semaphore
    inFlight,       \* uploads_in_flight
    pending, pendingBytes, inflight,        \* UploadQueueStats
    inlineQ, inlineRun, inlineFree,         \* inline uploads: waiting, running; free permits
    reconcile, scan,    \* the recovery: todo, running, done; the sidecars it still has to see
    temp, sidecar,      \* the directory: none, full or torn; whether the sidecar exists
    old,            \* the files, and the recovered items, past max_age
    remote,         \* what cloud storage holds for each artifact
    fate,           \* history: new, refused, accepted, settled, or lost in a power loss
    lives           \* processes still to come

stats  == <<pending, pendingBytes, inflight>>
work   == <<channel, worker, shutdown, draining, aborted, fails>>
inline == <<inlineQ, inlineRun, inlineFree>>
disk   == <<temp, sidecar>>
recov  == <<reconcile, scan>>
vars   == <<phase, task, permits, inFlight, stats, work, inline, recov, disk, old, remote, fate, lives>>

Items  == Files \X BOOLEAN
Own(f) == <<f, FALSE>>
Rec(f) == <<f, TRUE>>

Calling   == {"budget", "sidecar", "count", "send"}
Uploading == {"start", "try", "backoff", "park", "reacquire"}
Ending    == {"finish", "unlink", "settle", "debit"}
Queued    == {"channel", "held"} \cup Uploading \cup Ending

NoTask == [attempts |-> 0, auth |-> FALSE, permit |-> FALSE, charge |-> 0, result |-> "none"]

HasSidecar(i) == i[2] \/ Kind[i[1]] \in {"bytes", "blocking"}
Dedups(f)     == Kind[f] # "blocking" /\ Path[f] \in Addressed
Expired(i)    == i \in old

\* The guard an item holds on its path is dropped with the item.
Unmarked(S) == inFlight \ {Path[i[1]] : i \in {j \in S : ~j[2] /\ Dedups(j[1])}}

InlinePermitsBySize(f) == Size[f]
InlinePermits(f) == IF Size[f] > InlineTotal THEN InlineTotal ELSE Size[f]

Init ==
    /\ phase = [i \in Items |-> "idle"] /\ task = [i \in Items |-> NoTask]
    /\ channel = <<>> /\ worker = "check" /\ shutdown = FALSE /\ draining = FALSE
    /\ aborted = FALSE /\ fails = 0 /\ permits = MaxConcurrent /\ inFlight = {}
    /\ pending = 0 /\ pendingBytes = 0 /\ inflight = 0
    /\ inlineQ = <<>> /\ inlineRun = {} /\ inlineFree = InlineTotal
    /\ reconcile = "todo" /\ scan = {}
    /\ temp = [f \in Files |-> "none"] /\ sidecar = [f \in Files |-> FALSE]
    /\ old = {} /\ remote = [f \in Files |-> "none"]
    /\ \E S \in Offers : fate = [f \in Files |-> IF f \in S THEN "new" ELSE "refused"]
    /\ lives = MaxLives - 1

At(i, p)     == phase[i] = p
GoTo(i, p)   == phase' = [phase EXCEPT ![i] = p]
SetTask(i, t) == task' = [task EXCEPT ![i] = t]

----------------------------------------------------------------------------
(* Callers: enqueue, enqueue_bytes_blocking, enqueue_blocking.             *)

\* The workspace server awaits the recovery before it takes calls; the shell starts it beside
\* its callers (spawn_startup_spill_reconcile), which may call before, during and after the scan.
MayCall == RecoveryAwaited => reconcile = "done"

\* An artifact the queue does not take: the caller is told, or uploads it inline.
RefuseKeepsMark(f, inlined) ==
    /\ GoTo(Own(f), "out") /\ fate' = [fate EXCEPT ![f] = "refused"]
    /\ inlineQ' = IF inlined THEN Append(inlineQ, f) ELSE inlineQ
    /\ UNCHANGED <<inFlight, task, permits, work, inlineRun, inlineFree, recov, old, remote, lives>>

Refuse(f, inlined) ==
    /\ GoTo(Own(f), "out") /\ fate' = [fate EXCEPT ![f] = "refused"]
    /\ inFlight' = Unmarked({Own(f)})
    /\ inlineQ' = IF inlined THEN Append(inlineQ, f) ELSE inlineQ
    /\ UNCHANGED <<task, permits, work, inlineRun, inlineFree, recov, old, remote, lives>>

\* mark_in_flight: the path of a content-addressed artifact is taken by one item.
MarkInFlight(f) ==
    /\ Dedups(f) => Path[f] \notin inFlight
    /\ inFlight' = IF Dedups(f) THEN inFlight \cup {Path[f]} ELSE inFlight

Begin(f) ==
    /\ At(Own(f), "idle") /\ fate[f] = "new" /\ MayCall
    /\ MarkInFlight(f)
    /\ temp' = [temp EXCEPT ![f] = "full"]
    /\ GoTo(Own(f), IF Kind[f] = "blocking" THEN "sidecar" ELSE "budget")
    /\ UNCHANGED <<task, permits, stats, work, inline, recov, sidecar, old, remote, fate, lives>>

Deduplicated(f) ==
    /\ At(Own(f), "idle") /\ fate[f] = "new" /\ MayCall
    /\ Dedups(f) /\ Path[f] \in inFlight
    /\ GoTo(Own(f), "out") /\ fate' = [fate EXCEPT ![f] = "refused"]
    /\ UNCHANGED <<task, permits, inFlight, stats, work, inline, recov, disk, old, remote, lives>>

\* The write of the temp file fails; what it wrote stays.
WriteFails(f) ==
    /\ At(Own(f), "idle") /\ fate[f] = "new" /\ MayCall
    /\ Dedups(f) => Path[f] \notin inFlight
    /\ \E t \in {"none", "torn"} : temp' = [temp EXCEPT ![f] = t]
    /\ GoTo(Own(f), "out") /\ fate' = [fate EXCEPT ![f] = "refused"]
    /\ UNCHANGED <<task, permits, inFlight, stats, work, inline, recov, sidecar, old, remote, lives>>

FileSize(f) == IF temp[f] = "none" THEN 0 ELSE Size[f]
OverBudget(bytes) == pendingBytes + bytes > MaxBytes

CheckBudget(f) ==
    /\ At(Own(f), "budget")
    /\ IF OverBudget(Size[f])
       THEN Refuse(f, TRUE) /\ temp' = [temp EXCEPT ![f] = "none"] /\ UNCHANGED <<stats, sidecar>>
       ELSE /\ GoTo(Own(f), IF HasSidecar(Own(f)) THEN "sidecar" ELSE "count")
            /\ UNCHANGED <<task, permits, inFlight, stats, work, inline, recov, disk, old, remote,
                           fate, lives>>

\* The sidecar appears at once, by a rename.
WriteSidecar(f) ==
    /\ At(Own(f), "sidecar")
    /\ \/ /\ sidecar' = [sidecar EXCEPT ![f] = TRUE] /\ GoTo(Own(f), "count")
          /\ UNCHANGED <<task, permits, inFlight, stats, work, inline, recov, temp, old, remote,
                         fate, lives>>
       \/ /\ Refuse(f, FALSE) /\ temp' = [temp EXCEPT ![f] = "none"] /\ UNCHANGED <<stats, sidecar>>

Count(f) ==
    /\ At(Own(f), "count") /\ GoTo(Own(f), "send")
    /\ pending' = pending + 1 /\ pendingBytes' = pendingBytes + Size[f]
    /\ UNCHANGED <<inflight, task, permits, inFlight, work, inline, recov, disk, old, remote, fate, lives>>

Open     == worker \in {"check", "cool", "select"} \/ (worker = "dispatch" /\ ~draining)
HasRoom  == Len(channel) < Capacity
RollbackCountOnly(f) == pending' = pending - 1 /\ UNCHANGED <<pendingBytes, inflight>>
RollbackBytesOnly(f) == pendingBytes' = pendingBytes - Size[f] /\ UNCHANGED <<pending, inflight>>
Rollback(f) == pending' = pending - 1 /\ pendingBytes' = pendingBytes - Size[f] /\ UNCHANGED inflight

\* Beside its caller the recovery may already have settled the pair.
Accept(f) ==
    /\ At(Own(f), "send") /\ Open /\ HasRoom
    /\ channel' = Append(channel, Own(f)) /\ GoTo(Own(f), "channel")
    /\ fate' = [fate EXCEPT ![f] = IF @ = "new" THEN "accepted" ELSE @]
    /\ UNCHANGED <<task, permits, inFlight, stats, worker, shutdown, draining, aborted, fails,
                   inline, recov, disk, old, remote, lives>>

\* A full channel: an inline upload, of the temp file itself when the caller waits for it.
\* A closed one: only enqueue uploads inline, the others report it.
Reject(f) ==
    /\ At(Own(f), "send") /\ ~(Open /\ HasRoom)
    /\ Rollback(f)
    /\ Refuse(f, Open \/ Kind[f] = "enqueue")
    /\ sidecar' = [sidecar EXCEPT ![f] = FALSE]
    /\ temp' = IF Open /\ Kind[f] = "blocking" THEN temp ELSE [temp EXCEPT ![f] = "none"]

(* The inline uploads: permits are granted in the order of the requests.   *)
InlineAcquire ==
    /\ inlineQ # <<>> /\ inlineFree >= InlinePermits(Head(inlineQ))
    /\ inlineRun' = inlineRun \cup {Head(inlineQ)}
    /\ inlineFree' = inlineFree - InlinePermits(Head(inlineQ)) /\ inlineQ' = Tail(inlineQ)
    /\ UNCHANGED <<phase, task, permits, inFlight, stats, work, recov, disk, old, remote, fate, lives>>

\* One attempt; the caller kept the bytes, or the temp file was left for this upload.
InlineDone(f) ==
    /\ f \in inlineRun
    /\ inlineRun' = inlineRun \ {f} /\ inlineFree' = inlineFree + InlinePermits(f)
    /\ temp' = IF Kind[f] = "blocking" THEN [temp EXCEPT ![f] = "none"] ELSE temp
    /\ \/ /\ Kind[f] = "blocking" => temp[f] # "none"
          /\ remote' = [remote EXCEPT ![f] = IF Kind[f] = "blocking" THEN temp[f] ELSE "full"]
       \/ UNCHANGED remote
    /\ UNCHANGED <<phase, task, permits, inFlight, stats, work, inlineQ, recov, sidecar, old, fate, lives>>

----------------------------------------------------------------------------
(* The worker: upload_worker, dispatch_item, circuit_breaker_cooldown.     *)

WorkerGoes(w) ==
    /\ worker' = w
    /\ UNCHANGED <<task, inFlight, stats, shutdown, aborted, inline, recov, disk, old, remote, fate, lives>>

WorkerCheck ==
    /\ worker = "check" /\ WorkerGoes(IF fails >= Threshold THEN "cool" ELSE "select")
    /\ UNCHANGED <<phase, permits, channel, draining, fails>>

WorkerCooled ==
    /\ worker = "cool" /\ WorkerGoes("select") /\ fails' = 0
    /\ UNCHANGED <<phase, permits, channel, draining>>

WorkerRecv ==
    /\ worker \in {"select", "drain"} /\ channel # <<>>
    /\ WorkerGoes("dispatch") /\ channel' = Tail(channel) /\ GoTo(Head(channel), "held")
    /\ UNCHANGED <<permits, draining, fails>>

\* The worker waits here for a permit and polls nothing else.
DispatchUnbounded(i) ==
    /\ worker = "dispatch" /\ At(i, "held")
    /\ permits' = permits - 1 /\ SetTask(i, [NoTask EXCEPT !.permit = TRUE])
    /\ GoTo(i, "start") /\ worker' = IF draining THEN "drain" ELSE "check"
    /\ UNCHANGED <<inFlight, stats, channel, shutdown, draining, aborted, fails, inline, recov, disk,
                   old, remote, fate, lives>>

Dispatch(i) ==
    /\ worker = "dispatch" /\ At(i, "held") /\ permits > 0
    /\ permits' = permits - 1 /\ SetTask(i, [NoTask EXCEPT !.permit = TRUE])
    /\ GoTo(i, "start") /\ worker' = IF draining THEN "drain" ELSE "check"
    /\ UNCHANGED <<inFlight, stats, channel, shutdown, draining, aborted, fails, inline, recov, disk,
                   old, remote, fate, lives>>

WorkerShutdown ==
    /\ worker \in {"select", "cool"} /\ shutdown
    /\ WorkerGoes("drain") /\ draining' = TRUE
    /\ UNCHANGED <<phase, permits, channel, fails>>

WorkerJoin ==
    /\ worker = "drain" /\ channel = <<>> /\ WorkerGoes("join")
    /\ UNCHANGED <<phase, permits, channel, draining, fails>>

WorkerExit ==
    /\ worker = "join" /\ \A i \in Items : phase[i] \notin Uploading \cup Ending
    /\ WorkerGoes("exited")
    /\ UNCHANGED <<phase, permits, channel, draining, fails>>

(* drain().                                                                *)
Drain ==
    /\ ~shutdown /\ shutdown' = TRUE
    /\ UNCHANGED <<phase, task, permits, inFlight, stats, channel, worker, draining, aborted, fails,
                   inline, recov, disk, old, remote, fate, lives>>

\* The items an abort drops: the tasks that wait, what the worker holds and the channel.
Dropped == {i \in Items : phase[i] \in {"channel", "held"} \cup Uploading}

\* Their files stay on disk.
AbortRemovesFiles(S) ==
    /\ temp' = [f \in Files |-> IF \E i \in S : i[1] = f THEN "none" ELSE temp[f]]
    /\ sidecar' = [f \in Files |-> sidecar[f] /\ \A i \in S : i[1] # f]
AbortFiles(S) == UNCHANGED disk

DrainTimeout ==
    /\ shutdown /\ worker # "exited"
    /\ aborted' = TRUE /\ worker' = "exited" /\ channel' = <<>>
    /\ phase' = [i \in Items |-> IF i \in Dropped THEN "out" ELSE phase[i]]
    /\ task' = [i \in Items |-> IF i \in Dropped THEN NoTask ELSE task[i]]
    /\ permits' = permits + Cardinality({i \in Dropped : task[i].permit})
    /\ inFlight' = Unmarked(Dropped)
    /\ AbortFiles(Dropped)
    /\ UNCHANGED <<stats, shutdown, draining, fails, inline, recov, old, remote, fate, lives>>

----------------------------------------------------------------------------
(* The task of one item: process_item and upload_with_retries.             *)

TaskOnly ==
    UNCHANGED <<inFlight, channel, worker, shutdown, draining, aborted, inline, recov, old, lives>>

Start(i) ==
    /\ At(i, "start")
    /\ inflight' = inflight + 1
    /\ IF Expired(i)
       THEN GoTo(i, "finish") /\ SetTask(i, [task[i] EXCEPT !.charge = FileSize(i[1]), !.result = "expired"])
       ELSE GoTo(i, "try") /\ SetTask(i, [task[i] EXCEPT !.charge = FileSize(i[1])])
    /\ TaskOnly /\ UNCHANGED <<permits, pending, pendingBytes, fails, disk, remote, fate>>

Ends(i, t, result) == GoTo(i, "finish") /\ SetTask(i, [t EXCEPT !.result = result])

\* The attempt counter is only compared with its maximum.
Attempted(i) == [task[i] EXCEPT !.attempts = IF @ < MaxAttempts THEN @ + 1 ELSE @]

WireSucceeds(i) ==
    /\ At(i, "try") /\ temp[i[1]] # "none"
    /\ Ends(i, Attempted(i), "ok") /\ remote' = [remote EXCEPT ![i[1]] = temp[i[1]]]
    /\ TaskOnly /\ UNCHANGED <<permits, stats, fails, disk, fate>>

WireRefused(i) ==
    /\ At(i, "try") /\ temp[i[1]] # "none"
    /\ Ends(i, Attempted(i), "terminal")
    /\ TaskOnly /\ UNCHANGED <<permits, stats, fails, disk, remote, fate>>

\* Also when the file is gone: the error of the open is retried.
WireFails(i) ==
    /\ At(i, "try")
    /\ IF Attempted(i).attempts >= MaxAttempts THEN Ends(i, Attempted(i), "exhausted")
       ELSE GoTo(i, "backoff") /\ SetTask(i, Attempted(i))
    /\ TaskOnly /\ UNCHANGED <<permits, stats, fails, disk, remote, fate>>

Backoff(i) ==
    /\ At(i, "backoff") /\ GoTo(i, "try")
    /\ TaskOnly /\ UNCHANGED <<task, permits, stats, fails, disk, remote, fate>>

\* The first 401 is retried at once with fresh credentials.
WireUnauthorized(i) ==
    /\ At(i, "try") /\ temp[i[1]] # "none" /\ ~task[i].auth
    /\ SetTask(i, [Attempted(i) EXCEPT !.auth = TRUE])
    /\ TaskOnly /\ UNCHANGED <<phase, permits, stats, fails, disk, remote, fate>>

\* ConcurrencyPermit::release: a parked item gives its permit back.
ReleaseNothing(i) == UNCHANGED permits /\ SetTask(i, Attempted(i))
ReleasePermit(i) ==
    /\ permits' = permits + 1 /\ SetTask(i, [Attempted(i) EXCEPT !.permit = FALSE])

\* The second 401: the item waits for credentials.
WireParks(i) ==
    /\ At(i, "try") /\ temp[i[1]] # "none" /\ task[i].auth
    /\ ReleasePermit(i) /\ GoTo(i, "park")
    /\ TaskOnly /\ UNCHANGED <<stats, fails, disk, remote, fate>>

\* A source of credentials that cannot wait: the item fails at once.
ParkRefused(i) ==
    /\ At(i, "park") /\ Ends(i, task[i], "exhausted")
    /\ TaskOnly /\ UNCHANGED <<permits, stats, fails, disk, remote, fate>>

ParkOutlivesMaxAge(i) ==
    /\ At(i, "park") /\ draining /\ Ends(i, task[i], "exhausted")
    /\ TaskOnly /\ UNCHANGED <<permits, stats, fails, disk, remote, fate>>

ParkGivesUp(i) ==
    /\ At(i, "park") /\ (draining \/ Expired(i)) /\ Ends(i, task[i], "exhausted")
    /\ TaskOnly /\ UNCHANGED <<permits, stats, fails, disk, remote, fate>>

ParkWakes(i) ==
    /\ At(i, "park") /\ ~draining /\ ~Expired(i) /\ GoTo(i, "reacquire")
    /\ TaskOnly /\ UNCHANGED <<task, permits, stats, fails, disk, remote, fate>>

ReacquireForgotten(i) ==
    /\ At(i, "reacquire") /\ GoTo(i, "try") /\ SetTask(i, [task[i] EXCEPT !.auth = FALSE])
    /\ TaskOnly /\ UNCHANGED <<permits, stats, fails, disk, remote, fate>>

Reacquire(i) ==
    /\ At(i, "reacquire") /\ permits > 0
    /\ permits' = permits - 1 /\ GoTo(i, "try")
    /\ SetTask(i, [task[i] EXCEPT !.permit = TRUE, !.auth = FALSE])
    /\ TaskOnly /\ UNCHANGED <<stats, fails, disk, remote, fate>>

\* From here to the end the task does not wait: an abort does not stop it.
Finish(i) ==
    /\ At(i, "finish")
    /\ fails' = CASE task[i].result = "ok" -> 0
                 [] task[i].result = "exhausted" -> IF fails < Threshold THEN fails + 1 ELSE fails
                 [] OTHER -> fails
    /\ temp' = [temp EXCEPT ![i[1]] = "none"]
    /\ fate' = [fate EXCEPT ![i[1]] = "settled"]
    /\ GoTo(i, IF HasSidecar(i) THEN "unlink" ELSE "settle")
    /\ TaskOnly /\ UNCHANGED <<task, permits, stats, sidecar, remote>>

Unlink(i) ==
    /\ At(i, "unlink") /\ sidecar' = [sidecar EXCEPT ![i[1]] = FALSE] /\ GoTo(i, "settle")
    /\ TaskOnly /\ UNCHANGED <<task, permits, stats, fails, temp, remote, fate>>

\* settle_pending, in its order.
Settle(i) ==
    /\ At(i, "settle") /\ inflight' = inflight - 1 /\ GoTo(i, "debit")
    /\ TaskOnly /\ UNCHANGED <<task, permits, pending, pendingBytes, fails, disk, remote, fate>>

\* The item is dropped with its guard and its permit.
Debit(i) ==
    /\ At(i, "debit")
    /\ pending' = pending - 1 /\ pendingBytes' = pendingBytes - task[i].charge
    /\ permits' = IF task[i].permit THEN permits + 1 ELSE permits
    /\ inFlight' = Unmarked({i})
    /\ GoTo(i, "out") /\ SetTask(i, NoTask)
    /\ UNCHANGED <<inflight, work, inline, recov, disk, old, remote, fate, lives>>

----------------------------------------------------------------------------
(* Restart: run_startup_recovery, enqueue_recovered, cleanup_orphans.      *)

\* The directory as the process finds it.
Scan ==
    /\ reconcile = "todo" /\ reconcile' = "running"
    /\ scan' = {f \in Files : sidecar[f]}
    /\ UNCHANGED <<phase, task, permits, inFlight, stats, work, inline, disk, old, remote, fate, lives>>

\* A pair that is not usable: no sidecar or no temp file any more, bytes that do not have
\* the recorded hash, or too old.
UnusableUnhashed(f) == ~sidecar[f] \/ temp[f] = "none" \/ Own(f) \in old
Unusable(f) == ~sidecar[f] \/ temp[f] \in {"none", "torn"} \/ Own(f) \in old

\* run_startup_recovery takes one pair after the other.
Verified == {f \in Files : At(Rec(f), "verified")}

RecoverDrops(f) ==
    /\ reconcile = "running" /\ Verified = {} /\ f \in scan /\ Unusable(f)
    /\ scan' = scan \ {f}
    /\ temp' = [temp EXCEPT ![f] = "none"] /\ sidecar' = [sidecar EXCEPT ![f] = FALSE]
    /\ fate' = [fate EXCEPT ![f] = "settled"]
    /\ UNCHANGED <<phase, task, permits, inFlight, stats, work, inline, reconcile, old, remote, lives>>

RecoverReads(f) ==
    /\ reconcile = "running" /\ Verified = {} /\ f \in scan /\ ~Unusable(f)
    /\ scan' = scan \ {f} /\ GoTo(Rec(f), "verified")
    /\ UNCHANGED <<task, permits, inFlight, stats, work, inline, reconcile, disk, old, remote, fate, lives>>

\* enqueue_recovered looks at the temp file again, for its size.
RecoverEnqueues(f) ==
    /\ f \in Verified /\ ~OverBudget(FileSize(f)) /\ Open /\ HasRoom
    /\ channel' = Append(channel, Rec(f)) /\ GoTo(Rec(f), "channel")
    /\ pending' = pending + 1 /\ pendingBytes' = pendingBytes + FileSize(f)
    /\ UNCHANGED <<task, permits, inFlight, inflight, worker, shutdown, draining, aborted, fails,
                   inline, recov, disk, old, remote, fate, lives>>

\* The pair is left for a later start.
RecoverLeaves(f) ==
    /\ f \in Verified /\ (OverBudget(FileSize(f)) \/ ~Open \/ ~HasRoom)
    /\ GoTo(Rec(f), "out")
    /\ UNCHANGED <<task, permits, inFlight, stats, work, inline, recov, disk, old, remote, fate, lives>>

\* cleanup_orphans, right after the scan.
Cleanup ==
    /\ reconcile = "running" /\ scan = {} /\ Verified = {} /\ reconcile' = "done"
    /\ temp' = [f \in Files |-> IF Own(f) \in old THEN "none" ELSE temp[f]]
    /\ sidecar' = [f \in Files |-> sidecar[f] /\ Own(f) \notin old]
    /\ fate' = [f \in Files |-> IF Own(f) \in old /\ fate[f] \in {"new", "accepted"} THEN "settled"
                                ELSE fate[f]]
    /\ UNCHANGED <<phase, task, permits, inFlight, stats, work, inline, scan, old, remote, lives>>

(* Time: a file gets old, between two processes too, and an item of the recovery later and by *)
(* its own clock.  The recovery, which starts with the process, and the deadline of a drain    *)
(* are short against max_age: nothing of this process gets old meanwhile.                      *)
Age(i) ==
    /\ i \notin old /\ ~shutdown
    /\ reconcile = "done" \/ (reconcile = "todo" /\ At(Own(i[1]), "idle"))
    /\ IF i[2] THEN At(i, "park") \/ At(i, "channel") ELSE temp[i[1]] # "none"
    /\ old' = old \cup {i, Own(i[1])}
    /\ UNCHANGED <<phase, task, permits, inFlight, stats, work, inline, recov, disk, remote, fate, lives>>

\* The process ends; the next one starts on the same directory.  A process that is killed leaves
\* its files as they are.  In a power loss a temp file, which is not synced, may be torn or gone,
\* and so may the sidecar, whose rename is not followed by a sync of the directory.
Crash(torn, gone, bare) ==
    /\ lives > 0 /\ lives' = lives - 1
    /\ temp' = [f \in Files |-> IF f \in gone THEN "none" ELSE IF f \in torn THEN "torn" ELSE temp[f]]
    /\ sidecar' = [f \in Files |-> sidecar[f] /\ f \notin bare]
    /\ phase' = [i \in Items |-> "idle"] /\ task' = [i \in Items |-> NoTask]
    /\ fate' = [f \in Files |-> IF phase[Own(f)] \in Calling THEN "refused"
                                ELSE IF fate[f] = "accepted" /\ f \in torn \cup gone \cup bare THEN "lost"
                                ELSE fate[f]]
    /\ channel' = <<>> /\ worker' = "check" /\ shutdown' = FALSE /\ draining' = FALSE
    /\ aborted' = FALSE /\ fails' = 0 /\ permits' = MaxConcurrent /\ inFlight' = {}
    /\ pending' = 0 /\ pendingBytes' = 0 /\ inflight' = 0
    /\ inlineQ' = <<>> /\ inlineRun' = {} /\ inlineFree' = InlineTotal
    /\ reconcile' = "todo" /\ scan' = {}
    /\ old' = {i \in old : ~i[2]}
    /\ UNCHANGED remote

----------------------------------------------------------------------------
Caller(f) == Begin(f) \/ Deduplicated(f) \/ WriteFails(f) \/ CheckBudget(f) \/ WriteSidecar(f)
                \/ Count(f) \/ Accept(f) \/ Reject(f)
Recovery(f) == RecoverDrops(f) \/ RecoverReads(f) \/ RecoverEnqueues(f) \/ RecoverLeaves(f)
Worker == WorkerCheck \/ WorkerCooled \/ WorkerRecv \/ WorkerShutdown \/ WorkerJoin \/ WorkerExit
Wire(i) == WireSucceeds(i) \/ WireRefused(i) \/ WireFails(i) \/ WireUnauthorized(i) \/ WireParks(i)
TaskOf(i) == Start(i) \/ Backoff(i) \/ ParkGivesUp(i) \/ Finish(i) \/ Unlink(i) \/ Settle(i) \/ Debit(i)

Next ==
    \/ \E f \in Files : Caller(f) \/ InlineDone(f) \/ Recovery(f)
    \/ \E i \in Items : Dispatch(i) \/ Wire(i) \/ TaskOf(i) \/ ParkRefused(i) \/ ParkWakes(i)
                          \/ Reacquire(i) \/ Age(i)
    \/ Worker \/ InlineAcquire \/ Drain \/ DrainTimeout \/ Scan \/ Cleanup
    \/ \E torn \in SUBSET {f \in Files : temp[f] = "full"}, bare \in SUBSET {f \in Files : sidecar[f]} :
         \E gone \in SUBSET {f \in Files \ torn : temp[f] # "none"} : Crash(torn, gone, bare)

Spec == Init /\ [][Next]_vars

\* Tasks and the worker are polled as long as they can run, the semaphores are fair, time
\* passes.  When credentials come back, when a process ends, when drain() is called or gives up
\* and whether storage answers a request, which has no timeout, is not assumed.
Fairness ==
    /\ WF_vars(InlineAcquire \/ \E f \in Files : Caller(f))
    /\ WF_vars(Scan \/ Cleanup \/ \E f \in Files : Recovery(f))
    /\ \A f \in Files : /\ WF_vars(\E i \in {Own(f), Rec(f)} : TaskOf(i))
                        /\ SF_vars(\E i \in {Own(f), Rec(f)} : Reacquire(i))
    /\ WF_vars(Worker) /\ SF_vars(\E i \in Items : Dispatch(i))
    /\ WF_vars(\E i \in Items : Age(i))

FairSpec == Spec /\ Fairness

----------------------------------------------------------------------------
Phases == {"idle", "verified", "out"} \cup Calling \cup Queued

\* Every variable has its type; the counters never go below zero (they are unsigned in the
\* code, where a fetch_sub too many would wrap).
TypeOK ==
    /\ phase \in [Items -> Phases]
    /\ task \in [Items -> [attempts : 0..MaxAttempts, auth : BOOLEAN, permit : BOOLEAN, charge : Nat,
                           result : {"none", "ok", "terminal", "exhausted", "expired"}]]
    /\ channel \in Seq(Items)
    /\ worker \in {"check", "cool", "select", "dispatch", "drain", "join", "exited"}
    /\ {shutdown, draining, aborted} \subseteq BOOLEAN /\ fails \in 0..Threshold
    /\ permits \in Nat /\ inFlight \subseteq Addressed
    /\ {pending, pendingBytes, inflight, inlineFree, lives} \subseteq Nat
    /\ inlineQ \in Seq(Files) /\ inlineRun \subseteq Files
    /\ reconcile \in {"todo", "running", "done"} /\ scan \subseteq Files
    /\ temp \in [Files -> {"none", "full", "torn"}] /\ sidecar \in [Files -> BOOLEAN]
    /\ old \subseteq Items /\ remote \in [Files -> {"none", "full", "torn"}]
    /\ fate \in [Files -> {"new", "refused", "accepted", "settled", "lost"}]

Live(i)    == phase[i] \in Queued
Charged(i) == phase[i] \in {"send"} \cup Queued
Processed(i) == phase[i] \in (Uploading \cup Ending) \ {"start", "debit"}

\* The bytes of some items, each byte by its item and its place in it.
BytesOf(S) == UNION {{i} \X (1..Size[i[1]]) : i \in S}

\* pending counts the items between enqueue and settlement: it is back at zero, and wait_idle
\* reports an idle queue, exactly when nothing is left, whatever was rejected, rolled back,
\* retried or parked; only an aborted drain leaves it behind.  inflight counts those being
\* processed, never more than pending at any instruction of settle_pending, even after an abort.
CountsExact ==
    /\ inflight <= pending
    /\ ~aborted => /\ pending = Cardinality({i \in Items : Charged(i)})
                   /\ inflight = Cardinality({i \in Items : Processed(i)})

\* pending_bytes is the bytes of the items that pending counts, in the process that awaits its
\* recovery: the disk budget they used is free again once they are settled or rolled back.
BytesExact == ~aborted => pendingBytes = Cardinality(BytesOf({i \in Items : Charged(i)}))

\* No permit of the worker's semaphore is lost or made up, and only an item that holds one
\* is on the wire.
PermitsExact ==
    /\ permits + Cardinality({i \in Items : task[i].permit}) = MaxConcurrent
    /\ \A i \in Items : phase[i] \in {"start", "try", "backoff"} => task[i].permit

\* A content-addressed path is marked exactly as long as the one item that marked it exists:
\* a mark that outlives its item would make every later upload of that content a duplicate.
DedupExact ==
    LET Holders(p) == {f \in Files : Dedups(f) /\ Path[f] = p /\ phase[Own(f)] \in Calling \cup Queued}
    IN \A p \in Addressed : Cardinality(Holders(p)) = IF p \in inFlight THEN 1 ELSE 0

\* An artifact the queue accepted with a sidecar, and that was neither uploaded nor given up, is
\* on disk as a pair with all its bytes: whatever ends the process, an aborted drain or a kill,
\* the next one finds it.  Only a power loss that damages the pair itself may lose it.
DurableAccepted ==
    \A f \in Files : fate[f] = "accepted" /\ HasSidecar(Own(f)) => sidecar[f] /\ temp[f] = "full"

\* Torn bytes are never uploaded, though the temp files are written without a sync.
UploadedIntact == \A f \in Files : remote[f] # "torn"

\* Storage, or the connection to it, ends every request some time.  The storage clients set no
\* request timeout: this is an assumption on the service, and a premise wherever it is needed.
StorageAnswers ==
    /\ \A i \in Items : []<>(phase[i] # "try")
    /\ \A f \in Files : []<>(f \notin inlineRun)

\* If storage answers, a shutdown ends: the worker exits without the help of drain's deadline,
\* even when every upload waits for credentials that never come back.
DrainFinishes == StorageAnswers => (shutdown ~> (worker = "exited" \/ ~shutdown))

\* If storage answers, an accepted item is settled, though its credentials stay refused.
AcceptedSettles ==
    StorageAnswers => \A f \in Files : (phase[Own(f)] = "channel") ~> (phase[Own(f)] \in {"out", "idle"})

\* If storage answers, the inline uploads get their permits, whatever the size of an artifact,
\* and end.
InlineFinishes == StorageAnswers => <>[](inlineQ = <<>> /\ inlineRun = {})

----------------------------------------------------------------------------
(* What the comments say and the shell, or a service that does not answer, refutes. *)

\* "It runs before the workspace registers with the server, so prior-life items drain before any
\* new turn hook can race against the queue" (recovery.rs:8): a pair on disk never has two queue
\* items, one of this process's caller and one of the recovery.
OneOwner == \A f \in Files : ~(phase[Own(f)] \in Calling \cup Queued /\ Live(Rec(f)))

\* "Total bytes of pending temp files on disk" (queue.rs:339): with nothing pending there are none.
IdleBytesZero == ~aborted /\ {i \in Items : Charged(i)} = {} => pendingBytes = 0

\* "items older than this are dropped to prevent unbounded growth" (queue.rs:164): an item past
\* max_age leaves the queue, at the latest when drain() is called.
OldDropped == \A i \in Items : (i \in old /\ Live(i)) ~> (~Live(i) \/ shutdown)
=============================================================================
