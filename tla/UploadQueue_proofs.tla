------------------------- MODULE UploadQueue_proofs -------------------------
(***************************************************************************)
(* Proofs about the upload queue, for any artifacts, bounds and number of    *)
(* processes, whether or not the recovery is awaited: an accepted artifact   *)
(* is on disk as long as it is not settled, torn bytes never leave the disk, *)
(* and the counters and marks are exact; where it is awaited, the bytes too. *)
(***************************************************************************)
EXTENDS UploadQueue, FiniteSetTheorems, TLAPS

Fates == {"new", "refused", "accepted", "settled", "lost"}

\* The part of the state these arguments are about, and its types.
Shape ==
    /\ phase \in [Items -> Phases]
    /\ fate \in [Files -> Fates]
    /\ temp \in [Files -> {"none", "full", "torn"}] /\ sidecar \in [Files -> BOOLEAN]
    /\ remote \in [Files -> {"none", "full"}]
    /\ channel \in Seq(Items) /\ inlineQ \in Seq(Files) /\ inlineRun \subseteq Files
    /\ reconcile \in {"todo", "running", "done"} /\ scan \subseteq Files

\* The channel holds each of its items once.
ChannelInv ==
    \A k \in 1..Len(channel) :
      /\ phase[channel[k]] = "channel"
      /\ \A l \in 1..Len(channel) : channel[k] = channel[l] => k = l

Inlined(f) == f \in inlineRun \/ \E k \in 1..Len(inlineQ) : inlineQ[k] = f

\* An artifact nobody has handed over is nowhere; one that its caller still has was not accepted.
FreshInv(f) ==
    fate[f] = "new" =>
      /\ phase[Own(f)] \in {"idle"} \cup Calling
      /\ phase[Own(f)] = "idle" =>
           phase[Rec(f)] = "idle" /\ f \notin scan /\ temp[f] = "none" /\ ~sidecar[f] /\ ~Inlined(f)

\* A caller at work: unless the recovery has settled its artifact, the temp file is whole and
\* the sidecar there in time.
CallingInv(f) ==
    phase[Own(f)] \in Calling =>
      /\ fate[f] \in {"new", "settled"} /\ temp[f] # "torn" /\ ~Inlined(f)
      /\ fate[f] = "new" =>
           /\ temp[f] = "full"
           /\ phase[Own(f)] \in {"count", "send"} /\ HasSidecar(Own(f)) => sidecar[f]

\* The recovery takes an artifact once.
OwnerInv(f) == f \in scan \/ reconcile = "todo" => phase[Rec(f)] = "idle"

\* Where the recovery is awaited, an artifact of a caller is never an item of the recovery.
AwaitInv(f) ==
    RecoveryAwaited /\ (phase[Own(f)] \in Calling \cup Queued \/ Inlined(f)) =>
      /\ reconcile = "done" /\ phase[Rec(f)] = "idle"
      /\ phase[Own(f)] \in Calling => fate[f] = "new"

\* An inline upload is of an artifact the queue has refused in this process.
InlineInv(f) ==
    Inlined(f) => fate[f] \in {"refused", "settled"} /\ phase[Own(f)] = "out" /\ temp[f] # "torn"

\* What an item finds on disk, and what is left of one whose files are removed.
ItemInv(i) ==
    /\ phase[i] \in Queued \cup {"verified"} => temp[i[1]] # "torn"
    /\ phase[i] = "unlink" => fate[i[1]] \in {"refused", "settled"}

DiskInv(f) ==
    fate[f] = "accepted" /\ HasSidecar(Own(f)) => sidecar[f] /\ temp[f] = "full"

FileInv(f) ==
    /\ FreshInv(f) /\ CallingInv(f) /\ OwnerInv(f) /\ AwaitInv(f) /\ InlineInv(f) /\ DiskInv(f)
    /\ ItemInv(Own(f)) /\ ItemInv(Rec(f))

Inv == Shape /\ ChannelInv /\ \A f \in Files : FileInv(f)

----------------------------------------------------------------------------
\* An item is a file of a caller or of the recovery, and never both.
LEMMA ItemFacts ==
    /\ \A f \in Files : Own(f) \in Items /\ Rec(f) \in Items /\ Own(f)[1] = f /\ Rec(f)[1] = f
    /\ \A f, g \in Files : Own(f) # Rec(g) /\ (f # g => Own(f) # Own(g) /\ Rec(f) # Rec(g))
    /\ \A i \in Items : i[1] \in Files /\ (i = Own(i[1]) \/ i = Rec(i[1]))
<1>1. \A f \in Files : Own(f) \in Items /\ Rec(f) \in Items
    BY Zenon DEF Items, Own, Rec
<1>2. \A f : Own(f)[1] = f /\ Rec(f)[1] = f /\ Own(f)[2] = FALSE /\ Rec(f)[2] = TRUE
    BY SMT DEF Own, Rec
<1>3. \A f, g : Own(f) # Rec(g) /\ (f # g => Own(f) # Own(g) /\ Rec(f) # Rec(g))
    BY SMT DEF Own, Rec
<1>4. ASSUME NEW i \in Items PROVE i[1] \in Files /\ (i = Own(i[1]) \/ i = Rec(i[1]))
  <2>1. i = <<i[1], i[2]>> /\ i[1] \in Files /\ i[2] \in BOOLEAN
    BY SMT DEF Items
  <2>2. i[2] = TRUE \/ i[2] = FALSE
    BY <2>1, Zenon
  <2>3. QED
    BY <2>1, <2>2, Zenon DEF Own, Rec
<1>5. QED
    BY <1>1, <1>2, <1>3, <1>4, Zenon

\* The phases are told apart by their groups.
LEMMA PhaseFacts ==
    /\ Calling \subseteq Phases /\ Queued \subseteq Phases /\ "idle" \in Phases /\ "out" \in Phases
    /\ "verified" \in Phases /\ "verified" \notin Calling \cup Queued /\ "out" # "verified"
    /\ "idle" # "verified" /\ "idle" # "out" /\ "unlink" # "verified"
    /\ "idle" \notin Calling \cup Queued /\ "out" \notin Calling \cup Queued
    /\ \A p \in Calling : p \notin Queued
    /\ "channel" \in Queued /\ "held" \in Queued /\ "unlink" \in Queued /\ "settle" \in Queued
    /\ Uploading \subseteq Queued /\ Ending \subseteq Queued
    /\ "unlink" \notin Uploading /\ "channel" \notin Uploading \cup Ending
BY SMT DEF Phases, Calling, Queued, Uploading, Ending

\* A file whose part of the state a step leaves alone.
LEMMA FrameInv ==
    ASSUME Inv, NEW g \in Files, phase'[Own(g)] = phase[Own(g)], phase'[Rec(g)] = phase[Rec(g)],
           fate'[g] = fate[g], temp'[g] = temp[g], sidecar'[g] = sidecar[g], reconcile' = reconcile,
           g \in scan' => g \in scan, Inlined(g)' => Inlined(g)
    PROVE  FileInv(g)'
<1>1. FileInv(g)
    BY DEF Inv
<1>2. FreshInv(g)' /\ CallingInv(g)'
    BY <1>1, Zenon DEF FileInv, FreshInv, CallingInv
<1>3. OwnerInv(g)' /\ AwaitInv(g)' /\ InlineInv(g)' /\ DiskInv(g)'
    BY <1>1, Zenon DEF FileInv, OwnerInv, AwaitInv, InlineInv, DiskInv
<1>4. ItemInv(Own(g))' /\ ItemInv(Rec(g))'
    BY <1>1, ItemFacts, Zenon DEF FileInv, ItemInv
<1>5. QED
    BY <1>2, <1>3, <1>4 DEF FileInv

\* The inline uploads that do not change.
LEMMA InlineFrame ==
    ASSUME UNCHANGED <<inlineQ, inlineRun>>, NEW g \in Files
    PROVE  Inlined(g)' <=> Inlined(g)
BY DEF Inlined

\* The channel when no item in it moves.
LEMMA ChannelFrame ==
    ASSUME Inv, UNCHANGED channel, \A i \in Items : phase[i] = "channel" => phase'[i] = "channel"
    PROVE  ChannelInv'
<1>1. \A k \in 1..Len(channel) : channel[k] \in Items
    BY SMT DEF Inv, Shape
<1>2. QED
    BY <1>1, Zenon DEF Inv, ChannelInv

\* A step that moves an item from one phase of its upload to the next.
LEMMA MoveFiles ==
    ASSUME Inv, NEW i \in Items, NEW p \in (Queued \ {"channel", "unlink"}) \cup {"out"},
           phase[i] \in Queued, phase' = [phase EXCEPT ![i] = p],
           UNCHANGED <<fate, temp, sidecar, inlineQ, inlineRun, reconcile, scan>>, NEW g \in Files
    PROVE  FileInv(g)'
<1>m. phase'[i] = p /\ \A j \in Items : j # i => phase'[j] = phase[j]
    BY Zenon DEF Inv, Shape
<1>0. FileInv(g) /\ Own(g) \in Items /\ Rec(g) \in Items /\ Own(g) # Rec(g) /\ Own(g)[1] = g /\ Rec(g)[1] = g
  BY ItemFacts DEF Inv
<1>1. CASE i # Own(g) /\ i # Rec(g)
  BY <1>m, <1>0, <1>1, InlineFrame, FrameInv
<1>2. CASE i = Own(g)
  <2>1. phase'[Own(g)] = p /\ phase'[Rec(g)] = phase[Rec(g)] /\ phase[Own(g)] \in Queued
    BY <1>m, <1>0, <1>2
  <2>2. /\ fate[g] # "new" /\ ~Inlined(g) /\ temp[g] # "torn" /\ ~Inlined(g)'
        /\ RecoveryAwaited => reconcile = "done" /\ phase[Rec(g)] = "idle"
    BY <1>0, <2>1, PhaseFacts, InlineFrame, SMT DEF FileInv, FreshInv, InlineInv, AwaitInv, ItemInv
  <2>3. FreshInv(g)' /\ CallingInv(g)' /\ InlineInv(g)'
    BY <2>1, <2>2, PhaseFacts, SMT DEF FreshInv, CallingInv, InlineInv
  <2>a. AwaitInv(g)'
    BY <2>1, <2>2, PhaseFacts, SMT DEF AwaitInv
  <2>4. DiskInv(g)' /\ ItemInv(Rec(g))' /\ OwnerInv(g)'
    BY <1>0, <2>1, Zenon DEF FileInv, DiskInv, ItemInv, OwnerInv
  <2>5. ItemInv(Own(g))'
    BY <1>0, <2>1, <2>2, PhaseFacts, SMT DEF ItemInv
  <2>6. QED
    BY <2>3, <2>a, <2>4, <2>5 DEF FileInv
<1>3. CASE i = Rec(g)
  <2>1. phase'[Rec(g)] = p /\ phase'[Own(g)] = phase[Own(g)] /\ phase[Rec(g)] \in Queued
    BY <1>m, <1>0, <1>3
  <2>i. Inlined(g)' <=> Inlined(g)
    BY InlineFrame
  <2>2. /\ g \notin scan /\ reconcile # "todo" /\ temp[g] # "torn" /\ ~(fate[g] = "new" /\ phase[Own(g)] = "idle")
        /\ RecoveryAwaited => phase[Own(g)] \notin Calling \cup Queued /\ ~Inlined(g)
    BY <1>0, <2>1, PhaseFacts, SMT DEF FileInv, FreshInv, AwaitInv, OwnerInv, ItemInv
  <2>3. FreshInv(g)' /\ CallingInv(g)' /\ InlineInv(g)' /\ OwnerInv(g)'
    BY <1>0, <2>i, <2>1, <2>2, Zenon DEF FileInv, FreshInv, CallingInv, InlineInv, OwnerInv
  <2>a. AwaitInv(g)'
    BY <2>i, <2>1, <2>2, Zenon DEF AwaitInv
  <2>4. DiskInv(g)' /\ ItemInv(Own(g))'
    BY <1>0, <2>1, Zenon DEF FileInv, DiskInv, ItemInv
  <2>5. ItemInv(Rec(g))'
    BY <1>0, <2>1, <2>2, PhaseFacts, SMT DEF ItemInv
  <2>6. QED
    BY <2>3, <2>a, <2>4, <2>5 DEF FileInv
<1>4. QED
  BY <1>1, <1>2, <1>3

LEMMA MoveInv ==
    ASSUME Inv, NEW i \in Items, NEW p \in (Queued \ {"channel", "unlink"}) \cup {"out"},
           phase[i] \in Queued \ {"channel"}, phase' = [phase EXCEPT ![i] = p],
           UNCHANGED <<fate, temp, sidecar, channel, inlineQ, inlineRun, reconcile, scan>>,
           remote' \in [Files -> {"none", "full"}]
    PROVE  Inv'
<1>1. Shape'
  <2>1. p \in Phases
    BY PhaseFacts
  <2>2. QED
    BY <2>1, Zenon DEF Inv, Shape
<1>2. \A j \in Items : phase[j] = "channel" => phase'[j] = "channel"
    BY Zenon DEF Inv, Shape
<1>3. ChannelInv'
    BY <1>2, ChannelFrame
<1>4. \A g \in Files : FileInv(g)'
    BY MoveFiles
<1>5. QED
    BY <1>1, <1>3, <1>4 DEF Inv

\* A step that leaves all of this alone.
LEMMA SameInv ==
    ASSUME Inv, UNCHANGED <<phase, fate, temp, sidecar, channel, inlineQ, inlineRun, reconcile, scan,
                            remote>>
    PROVE  Inv'
<1>1. Shape'
    BY Zenon DEF Inv, Shape
<1>2. ChannelInv'
    BY ChannelFrame
<1>3. \A g \in Files : FileInv(g)'
    BY FrameInv, InlineFrame
<1>4. QED
    BY <1>1, <1>2, <1>3 DEF Inv

\* Where a caller's item, or an item of the recovery, goes.
LEMMA OwnMoves ==
    ASSUME Inv, NEW f \in Files, NEW p \in Phases, phase' = [phase EXCEPT ![Own(f)] = p]
    PROVE  /\ phase' \in [Items -> Phases] /\ phase'[Own(f)] = p /\ phase'[Rec(f)] = phase[Rec(f)]
           /\ \A i \in Items : i # Own(f) => phase'[i] = phase[i]
           /\ \A g \in Files : g # f => phase'[Own(g)] = phase[Own(g)] /\ phase'[Rec(g)] = phase[Rec(g)]
<1>1. phase' \in [Items -> Phases] /\ phase'[Own(f)] = p
    BY ItemFacts, Zenon DEF Inv, Shape
<1>2. \A i \in Items : i # Own(f) => phase'[i] = phase[i]
    BY Zenon DEF Inv, Shape
<1>3. QED
    BY <1>1, <1>2, ItemFacts, Zenon

LEMMA RecMoves ==
    ASSUME Inv, NEW f \in Files, NEW p \in Phases, phase' = [phase EXCEPT ![Rec(f)] = p]
    PROVE  /\ phase' \in [Items -> Phases] /\ phase'[Rec(f)] = p /\ phase'[Own(f)] = phase[Own(f)]
           /\ \A i \in Items : i # Rec(f) => phase'[i] = phase[i]
           /\ \A g \in Files : g # f => phase'[Own(g)] = phase[Own(g)] /\ phase'[Rec(g)] = phase[Rec(g)]
<1>1. phase' \in [Items -> Phases] /\ phase'[Rec(f)] = p
    BY ItemFacts, Zenon DEF Inv, Shape
<1>2. \A i \in Items : i # Rec(f) => phase'[i] = phase[i]
    BY Zenon DEF Inv, Shape
<1>3. QED
    BY <1>1, <1>2, ItemFacts, Zenon

\* A step that concerns one file.
LEMMA OneFile ==
    ASSUME Inv, NEW f \in Files, Shape', ChannelInv', FileInv(f)', reconcile' = reconcile,
           \A g \in Files : g # f =>
             /\ phase'[Own(g)] = phase[Own(g)] /\ phase'[Rec(g)] = phase[Rec(g)]
             /\ fate'[g] = fate[g] /\ temp'[g] = temp[g] /\ sidecar'[g] = sidecar[g]
             /\ (g \in scan' => g \in scan) /\ (Inlined(g)' => Inlined(g))
    PROVE  Inv'
<1>1. ASSUME NEW g \in Files, g # f PROVE FileInv(g)'
    BY <1>1, FrameInv
<1>2. QED
    BY <1>1, Zenon DEF Inv

----------------------------------------------------------------------------
LEMMA InitInv == Init => Inv
<1> SUFFICES ASSUME Init PROVE Inv
    OBVIOUS
<1>1. Shape
  <2>1. phase \in [Items -> Phases]
    BY PhaseFacts, Zenon DEF Init
  <2>2. /\ fate \in [Files -> Fates]
        /\ temp \in [Files -> {"none", "full", "torn"}] /\ remote \in [Files -> {"none", "full"}]
    BY SMT DEF Init, Fates
  <2>3. sidecar \in [Files -> BOOLEAN]
    BY Zenon DEF Init
  <2>4. /\ channel \in Seq(Items) /\ inlineQ \in Seq(Files) /\ inlineRun \subseteq Files
        /\ reconcile \in {"todo", "running", "done"} /\ scan \subseteq Files
    BY SMT DEF Init
  <2>5. QED
    BY <2>1, <2>2, <2>3, <2>4 DEF Shape
<1>2. ChannelInv
    BY SMT DEF Init, ChannelInv
<1>3. ASSUME NEW f \in Files PROVE FileInv(f)
  <2>1. phase[Own(f)] = "idle" /\ phase[Rec(f)] = "idle" /\ temp[f] = "none" /\ ~sidecar[f]
    BY ItemFacts, Zenon DEF Init
  <2>2. fate[f] \in {"new", "refused"} /\ reconcile = "todo" /\ scan = {}
    BY SMT DEF Init
  <2>3. ~Inlined(f)
    BY SMT DEF Init, Inlined
  <2>4. FreshInv(f) /\ CallingInv(f) /\ OwnerInv(f) /\ AwaitInv(f) /\ InlineInv(f) /\ DiskInv(f)
    BY <2>1, <2>2, <2>3, PhaseFacts, SMT DEF FreshInv, CallingInv, OwnerInv, AwaitInv, InlineInv, DiskInv
  <2>5. ItemInv(Own(f)) /\ ItemInv(Rec(f))
    BY <2>1, PhaseFacts, SMT DEF ItemInv
  <2>6. QED
    BY <2>4, <2>5 DEF FileInv
<1>4. QED
    BY <1>1, <1>2, <1>3 DEF Inv

\* The steps of the worker but for the receive, drain() and time.
LEMMA QuietSteps ==
    ASSUME Inv, \/ WorkerCheck \/ WorkerCooled \/ WorkerShutdown \/ WorkerJoin \/ WorkerExit \/ Drain
                \/ \E i \in Items : Age(i) \/ WireUnauthorized(i)
    PROVE  Inv'
<1>1. CASE WorkerCheck \/ WorkerCooled \/ WorkerShutdown \/ WorkerJoin \/ WorkerExit
    BY <1>1, SameInv DEF WorkerCheck, WorkerCooled, WorkerShutdown, WorkerJoin, WorkerExit, WorkerGoes,
       stats, work, inline, recov, disk
<1>2. CASE Drain
    BY <1>2, SameInv DEF Drain, stats, work, inline, recov, disk
<1>3. ASSUME NEW i \in Items, Age(i) PROVE Inv'
    BY <1>3, SameInv DEF Age, stats, work, inline, recov, disk
<1>4. ASSUME NEW i \in Items, WireUnauthorized(i) PROVE Inv'
    BY <1>4, SameInv DEF WireUnauthorized, TaskOnly, stats, work, inline, recov, disk
<1>5. QED
    BY <1>1, <1>2, <1>3, <1>4

\* The steps of a task that neither touch the disk nor settle the artifact.
LEMMA TaskSteps ==
    ASSUME Inv, NEW i \in Items,
           \/ Dispatch(i) \/ Start(i) \/ WireRefused(i) \/ WireFails(i) \/ Backoff(i) \/ WireParks(i)
           \/ ParkRefused(i) \/ ParkGivesUp(i) \/ ParkWakes(i) \/ Reacquire(i) \/ Settle(i) \/ Debit(i)
    PROVE  Inv'
<1>0. remote \in [Files -> {"none", "full"}]
    BY DEF Inv, Shape
<1>1. CASE Dispatch(i)
  <2>1. phase[i] = "held" /\ phase' = [phase EXCEPT ![i] = "start"]
    BY <1>1, Zenon DEF Dispatch, At, GoTo
  <2>2. UNCHANGED <<fate, temp, sidecar, channel, inlineQ, inlineRun, reconcile, scan, remote>>
    BY <1>1 DEF Dispatch, inline, recov, disk
  <2>3. "start" \in Queued \ {"channel", "unlink"} /\ "held" \in Queued \ {"channel"}
    BY SMT DEF Queued, Uploading
  <2>4. QED
    BY <1>0, <2>1, <2>2, <2>3, MoveInv
<1>2. CASE Start(i)
  <2>1. phase[i] = "start" /\ \E p \in {"finish", "try"} : phase' = [phase EXCEPT ![i] = p]
    BY <1>2, SMT DEF Start, At, GoTo
  <2>2. UNCHANGED <<fate, temp, sidecar, channel, inlineQ, inlineRun, reconcile, scan, remote>>
    BY <1>2 DEF Start, TaskOnly, inline, recov, disk
  <2>3. {"finish", "try"} \subseteq Queued \ {"channel", "unlink"} /\ "start" \in Queued \ {"channel"}
    BY SMT DEF Queued, Uploading, Ending
  <2>4. QED
    BY <1>0, <2>1, <2>2, <2>3, MoveInv
<1>3. CASE WireRefused(i) \/ WireFails(i)
  <2>1. phase[i] = "try" /\ \E p \in {"finish", "backoff"} : phase' = [phase EXCEPT ![i] = p]
    BY <1>3, SMT DEF WireRefused, WireFails, Ends, At, GoTo
  <2>2. UNCHANGED <<fate, temp, sidecar, channel, inlineQ, inlineRun, reconcile, scan, remote>>
    BY <1>3 DEF WireRefused, WireFails, TaskOnly, inline, recov, disk
  <2>3. {"finish", "backoff"} \subseteq Queued \ {"channel", "unlink"} /\ "try" \in Queued \ {"channel"}
    BY SMT DEF Queued, Uploading, Ending
  <2>4. QED
    BY <1>0, <2>1, <2>2, <2>3, MoveInv
<1>4. CASE Backoff(i) \/ Reacquire(i)
  <2>1. phase[i] \in {"backoff", "reacquire"} /\ phase' = [phase EXCEPT ![i] = "try"]
    BY <1>4, SMT DEF Backoff, Reacquire, At, GoTo
  <2>2. UNCHANGED <<fate, temp, sidecar, channel, inlineQ, inlineRun, reconcile, scan, remote>>
    BY <1>4 DEF Backoff, Reacquire, TaskOnly, inline, recov, disk
  <2>3. "try" \in Queued \ {"channel", "unlink"} /\ {"backoff", "reacquire"} \subseteq Queued \ {"channel"}
    BY SMT DEF Queued, Uploading
  <2>4. QED
    BY <1>0, <2>1, <2>2, <2>3, MoveInv
<1>5. CASE WireParks(i)
  <2>1. phase[i] = "try" /\ phase' = [phase EXCEPT ![i] = "park"]
    BY <1>5, Zenon DEF WireParks, At, GoTo
  <2>2. UNCHANGED <<fate, temp, sidecar, channel, inlineQ, inlineRun, reconcile, scan, remote>>
    BY <1>5 DEF WireParks, TaskOnly, inline, recov, disk
  <2>3. "park" \in Queued \ {"channel", "unlink"} /\ "try" \in Queued \ {"channel"}
    BY SMT DEF Queued, Uploading
  <2>4. QED
    BY <1>0, <2>1, <2>2, <2>3, MoveInv
<1>6. CASE ParkRefused(i) \/ ParkGivesUp(i) \/ ParkWakes(i)
  <2>1. phase[i] = "park" /\ \E p \in {"finish", "reacquire"} : phase' = [phase EXCEPT ![i] = p]
    BY <1>6, SMT DEF ParkRefused, ParkGivesUp, ParkWakes, Ends, At, GoTo
  <2>2. UNCHANGED <<fate, temp, sidecar, channel, inlineQ, inlineRun, reconcile, scan, remote>>
    BY <1>6 DEF ParkRefused, ParkGivesUp, ParkWakes, TaskOnly, inline, recov, disk
  <2>3. {"finish", "reacquire"} \subseteq Queued \ {"channel", "unlink"} /\ "park" \in Queued \ {"channel"}
    BY SMT DEF Queued, Uploading, Ending
  <2>4. QED
    BY <1>0, <2>1, <2>2, <2>3, MoveInv
<1>7. CASE Settle(i) \/ Debit(i)
  <2>1. phase[i] \in {"settle", "debit"} /\ \E p \in {"debit", "out"} : phase' = [phase EXCEPT ![i] = p]
    BY <1>7, SMT DEF Settle, Debit, At, GoTo
  <2>2. UNCHANGED <<fate, temp, sidecar, channel, inlineQ, inlineRun, reconcile, scan, remote>>
    BY <1>7 DEF Settle, Debit, TaskOnly, work, inline, recov, disk
  <2>3. {"debit", "out"} \subseteq (Queued \ {"channel", "unlink"}) \cup {"out"}
        /\ {"settle", "debit"} \subseteq Queued \ {"channel"}
    BY SMT DEF Queued, Ending
  <2>4. QED
    BY <1>0, <2>1, <2>2, <2>3, MoveInv
<1>8. QED
    BY <1>1, <1>2, <1>3, <1>4, <1>5, <1>6, <1>7

\* A successful upload: the bytes were whole.
LEMMA WireSucceedsInv ==
    ASSUME Inv, NEW i \in Items, WireSucceeds(i)
    PROVE  Inv'
<1>1. phase[i] = "try" /\ phase' = [phase EXCEPT ![i] = "finish"] /\ temp[i[1]] # "none"
      /\ remote' = [remote EXCEPT ![i[1]] = temp[i[1]]]
    BY Zenon DEF WireSucceeds, Ends, At, GoTo
<1>2. UNCHANGED <<fate, temp, sidecar, channel, inlineQ, inlineRun, reconcile, scan>>
    BY DEF WireSucceeds, TaskOnly, inline, recov, disk
<1>3. "finish" \in Queued \ {"channel", "unlink"} /\ "try" \in Queued \ {"channel"}
    BY SMT DEF Queued, Uploading, Ending
<1>4. i[1] \in Files /\ ItemInv(i)
    BY ItemFacts, Zenon DEF Inv, FileInv
<1>5. temp[i[1]] = "full"
    BY <1>1, <1>3, <1>4, SMT DEF ItemInv, Inv, Shape
<1>6. remote' \in [Files -> {"none", "full"}]
    BY <1>1, <1>4, <1>5, SMT DEF Inv, Shape
<1>7. QED
    BY <1>1, <1>2, <1>3, <1>6, MoveInv

\* What an upload of the queue tells of its artifact.
LEMMA QueuedFacts ==
    ASSUME Inv, NEW i \in Items, phase[i] \in Queued
    PROVE  /\ i[1] \in Files /\ FileInv(i[1]) /\ ItemInv(i)
           /\ ~(fate[i[1]] = "new" /\ phase[Own(i[1])] = "idle")
           /\ RecoveryAwaited => phase[Own(i[1])] \notin Calling
           /\ i = Own(i[1]) => fate[i[1]] # "new" /\ ~Inlined(i[1])
           /\ i = Own(i[1]) /\ RecoveryAwaited => phase[Rec(i[1])] = "idle" /\ reconcile = "done"
           /\ i = Rec(i[1]) => i[1] \notin scan /\ reconcile # "todo"
           /\ i = Rec(i[1]) /\ RecoveryAwaited =>
                phase[Own(i[1])] \notin Calling \cup Queued /\ ~Inlined(i[1])
<1>1. i[1] \in Files /\ (i = Own(i[1]) \/ i = Rec(i[1]))
    BY ItemFacts
<1>2. FileInv(i[1])
    BY <1>1 DEF Inv
<1>3. CASE i = Own(i[1])
  <2>1. phase[Own(i[1])] \in Queued /\ ItemInv(i)
    BY <1>2, <1>3, Zenon DEF FileInv
  <2>2. QED
    BY <1>1, <1>2, <1>3, <2>1, PhaseFacts, ItemFacts, SMT DEF FileInv, FreshInv, InlineInv, AwaitInv
<1>4. CASE i = Rec(i[1])
  <2>1. phase[Rec(i[1])] \in Queued /\ ItemInv(i)
    BY <1>2, <1>4, Zenon DEF FileInv
  <2>2. QED
    BY <1>1, <1>2, <1>4, <2>1, PhaseFacts, ItemFacts, SMT DEF FileInv, FreshInv, AwaitInv, OwnerInv
<1>5. QED
    BY <1>1, <1>3, <1>4

\* The end of an upload: the temp file goes first, then the sidecar.
LEMMA EndSteps ==
    ASSUME Inv, NEW i \in Items, Finish(i) \/ Unlink(i)
    PROVE  Inv'
<1>1. /\ phase[i] \in {"finish", "unlink"}
      /\ \E p \in {"unlink", "settle"} : phase' = [phase EXCEPT ![i] = p]
    BY SMT DEF Finish, Unlink, At, GoTo
<1>2. UNCHANGED <<channel, inlineQ, inlineRun, reconcile, scan, remote>>
    BY DEF Finish, Unlink, TaskOnly, inline, recov
<1>3. PICK p \in {"unlink", "settle"} : phase' = [phase EXCEPT ![i] = p]
    BY <1>1
<1>4. {"finish", "unlink", "settle"} \subseteq Queued \ {"channel"} /\ p \in Phases
    BY SMT DEF Queued, Ending, Phases
<1>5. phase[i] \in Queued /\ phase[i] # "channel" /\ p \in Queued
    BY <1>1, <1>4
<1>6. i[1] \in Files /\ (i = Own(i[1]) \/ i = Rec(i[1]))
    BY ItemFacts
<1>7. phase'[i] = p /\ phase' \in [Items -> Phases] /\ \A j \in Items : j # i => phase'[j] = phase[j]
    BY <1>3, <1>4, Zenon DEF Inv, Shape
<1>8. /\ fate' \in [Files -> Fates] /\ fate'[i[1]] \in {"refused", "settled"}
      /\ temp' \in [Files -> {"none", "full", "torn"}]
      /\ fate'[i[1]] = "settled" \/ fate'[i[1]] = fate[i[1]]
      /\ \A g \in Files : g # i[1] => fate'[g] = fate[g] /\ temp'[g] = temp[g]
  <2>1. CASE Finish(i)
    BY <2>1, <1>6, SMT DEF Finish, Inv, Shape, Fates
  <2>2. CASE Unlink(i)
    <3>1. phase[i] = "unlink" /\ UNCHANGED <<fate, temp>>
      BY <2>2 DEF Unlink, At
    <3>2. fate[i[1]] \in {"refused", "settled"}
      BY <3>1, <1>5, QueuedFacts DEF ItemInv
    <3>3. QED
      BY <3>1, <3>2, Zenon DEF Inv, Shape
  <2>3. QED
    BY <2>1, <2>2
<1>9. temp'[i[1]] # "torn"
  <2>1. CASE Finish(i)
    BY <2>1, <1>6, SMT DEF Finish, Inv, Shape
  <2>2. CASE Unlink(i)
    BY <2>2, <1>5, QueuedFacts, SMT DEF Unlink, ItemInv
  <2>3. QED
    BY <2>1, <2>2
<1>10. sidecar' \in [Files -> BOOLEAN] /\ \A g \in Files : g # i[1] => sidecar'[g] = sidecar[g]
  <2>1. CASE Finish(i)
    BY <2>1, Zenon DEF Finish, Inv, Shape
  <2>2. CASE Unlink(i)
    BY <2>2, Zenon DEF Unlink, Inv, Shape
  <2>3. QED
    BY <2>1, <2>2
<1>11. Shape'
    BY <1>2, <1>7, <1>8, <1>10, Zenon DEF Inv, Shape
<1>12. ChannelInv'
    BY <1>2, <1>5, <1>7, ChannelFrame
<1>13. FileInv(i[1])'
  <2>0. /\ FileInv(i[1]) /\ Own(i[1]) \in Items /\ Rec(i[1]) \in Items /\ Own(i[1]) # Rec(i[1])
        /\ Own(i[1])[1] = i[1] /\ Rec(i[1])[1] = i[1]
    BY <1>5, <1>6, QueuedFacts, ItemFacts
  <2>i. Inlined(i[1])' <=> Inlined(i[1])
    BY <1>2, <1>6, InlineFrame
  <2>n. FreshInv(i[1])' /\ DiskInv(i[1])'
    BY <1>8, SMT DEF FreshInv, DiskInv
  <2>1. CASE i = Own(i[1])
    <3>1. /\ phase'[Own(i[1])] = p /\ phase'[Rec(i[1])] = phase[Rec(i[1])] /\ ~Inlined(i[1])'
          /\ RecoveryAwaited => phase[Rec(i[1])] = "idle" /\ reconcile' = "done"
      BY <1>2, <1>5, <1>7, <2>i, <2>0, <2>1, QueuedFacts
    <3>2. CallingInv(i[1])' /\ OwnerInv(i[1])' /\ AwaitInv(i[1])' /\ InlineInv(i[1])'
      BY <1>2, <1>5, <2>0, <3>1, PhaseFacts, SMT
         DEF FileInv, CallingInv, OwnerInv, AwaitInv, InlineInv
    <3>3. ItemInv(Own(i[1]))' /\ ItemInv(Rec(i[1]))'
      BY <1>5, <1>8, <1>9, <2>0, Zenon DEF ItemInv
    <3>4. QED
      BY <2>n, <3>2, <3>3 DEF FileInv
  <2>2. CASE i = Rec(i[1])
    <3>1. /\ phase'[Rec(i[1])] = p /\ phase'[Own(i[1])] = phase[Own(i[1])]
          /\ i[1] \notin scan' /\ reconcile' # "todo"
          /\ RecoveryAwaited => phase[Own(i[1])] \notin Calling \cup Queued /\ ~Inlined(i[1])
      BY <1>2, <1>5, <1>7, <2>0, <2>2, QueuedFacts
    <3>2. OwnerInv(i[1])' /\ AwaitInv(i[1])'
      BY <2>i, <3>1, Zenon DEF OwnerInv, AwaitInv
    <3>c. phase[Own(i[1])] \in Calling => fate'[i[1]] \in {"new", "settled"}
      BY <1>8, <2>0, Zenon DEF FileInv, CallingInv
    <3>3. CallingInv(i[1])' /\ InlineInv(i[1])'
      BY <1>8, <1>9, <2>i, <2>0, <3>1, <3>c, SMT DEF FileInv, CallingInv, InlineInv
    <3>4. ItemInv(Own(i[1]))' /\ ItemInv(Rec(i[1]))'
      BY <1>5, <1>8, <1>9, <2>0, Zenon DEF ItemInv
    <3>5. QED
      BY <2>n, <3>2, <3>3, <3>4 DEF FileInv
  <2>3. QED
    BY <1>6, <2>1, <2>2
<1>14. ASSUME NEW g \in Files, g # i[1]
       PROVE  phase'[Own(g)] = phase[Own(g)] /\ phase'[Rec(g)] = phase[Rec(g)]
  <2>1. Own(g) # i /\ Rec(g) # i /\ Own(g) \in Items /\ Rec(g) \in Items
    BY <1>6, <1>14, ItemFacts
  <2>2. QED
    BY <1>7, <2>1
<1>15. QED
    BY <1>2, <1>6, <1>8, <1>10, <1>11, <1>12, <1>13, <1>14, InlineFrame, OneFile

\* The worker takes the first item of its channel.
LEMMA WorkerRecvInv ==
    ASSUME Inv, WorkerRecv
    PROVE  Inv'
<1>1. /\ channel # <<>> /\ channel' = Tail(channel) /\ phase' = [phase EXCEPT ![Head(channel)] = "held"]
      /\ UNCHANGED <<fate, temp, sidecar, inlineQ, inlineRun, reconcile, scan, remote>>
    BY DEF WorkerRecv, WorkerGoes, GoTo, inline, recov, disk
<1>2. /\ Head(channel) \in Items /\ Head(channel) = channel[1] /\ channel' \in Seq(Items)
      /\ Len(channel) >= 1 /\ Len(channel') = Len(channel) - 1
      /\ \A k \in 1..Len(channel') : channel'[k] = channel[k + 1] /\ channel'[k] \in Items
    BY <1>1, SMT DEF Inv, Shape
<1>3. phase[Head(channel)] = "channel"
    BY <1>2, SMT DEF Inv, ChannelInv
<1>4. "held" \in Queued \ {"channel", "unlink"} /\ "channel" \in Queued /\ "held" \in Phases
    BY SMT DEF Queued, Uploading, Phases
<1>5. phase' \in [Items -> Phases] /\ \A j \in Items : j # Head(channel) => phase'[j] = phase[j]
    BY <1>1, <1>4, Zenon DEF Inv, Shape
<1>6. Shape'
    BY <1>1, <1>2, <1>5, Zenon DEF Inv, Shape
<1>7. ChannelInv'
  <2>1. ASSUME NEW k \in 1..Len(channel')
        PROVE  k + 1 \in 1..Len(channel) /\ channel'[k] = channel[k + 1] /\ channel'[k] # Head(channel)
    BY <1>2, SMT DEF Inv, ChannelInv
  <2>2. ASSUME NEW k \in 1..Len(channel') PROVE phase'[channel'[k]] = "channel"
    BY <1>2, <1>5, <2>1, SMT DEF Inv, ChannelInv
  <2>3. ASSUME NEW k \in 1..Len(channel'), NEW l \in 1..Len(channel'), channel'[k] = channel'[l]
        PROVE  k = l
    <3>1. k + 1 = l + 1
      BY <2>1, <2>3, SMT DEF Inv, ChannelInv
    <3>2. QED
      BY <3>1, <1>2, SMT
  <2>4. QED
    BY <2>2, <2>3 DEF ChannelInv
<1>8. \A g \in Files : FileInv(g)'
    BY <1>1, <1>2, <1>3, <1>4, MoveFiles
<1>9. QED
    BY <1>6, <1>7, <1>8 DEF Inv

----------------------------------------------------------------------------
\* An item enters the channel.
LEMMA ChannelGrows ==
    ASSUME Inv, NEW j \in Items, phase[j] # "channel", channel' = Append(channel, j),
           phase'[j] = "channel", \A i \in Items : i # j => phase'[i] = phase[i]
    PROVE  channel' \in Seq(Items) /\ ChannelInv'
<1>1. /\ channel' \in Seq(Items) /\ Len(channel') = Len(channel) + 1 /\ channel'[Len(channel) + 1] = j
      /\ Len(channel) \in Nat
      /\ \A k \in 1..Len(channel) : channel'[k] = channel[k] /\ channel[k] \in Items
    BY SMT DEF Inv, Shape
<1>2. \A k \in 1..Len(channel) : channel[k] # j /\ phase[channel[k]] = "channel"
    BY DEF Inv, ChannelInv
<1>3. \A k \in 1..Len(channel') : k \in 1..Len(channel) \/ k = Len(channel) + 1
    BY <1>1, SMT
<1>4. ASSUME NEW k \in 1..Len(channel') PROVE phase'[channel'[k]] = "channel"
  <2>1. CASE k \in 1..Len(channel)
    BY <1>1, <1>2, <2>1
  <2>2. CASE k = Len(channel) + 1
    BY <1>1, <2>2
  <2>3. QED
    BY <1>3, <2>1, <2>2
<1>5. ASSUME NEW k \in 1..Len(channel'), NEW l \in 1..Len(channel'), channel'[k] = channel'[l]
      PROVE  k = l
  <2>1. CASE k \in 1..Len(channel) /\ l \in 1..Len(channel)
    BY <1>1, <1>5, <2>1, SMT DEF Inv, ChannelInv
  <2>2. CASE k = Len(channel) + 1 /\ l \in 1..Len(channel)
    BY <1>1, <1>2, <1>5, <2>2, SMT
  <2>3. CASE k \in 1..Len(channel) /\ l = Len(channel) + 1
    BY <1>1, <1>2, <1>5, <2>3, SMT
  <2>4. QED
    BY <1>3, <2>1, <2>2, <2>3, SMT
<1>6. QED
    BY <1>1, <1>4, <1>5 DEF ChannelInv

\* What a caller at work tells of its artifact.
LEMMA CallerFacts ==
    ASSUME Inv, NEW f \in Files,
           phase[Own(f)] \in Calling \/ (phase[Own(f)] = "idle" /\ fate[f] = "new")
    PROVE  /\ FileInv(f) /\ ~Inlined(f) /\ fate[f] \in {"new", "settled"} /\ phase[Own(f)] # "channel"
           /\ phase[Own(f)] \notin Queued
           /\ phase[Own(f)] = "idle" => phase[Rec(f)] = "idle" /\ f \notin scan
           /\ phase[Own(f)] \in Calling => temp[f] # "torn"
           /\ phase[Own(f)] \in Calling /\ fate[f] = "new" => temp[f] = "full"
           /\ phase[Own(f)] \in Calling /\ RecoveryAwaited =>
                reconcile = "done" /\ phase[Rec(f)] = "idle" /\ fate[f] = "new"
           /\ fate[f] = "new" /\ phase[Own(f)] \in {"count", "send"} /\ HasSidecar(Own(f)) => sidecar[f]
<1>1. FileInv(f)
    BY DEF Inv
<1>2. {"count", "send"} \subseteq Calling
    BY SMT DEF Calling
<1>3. QED
    BY <1>1, <1>2, PhaseFacts, SMT DEF FileInv, FreshInv, CallingInv, AwaitInv

\* A caller goes on with its artifact.
LEMMA CallerGoesOn ==
    ASSUME Inv, NEW f \in Files, NEW p \in Calling,
           phase[Own(f)] \in Calling \/ (phase[Own(f)] = "idle" /\ fate[f] = "new"),
           phase' = [phase EXCEPT ![Own(f)] = p], RecoveryAwaited => reconcile = "done",
           temp' \in [Files -> {"none", "full", "torn"}], temp'[f] # "torn",
           fate[f] = "new" => temp'[f] = "full",
           sidecar' \in [Files -> BOOLEAN],
           fate[f] = "new" /\ p \in {"count", "send"} /\ HasSidecar(Own(f)) => sidecar'[f],
           \A g \in Files : g # f => temp'[g] = temp[g] /\ sidecar'[g] = sidecar[g],
           UNCHANGED <<fate, channel, inlineQ, inlineRun, reconcile, scan, remote>>
    PROVE  Inv'
<1>1. p \in Phases /\ p # "channel" /\ p \notin Queued /\ p # "idle" /\ p # "out" /\ p # "verified"
    BY PhaseFacts
<1>2. /\ phase' \in [Items -> Phases] /\ phase'[Own(f)] = p /\ phase'[Rec(f)] = phase[Rec(f)]
      /\ \A i \in Items : i # Own(f) => phase'[i] = phase[i]
      /\ \A g \in Files : g # f => phase'[Own(g)] = phase[Own(g)] /\ phase'[Rec(g)] = phase[Rec(g)]
    BY <1>1, OwnMoves
<1>3. Shape'
    BY <1>2, Zenon DEF Inv, Shape
<1>4. ChannelInv'
    BY <1>2, CallerFacts, ChannelFrame
<1>5. FileInv(f)'
  <2>1. FileInv(f) /\ fate'[f] = fate[f] /\ fate[f] \in {"new", "settled"} /\ ~Inlined(f)'
    BY CallerFacts, InlineFrame
  <2>2. FreshInv(f)' /\ CallingInv(f)' /\ InlineInv(f)' /\ DiskInv(f)'
    BY <1>1, <1>2, <2>1, PhaseFacts, SMT DEF FreshInv, CallingInv, InlineInv, DiskInv
  <2>a. RecoveryAwaited => reconcile' = "done" /\ phase'[Rec(f)] = "idle"
    BY <1>2, CallerFacts, Zenon
  <2>o. OwnerInv(f)' /\ AwaitInv(f)'
    BY <1>2, <2>1, <2>a, Zenon DEF FileInv, OwnerInv, AwaitInv
  <2>3. ItemInv(Own(f))' /\ ItemInv(Rec(f))'
    BY <1>1, <1>2, <2>1, PhaseFacts, ItemFacts, SMT DEF FileInv, ItemInv
  <2>4. QED
    BY <2>2, <2>o, <2>3 DEF FileInv
<1>6. QED
    BY <1>2, <1>3, <1>4, <1>5, InlineFrame, OneFile

\* The queue does not take the artifact.
LEMMA CallerRefused ==
    ASSUME Inv, NEW f \in Files,
           \/ phase[Own(f)] \in Calling /\ temp'[f] # "torn"
           \/ phase[Own(f)] = "idle" /\ fate[f] = "new" /\ inlineQ' = inlineQ,
           phase' = [phase EXCEPT ![Own(f)] = "out"], fate' = [fate EXCEPT ![f] = "refused"],
           temp' \in [Files -> {"none", "full", "torn"}], sidecar' \in [Files -> BOOLEAN],
           \A g \in Files : g # f => temp'[g] = temp[g] /\ sidecar'[g] = sidecar[g],
           inlineQ' = inlineQ \/ inlineQ' = Append(inlineQ, f),
           UNCHANGED <<channel, inlineRun, reconcile, scan, remote>>
    PROVE  Inv'
<1>1. "out" \in Phases /\ "out" # "channel" /\ "out" \notin Queued \cup Calling /\ "out" # "verified"
    BY PhaseFacts
<1>2. /\ phase' \in [Items -> Phases] /\ phase'[Own(f)] = "out" /\ phase'[Rec(f)] = phase[Rec(f)]
      /\ \A i \in Items : i # Own(f) => phase'[i] = phase[i]
      /\ \A g \in Files : g # f => phase'[Own(g)] = phase[Own(g)] /\ phase'[Rec(g)] = phase[Rec(g)]
    BY <1>1, OwnMoves
<1>3. /\ fate' \in [Files -> Fates] /\ fate'[f] = "refused"
      /\ \A g \in Files : g # f => fate'[g] = fate[g]
    BY SMT DEF Inv, Shape, Fates
<1>4. inlineQ' \in Seq(Files) /\ \A g \in Files : g # f => (Inlined(g)' => Inlined(g))
  <2>1. CASE inlineQ' = inlineQ
    BY <2>1, InlineFrame DEF Inv, Shape
  <2>2. CASE inlineQ' = Append(inlineQ, f)
    <3>1. /\ inlineQ' \in Seq(Files) /\ Len(inlineQ') = Len(inlineQ) + 1 /\ inlineQ'[Len(inlineQ) + 1] = f
          /\ Len(inlineQ) \in Nat /\ \A k \in 1..Len(inlineQ) : inlineQ'[k] = inlineQ[k]
      BY <2>2, SMT DEF Inv, Shape
    <3>2. \A k \in 1..Len(inlineQ') : k \in 1..Len(inlineQ) \/ k = Len(inlineQ) + 1
      BY <3>1, SMT
    <3>3. QED
      BY <3>1, <3>2 DEF Inlined
  <2>3. QED
    BY <2>1, <2>2
<1>5. Inlined(f)' => phase[Own(f)] \in Calling /\ temp'[f] # "torn"
  <2>1. CASE inlineQ' = inlineQ
    BY <2>1, CallerFacts, InlineFrame
  <2>2. QED
    BY <2>1
<1>6. Shape'
    BY <1>2, <1>3, <1>4, Zenon DEF Inv, Shape
<1>7. ChannelInv'
    BY <1>2, CallerFacts, ChannelFrame
<1>8. FileInv(f)'
  <2>1. FileInv(f) /\ phase'[Rec(f)] = phase[Rec(f)]
    BY <1>2, CallerFacts
  <2>2. FreshInv(f)' /\ CallingInv(f)' /\ InlineInv(f)' /\ DiskInv(f)'
    BY <1>1, <1>2, <1>3, <1>5, PhaseFacts, SMT DEF FreshInv, CallingInv, InlineInv, DiskInv
  <2>a. RecoveryAwaited /\ Inlined(f)' => reconcile' = "done" /\ phase'[Rec(f)] = "idle"
    BY <1>2, <1>5, CallerFacts, Zenon
  <2>o. OwnerInv(f)' /\ AwaitInv(f)'
    BY <1>1, <1>2, <2>1, <2>a, Zenon DEF FileInv, OwnerInv, AwaitInv
  <2>b. phase[Rec(f)] = "idle" \/ temp'[f] # "torn"
    BY CallerFacts
  <2>3. ItemInv(Own(f))' /\ ItemInv(Rec(f))'
    BY <1>1, <1>2, <1>3, <2>b, PhaseFacts, ItemFacts, SMT DEF ItemInv
  <2>4. QED
    BY <2>2, <2>o, <2>3 DEF FileInv
<1>9. QED
    BY <1>2, <1>3, <1>4, <1>6, <1>7, <1>8, OneFile

LEMMA CallerSteps ==
    ASSUME Inv, NEW f \in Files,
           \/ Begin(f) \/ Deduplicated(f) \/ WriteFails(f) \/ CheckBudget(f) \/ WriteSidecar(f)
           \/ Count(f) \/ Reject(f)
    PROVE  Inv'
<1>0. /\ temp \in [Files -> {"none", "full", "torn"}] /\ sidecar \in [Files -> BOOLEAN]
      /\ {"budget", "sidecar", "count", "send"} = Calling
    BY SMT DEF Inv, Shape, Calling
<1>a. /\ UNCHANGED temp => /\ temp' \in [Files -> {"none", "full", "torn"}]
                            /\ \A g \in Files : temp'[g] = temp[g]
      /\ \A t \in {"none", "full", "torn"} : temp' = [temp EXCEPT ![f] = t] =>
           /\ temp' \in [Files -> {"none", "full", "torn"}] /\ temp'[f] = t
           /\ \A g \in Files : g # f => temp'[g] = temp[g]
    BY <1>0, SMT
<1>b. /\ UNCHANGED sidecar => /\ sidecar' \in [Files -> BOOLEAN] /\ \A g \in Files : sidecar'[g] = sidecar[g]
      /\ \A b \in BOOLEAN : sidecar' = [sidecar EXCEPT ![f] = b] =>
           /\ sidecar' \in [Files -> BOOLEAN] /\ sidecar'[f] = b
           /\ \A g \in Files : g # f => sidecar'[g] = sidecar[g]
    BY <1>0, Zenon
<1>1. CASE Begin(f)
  <2>1. /\ phase[Own(f)] = "idle" /\ fate[f] = "new" /\ MayCall
        /\ temp' = [temp EXCEPT ![f] = "full"]
        /\ \E p \in {"budget", "sidecar"} : phase' = [phase EXCEPT ![Own(f)] = p]
        /\ UNCHANGED <<sidecar, fate, channel, inlineQ, inlineRun, reconcile, scan, remote>>
    <3>1. /\ phase[Own(f)] = "idle" /\ fate[f] = "new" /\ MayCall
          /\ temp' = [temp EXCEPT ![f] = "full"]
          /\ phase' = [phase EXCEPT ![Own(f)] = IF Kind[f] = "blocking" THEN "sidecar" ELSE "budget"]
          /\ UNCHANGED <<sidecar, fate, channel, inlineQ, inlineRun, reconcile, scan, remote>>
      BY <1>1 DEF Begin, At, GoTo, work, inline, recov
    <3>3. phase' = [phase EXCEPT ![Own(f)] = "sidecar"] \/ phase' = [phase EXCEPT ![Own(f)] = "budget"]
      BY <3>1, Zenon
    <3>4. QED
      BY <3>1, <3>3, Zenon
  <2>2. QED
    BY <1>0, <1>a, <1>b, <2>1, CallerGoesOn DEF MayCall
<1>2. CASE Deduplicated(f)
  <2>1. /\ phase[Own(f)] = "idle" /\ fate[f] = "new"
        /\ phase' = [phase EXCEPT ![Own(f)] = "out"] /\ fate' = [fate EXCEPT ![f] = "refused"]
        /\ UNCHANGED <<temp, sidecar, channel, inlineQ, inlineRun, reconcile, scan, remote>>
    BY <1>2 DEF Deduplicated, At, GoTo, work, inline, recov, disk
  <2>2. QED
    BY <1>a, <1>b, <2>1, CallerRefused
<1>3. CASE WriteFails(f)
  <2>1. /\ phase[Own(f)] = "idle" /\ fate[f] = "new"
        /\ phase' = [phase EXCEPT ![Own(f)] = "out"] /\ fate' = [fate EXCEPT ![f] = "refused"]
        /\ UNCHANGED <<sidecar, channel, inlineQ, inlineRun, reconcile, scan, remote>>
    BY <1>3 DEF WriteFails, At, GoTo, work, inline, recov, disk
  <2>2. \E t \in {"none", "full", "torn"} : temp' = [temp EXCEPT ![f] = t]
    BY <1>3, Zenon DEF WriteFails
  <2>3. QED
    BY <1>a, <1>b, <2>1, <2>2, CallerRefused
<1>4. CASE CheckBudget(f)
  <2>0. phase[Own(f)] \in Calling
    BY <1>0, <1>4, SMT DEF CheckBudget, At
  <2>1. CASE OverBudget(Size[f])
    <3>1. /\ phase' = [phase EXCEPT ![Own(f)] = "out"] /\ fate' = [fate EXCEPT ![f] = "refused"]
          /\ inlineQ' = Append(inlineQ, f) /\ temp' = [temp EXCEPT ![f] = "none"]
          /\ UNCHANGED <<sidecar, channel, inlineRun, reconcile, scan, remote>>
      BY <1>4, <2>1 DEF CheckBudget, Refuse, GoTo, work, recov
    <3>2. QED
      BY <1>a, <1>b, <2>0, <3>1, CallerFacts, CallerRefused
  <2>2. CASE ~OverBudget(Size[f])
    <3>1. /\ phase' = [phase EXCEPT ![Own(f)] = IF HasSidecar(Own(f)) THEN "sidecar" ELSE "count"]
          /\ UNCHANGED <<temp, sidecar, fate, channel, inlineQ, inlineRun, reconcile, scan, remote>>
      BY <1>4, <2>2 DEF CheckBudget, GoTo, work, inline, recov, disk
    <3>2. CASE HasSidecar(Own(f))
      <4>1. phase' = [phase EXCEPT ![Own(f)] = "sidecar"] /\ "sidecar" \notin {"count", "send"}
        BY <3>1, <3>2
      <4>2. QED
        BY <1>0, <1>a, <1>b, <2>0, <3>1, <4>1, CallerFacts, CallerGoesOn
    <3>3. CASE ~HasSidecar(Own(f))
      <4>1. phase' = [phase EXCEPT ![Own(f)] = "count"]
        BY <3>1, <3>3
      <4>2. QED
        BY <1>0, <1>a, <1>b, <2>0, <3>1, <3>3, <4>1, CallerFacts, CallerGoesOn
    <3>4. QED
      BY <3>2, <3>3
  <2>3. QED
    BY <2>1, <2>2
<1>5. CASE WriteSidecar(f)
  <2>0. phase[Own(f)] \in Calling
    BY <1>0, <1>5, SMT DEF WriteSidecar, At
  <2>1. CASE sidecar' = [sidecar EXCEPT ![f] = TRUE] /\ GoTo(Own(f), "count")
             /\ UNCHANGED <<temp, fate, channel, inlineQ, inlineRun, reconcile, scan, remote>>
    BY <1>0, <1>a, <1>b, <2>0, <2>1, CallerFacts, CallerGoesOn DEF GoTo
  <2>2. CASE Refuse(f, FALSE) /\ temp' = [temp EXCEPT ![f] = "none"] /\ UNCHANGED sidecar
    <3>1. /\ phase' = [phase EXCEPT ![Own(f)] = "out"] /\ fate' = [fate EXCEPT ![f] = "refused"]
          /\ inlineQ' = inlineQ /\ UNCHANGED <<channel, inlineRun, reconcile, scan, remote>>
      BY <2>2 DEF Refuse, GoTo, work, recov
    <3>2. QED
      BY <1>a, <1>b, <2>0, <2>2, <3>1, CallerRefused
  <2>3. QED
    BY <1>5, <2>1, <2>2 DEF WriteSidecar, work, inline, recov
<1>6. CASE Count(f)
  <2>1. /\ phase[Own(f)] = "count" /\ phase' = [phase EXCEPT ![Own(f)] = "send"]
        /\ UNCHANGED <<temp, sidecar, fate, channel, inlineQ, inlineRun, reconcile, scan, remote>>
    BY <1>6 DEF Count, At, GoTo, work, inline, recov, disk
  <2>2. "count" \in Calling /\ "send" \in Calling
    BY SMT DEF Calling
  <2>3. fate[f] = "new" /\ HasSidecar(Own(f)) => sidecar'[f]
    BY <2>1, <2>2, CallerFacts, Zenon
  <2>4. QED
    BY <1>a, <1>b, <2>1, <2>2, <2>3, CallerFacts, CallerGoesOn
<1>7. CASE Reject(f)
  <2>0. phase[Own(f)] \in Calling
    BY <1>0, <1>7, SMT DEF Reject, At
  <2>1. /\ phase' = [phase EXCEPT ![Own(f)] = "out"] /\ fate' = [fate EXCEPT ![f] = "refused"]
        /\ inlineQ' = inlineQ \/ inlineQ' = Append(inlineQ, f)
        /\ temp' = temp \/ temp' = [temp EXCEPT ![f] = "none"]
        /\ sidecar' = [sidecar EXCEPT ![f] = FALSE]
        /\ UNCHANGED <<channel, inlineRun, reconcile, scan, remote>>
    BY <1>7 DEF Reject, Refuse, GoTo, work, recov
  <2>2. QED
    BY <1>a, <1>b, <2>0, <2>1, CallerFacts, CallerRefused
<1>8. QED
    BY <1>1, <1>2, <1>3, <1>4, <1>5, <1>6, <1>7

\* The channel takes the artifact: its pair is on disk.
LEMMA AcceptInv ==
    ASSUME Inv, NEW f \in Files, Accept(f)
    PROVE  Inv'
<1>1. /\ phase[Own(f)] = "send" /\ phase' = [phase EXCEPT ![Own(f)] = "channel"]
      /\ channel' = Append(channel, Own(f))
      /\ fate' = [fate EXCEPT ![f] = IF fate[f] = "new" THEN "accepted" ELSE fate[f]]
      /\ UNCHANGED <<temp, sidecar, inlineQ, inlineRun, reconcile, scan, remote>>
    BY DEF Accept, At, GoTo, inline, recov, disk
<1>2. "send" \in Calling /\ "channel" \in Phases /\ "channel" \in Queued
    BY SMT DEF Calling, Phases, Queued
<1>3. /\ phase' \in [Items -> Phases] /\ phase'[Own(f)] = "channel" /\ phase'[Rec(f)] = phase[Rec(f)]
      /\ \A i \in Items : i # Own(f) => phase'[i] = phase[i]
      /\ \A g \in Files : g # f => phase'[Own(g)] = phase[Own(g)] /\ phase'[Rec(g)] = phase[Rec(g)]
    BY <1>1, <1>2, OwnMoves
<1>0. fate[f] \in {"new", "settled"}
    BY <1>1, <1>2, CallerFacts
<1>4. /\ fate' \in [Files -> Fates] /\ fate'[f] = IF fate[f] = "new" THEN "accepted" ELSE fate[f]
      /\ \A g \in Files : g # f => fate'[g] = fate[g]
    BY <1>0, <1>1, SMT DEF Inv, Shape, Fates
<1>5. channel' \in Seq(Items) /\ ChannelInv'
    BY <1>1, <1>3, ItemFacts, ChannelGrows
<1>6. Shape'
    BY <1>1, <1>3, <1>4, <1>5, Zenon DEF Inv, Shape
<1>7. FileInv(f)'
  <2>1. /\ FileInv(f) /\ ~Inlined(f)' /\ temp'[f] # "torn"
        /\ fate[f] = "new" => temp'[f] = "full" /\ (HasSidecar(Own(f)) => sidecar'[f])
        /\ RecoveryAwaited => reconcile' = "done" /\ phase'[Rec(f)] = "idle"
    BY <1>1, <1>2, <1>3, CallerFacts, InlineFrame
  <2>f. fate'[f] \in {"accepted", "settled"} /\ (fate'[f] = "accepted" => fate[f] = "new")
    BY <1>0, <1>4, Zenon
  <2>2. FreshInv(f)' /\ CallingInv(f)' /\ InlineInv(f)' /\ DiskInv(f)'
    BY <1>2, <1>3, <2>1, <2>f, PhaseFacts, SMT DEF FreshInv, CallingInv, InlineInv, DiskInv
  <2>o. OwnerInv(f)' /\ AwaitInv(f)'
    BY <1>1, <1>2, <1>3, <2>1, PhaseFacts, Zenon DEF FileInv, OwnerInv, AwaitInv
  <2>u. fate[f] = "new" => phase[Rec(f)] # "unlink"
    BY <2>1, ItemFacts, SMT DEF FileInv, ItemInv
  <2>3. ItemInv(Own(f))' /\ ItemInv(Rec(f))'
    BY <1>3, <2>1, <2>f, <2>u, ItemFacts, PhaseFacts, SMT DEF ItemInv
  <2>4. QED
    BY <2>2, <2>o, <2>3 DEF FileInv
<1>8. QED
    BY <1>1, <1>3, <1>4, <1>5, <1>6, <1>7, InlineFrame, OneFile

\* An inline upload begins.
LEMMA InlineAcquireInv ==
    ASSUME Inv, InlineAcquire
    PROVE  Inv'
<1>1. /\ inlineQ # <<>> /\ inlineRun' = inlineRun \cup {Head(inlineQ)} /\ inlineQ' = Tail(inlineQ)
      /\ UNCHANGED <<phase, fate, temp, sidecar, channel, reconcile, scan, remote>>
    BY DEF InlineAcquire, work, recov, disk
<1>2. /\ Head(inlineQ) \in Files /\ Head(inlineQ) = inlineQ[1] /\ inlineQ' \in Seq(Files)
      /\ Len(inlineQ) >= 1 /\ Len(inlineQ) \in Nat /\ Len(inlineQ') = Len(inlineQ) - 1
      /\ \A k \in 1..Len(inlineQ') : inlineQ'[k] = inlineQ[k + 1]
    BY <1>1, SMT DEF Inv, Shape
<1>3. 1 \in 1..Len(inlineQ) /\ \A k \in 1..Len(inlineQ') : k + 1 \in 1..Len(inlineQ)
    BY <1>2, SMT
<1>4. \A g \in Files : Inlined(g)' => Inlined(g)
    BY <1>1, <1>2, <1>3 DEF Inlined
<1>5. inlineRun' \subseteq Files
    BY <1>1, <1>2 DEF Inv, Shape
<1>6. Shape'
    BY <1>1, <1>2, <1>5, Zenon DEF Inv, Shape
<1>7. ChannelInv'
    BY <1>1, ChannelFrame
<1>8. ASSUME NEW g \in Files PROVE FileInv(g)'
    BY <1>1, <1>4, FrameInv
<1>9. QED
    BY <1>6, <1>7, <1>8 DEF Inv

\* An inline upload ends; what it sent was whole.
LEMMA InlineDoneInv ==
    ASSUME Inv, NEW f \in Files, InlineDone(f)
    PROVE  Inv'
<1>1. /\ f \in inlineRun /\ inlineRun' = inlineRun \ {f}
      /\ temp' = temp \/ temp' = [temp EXCEPT ![f] = "none"]
      /\ UNCHANGED <<phase, fate, sidecar, channel, inlineQ, reconcile, scan>>
    BY DEF InlineDone, work, recov
<1>2. \A g \in Files : Inlined(g)' => Inlined(g)
    BY <1>1 DEF Inlined
<1>3. /\ fate[f] \in {"refused", "settled"} /\ phase[Own(f)] = "out" /\ temp[f] # "torn"
      /\ RecoveryAwaited => phase[Rec(f)] = "idle" /\ reconcile = "done"
    BY <1>1, Zenon DEF Inv, FileInv, InlineInv, AwaitInv, Inlined
<1>4. remote' \in [Files -> {"none", "full"}]
  <2>1. temp[f] \in {"none", "full"}
    BY <1>3, SMT DEF Inv, Shape
  <2>2. CASE UNCHANGED remote
    BY <2>2 DEF Inv, Shape
  <2>3. CASE remote' = [remote EXCEPT ![f] = IF Kind[f] = "blocking" THEN temp[f] ELSE "full"]
    <3>1. (IF Kind[f] = "blocking" THEN temp[f] ELSE "full") \in {"none", "full"}
      BY <2>1, Zenon
    <3>2. QED
      BY <2>3, <3>1, Zenon DEF Inv, Shape
  <2>4. QED
    BY <2>2, <2>3 DEF InlineDone
<1>5. /\ temp' \in [Files -> {"none", "full", "torn"}] /\ temp'[f] # "torn"
      /\ \A g \in Files : g # f => temp'[g] = temp[g]
    BY <1>1, <1>3, SMT DEF Inv, Shape
<1>6. inlineRun' \subseteq Files
    BY <1>1 DEF Inv, Shape
<1>7. Shape'
    BY <1>1, <1>4, <1>5, <1>6, Zenon DEF Inv, Shape
<1>8. ChannelInv'
    BY <1>1, ChannelFrame
<1>9. FileInv(f)'
  <2>1. FileInv(f)
    BY DEF Inv
  <2>2. FreshInv(f)' /\ CallingInv(f)' /\ InlineInv(f)' /\ DiskInv(f)'
    BY <1>1, <1>3, <1>5, <2>1, PhaseFacts, SMT DEF FreshInv, CallingInv, InlineInv, DiskInv
  <2>o. OwnerInv(f)' /\ AwaitInv(f)'
    BY <1>1, <1>3, <2>1, Zenon DEF FileInv, OwnerInv, AwaitInv
  <2>3. ItemInv(Own(f))' /\ ItemInv(Rec(f))'
    BY <1>1, <1>3, <1>5, <2>1, ItemFacts, Zenon DEF FileInv, ItemInv
  <2>4. QED
    BY <2>2, <2>o, <2>3 DEF FileInv
<1>10. QED
    BY <1>1, <1>2, <1>5, <1>7, <1>8, <1>9, OneFile

\* An aborted drain: the items are dropped, their files stay.
LEMMA DrainTimeoutInv ==
    ASSUME Inv, DrainTimeout
    PROVE  Inv'
<1>1. /\ channel' = <<>> /\ phase' = [i \in Items |-> IF i \in Dropped THEN "out" ELSE phase[i]]
      /\ UNCHANGED <<fate, temp, sidecar, inlineQ, inlineRun, reconcile, scan, remote>>
    BY DEF DrainTimeout, AbortFiles, inline, recov, disk
<1>2. \A i \in Items : /\ phase'[i] = phase[i] \/ (phase'[i] = "out" /\ phase[i] \in Queued)
                       /\ phase'[i] \in Phases
  <2>1. \A i \in Dropped : phase[i] \in Queued
    BY SMT DEF Dropped, Queued
  <2>2. QED
    BY <1>1, <2>1, PhaseFacts, Zenon DEF Inv, Shape
<1>3. phase' \in [Items -> Phases]
    BY <1>1, <1>2, Zenon
<1>4. channel' \in Seq(Items) /\ ChannelInv'
    BY <1>1, SMT DEF ChannelInv
<1>5. Shape'
    BY <1>1, <1>3, <1>4, Zenon DEF Inv, Shape
<1>6. ASSUME NEW g \in Files PROVE FileInv(g)'
  <2>0. /\ FileInv(g) /\ Own(g) \in Items /\ Rec(g) \in Items /\ Own(g)[1] = g /\ Rec(g)[1] = g
        /\ (Inlined(g)' <=> Inlined(g))
    BY <1>1, ItemFacts, InlineFrame DEF Inv
  <2>1. /\ phase'[Own(g)] = phase[Own(g)] \/ (phase'[Own(g)] = "out" /\ phase[Own(g)] \in Queued)
        /\ phase'[Rec(g)] = phase[Rec(g)] \/ (phase'[Rec(g)] = "out" /\ phase[Rec(g)] \in Queued)
    BY <1>2, <2>0
  <2>2. FreshInv(g)' /\ CallingInv(g)'
    BY <1>1, <2>0, <2>1, PhaseFacts, SMT DEF FileInv, FreshInv, CallingInv
  <2>3. OwnerInv(g)' /\ AwaitInv(g)' /\ InlineInv(g)' /\ DiskInv(g)'
    BY <1>1, <2>0, <2>1, PhaseFacts, SMT DEF FileInv, OwnerInv, AwaitInv, InlineInv, DiskInv
  <2>4. ItemInv(Own(g))' /\ ItemInv(Rec(g))'
    BY <1>1, <2>0, <2>1, PhaseFacts, SMT DEF FileInv, ItemInv
  <2>5. QED
    BY <2>2, <2>3, <2>4 DEF FileInv
<1>7. QED
    BY <1>4, <1>5, <1>6 DEF Inv

----------------------------------------------------------------------------
LEMMA ScanInv ==
    ASSUME Inv, Scan
    PROVE  Inv'
<1>1. /\ reconcile = "todo" /\ reconcile' = "running" /\ scan' = {f \in Files : sidecar[f]}
      /\ UNCHANGED <<phase, fate, temp, sidecar, channel, inlineQ, inlineRun, remote>>
    BY DEF Scan, work, inline, disk
<1>2. Shape'
  <2>1. scan' \subseteq Files /\ reconcile' \in {"todo", "running", "done"}
    BY <1>1, Zenon
  <2>2. QED
    BY <1>1, <2>1, Zenon DEF Inv, Shape
<1>3. ChannelInv'
    BY <1>1, ChannelFrame
<1>4. ASSUME NEW g \in Files PROVE FileInv(g)'
  <2>1. /\ FileInv(g) /\ (Inlined(g)' <=> Inlined(g)) /\ (g \in scan' => sidecar[g])
        /\ Own(g)[1] = g /\ Rec(g)[1] = g
    BY <1>1, ItemFacts, InlineFrame, Zenon DEF Inv
  <2>2. FreshInv(g)' /\ CallingInv(g)' /\ InlineInv(g)' /\ DiskInv(g)'
    BY <1>1, <2>1, Zenon DEF FileInv, FreshInv, CallingInv, InlineInv, DiskInv
  <2>3. OwnerInv(g)' /\ AwaitInv(g)'
    BY <1>1, <2>1, SMT DEF FileInv, OwnerInv, AwaitInv
  <2>4. ItemInv(Own(g))' /\ ItemInv(Rec(g))'
    BY <1>1, <2>1, Zenon DEF FileInv, ItemInv
  <2>5. QED
    BY <2>2, <2>3, <2>4 DEF FileInv
<1>5. QED
    BY <1>2, <1>3, <1>4 DEF Inv

\* The recovery verifies a pair, hands it over or leaves it.
LEMMA RecMoveInv ==
    ASSUME Inv, NEW f \in Files, NEW p \in {"verified", "channel", "out"},
           (f \in scan /\ reconcile = "running") \/ phase[Rec(f)] = "verified",
           phase' = [phase EXCEPT ![Rec(f)] = p], temp[f] # "torn",
           scan' \subseteq scan, f \notin scan',
           UNCHANGED channel \/ (p = "channel" /\ channel' = Append(channel, Rec(f))),
           UNCHANGED <<temp, sidecar, fate, reconcile, inlineQ, inlineRun, remote>>
    PROVE  Inv'
<1>1. /\ FileInv(f) /\ phase[Rec(f)] \in {"idle", "verified"} /\ reconcile # "todo"
      /\ ~(fate[f] = "new" /\ phase[Own(f)] = "idle")
    BY SMT DEF Inv, FileInv, FreshInv, OwnerInv
<1>2. p \in Phases /\ phase[Rec(f)] # "channel" /\ p # "unlink" /\ p # "idle"
    BY <1>1, PhaseFacts, SMT
<1>3. /\ phase' \in [Items -> Phases] /\ phase'[Rec(f)] = p /\ phase'[Own(f)] = phase[Own(f)]
      /\ \A i \in Items : i # Rec(f) => phase'[i] = phase[i]
      /\ \A g \in Files : g # f => phase'[Own(g)] = phase[Own(g)] /\ phase'[Rec(g)] = phase[Rec(g)]
    BY <1>2, RecMoves
<1>4. channel' \in Seq(Items) /\ ChannelInv'
  <2>1. CASE UNCHANGED channel
    <3>1. channel' \in Seq(Items)
      BY <2>1 DEF Inv, Shape
    <3>2. \A i \in Items : phase[i] = "channel" => phase'[i] = "channel"
      BY <1>2, <1>3
    <3>3. QED
      BY <2>1, <3>1, <3>2, ChannelFrame
  <2>2. CASE p = "channel" /\ channel' = Append(channel, Rec(f))
    BY <1>2, <1>3, <2>2, ItemFacts, ChannelGrows
  <2>3. QED
    BY <2>1, <2>2
<1>5. Shape'
  <2>1. scan' \subseteq Files
    BY DEF Inv, Shape
  <2>2. QED
    BY <1>3, <1>4, <2>1, Zenon DEF Inv, Shape
<1>6. FileInv(f)'
  <2>1. Inlined(f)' <=> Inlined(f)
    BY InlineFrame
  <2>2. FreshInv(f)' /\ CallingInv(f)' /\ InlineInv(f)' /\ DiskInv(f)'
    BY <1>1, <1>3, <2>1, Zenon DEF FileInv, FreshInv, CallingInv, InlineInv, DiskInv
  <2>3. OwnerInv(f)'
    BY <1>1, Zenon DEF OwnerInv
  <2>4. AwaitInv(f)'
    <3>1. RecoveryAwaited => ~(phase[Own(f)] \in Calling \cup Queued \/ Inlined(f))
      BY <1>1, SMT DEF FileInv, AwaitInv
    <3>2. QED
      BY <1>3, <2>1, <3>1, Zenon DEF AwaitInv
  <2>5. ItemInv(Own(f))' /\ ItemInv(Rec(f))'
    BY <1>1, <1>2, <1>3, ItemFacts, Zenon DEF FileInv, ItemInv
  <2>6. QED
    BY <2>2, <2>3, <2>4, <2>5 DEF FileInv
<1>7. QED
    BY <1>3, <1>4, <1>5, <1>6, InlineFrame, OneFile

LEMMA RecoverySteps ==
    ASSUME Inv, NEW f \in Files,
           RecoverDrops(f) \/ RecoverReads(f) \/ RecoverEnqueues(f) \/ RecoverLeaves(f)
    PROVE  Inv'
<1>1. CASE RecoverDrops(f)
  <2>1. /\ reconcile = "running" /\ f \in scan /\ scan' = scan \ {f} /\ reconcile' = reconcile
        /\ temp' = [temp EXCEPT ![f] = "none"] /\ sidecar' = [sidecar EXCEPT ![f] = FALSE]
        /\ fate' = [fate EXCEPT ![f] = "settled"]
        /\ UNCHANGED <<phase, channel, inlineQ, inlineRun, remote>>
    BY <1>1 DEF RecoverDrops, work, inline
  <2>2. /\ temp' \in [Files -> {"none", "full", "torn"}] /\ temp'[f] = "none"
        /\ fate' \in [Files -> Fates] /\ fate'[f] = "settled"
        /\ \A g \in Files : g # f => temp'[g] = temp[g] /\ fate'[g] = fate[g]
    BY <2>1, SMT DEF Inv, Shape, Fates
  <2>3. sidecar' \in [Files -> BOOLEAN] /\ \A g \in Files : g # f => sidecar'[g] = sidecar[g]
    BY <2>1, Zenon DEF Inv, Shape
  <2>4. scan' \subseteq Files /\ f \notin scan' /\ \A g \in Files : g \in scan' => g \in scan
    BY <2>1 DEF Inv, Shape
  <2>5. Shape'
    BY <2>1, <2>2, <2>3, <2>4, Zenon DEF Inv, Shape
  <2>6. ChannelInv'
    BY <2>1, ChannelFrame
  <2>7. FileInv(f)'
    <3>1. FileInv(f) /\ (Inlined(f)' <=> Inlined(f)) /\ Own(f)[1] = f /\ Rec(f)[1] = f
      BY <2>1, ItemFacts, InlineFrame DEF Inv
    <3>2. FreshInv(f)' /\ CallingInv(f)' /\ InlineInv(f)' /\ DiskInv(f)'
      BY <2>1, <2>2, <3>1, SMT DEF FileInv, FreshInv, CallingInv, InlineInv, DiskInv
    <3>3. OwnerInv(f)' /\ AwaitInv(f)'
      BY <2>1, <2>4, <3>1, Zenon DEF FileInv, OwnerInv, AwaitInv
    <3>4. ItemInv(Own(f))' /\ ItemInv(Rec(f))'
      BY <2>2, <3>1, SMT DEF ItemInv
    <3>5. QED
      BY <3>2, <3>3, <3>4 DEF FileInv
  <2>8. QED
    BY <2>1, <2>2, <2>3, <2>4, <2>5, <2>6, <2>7, InlineFrame, OneFile
<1>2. CASE RecoverReads(f)
  <2>1. /\ reconcile = "running" /\ f \in scan /\ scan' = scan \ {f} /\ temp[f] # "torn"
        /\ phase' = [phase EXCEPT ![Rec(f)] = "verified"]
        /\ UNCHANGED <<temp, sidecar, fate, reconcile, channel, inlineQ, inlineRun, remote>>
    BY <1>2, Zenon DEF RecoverReads, Unusable, GoTo, work, inline, disk
  <2>2. QED
    BY <2>1, RecMoveInv
<1>3. CASE RecoverEnqueues(f) \/ RecoverLeaves(f)
  <2>1. phase[Rec(f)] = "verified"
    BY <1>3 DEF RecoverEnqueues, RecoverLeaves, Verified, At
  <2>2. /\ \/ phase' = [phase EXCEPT ![Rec(f)] = "channel"] /\ channel' = Append(channel, Rec(f))
           \/ phase' = [phase EXCEPT ![Rec(f)] = "out"] /\ UNCHANGED channel
        /\ UNCHANGED <<temp, sidecar, fate, reconcile, scan, inlineQ, inlineRun, remote>>
    BY <1>3 DEF RecoverEnqueues, RecoverLeaves, GoTo, work, inline, recov, disk
  <2>3. f \notin scan /\ temp[f] # "torn"
    BY <2>1, ItemFacts, SMT DEF Inv, FileInv, OwnerInv, ItemInv
  <2>4. QED
    BY <2>1, <2>2, <2>3, RecMoveInv
<1>4. QED
    BY <1>1, <1>2, <1>3

LEMMA CleanupInv ==
    ASSUME Inv, Cleanup
    PROVE  Inv'
<1>1. /\ reconcile = "running" /\ scan = {} /\ reconcile' = "done"
      /\ temp' = [f \in Files |-> IF Own(f) \in old THEN "none" ELSE temp[f]]
      /\ sidecar' = [f \in Files |-> sidecar[f] /\ Own(f) \notin old]
      /\ fate' = [f \in Files |-> IF Own(f) \in old /\ fate[f] \in {"new", "accepted"} THEN "settled"
                                  ELSE fate[f]]
      /\ UNCHANGED <<phase, channel, inlineQ, inlineRun, scan, remote>>
    BY DEF Cleanup, work, inline
<1>2. /\ temp' \in [Files -> {"none", "full", "torn"}]
      /\ \A g \in Files : temp'[g] = IF Own(g) \in old THEN "none" ELSE temp[g]
    BY <1>1, SMT DEF Inv, Shape
<1>3. /\ fate' \in [Files -> Fates]
      /\ \A g \in Files : fate'[g] = IF Own(g) \in old /\ fate[g] \in {"new", "accepted"} THEN "settled"
                                     ELSE fate[g]
    BY <1>1, SMT DEF Inv, Shape, Fates
<1>4. sidecar' \in [Files -> BOOLEAN] /\ \A g \in Files : sidecar'[g] <=> sidecar[g] /\ Own(g) \notin old
    BY <1>1, Zenon DEF Inv, Shape
<1>5. Shape'
    BY <1>1, <1>2, <1>3, <1>4, Zenon DEF Inv, Shape
<1>6. ChannelInv'
    BY <1>1, ChannelFrame
<1>7. ASSUME NEW g \in Files PROVE FileInv(g)'
  <2>1. /\ FileInv(g) /\ (Inlined(g)' <=> Inlined(g)) /\ g \notin scan'
        /\ Own(g)[1] = g /\ Rec(g)[1] = g
    BY <1>1, ItemFacts, InlineFrame DEF Inv
  <2>2. temp'[g] = (IF Own(g) \in old THEN "none" ELSE temp[g]) /\ (sidecar'[g] <=> sidecar[g] /\ Own(g) \notin old)
        /\ fate'[g] = IF Own(g) \in old /\ fate[g] \in {"new", "accepted"} THEN "settled" ELSE fate[g]
    BY <1>2, <1>3, <1>4
  <2>3. FreshInv(g)' /\ OwnerInv(g)' /\ AwaitInv(g)'
    BY <1>1, <2>1, <2>2, SMT DEF FileInv, FreshInv, OwnerInv, AwaitInv
  <2>c. CallingInv(g)' /\ InlineInv(g)'
    BY <1>1, <2>1, <2>2, SMT DEF FileInv, CallingInv, InlineInv
  <2>4. DiskInv(g)'
    BY <2>1, <2>2, SMT DEF FileInv, DiskInv
  <2>5. ItemInv(Own(g))' /\ ItemInv(Rec(g))'
    BY <1>1, <2>1, <2>2, PhaseFacts, SMT DEF FileInv, ItemInv
  <2>6. QED
    BY <2>3, <2>c, <2>4, <2>5 DEF FileInv
<1>8. QED
    BY <1>5, <1>6, <1>7 DEF Inv

\* The next process finds the directory, as the old one or a power loss left it.
LEMMA CrashInv ==
    ASSUME Inv, NEW t \in SUBSET {f \in Files : temp[f] = "full"},
           NEW b \in SUBSET {f \in Files : sidecar[f]},
           NEW d \in SUBSET {f \in Files \ t : temp[f] # "none"}, Crash(t, d, b)
    PROVE  Inv'
<1>1. /\ temp' = [f \in Files |-> IF f \in d THEN "none" ELSE IF f \in t THEN "torn" ELSE temp[f]]
      /\ sidecar' = [f \in Files |-> sidecar[f] /\ f \notin b]
      /\ phase' = [i \in Items |-> "idle"]
      /\ fate' = [f \in Files |-> IF phase[Own(f)] \in Calling THEN "refused"
                                  ELSE IF fate[f] = "accepted" /\ f \in t \cup d \cup b THEN "lost"
                                  ELSE fate[f]]
      /\ channel' = <<>> /\ inlineQ' = <<>> /\ inlineRun' = {} /\ reconcile' = "todo" /\ scan' = {}
      /\ UNCHANGED remote
    BY DEF Crash
<1>2. /\ temp' \in [Files -> {"none", "full", "torn"}]
      /\ fate' \in [Files -> Fates]
    BY <1>1, SMT DEF Inv, Shape, Fates
<1>s. sidecar' \in [Files -> BOOLEAN] /\ \A g \in Files : sidecar'[g] <=> sidecar[g] /\ g \notin b
    BY <1>1, Zenon DEF Inv, Shape
<1>3. phase' \in [Items -> Phases]
    BY <1>1, PhaseFacts, Zenon
<1>4. /\ channel' \in Seq(Items) /\ inlineQ' \in Seq(Files) /\ inlineRun' \subseteq Files
      /\ reconcile' \in {"todo", "running", "done"} /\ scan' \subseteq Files /\ ChannelInv'
    BY <1>1, SMT DEF ChannelInv
<1>5. Shape'
    BY <1>1, <1>2, <1>s, <1>3, <1>4, Zenon DEF Inv, Shape
<1>6. ASSUME NEW g \in Files PROVE FileInv(g)'
  <2>1. FileInv(g) /\ phase'[Own(g)] = "idle" /\ phase'[Rec(g)] = "idle"
    BY <1>1, ItemFacts, Zenon DEF Inv
  <2>2. ~Inlined(g)'
    BY <1>1, SMT DEF Inlined
  <2>3. /\ temp[g] = "none" => temp'[g] = "none"
        /\ g \notin t \cup d \cup b => temp'[g] = temp[g] /\ (sidecar'[g] <=> sidecar[g])
        /\ sidecar'[g] => sidecar[g]
        /\ fate'[g] = IF phase[Own(g)] \in Calling THEN "refused"
                      ELSE IF fate[g] = "accepted" /\ g \in t \cup d \cup b THEN "lost" ELSE fate[g]
    <3>1. temp'[g] = IF g \in d THEN "none" ELSE IF g \in t THEN "torn" ELSE temp[g]
      BY <1>1, SMT
    <3>2. fate'[g] = IF phase[Own(g)] \in Calling THEN "refused"
                     ELSE IF fate[g] = "accepted" /\ g \in t \cup d \cup b THEN "lost" ELSE fate[g]
      BY <1>1, SMT
    <3>3. g \in t => temp[g] = "full"
      OBVIOUS
    <3>4. QED
      BY <1>s, <3>1, <3>2, <3>3, SMT
  <2>4. FreshInv(g)' /\ CallingInv(g)' /\ InlineInv(g)'
    BY <1>1, <2>1, <2>2, <2>3, PhaseFacts, SMT DEF FileInv, FreshInv, CallingInv, InlineInv
  <2>o. OwnerInv(g)' /\ AwaitInv(g)'
    BY <1>1, <2>1, <2>2, PhaseFacts, SMT DEF OwnerInv, AwaitInv
  <2>5. DiskInv(g)'
    <3>1. fate'[g] = "accepted" => fate[g] = "accepted" /\ g \notin t \cup d \cup b
      BY <2>3, SMT
    <3>2. QED
      BY <2>1, <2>3, <3>1, Zenon DEF FileInv, DiskInv
  <2>6. ItemInv(Own(g))' /\ ItemInv(Rec(g))'
    BY <2>1, PhaseFacts, SMT DEF ItemInv
  <2>7. QED
    BY <2>4, <2>o, <2>5, <2>6 DEF FileInv
<1>7. QED
    BY <1>4, <1>5, <1>6 DEF Inv

----------------------------------------------------------------------------
LEMMA NextInv ==
    ASSUME Inv, [Next]_vars
    PROVE  Inv'
<1>1. CASE UNCHANGED vars
    BY <1>1, SameInv DEF vars, stats, work, inline, recov, disk
<1>2. ASSUME NEW f \in Files, Caller(f) \/ InlineDone(f) PROVE Inv'
    BY <1>2, CallerSteps, AcceptInv, InlineDoneInv DEF Caller
<1>3. ASSUME NEW f \in Files, Recovery(f) PROVE Inv'
    BY <1>3, RecoverySteps DEF Recovery
<1>4. ASSUME NEW i \in Items,
             \/ Dispatch(i) \/ Wire(i) \/ TaskOf(i) \/ ParkRefused(i) \/ ParkWakes(i) \/ Reacquire(i)
             \/ Age(i)
      PROVE  Inv'
    BY <1>4, TaskSteps, QuietSteps, WireSucceedsInv, EndSteps DEF TaskOf, Wire
<1>5. CASE Worker \/ Drain
    BY <1>5, QuietSteps, WorkerRecvInv DEF Worker
<1>6. CASE InlineAcquire \/ DrainTimeout \/ Scan \/ Cleanup
    BY <1>6, InlineAcquireInv, DrainTimeoutInv, ScanInv, CleanupInv
<1>7. ASSUME NEW t \in SUBSET {f \in Files : temp[f] = "full"},
             NEW b \in SUBSET {f \in Files : sidecar[f]},
             NEW d \in SUBSET {f \in Files \ t : temp[f] # "none"}, Crash(t, d, b)
      PROVE  Inv'
    BY <1>7, CrashInv
<1>8. QED
    BY <1>1, <1>2, <1>3, <1>4, <1>5, <1>6, <1>7 DEF Next

LEMMA SpecInv == Spec => []Inv
<1>1. Inv /\ [Next]_vars => Inv'
    BY NextInv
<1>2. QED
    BY <1>1, InitInv, PTL DEF Spec

\* What the queue accepted with a sidecar and did not settle is on disk as a pair in every state,
\* through retries, aborted drains, crashes and recoveries.
THEOREM AcceptedIsDurable == Spec => []DurableAccepted
<1>1. Inv => DurableAccepted
    BY Zenon DEF Inv, FileInv, DiskInv, DurableAccepted
<1>2. QED
    BY <1>1, SpecInv, PTL

\* Neither the queue nor an inline upload ever sends a temp file that a power loss tore.
THEOREM UploadsAreIntact == Spec => []UploadedIntact
<1>1. Inv => UploadedIntact
    BY SMT DEF Inv, Shape, UploadedIntact
<1>2. QED
    BY <1>1, SpecInv, PTL

-----------------------------------------------------------------------------
(* The counters of UploadQueueStats, the worker's permits and the marks of the paths in flight
   agree with the items there are, at every step of every interleaving; and type correctness,
   which needs that none of the unsigned counters is ever taken below zero. *)


Tasks == [attempts : 0..MaxAttempts, auth : BOOLEAN, permit : BOOLEAN, charge : Nat,
          result : {"none", "ok", "terminal", "exhausted", "expired"}]

\* The phases in which an item waits for something: an abort drops it.
Waiting == {"channel", "held"} \cup Uploading

\* An item that still needs its temp file.
Kept(i) == phase[i] \in Waiting \/ (phase[i] = "verified" /\ i = Rec(i[1]))

\* What process_item will take off pending_bytes: the bytes of the artifact or, beside a
\* recovery that is not awaited and has removed the temp file, none.
ChargeOK(i, c) == c \in {0, Size[i[1]]} /\ (RecoveryAwaited => c = Size[i[1]])

\* The charge is read when the upload begins, and then kept.
Carries(i, p, t) ==
    p \in (Uploading \ {"start"}) \cup Ending =>
      \/ phase[i] = "start" /\ t.charge = FileSize(i[1])
      \/ phase[i] \in (Uploading \ {"start"}) \cup Ending /\ t.charge = task[i].charge

\* The bytes an item will still take off pending_bytes.
Owed(i) ==
    \/ phase[i] = "send"
    \/ phase[i] \in {"channel", "held", "start"} /\ temp[i[1]] # "none"
    \/ phase[i] \in (Uploading \ {"start"}) \cup Ending /\ task[i].charge # 0

\* What the upload of an item knows: who holds a permit, what it will take off pending_bytes,
\* that an item without a task has no task state, and, where the recovery is awaited, that its
\* temp file is there until it has ended, whatever cleanup_orphans removes.
TaskInv(i) ==
    /\ phase[i] \notin Uploading \cup Ending => task[i] = NoTask
    /\ phase[i] \in {"start", "try", "backoff"} => task[i].permit
    /\ phase[i] \in {"park", "reacquire"} => ~task[i].permit
    /\ phase[i] \in (Uploading \ {"start"}) \cup Ending => ChargeOK(i, task[i].charge)
    /\ RecoveryAwaited /\ Kept(i) => temp[i[1]] # "none"
    /\ RecoveryAwaited /\ Kept(i) /\ reconcile = "running" /\ i = Rec(i[1]) => Own(i[1]) \notin old

TasksInv == task \in [Items -> Tasks] /\ \A i \in Items : TaskInv(i)

----------------------------------------------------------------------------
(* Tasks *)

LEMMA NoTaskType == NoTask \in Tasks /\ NoTask.permit = FALSE
BY QueueAssumption, SMT DEF NoTask, Tasks

LEMMA GroupFacts ==
    /\ Waiting \subseteq Queued /\ Uploading \subseteq Waiting
    /\ \A p \in Calling \cup {"idle", "out", "verified"} : p \notin Waiting \cup Uploading \cup Ending
    /\ \A p \in Ending : p \notin Waiting /\ p # "verified"
    /\ \A p \in Waiting : p # "verified"
    /\ \A p \in Calling \cup {"idle", "out"} : p # "verified"
    /\ {"start", "try", "backoff", "park", "reacquire"} = Uploading
    /\ {"finish", "unlink", "settle", "debit"} = Ending
    /\ {"channel", "held"} \subseteq Waiting
    /\ "channel" \notin Uploading \cup Ending /\ "held" \notin Uploading \cup Ending
BY SMT DEF Waiting, Queued, Uploading, Ending, Calling

\* A step that moves one item.
LEMMA TaskStep ==
    ASSUME Inv, TasksInv, NEW i \in Items, task' \in [Items -> Tasks], TaskInv(i)',
           \A j \in Items : j # i => phase'[j] = phase[j] /\ task'[j] = task[j],
           UNCHANGED <<temp, reconcile, old>>
    PROVE  TasksInv'
<1>1. ASSUME NEW j \in Items, j # i PROVE TaskInv(j)'
  <2>1. TaskInv(j)
    BY DEF TasksInv
  <2>2. phase'[j] = phase[j] /\ task'[j] = task[j] /\ (Kept(j)' <=> Kept(j))
    BY <1>1 DEF Kept
  <2>3. QED
    BY <2>1, <2>2, Zenon DEF TaskInv
<1>2. QED
    BY <1>1, Zenon DEF TasksInv

\* A step of the task of an item, or one that hands the item to it.
LEMMA TaskMove ==
    ASSUME Inv, TasksInv, NEW i \in Items, NEW p, NEW t \in Tasks,
           phase' = [phase EXCEPT ![i] = p], task' = [task EXCEPT ![i] = t],
           p \notin Uploading \cup Ending => t = NoTask,
           p \in {"start", "try", "backoff"} => t.permit,
           p \in {"park", "reacquire"} => ~t.permit,
           Carries(i, p, t), p # "verified",
           p \in Waiting => phase[i] \in Waiting,
           UNCHANGED <<temp, reconcile, old>>
    PROVE  TasksInv'
<1>1. /\ phase'[i] = p /\ task'[i] = t /\ task' \in [Items -> Tasks]
      /\ \A j \in Items : j # i => phase'[j] = phase[j] /\ task'[j] = task[j]
    BY Zenon DEF Inv, Shape, TasksInv
<1>2. TaskInv(i)
    BY DEF TasksInv
<1>k. Kept(i)' => Kept(i)
    BY <1>1, Zenon DEF Kept
<1>c. p \in (Uploading \ {"start"}) \cup Ending => ChargeOK(i, t.charge)
  <2>1. CASE phase[i] = "start" /\ t.charge = FileSize(i[1])
    <3>1. Kept(i) /\ FileSize(i[1]) \in {0, Size[i[1]]}
      BY <2>1, GroupFacts, Zenon DEF Kept, FileSize
    <3>2. RecoveryAwaited => FileSize(i[1]) = Size[i[1]]
      BY <1>2, <3>1, Zenon DEF TaskInv, FileSize
    <3>3. QED
      BY <2>1, <3>1, <3>2 DEF ChargeOK
  <2>2. CASE phase[i] \in (Uploading \ {"start"}) \cup Ending /\ t.charge = task[i].charge
    BY <1>2, <2>2 DEF TaskInv
  <2>3. QED
    BY <2>1, <2>2, Zenon DEF Carries
<1>3. TaskInv(i)'
    BY <1>1, <1>2, <1>k, <1>c, Zenon DEF TaskInv
<1>4. QED
    BY <1>1, <1>3, TaskStep

\* A step of a caller or of the recovery: the item has no task before or after it.
LEMMA CallMove ==
    ASSUME Inv, TasksInv, NEW i \in Items, NEW p,
           \/ p \in {"idle", "out"} \cup Calling
           \/ p \in {"channel", "held", "verified"} /\ (RecoveryAwaited => temp[i[1]] # "none"),
           phase[i] \notin Uploading \cup Ending,
           phase' = [phase EXCEPT ![i] = p], UNCHANGED <<task, reconcile, old>>,
           RecoveryAwaited /\ reconcile = "running" /\ p \in {"channel", "held", "verified"}
             => Own(i[1]) \notin old,
           temp'[i[1]] = temp[i[1]] \/ p \in {"idle", "out"} \cup Calling,
           \A j \in Items : RecoveryAwaited /\ j # i /\ Kept(j) => temp'[j[1]] # "none"
    PROVE  TasksInv'
<1>1. /\ phase'[i] = p /\ \A j \in Items : j # i => phase'[j] = phase[j]
    BY Zenon DEF Inv, Shape
<1>2. TaskInv(i) /\ \A j \in Items : TaskInv(j)
    BY DEF TasksInv
<1>3. TaskInv(i)'
  <2>1. task'[i] = NoTask
    BY <1>2, Zenon DEF TaskInv
  <2>2. /\ p \notin Uploading \cup Ending
        /\ Kept(i)' => p \in {"channel", "held", "verified"} /\ p \notin {"idle", "out"} \cup Calling
    BY <1>1, GroupFacts, SMT DEF Kept
  <2>3. p \notin {"start", "try", "backoff"} /\ p \notin {"park", "reacquire"}
    BY <2>2, SMT DEF Uploading
  <2>4. QED
    BY <1>1, <2>1, <2>2, <2>3, Zenon DEF TaskInv
<1>4. ASSUME NEW j \in Items, j # i PROVE TaskInv(j)'
  <2>1. phase'[j] = phase[j] /\ task'[j] = task[j] /\ (Kept(j)' <=> Kept(j))
    BY <1>1, <1>4 DEF Kept
  <2>2. RecoveryAwaited /\ Kept(j) => temp'[j[1]] # "none"
    BY <1>4
  <2>3. QED
    BY <1>2, <2>1, <2>2, Zenon DEF TaskInv
<1>5. QED
    BY <1>3, <1>4, Zenon DEF TasksInv

\* What the steps of a caller have in common.
LEMMA CallFacts ==
    ASSUME Inv, NEW f \in Files,
           \/ Begin(f) \/ Deduplicated(f) \/ WriteFails(f) \/ CheckBudget(f) \/ WriteSidecar(f)
           \/ Count(f) \/ Accept(f) \/ Reject(f)
    PROVE  /\ phase[Own(f)] \in {"idle"} \cup Calling
           /\ RecoveryAwaited => reconcile = "done" /\ phase[Rec(f)] = "idle"
           /\ phase[Rec(f)] = "idle" \/ temp' = temp \/ temp'[f] = "none"
           /\ UNCHANGED <<task, permits, reconcile, old, aborted>>
           /\ \A g \in Files : g # f => temp'[g] = temp[g]
           /\ \E p \in {"out", "channel"} \cup Calling :
                /\ phase' = [phase EXCEPT ![Own(f)] = p]
                /\ p = "channel" =>
                     (RecoveryAwaited => temp[f] = "full") /\ UNCHANGED temp /\ phase[Own(f)] = "send"
<1>0. FileInv(f)
    BY DEF Inv
<1>1. CASE Begin(f) \/ Deduplicated(f) \/ WriteFails(f)
  <2>1. phase[Own(f)] = "idle" /\ fate[f] = "new" /\ (RecoveryAwaited => reconcile = "done")
    BY <1>1 DEF Begin, Deduplicated, WriteFails, At, MayCall
  <2>2. UNCHANGED <<task, permits, reconcile, old, aborted>>
    BY <1>1 DEF Begin, Deduplicated, WriteFails, work, recov
  <2>3. \E p \in {"out", "sidecar", "budget"} : phase' = [phase EXCEPT ![Own(f)] = p]
    BY <1>1, SMT DEF Begin, Deduplicated, WriteFails, GoTo
  <2>4. {"sidecar", "budget"} \subseteq Calling /\ "channel" \notin {"out", "sidecar", "budget"}
    BY SMT DEF Calling
  <2>5. \A g \in Files : g # f => temp'[g] = temp[g]
    BY <1>1, SMT DEF Begin, Deduplicated, WriteFails, disk, Inv, Shape
  <2>6. phase[Rec(f)] = "idle"
    BY <2>1, CallerFacts
  <2>7. QED
    BY <2>1, <2>2, <2>3, <2>4, <2>5, <2>6, Zenon
<1>2. CASE CheckBudget(f) \/ WriteSidecar(f) \/ Count(f) \/ Accept(f) \/ Reject(f)
  <2>1. phase[Own(f)] \in {"budget", "sidecar", "count", "send"}
    BY <1>2, Zenon DEF CheckBudget, WriteSidecar, Count, Accept, Reject, At
  <2>2. phase[Own(f)] \in Calling
    BY <2>1 DEF Calling
  <2>3. RecoveryAwaited => reconcile = "done" /\ temp[f] = "full" /\ phase[Rec(f)] = "idle"
    BY <2>2, CallerFacts
  <2>4. UNCHANGED <<task, permits, reconcile, old, aborted>>
    BY <1>2 DEF CheckBudget, WriteSidecar, Count, Accept, Reject, Refuse, work, recov
  <2>5. (\A g \in Files : g # f => temp'[g] = temp[g]) /\ (temp' = temp \/ temp'[f] = "none")
    <3>1. temp' = temp \/ temp' = [temp EXCEPT ![f] = "none"]
      BY <1>2, Zenon DEF CheckBudget, WriteSidecar, Count, Accept, Reject, disk
    <3>2. QED
      BY <3>1, SMT DEF Inv, Shape
  <2>6. \E p \in {"out", "sidecar", "count", "send", "channel"} :
           /\ phase' = [phase EXCEPT ![Own(f)] = p]
           /\ p = "channel" => UNCHANGED temp /\ phase[Own(f)] = "send"
    BY <1>2, SMT DEF CheckBudget, WriteSidecar, Count, Accept, Reject, Refuse, At, GoTo, disk
  <2>7. {"sidecar", "count", "send"} \subseteq Calling
    BY SMT DEF Calling
  <2>8. QED
    BY <2>2, <2>3, <2>4, <2>5, <2>6, <2>7, Zenon
<1>3. QED
    BY <1>1, <1>2

LEMMA CallerTasks ==
    ASSUME Inv, TasksInv, NEW f \in Files,
           \/ Begin(f) \/ Deduplicated(f) \/ WriteFails(f) \/ CheckBudget(f) \/ WriteSidecar(f)
           \/ Count(f) \/ Accept(f) \/ Reject(f)
    PROVE  TasksInv'
<1>1. PICK p \in {"out", "channel"} \cup Calling :
        /\ phase' = [phase EXCEPT ![Own(f)] = p]
        /\ p = "channel" => (RecoveryAwaited => temp[f] = "full") /\ UNCHANGED temp
    BY CallFacts
<1>2. /\ phase[Own(f)] \in {"idle"} \cup Calling
      /\ RecoveryAwaited => reconcile = "done" /\ phase[Rec(f)] = "idle"
      /\ UNCHANGED <<task, reconcile, old>> /\ \A g \in Files : g # f => temp'[g] = temp[g]
    BY CallFacts
<1>3. /\ Own(f) \in Items /\ Own(f)[1] = f /\ phase[Own(f)] \notin Uploading \cup Ending
      /\ RecoveryAwaited => reconcile # "running" /\ "full" # "none"
    BY <1>2, ItemFacts, GroupFacts
<1>4. ASSUME RecoveryAwaited, NEW j \in Items, j # Own(f), Kept(j) PROVE temp'[j[1]] # "none"
  <2>1. j # Rec(f) /\ TaskInv(j)
    <3>1. ~Kept(Rec(f))
      BY <1>2, <1>4, GroupFacts, SMT DEF Kept
    <3>2. QED
      BY <1>4, <3>1 DEF TasksInv
  <2>2. j[1] \in Files /\ j[1] # f
    BY <1>4, <2>1, ItemFacts
  <2>3. QED
    BY <1>2, <1>4, <2>1, <2>2 DEF TaskInv
<1>5. \/ p \in {"idle", "out"} \cup Calling /\ p # "channel"
      \/ /\ p \in {"channel", "held", "verified"} /\ (RecoveryAwaited => temp[Own(f)[1]] # "none")
         /\ temp'[Own(f)[1]] = temp[Own(f)[1]]
    BY <1>1, <1>3, SMT DEF Calling
<1>6. QED
    BY <1>1, <1>2, <1>3, <1>4, <1>5, CallMove

\* The worker takes an item from the channel.
LEMMA RecvMove ==
    ASSUME Inv, WorkerRecv
    PROVE  \E i \in Items : phase[i] = "channel" /\ phase' = [phase EXCEPT ![i] = "held"]
<1>1. channel # <<>> /\ phase' = [phase EXCEPT ![Head(channel)] = "held"]
    BY DEF WorkerRecv, GoTo
<1>2. channel \in Seq(Items)
    BY DEF Inv, Shape
<1>3. Head(channel) \in Items /\ Head(channel) = channel[1] /\ 1 \in 1..Len(channel)
    BY <1>1, <1>2, SMT
<1>4. phase[Head(channel)] = "channel"
    BY <1>3 DEF Inv, ChannelInv
<1>5. QED
    BY <1>1, <1>3, <1>4

LEMMA RecvTasks ==
    ASSUME Inv, TasksInv, WorkerRecv
    PROVE  TasksInv'
<1>1. PICK i \in Items : phase[i] = "channel" /\ phase' = [phase EXCEPT ![i] = "held"]
    BY RecvMove
<1>2. UNCHANGED <<task, temp, reconcile, old>>
    BY DEF WorkerRecv, WorkerGoes, disk, recov
<1>3. task \in [Items -> Tasks] /\ TaskInv(i)
    BY DEF TasksInv
<1>4. phase'[i] = "held" /\ \A j \in Items : j # i => phase'[j] = phase[j]
    BY <1>1, Zenon DEF Inv, Shape
<1>k. Kept(i)
    BY <1>1, GroupFacts, Zenon DEF Kept
<1>5. TaskInv(i)'
  <2>1. task'[i] = NoTask /\ (RecoveryAwaited => temp'[i[1]] # "none")
    BY <1>1, <1>2, <1>3, <1>k, GroupFacts, Zenon DEF TaskInv
  <2>2. RecoveryAwaited /\ reconcile' = "running" /\ i = Rec(i[1]) => Own(i[1]) \notin old'
    BY <1>1, <1>2, <1>3, <1>k, Zenon DEF TaskInv
  <2>3. "held" \notin {"start", "try", "backoff"} /\ "held" \notin {"park", "reacquire"}
    BY SMT
  <2>4. QED
    BY <1>4, <2>1, <2>2, <2>3, GroupFacts, Zenon DEF TaskInv
<1>6. QED
    BY <1>2, <1>3, <1>4, <1>5, TaskStep

\* The steps that leave every item where it is.
LEMMA StillTasks ==
    ASSUME Inv, TasksInv, UNCHANGED <<phase, task, temp, reconcile>>, old' = old \/ reconcile # "running"
    PROVE  TasksInv'
<1>1. ASSUME NEW j \in Items PROVE TaskInv(j)'
  <2>1. TaskInv(j)
    BY DEF TasksInv
  <2>2. Kept(j)' <=> Kept(j)
    BY Zenon DEF Kept
  <2>3. QED
    BY <2>1, <2>2, Zenon DEF TaskInv
<1>2. QED
    BY <1>1 DEF TasksInv

\* The steps that touch the disk of artifacts: where the recovery is awaited, they have no item
\* that waits.
LEMMA DiskTasks ==
    ASSUME Inv, TasksInv, \/ \E f \in Files : InlineDone(f) \/ RecoverDrops(f)
                          \/ Scan \/ Cleanup
    PROVE  TasksInv'
<1>1. ASSUME NEW f \in Files, InlineDone(f) \/ RecoverDrops(f) PROVE TasksInv'
  <2>1. /\ UNCHANGED <<phase, task, reconcile, old>>
        /\ temp' = temp \/ temp' = [temp EXCEPT ![f] = "none"]
    BY <1>1 DEF InlineDone, RecoverDrops, recov
  <2>2. RecoveryAwaited => ~Kept(Own(f)) /\ ~Kept(Rec(f))
    <3>0. FileInv(f) /\ Own(f)[1] = f /\ Own(f) # Rec(f)
      BY ItemFacts DEF Inv
    <3>1. CASE InlineDone(f)
      <4>1. f \in inlineRun
        BY <3>1 DEF InlineDone
      <4>2. RecoveryAwaited => phase[Rec(f)] = "idle" /\ phase[Own(f)] = "out"
        BY <3>0, <4>1, Zenon DEF Inlined, FileInv, InlineInv, AwaitInv
      <4>3. QED
        BY <4>2, GroupFacts, SMT DEF Kept
    <3>2. CASE RecoverDrops(f)
      <4>1. reconcile = "running" /\ f \in scan
        BY <3>2 DEF RecoverDrops
      <4>2. phase[Rec(f)] = "idle" /\ (RecoveryAwaited => phase[Own(f)] \notin Queued)
        BY <3>0, <4>1, SMT DEF FileInv, OwnerInv, AwaitInv
      <4>3. QED
        BY <3>0, <4>2, GroupFacts, SMT DEF Kept
    <3>3. QED
      BY <1>1, <3>1, <3>2
  <2>3. ASSUME NEW j \in Items PROVE TaskInv(j)'
    <3>1. TaskInv(j) /\ j[1] \in Files /\ (j = Own(j[1]) \/ j = Rec(j[1])) /\ (Kept(j)' <=> Kept(j))
      BY <2>1, ItemFacts DEF TasksInv, Kept
    <3>2. RecoveryAwaited /\ Kept(j) => j[1] # f
      BY <2>2, <3>1, Zenon
    <3>3. RecoveryAwaited /\ Kept(j) => temp'[j[1]] # "none"
      <4>1. j[1] # f => temp'[j[1]] = temp[j[1]]
        BY <2>1, <3>1, Zenon DEF Inv, Shape
      <4>2. QED
        BY <3>1, <3>2, <4>1 DEF TaskInv
    <3>4. QED
      BY <2>1, <3>1, <3>3, Zenon DEF TaskInv
  <2>4. QED
    BY <2>1, <2>3 DEF TasksInv
<1>3. CASE Scan
  <2>1. reconcile = "todo" /\ UNCHANGED <<phase, task, temp, old>>
    BY <1>3 DEF Scan, disk
  <2>2. ASSUME NEW j \in Items PROVE TaskInv(j)'
    <3>1. TaskInv(j) /\ j[1] \in Files /\ (Kept(j)' <=> Kept(j))
      BY <2>1, ItemFacts DEF TasksInv, Kept
    <3>2. phase[Rec(j[1])] = "idle"
      BY <2>1, <3>1 DEF Inv, FileInv, OwnerInv
    <3>3. j = Rec(j[1]) => ~Kept(j)
      BY <3>2, GroupFacts, SMT DEF Kept
    <3>4. QED
      BY <2>1, <3>1, <3>3, Zenon DEF TaskInv
  <2>3. QED
    BY <2>1, <2>2 DEF TasksInv
<1>4. CASE Cleanup
  <2>1. /\ reconcile = "running" /\ reconcile' = "done" /\ UNCHANGED <<phase, task, old>>
        /\ temp' = [f \in Files |-> IF Own(f) \in old THEN "none" ELSE temp[f]]
    BY <1>4 DEF Cleanup
  <2>2. ASSUME NEW j \in Items PROVE TaskInv(j)'
    <3>1. TaskInv(j) /\ j[1] \in Files /\ (j = Own(j[1]) \/ j = Rec(j[1])) /\ (Kept(j)' <=> Kept(j))
      BY <2>1, ItemFacts DEF TasksInv, Kept
    <3>2. RecoveryAwaited /\ Kept(j) => j = Rec(j[1])
      <4>1. RecoveryAwaited => phase[Own(j[1])] \notin Queued
        BY <2>1, <3>1, SMT DEF Inv, FileInv, AwaitInv
      <4>2. QED
        BY <3>1, <4>1, GroupFacts, Zenon DEF Kept
    <3>3. RecoveryAwaited /\ Kept(j) => Own(j[1]) \notin old /\ temp[j[1]] # "none"
      BY <2>1, <3>1, <3>2, Zenon DEF TaskInv
    <3>4. RecoveryAwaited /\ Kept(j) => temp'[j[1]] # "none"
      BY <2>1, <3>1, <3>3, Zenon
    <3>5. QED
      BY <2>1, <3>1, <3>4, Zenon DEF TaskInv
  <2>3. QED
    BY <2>1, <2>2 DEF TasksInv
<1>5. QED
    BY <1>1, <1>3, <1>4

\* The recovery verifies a pair and hands it over, or leaves it.
LEMMA RecoveryTasks ==
    ASSUME Inv, TasksInv, NEW f \in Files, RecoverReads(f) \/ RecoverEnqueues(f) \/ RecoverLeaves(f)
    PROVE  TasksInv'
<1>0. Rec(f) \in Items /\ Rec(f)[1] = f /\ TaskInv(Rec(f))
    BY ItemFacts DEF TasksInv
<1>1. UNCHANGED <<task, temp, reconcile, old>>
    BY DEF RecoverReads, RecoverEnqueues, RecoverLeaves, disk, recov
<1>4. ASSUME NEW j \in Items, RecoveryAwaited, Kept(j) PROVE temp'[j[1]] # "none"
    BY <1>1, <1>4 DEF TasksInv, TaskInv
<1>5. CASE RecoverReads(f)
  <2>1. /\ reconcile = "running" /\ f \in scan /\ Own(f) \notin old /\ temp[f] # "none"
        /\ phase' = [phase EXCEPT ![Rec(f)] = "verified"]
    BY <1>5, SMT DEF RecoverReads, Unusable, GoTo
  <2>2. phase[Rec(f)] = "idle"
    BY <2>1 DEF Inv, FileInv, OwnerInv
  <2>3. phase[Rec(f)] \notin Uploading \cup Ending
    BY <2>2, GroupFacts
  <2>4. QED
    BY <1>0, <1>1, <1>4, <2>1, <2>3, CallMove
<1>6. CASE RecoverEnqueues(f) \/ RecoverLeaves(f)
  <2>1. phase[Rec(f)] = "verified" /\ \E p \in {"channel", "out"} : phase' = [phase EXCEPT ![Rec(f)] = p]
    BY <1>6, Zenon DEF RecoverEnqueues, RecoverLeaves, Verified, At, GoTo
  <2>2. Kept(Rec(f)) /\ phase[Rec(f)] \notin Uploading \cup Ending
    BY <1>0, <2>1, GroupFacts, Zenon DEF Kept
  <2>3. RecoveryAwaited => temp[f] # "none" /\ (reconcile = "running" => Own(f) \notin old)
    BY <1>0, <2>2, Zenon DEF TaskInv
  <2>4. QED
    BY <1>0, <1>1, <1>4, <2>1, <2>2, <2>3, CallMove
<1>7. QED
    BY <1>5, <1>6

----------------------------------------------------------------------------
(* Permits *)

Holding == {i \in Items : task[i].permit}

\* The semaphore: the free permits and the items that hold one make up the whole.
PermitInv ==
    /\ permits \in Nat /\ IsFiniteSet(Holding)
    /\ permits + Cardinality(Holding) = MaxConcurrent

\* An item takes a permit that is free, gives its permit back, or does neither.
Balanced(i, t) ==
    \/ (t.permit <=> task[i].permit) /\ permits' = permits
    \/ t.permit /\ ~task[i].permit /\ permits > 0 /\ permits' = permits - 1
    \/ ~t.permit /\ task[i].permit /\ permits' = permits + 1

\* A step in which no item takes a permit or gives one back.
LEMMA PermitsSame ==
    ASSUME PermitInv, permits' = permits, \A i \in Items : task'[i].permit <=> task[i].permit
    PROVE  PermitInv'
<1>1. Holding' = Holding
    BY Zenon DEF Holding
<1>2. QED
    BY <1>1 DEF PermitInv

\* A step of one item's upload.
LEMMA PermitsMove ==
    ASSUME TasksInv, PermitInv, NEW i \in Items, NEW t, task' = [task EXCEPT ![i] = t], Balanced(i, t)
    PROVE  PermitInv'
<1>0. /\ task'[i] = t /\ \A j \in Items : j # i => task'[j] = task[j]
    BY Zenon DEF TasksInv
<1>1. /\ IsFiniteSet(Holding) /\ Cardinality(Holding) \in Nat /\ permits \in Nat /\ MaxConcurrent \in Nat
      /\ permits + Cardinality(Holding) = MaxConcurrent
    BY FS_CardinalityType, QueueAssumption, SMT DEF PermitInv
<1>2. CASE (t.permit <=> task[i].permit) /\ permits' = permits
  <2>1. \A j \in Items : task'[j].permit <=> task[j].permit
    BY <1>0, <1>2, Zenon
  <2>2. QED
    BY <1>2, <2>1, PermitsSame
<1>3. CASE t.permit /\ ~task[i].permit /\ permits > 0 /\ permits' = permits - 1
  <2>1. Holding' = Holding \cup {i} /\ i \notin Holding
    BY <1>0, <1>3, Zenon DEF Holding
  <2>2. IsFiniteSet(Holding') /\ Cardinality(Holding') = Cardinality(Holding) + 1
    BY <1>1, <2>1, FS_AddElement
  <2>3. permits > 0 /\ permits' = permits - 1
    BY <1>3
  <2>4. permits' \in Nat /\ permits' + Cardinality(Holding') = MaxConcurrent
    BY <1>1, <2>2, <2>3, SMT
  <2>5. QED
    BY <2>2, <2>4 DEF PermitInv
<1>4. CASE ~t.permit /\ task[i].permit /\ permits' = permits + 1
  <2>1. Holding' = Holding \ {i} /\ i \in Holding
    BY <1>0, <1>4, Zenon DEF Holding
  <2>2. IsFiniteSet(Holding') /\ Cardinality(Holding') = Cardinality(Holding) - 1
    BY <1>1, <2>1, FS_RemoveElement
  <2>3. permits' = permits + 1
    BY <1>4
  <2>4. permits' \in Nat /\ permits' + Cardinality(Holding') = MaxConcurrent
    BY <1>1, <2>2, <2>3, SMT
  <2>5. QED
    BY <2>2, <2>4 DEF PermitInv
<1>5. QED
    BY <1>2, <1>3, <1>4 DEF Balanced

\* A step of one item's upload, for the task and for the permits.
LEMMA UploadMove ==
    ASSUME Inv, TasksInv, PermitInv, NEW i \in Items, NEW p, NEW t \in Tasks,
           phase' = [phase EXCEPT ![i] = p], task' = [task EXCEPT ![i] = t],
           p \notin Uploading \cup Ending => t = NoTask,
           p \in {"start", "try", "backoff"} => t.permit,
           p \in {"park", "reacquire"} => ~t.permit,
           Carries(i, p, t), p \in Uploading \cup Ending \cup {"out"},
           p = "start" => phase[i] = "held",
           p \in Waiting => phase[i] \in Waiting,
           UNCHANGED <<temp, reconcile, old>>, Balanced(i, t)
    PROVE  TasksInv' /\ PermitInv' /\ \A j \in Items : Owed(j)' => Owed(j)
<1>1. p # "verified" /\ p \notin {"send", "channel", "held"}
    BY SMT DEF Uploading, Ending
<1>2. TasksInv' /\ PermitInv'
    BY <1>1, TaskMove, PermitsMove
<1>3. ASSUME NEW j \in Items, Owed(j)' PROVE Owed(j)
  <2>1. /\ phase'[i] = p /\ task'[i] = t
        /\ j # i => phase'[j] = phase[j] /\ task'[j] = task[j]
    BY Zenon DEF Inv, Shape, TasksInv
  <2>2. CASE j # i
    BY <1>3, <2>1, <2>2, Zenon DEF Owed
  <2>3. CASE j = i
    <3>1. \/ p = "start" /\ temp[i[1]] # "none"
          \/ p \in (Uploading \ {"start"}) \cup Ending /\ t.charge # 0
      BY <1>1, <1>3, <2>1, <2>3, SMT DEF Owed
    <3>2. CASE p = "start" /\ temp[i[1]] # "none"
      BY <2>3, <3>2, Zenon DEF Owed
    <3>3. CASE p \in (Uploading \ {"start"}) \cup Ending /\ t.charge # 0
      <4>1. CASE phase[i] = "start" /\ t.charge = FileSize(i[1])
        BY <2>3, <3>3, <4>1, Zenon DEF Owed, FileSize
      <4>2. CASE phase[i] \in (Uploading \ {"start"}) \cup Ending /\ t.charge = task[i].charge
        BY <2>3, <3>3, <4>2, Zenon DEF Owed
      <4>3. QED
        BY <3>3, <4>1, <4>2, Zenon DEF Carries
    <3>4. QED
      BY <3>1, <3>2, <3>3
  <2>4. QED
    BY <2>2, <2>3
<1>4. QED
    BY <1>2, <1>3

\* The fields of a task.
LEMMA ResultField ==
    ASSUME NEW t \in Tasks, NEW r \in {"ok", "terminal", "exhausted", "expired"}
    PROVE  LET u == [t EXCEPT !.result = r]
           IN u \in Tasks /\ (u.permit <=> t.permit) /\ u.charge = t.charge
BY SMT DEF Tasks

LEMMA ChargeField ==
    ASSUME NEW t \in Tasks, NEW n \in Nat
    PROVE  LET u == [t EXCEPT !.charge = n]
           IN u \in Tasks /\ (u.permit <=> t.permit) /\ u.charge = n
BY SMT DEF Tasks

LEMMA AuthField ==
    ASSUME NEW t \in Tasks, NEW b \in BOOLEAN
    PROVE  LET u == [t EXCEPT !.auth = b]
           IN u \in Tasks /\ (u.permit <=> t.permit) /\ u.charge = t.charge
BY SMT DEF Tasks

LEMMA PermitField ==
    ASSUME NEW t \in Tasks, NEW b \in BOOLEAN
    PROVE  LET u == [t EXCEPT !.permit = b]
           IN u \in Tasks /\ (u.permit <=> b) /\ u.charge = t.charge
BY SMT DEF Tasks

LEMMA TwoFields ==
    ASSUME NEW t \in Tasks, NEW r, NEW n, NEW b, NEW c
    PROVE  /\ [t EXCEPT !.charge = n, !.result = r] = [[t EXCEPT !.charge = n] EXCEPT !.result = r]
           /\ [t EXCEPT !.permit = b, !.auth = c] = [[t EXCEPT !.permit = b] EXCEPT !.auth = c]
BY SMT DEF Tasks

LEMMA AttemptedFacts ==
    ASSUME TasksInv, NEW i \in Items
    PROVE  /\ Attempted(i) \in Tasks /\ (Attempted(i).permit <=> task[i].permit)
           /\ Attempted(i).charge = task[i].charge
<1>1. task[i] \in Tasks /\ MaxAttempts \in Nat
    BY QueueAssumption DEF TasksInv
<1>2. QED
    BY <1>1, SMT DEF Attempted, Tasks


\* The steps of an upload, from the permit the worker waits for to the settlement.
LEMMA UploadTasks ==
    ASSUME Inv, TasksInv, PermitInv, NEW i \in Items,
           \/ Dispatch(i) \/ Start(i) \/ WireSucceeds(i) \/ WireRefused(i) \/ WireFails(i) \/ Backoff(i)
           \/ WireUnauthorized(i) \/ WireParks(i) \/ ParkRefused(i) \/ ParkGivesUp(i) \/ ParkWakes(i)
           \/ Reacquire(i) \/ Settle(i) \/ Debit(i)
    PROVE  TasksInv' /\ PermitInv' /\ \A j \in Items : Owed(j)' => Owed(j)
<1>0. TaskInv(i)
    BY DEF TasksInv
<1>t. task[i] \in Tasks
    BY DEF TasksInv
<1>e. task = [task EXCEPT ![i] = task[i]]
    BY Zenon DEF TasksInv
<1>s. Size[i[1]] \in Nat
    BY ItemFacts, QueueAssumption, SMT
<1>p. /\ "start" \notin Ending /\ "start" \in Uploading /\ "try" \in Uploading /\ "backoff" \in Uploading
      /\ "park" \in Uploading /\ "reacquire" \in Uploading /\ "finish" \in Ending /\ "settle" \in Ending
      /\ "debit" \in Ending /\ "out" \notin Uploading \cup Ending /\ "out" \notin Waiting
      /\ "finish" \notin Waiting /\ "debit" \notin Waiting
      /\ \A p \in {"try", "backoff", "park", "reacquire"} : p # "start"
    BY SMT DEF Uploading, Ending, Waiting
<1>q. /\ \A p \in {"finish", "settle", "debit", "out"} : p \notin {"start", "try", "backoff", "park", "reacquire"}
      /\ \A p \in {"start", "try", "backoff"} : p \notin {"park", "reacquire"}
      /\ \A p \in {"park", "reacquire"} : p \notin {"start", "try", "backoff"}
    BY SMT
<1>1. CASE Dispatch(i)
  <2>1. /\ phase[i] = "held" /\ permits > 0 /\ permits' = permits - 1
        /\ task' = [task EXCEPT ![i] = [NoTask EXCEPT !.permit = TRUE]]
        /\ phase' = [phase EXCEPT ![i] = "start"] /\ UNCHANGED <<temp, reconcile, old>>
    BY <1>1, Zenon DEF Dispatch, At, GoTo, SetTask, disk, recov
  <2>2. PICK t : t = [NoTask EXCEPT !.permit = TRUE]
    OBVIOUS
  <2>3. t \in Tasks /\ t.permit /\ ~NoTask.permit
    BY <2>2, NoTaskType, PermitField, Zenon
  <2>4. task[i] = NoTask /\ phase[i] \in Waiting
    BY <1>0, <2>1, GroupFacts DEF TaskInv
  <2>5. Balanced(i, t) /\ Carries(i, "start", t)
    BY <1>p, <2>1, <2>3, <2>4, Zenon DEF Balanced, Carries
  <2>6. QED
    BY <1>p, <1>q, <2>1, <2>2, <2>3, <2>4, <2>5, UploadMove
<1>2. CASE Start(i)
  <2>1. /\ phase[i] = "start" /\ permits' = permits /\ UNCHANGED <<temp, reconcile, old>>
        /\ \/ /\ phase' = [phase EXCEPT ![i] = "finish"]
              /\ task' = [task EXCEPT ![i] = [task[i] EXCEPT !.charge = FileSize(i[1]), !.result = "expired"]]
           \/ /\ phase' = [phase EXCEPT ![i] = "try"]
              /\ task' = [task EXCEPT ![i] = [task[i] EXCEPT !.charge = FileSize(i[1])]]
    BY <1>2 DEF Start, At, GoTo, SetTask, TaskOnly, disk, recov
  <2>2. task[i].permit /\ phase[i] \in Waiting /\ FileSize(i[1]) \in Nat
    BY <1>0, <1>s, <1>p, <2>1, GroupFacts DEF TaskInv, FileSize
  <2>3. PICK p \in {"finish", "try"}, t \in Tasks :
          /\ phase' = [phase EXCEPT ![i] = p] /\ task' = [task EXCEPT ![i] = t]
          /\ (t.permit <=> task[i].permit) /\ t.charge = FileSize(i[1])
    <3>1. LET t == [task[i] EXCEPT !.charge = FileSize(i[1])]
          IN t \in Tasks /\ (t.permit <=> task[i].permit) /\ t.charge = FileSize(i[1])
      BY <1>t, <1>s, <2>2, ChargeField
    <3>2. LET t == [task[i] EXCEPT !.charge = FileSize(i[1]), !.result = "expired"]
          IN t \in Tasks /\ (t.permit <=> task[i].permit) /\ t.charge = FileSize(i[1])
      BY <1>t, <3>1, ResultField, TwoFields
    <3>3. QED
      BY <2>1, <3>1, <3>2, Zenon
  <2>4. Balanced(i, t) /\ t.permit /\ Carries(i, p, t)
    BY <2>1, <2>2, <2>3, Zenon DEF Balanced, Carries
  <2>5. QED
    BY <1>p, <1>q, <2>1, <2>2, <2>3, <2>4, UploadMove
<1>3. CASE WireSucceeds(i) \/ WireRefused(i) \/ WireFails(i)
  <2>1. /\ phase[i] = "try" /\ permits' = permits /\ UNCHANGED <<temp, reconcile, old>>
        /\ \/ /\ phase' = [phase EXCEPT ![i] = "finish"]
              /\ \E r \in {"ok", "terminal", "exhausted"} :
                    task' = [task EXCEPT ![i] = [Attempted(i) EXCEPT !.result = r]]
           \/ phase' = [phase EXCEPT ![i] = "backoff"] /\ task' = [task EXCEPT ![i] = Attempted(i)]
    BY <1>3, Zenon DEF WireSucceeds, WireRefused, WireFails, Ends, At, GoTo, SetTask, TaskOnly, disk, recov
  <2>2. task[i].permit /\ phase[i] \in Waiting
    BY <1>0, <1>p, <2>1, GroupFacts, Zenon DEF TaskInv
  <2>3. PICK p \in {"finish", "backoff"}, t \in Tasks :
          /\ phase' = [phase EXCEPT ![i] = p] /\ task' = [task EXCEPT ![i] = t]
          /\ (t.permit <=> task[i].permit) /\ t.charge = task[i].charge
    <3>1. CASE phase' = [phase EXCEPT ![i] = "backoff"] /\ task' = [task EXCEPT ![i] = Attempted(i)]
      BY <2>2, <3>1, AttemptedFacts, Zenon
    <3>2. ASSUME NEW r \in {"ok", "terminal", "exhausted"}, phase' = [phase EXCEPT ![i] = "finish"],
                 task' = [task EXCEPT ![i] = [Attempted(i) EXCEPT !.result = r]]
          PROVE  \E p \in {"finish", "backoff"}, t \in Tasks :
                   /\ phase' = [phase EXCEPT ![i] = p] /\ task' = [task EXCEPT ![i] = t]
                   /\ (t.permit <=> task[i].permit) /\ t.charge = task[i].charge
      <4>1. LET t == [Attempted(i) EXCEPT !.result = r]
            IN t \in Tasks /\ (t.permit <=> task[i].permit) /\ t.charge = task[i].charge
        BY <2>2, AttemptedFacts, ResultField, Zenon
      <4>2. QED
        BY <3>2, <4>1, Zenon
    <3>3. QED
      BY <2>1, <3>1, <3>2, Zenon
  <2>4. Balanced(i, t) /\ t.permit /\ Carries(i, p, t)
    BY <1>p, <2>1, <2>2, <2>3, Zenon DEF Balanced, Carries
  <2>5. QED
    BY <1>p, <1>q, <2>1, <2>2, <2>3, <2>4, UploadMove
<1>4. CASE Backoff(i) \/ WireUnauthorized(i)
  <2>1. /\ phase[i] \in {"try", "backoff"} /\ permits' = permits /\ UNCHANGED <<temp, reconcile, old>>
        /\ phase' = [phase EXCEPT ![i] = "try"]
        /\ task' = task \/ task' = [task EXCEPT ![i] = [Attempted(i) EXCEPT !.auth = TRUE]]
    <3>1. CASE Backoff(i)
      BY <3>1, Zenon DEF Backoff, At, GoTo, TaskOnly, disk, recov
    <3>2. CASE WireUnauthorized(i)
      <4>1. phase[i] = "try" /\ phase' = phase
        BY <3>2 DEF WireUnauthorized, At
      <4>2. phase' = [phase EXCEPT ![i] = "try"]
        BY <4>1, Zenon DEF Inv, Shape
      <4>3. QED
        BY <3>2, <4>1, <4>2, Zenon DEF WireUnauthorized, SetTask, TaskOnly, disk, recov
    <3>3. QED
      BY <1>4, <3>1, <3>2
  <2>2. task[i].permit /\ phase[i] \in Waiting
    BY <1>0, <1>p, <2>1, GroupFacts, SMT DEF TaskInv
  <2>3. PICK t \in Tasks : /\ task' = [task EXCEPT ![i] = t]
                           /\ (t.permit <=> task[i].permit) /\ t.charge = task[i].charge
    <3>1. LET t == [Attempted(i) EXCEPT !.auth = TRUE]
          IN t \in Tasks /\ (t.permit <=> task[i].permit) /\ t.charge = task[i].charge
      BY <2>2, AttemptedFacts, AuthField, Zenon
    <3>2. QED
      BY <1>t, <1>e, <2>1, <2>2, <3>1, Zenon
  <2>4. Balanced(i, t) /\ t.permit /\ Carries(i, "try", t)
    <3>1. phase[i] \in (Uploading \ {"start"}) \cup Ending
      BY <1>p, <2>1, SMT
    <3>2. QED
      BY <2>1, <2>2, <2>3, <3>1, Zenon DEF Balanced, Carries
  <2>5. QED
    BY <1>p, <1>q, <2>1, <2>2, <2>3, <2>4, UploadMove
<1>5. CASE WireParks(i)
  <2>1. /\ phase[i] = "try" /\ permits' = permits + 1 /\ UNCHANGED <<temp, reconcile, old>>
        /\ phase' = [phase EXCEPT ![i] = "park"]
        /\ task' = [task EXCEPT ![i] = [Attempted(i) EXCEPT !.permit = FALSE]]
    BY <1>5, Zenon DEF WireParks, ReleasePermit, At, GoTo, SetTask, TaskOnly, disk, recov
  <2>2. task[i].permit /\ phase[i] \in Waiting
    BY <1>0, <1>p, <2>1, GroupFacts, SMT DEF TaskInv
  <2>3. PICK t : t = [Attempted(i) EXCEPT !.permit = FALSE]
    OBVIOUS
  <2>4. t \in Tasks /\ ~t.permit /\ t.charge = task[i].charge
    BY <2>2, <2>3, AttemptedFacts, PermitField, Zenon
  <2>5. Balanced(i, t) /\ Carries(i, "park", t)
    BY <1>p, <2>1, <2>2, <2>4, Zenon DEF Balanced, Carries
  <2>6. QED
    BY <1>p, <1>q, <2>1, <2>2, <2>3, <2>4, <2>5, UploadMove
<1>6. CASE ParkRefused(i) \/ ParkGivesUp(i) \/ ParkWakes(i)
  <2>1. /\ phase[i] = "park" /\ permits' = permits /\ UNCHANGED <<temp, reconcile, old>>
        /\ \/ /\ phase' = [phase EXCEPT ![i] = "finish"]
              /\ task' = [task EXCEPT ![i] = [task[i] EXCEPT !.result = "exhausted"]]
           \/ phase' = [phase EXCEPT ![i] = "reacquire"] /\ task' = task
    BY <1>6, Zenon DEF ParkRefused, ParkGivesUp, ParkWakes, Ends, At, GoTo, SetTask, TaskOnly, disk, recov
  <2>2. ~task[i].permit /\ phase[i] \in Waiting
    BY <1>0, <1>p, <2>1, GroupFacts, SMT DEF TaskInv
  <2>3. LET t == [task[i] EXCEPT !.result = "exhausted"]
        IN t \in Tasks /\ (t.permit <=> task[i].permit) /\ t.charge = task[i].charge
    BY <1>t, <2>2, ResultField, Zenon
  <2>4. PICK p \in {"finish", "reacquire"}, t \in Tasks :
          /\ phase' = [phase EXCEPT ![i] = p] /\ task' = [task EXCEPT ![i] = t]
          /\ (t.permit <=> task[i].permit) /\ t.charge = task[i].charge
    BY <1>t, <1>e, <2>1, <2>2, <2>3, Zenon
  <2>5. Balanced(i, t) /\ ~t.permit /\ Carries(i, p, t)
    BY <1>p, <2>1, <2>2, <2>4, Zenon DEF Balanced, Carries
  <2>6. QED
    BY <1>p, <1>q, <2>1, <2>2, <2>4, <2>5, UploadMove
<1>7. CASE Reacquire(i)
  <2>1. /\ phase[i] = "reacquire" /\ permits > 0 /\ permits' = permits - 1 /\ UNCHANGED <<temp, reconcile, old>>
        /\ phase' = [phase EXCEPT ![i] = "try"]
        /\ task' = [task EXCEPT ![i] = [task[i] EXCEPT !.permit = TRUE, !.auth = FALSE]]
    BY <1>7, Zenon DEF Reacquire, At, GoTo, SetTask, TaskOnly, disk, recov
  <2>2. ~task[i].permit /\ phase[i] \in Waiting
    BY <1>0, <1>p, <2>1, GroupFacts, SMT DEF TaskInv
  <2>3. PICK t : t = [task[i] EXCEPT !.permit = TRUE, !.auth = FALSE]
    OBVIOUS
  <2>4. t \in Tasks /\ t.permit /\ t.charge = task[i].charge
    <3>1. [task[i] EXCEPT !.permit = TRUE] \in Tasks /\ [task[i] EXCEPT !.permit = TRUE].permit
          /\ [task[i] EXCEPT !.permit = TRUE].charge = task[i].charge
      BY <1>t, PermitField, Zenon
    <3>2. QED
      BY <1>t, <2>2, <2>3, <3>1, AuthField, TwoFields, Zenon
  <2>5. Balanced(i, t) /\ Carries(i, "try", t)
    BY <1>p, <2>1, <2>2, <2>4, Zenon DEF Balanced, Carries
  <2>6. QED
    BY <1>p, <1>q, <2>1, <2>2, <2>3, <2>4, <2>5, UploadMove
<1>8. CASE Settle(i)
  <2>1. /\ phase[i] = "settle" /\ permits' = permits /\ UNCHANGED <<temp, reconcile, old>>
        /\ phase' = [phase EXCEPT ![i] = "debit"] /\ task' = task
    BY <1>8, Zenon DEF Settle, At, GoTo, TaskOnly, disk, recov
  <2>2. task' = [task EXCEPT ![i] = task[i]] /\ Balanced(i, task[i]) /\ Carries(i, "debit", task[i])
    BY <1>p, <1>e, <2>1, Zenon DEF Balanced, Carries
  <2>3. QED
    BY <1>t, <1>p, <1>q, <2>1, <2>2, UploadMove
<1>9. CASE Debit(i)
  <2>1. /\ phase[i] = "debit" /\ permits' = (IF task[i].permit THEN permits + 1 ELSE permits)
        /\ UNCHANGED <<temp, reconcile, old>>
        /\ phase' = [phase EXCEPT ![i] = "out"] /\ task' = [task EXCEPT ![i] = NoTask]
    BY <1>9, Zenon DEF Debit, At, GoTo, SetTask, disk, recov
  <2>2. Balanced(i, NoTask) /\ Carries(i, "out", NoTask)
    BY <1>p, <2>1, NoTaskType, Zenon DEF Balanced, Carries
  <2>3. QED
    BY <1>p, <1>q, <2>1, <2>2, NoTaskType, UploadMove
<1>10. QED
    BY <1>1, <1>2, <1>3, <1>4, <1>5, <1>6, <1>7, <1>8, <1>9

LEMMA EndTasks ==
    ASSUME Inv, TasksInv, PermitInv, NEW i \in Items, Finish(i) \/ Unlink(i)
    PROVE  TasksInv' /\ PermitInv' /\ \A j \in Items : Owed(j)' => Owed(j)
<1>1. PICK p \in {"unlink", "settle"} : phase' = [phase EXCEPT ![i] = p]
    BY SMT DEF Finish, Unlink, GoTo
<1>2. /\ phase[i] \in {"finish", "unlink"} /\ UNCHANGED <<task, permits, reconcile, old>>
      /\ temp' = temp \/ temp' = [temp EXCEPT ![i[1]] = "none"]
    BY Zenon DEF Finish, Unlink, At, TaskOnly, recov
<1>3. phase[i] \in Ending /\ phase[i] \in Queued /\ p \in Ending /\ p \notin {"start", "try", "backoff"}
      /\ p \notin {"park", "reacquire"} /\ p \notin Waiting
    BY <1>2, SMT DEF Ending, Queued, Waiting, Uploading
<1>4. /\ i[1] \in Files
      /\ i = Own(i[1]) /\ RecoveryAwaited => phase[Rec(i[1])] = "idle"
      /\ i = Rec(i[1]) /\ RecoveryAwaited => phase[Own(i[1])] \notin Calling \cup Queued
    BY <1>3, QueuedFacts
<1>5. phase'[i] = p /\ \A j \in Items : j # i => phase'[j] = phase[j]
    BY <1>1, Zenon DEF Inv, Shape
<1>6. TaskInv(i)'
  <2>1. TaskInv(i)
    BY DEF TasksInv
  <2>2. ChargeOK(i, task[i].charge)
    BY <1>3, <2>1, Zenon DEF TaskInv
  <2>3. ~Kept(i)' /\ p # "verified"
    BY <1>3, <1>5, GroupFacts, Zenon DEF Kept
  <2>4. QED
    BY <1>2, <1>3, <1>5, <2>2, <2>3, Zenon DEF TaskInv
<1>7. ASSUME NEW j \in Items, j # i PROVE TaskInv(j)'
  <2>1. TaskInv(j) /\ j[1] \in Files /\ (j = Own(j[1]) \/ j = Rec(j[1]))
        /\ (i = Own(i[1]) \/ i = Rec(i[1]))
    BY ItemFacts DEF TasksInv
  <2>2. RecoveryAwaited /\ Kept(j) => j[1] # i[1]
    <3>1. ASSUME RecoveryAwaited, j[1] = i[1] PROVE ~Kept(j)
      <4>1. j = Own(j[1]) \/ phase[j] = "idle"
        BY <1>4, <1>7, <2>1, <3>1
      <4>2. j = Own(j[1]) => phase[j] \notin Queued
        BY <1>4, <1>7, <2>1, <3>1
      <4>3. j # Rec(j[1]) \/ phase[j] = "idle"
        BY <4>1, <2>1, ItemFacts
      <4>4. QED
        BY <4>1, <4>2, <4>3, GroupFacts, SMT DEF Kept
    <3>2. QED
      BY <3>1
  <2>3. j[1] # i[1] => temp'[j[1]] = temp[j[1]]
    BY <1>2, <2>1, Zenon DEF Inv, Shape
  <2>4. phase'[j] = phase[j] /\ (Kept(j)' <=> Kept(j))
    BY <1>5, <1>7 DEF Kept
  <2>5. QED
    BY <1>2, <2>1, <2>2, <2>3, <2>4, Zenon DEF TaskInv
<1>8. TasksInv'
    BY <1>2, <1>6, <1>7, Zenon DEF TasksInv
<1>9. PermitInv'
    BY <1>2, PermitsSame
<1>10. ASSUME NEW j \in Items, Owed(j)' PROVE Owed(j)
  <2>1. temp'[j[1]] # "none" => temp[j[1]] # "none"
    <3>1. j[1] \in Files
      BY ItemFacts
    <3>2. QED
      BY <1>2, <3>1, Zenon DEF Inv, Shape
  <2>2. CASE j # i
    <3>1. phase'[j] = phase[j] /\ task'[j] = task[j]
      BY <1>2, <1>5, <2>2
    <3>2. QED
      BY <1>10, <2>1, <3>1, Zenon DEF Owed
  <2>3. CASE j = i
    <3>1. p \notin {"send", "channel", "held", "start"} /\ phase[i] \in (Uploading \ {"start"}) \cup Ending
      BY <1>3, SMT
    <3>2. task[i].charge # 0
      BY <1>2, <1>5, <1>10, <2>3, <3>1, Zenon DEF Owed
    <3>3. QED
      BY <2>3, <3>1, <3>2, Zenon DEF Owed
  <2>4. QED
    BY <2>2, <2>3
<1>11. QED
    BY <1>8, <1>9, <1>10

\* An aborted drain gives back the permits of the tasks it drops.
LEMMA DrainTasks ==
    ASSUME Inv, TasksInv, PermitInv, DrainTimeout
    PROVE  TasksInv' /\ PermitInv' /\ \A j \in Items : Owed(j)' => Owed(j)
<1>1. /\ phase' = [i \in Items |-> IF i \in Dropped THEN "out" ELSE phase[i]]
      /\ task' = [i \in Items |-> IF i \in Dropped THEN NoTask ELSE task[i]]
      /\ permits' = permits + Cardinality({i \in Dropped : task[i].permit})
      /\ UNCHANGED <<temp, reconcile, old>>
    BY DEF DrainTimeout, AbortFiles, disk, recov
<1>2. task' \in [Items -> Tasks]
    BY <1>1, NoTaskType, Zenon DEF TasksInv
<1>3. ASSUME NEW j \in Items PROVE TaskInv(j)'
  <2>1. TaskInv(j)
    BY DEF TasksInv
  <2>2. CASE j \in Dropped
    <3>1. phase'[j] = "out" /\ task'[j] = NoTask
      BY <1>1, <2>2, Zenon
    <3>2. "out" \notin Uploading \cup Ending /\ "out" \notin Waiting /\ "out" \notin {"start", "try", "backoff"}
          /\ "out" \notin {"park", "reacquire"} /\ "out" # "verified"
      BY SMT DEF Uploading, Ending, Waiting
    <3>3. QED
      BY <3>1, <3>2, Zenon DEF TaskInv, Kept
  <2>3. CASE j \notin Dropped
    <3>1. phase'[j] = phase[j] /\ task'[j] = task[j]
      BY <1>1, <2>3, Zenon
    <3>2. Kept(j)' <=> Kept(j)
      BY <3>1 DEF Kept
    <3>3. QED
      BY <1>1, <2>1, <3>1, <3>2, Zenon DEF TaskInv
  <2>4. QED
    BY <2>2, <2>3
<1>4. TasksInv'
    BY <1>2, <1>3 DEF TasksInv
<1>5. PermitInv'
  <2> DEFINE X == {i \in Dropped : task[i].permit}
  <2>1. Holding' = Holding \ Dropped /\ X = Holding \cap Dropped
    <3>1. Dropped \subseteq Items
      BY DEF Dropped
    <3>2. \A i \in Items : task'[i].permit <=> (i \notin Dropped /\ task[i].permit)
      BY <1>1, NoTaskType, Zenon
    <3>3. Holding' = Holding \ Dropped
      BY <3>2, Zenon DEF Holding
    <3>4. X = Holding \cap Dropped
      BY <3>1, Zenon DEF Holding
    <3>5. QED
      BY <3>3, <3>4
  <2>2. /\ IsFiniteSet(Holding) /\ permits \in Nat /\ permits + Cardinality(Holding) = MaxConcurrent
        /\ MaxConcurrent \in Nat
    BY QueueAssumption, SMT DEF PermitInv
  <2>3. /\ IsFiniteSet(Holding') /\ Cardinality(Holding') = Cardinality(Holding) - Cardinality(X)
    BY <2>1, <2>2, FS_Difference
  <2>4. Cardinality(X) \in Nat /\ Cardinality(Holding') \in Nat /\ Cardinality(Holding) \in Nat
    <3>1. IsFiniteSet(X)
      BY <2>1, <2>2, FS_Subset
    <3>2. QED
      BY <3>1, <2>2, <2>3, FS_CardinalityType
  <2>5. permits' = permits + Cardinality(X)
    BY <1>1
  <2> HIDE DEF X
  <2>6. permits' \in Nat /\ permits' + Cardinality(Holding') = MaxConcurrent
    BY <2>2, <2>3, <2>4, <2>5, SMT
  <2>7. QED
    BY <2>3, <2>6 DEF PermitInv
<1>6. ASSUME NEW j \in Items, Owed(j)' PROVE Owed(j)
  <2>1. "out" \notin {"send", "channel", "held", "start"} \cup Uploading \cup Ending
    BY SMT DEF Uploading, Ending
  <2>2. j \notin Dropped
    BY <1>1, <1>6, <2>1, Zenon DEF Owed
  <2>3. phase'[j] = phase[j] /\ task'[j] = task[j]
    BY <1>1, <2>2, Zenon
  <2>4. QED
    BY <1>1, <1>6, <2>3, Zenon DEF Owed
<1>7. QED
    BY <1>4, <1>5, <1>6

\* A process begins with no task, every permit and nothing counted.
Fresh ==
    /\ phase = [i \in Items |-> "idle"] /\ task = [i \in Items |-> NoTask]
    /\ permits = MaxConcurrent /\ inFlight = {}
    /\ pending = 0 /\ pendingBytes = 0 /\ inflight = 0

LEMMA FreshTasks == Fresh => TasksInv /\ PermitInv
<1> SUFFICES ASSUME Fresh PROVE TasksInv /\ PermitInv
    OBVIOUS
<1> USE DEF Fresh
<1>1. task \in [Items -> Tasks]
    BY NoTaskType, Zenon
<1>2. ASSUME NEW j \in Items PROVE TaskInv(j)
  <2>1. phase[j] = "idle" /\ task[j] = NoTask
    BY Zenon
  <2>2. "idle" \notin Uploading \cup Ending /\ "idle" \notin Waiting /\ "idle" \notin {"start", "try", "backoff"}
        /\ "idle" \notin {"park", "reacquire"} /\ "idle" # "verified"
    BY SMT DEF Uploading, Ending, Waiting
  <2>3. QED
    BY <2>1, <2>2, Zenon DEF TaskInv, Kept
<1>3. Holding = {}
    BY NoTaskType, Zenon DEF Holding
<1>4. IsFiniteSet(Holding) /\ Cardinality(Holding) = 0
    BY <1>3, FS_EmptySet
<1>5. permits \in Nat /\ permits + 0 = MaxConcurrent
    BY QueueAssumption, SMT
<1>6. QED
    BY <1>1, <1>2, <1>4, <1>5 DEF TasksInv, PermitInv

LEMMA FreshTasksNext == Fresh' => TasksInv' /\ PermitInv'
BY FreshTasks, PTL

LEMMA TasksNext ==
    ASSUME Inv, TasksInv, PermitInv, [Next]_vars
    PROVE  TasksInv' /\ PermitInv'
<1>1. ASSUME UNCHANGED <<phase, task, permits, temp, reconcile, old>> PROVE TasksInv' /\ PermitInv'
    BY <1>1, StillTasks, PermitsSame
<1>2. ASSUME NEW f \in Files, Caller(f) \/ InlineDone(f) \/ Recovery(f) PROVE TasksInv' /\ PermitInv'
  <2>1. CASE \/ Begin(f) \/ Deduplicated(f) \/ WriteFails(f) \/ CheckBudget(f) \/ WriteSidecar(f)
             \/ Count(f) \/ Accept(f) \/ Reject(f)
    BY <2>1, CallFacts, CallerTasks, PermitsSame
  <2>2. CASE InlineDone(f) \/ RecoverDrops(f)
    <3>1. UNCHANGED <<task, permits>>
      BY <2>2 DEF InlineDone, RecoverDrops
    <3>2. QED
      BY <2>2, <3>1, DiskTasks, PermitsSame
  <2>3. CASE RecoverReads(f) \/ RecoverEnqueues(f) \/ RecoverLeaves(f)
    <3>1. UNCHANGED <<task, permits>>
      BY <2>3 DEF RecoverReads, RecoverEnqueues, RecoverLeaves
    <3>2. QED
      BY <2>3, <3>1, RecoveryTasks, PermitsSame
  <2>4. QED
    BY <1>2, <2>1, <2>2, <2>3 DEF Caller, Recovery
<1>3. ASSUME NEW i \in Items,
             Dispatch(i) \/ Wire(i) \/ TaskOf(i) \/ ParkRefused(i) \/ ParkWakes(i) \/ Reacquire(i)
      PROVE  TasksInv' /\ PermitInv'
    BY <1>3, UploadTasks, EndTasks DEF TaskOf, Wire
<1>4. ASSUME NEW i \in Items, Age(i) PROVE TasksInv' /\ PermitInv'
    BY <1>4, StillTasks, PermitsSame DEF Age, recov, disk
<1>5. CASE Worker \/ Drain \/ InlineAcquire
  <2>1. CASE WorkerRecv
    BY <2>1, RecvTasks, PermitsSame DEF WorkerRecv, WorkerGoes
  <2>2. CASE \/ WorkerCheck \/ WorkerCooled \/ WorkerShutdown \/ WorkerJoin \/ WorkerExit
             \/ Drain \/ InlineAcquire
    BY <1>1, <2>2 DEF WorkerCheck, WorkerCooled, WorkerShutdown, WorkerJoin, WorkerExit, WorkerGoes,
       Drain, InlineAcquire, recov, disk
  <2>3. QED
    BY <1>5, <2>1, <2>2 DEF Worker
<1>6. CASE Scan \/ Cleanup
  <2>1. UNCHANGED <<task, permits>>
    BY <1>6 DEF Scan, Cleanup
  <2>2. QED
    BY <1>6, <2>1, DiskTasks, PermitsSame
<1>7. CASE DrainTimeout
    BY <1>7, DrainTasks
<1>8. ASSUME NEW t, NEW d, NEW b, Crash(t, d, b) PROVE TasksInv' /\ PermitInv'
  <2>1. Fresh'
    BY <1>8 DEF Crash, Fresh
  <2>2. QED
    BY <2>1, FreshTasksNext
<1>9. CASE UNCHANGED vars
    BY <1>1, <1>9 DEF vars, recov, disk
<1>10. QED
    BY <1>2, <1>3, <1>4, <1>5, <1>6, <1>7, <1>8, <1>9 DEF Next

\* No permit of the worker's semaphore is lost or made up by parking, waking, refusals, aborts or
\* restarts, and an item on the wire holds one, for any number of items and permits.
THEOREM PermitsAreExact == Spec => []PermitsExact
<1>1. Init => TasksInv /\ PermitInv
    BY FreshTasks DEF Init, Fresh
<1>2. Inv /\ TasksInv /\ PermitInv /\ [Next]_vars => TasksInv' /\ PermitInv'
    BY TasksNext
<1>3. TasksInv /\ PermitInv => PermitsExact
    BY Zenon DEF TasksInv, TaskInv, PermitInv, Holding, PermitsExact
<1>4. QED
    BY <1>1, <1>2, <1>3, SpecInv, PTL DEF Spec

----------------------------------------------------------------------------
(* Counters *)

ChargedPhases   == {"send"} \cup Queued
ProcessedPhases == (Uploading \cup Ending) \ {"start", "debit"}

ChargedItems   == {i \in Items : Charged(i)}
ProcessedItems == {i \in Items : Processed(i)}

OwedItems      == {i \in Items : Owed(i)}

\* The counters are never below what the items account for; what an aborted drain leaves
\* behind is at least as much in pending as in inflight; without one they are exact.
CountInv ==
    /\ IsFiniteSet(ChargedItems) /\ pending \in Nat /\ inflight \in Nat
    /\ inflight >= Cardinality(ProcessedItems)
    /\ pending + Cardinality(ProcessedItems) >= inflight + Cardinality(ChargedItems)
    /\ ~aborted => pending = Cardinality(ChargedItems) /\ inflight = Cardinality(ProcessedItems)

\* pending_bytes covers what is still to be taken off it; where the recovery is awaited, every
\* item that is counted owes its bytes.
BytesInv ==
    /\ IsFiniteSet(BytesOf(ChargedItems)) /\ pendingBytes \in Nat
    /\ pendingBytes >= Cardinality(BytesOf(OwedItems))
    /\ RecoveryAwaited /\ ~aborted => pendingBytes = Cardinality(BytesOf(ChargedItems))

AccountInv == CountInv /\ BytesInv

\* The bytes of one item more.
LEMMA BytesAdd ==
    ASSUME NEW S, NEW i \in Items, i \notin S, IsFiniteSet(BytesOf(S))
    PROVE  /\ IsFiniteSet(BytesOf(S \cup {i}))
           /\ Cardinality(BytesOf(S \cup {i})) = Cardinality(BytesOf(S)) + Size[i[1]]
           /\ Cardinality(BytesOf(S)) \in Nat /\ Size[i[1]] \in Nat
<1> DEFINE T == {i} \X (1..Size[i[1]])
<1>1. Size[i[1]] \in Nat
    BY ItemFacts, QueueAssumption, SMT
<1>2. IsFiniteSet({i}) /\ Cardinality({i}) = 1
    BY FS_Singleton
<1>3. IsFiniteSet(1..Size[i[1]]) /\ Cardinality(1..Size[i[1]]) = Size[i[1]]
  <2>1. PICK n \in Nat : n = Size[i[1]]
    BY <1>1
  <2>2. IsFiniteSet(1..n) /\ Cardinality(1..n) = n
    BY FS_Interval
  <2>3. QED
    BY <2>1, <2>2
<1>4. IsFiniteSet(T) /\ Cardinality(T) = Size[i[1]]
  <2>1. IsFiniteSet(T) /\ Cardinality(T) = Cardinality({i}) * Cardinality(1..Size[i[1]])
    BY <1>2, <1>3, FS_Product
  <2>2. QED
    BY <1>1, <1>2, <1>3, <2>1, SMT
<1>5. BytesOf(S \cup {i}) = BytesOf(S) \cup T
    BY Zenon DEF BytesOf
<1>6. BytesOf(S) \cap T = {}
  <2>1. ASSUME NEW x \in BytesOf(S), x \in T PROVE FALSE
    <3>1. PICK j \in S : x \in {j} \X (1..Size[j[1]])
      BY Zenon DEF BytesOf
    <3>2. x[1] = j /\ x[1] = i
      BY <2>1, <3>1
    <3>3. QED
      BY <3>1, <3>2
  <2>2. QED
    BY <2>1
<1> HIDE DEF T
<1>7. /\ IsFiniteSet(BytesOf(S) \cup T)
      /\ Cardinality(BytesOf(S) \cup T) = Cardinality(BytesOf(S)) + Cardinality(T) - Cardinality(BytesOf(S) \cap T)
    BY <1>4, FS_Union
<1>8. Cardinality(BytesOf(S) \cap T) = 0
    BY <1>6, FS_EmptySet
<1>9. Cardinality(BytesOf(S)) \in Nat
    BY FS_CardinalityType
<1>10. Cardinality(BytesOf(S) \cup T) = Cardinality(BytesOf(S)) + Size[i[1]]
    BY <1>1, <1>4, <1>7, <1>8, <1>9, SMT
<1>11. QED
    BY <1>1, <1>5, <1>7, <1>9, <1>10

\* One item less.
LEMMA BytesRemove ==
    ASSUME NEW S, NEW i \in Items, i \in S, IsFiniteSet(BytesOf(S))
    PROVE  /\ IsFiniteSet(BytesOf(S \ {i}))
           /\ Cardinality(BytesOf(S)) = Cardinality(BytesOf(S \ {i})) + Size[i[1]]
           /\ Cardinality(BytesOf(S \ {i})) \in Nat /\ Size[i[1]] \in Nat
<1>1. BytesOf(S \ {i}) \subseteq BytesOf(S)
    BY Zenon DEF BytesOf
<1>2. IsFiniteSet(BytesOf(S \ {i}))
    BY <1>1, FS_Subset
<1>3. (S \ {i}) \cup {i} = S /\ i \notin S \ {i}
    OBVIOUS
<1>4. /\ Cardinality(BytesOf((S \ {i}) \cup {i})) = Cardinality(BytesOf(S \ {i})) + Size[i[1]]
      /\ Cardinality(BytesOf(S \ {i})) \in Nat /\ Size[i[1]] \in Nat
    BY <1>2, <1>3, BytesAdd
<1>5. QED
    BY <1>2, <1>3, <1>4

\* The sets and their sizes are numbers.
LEMMA AccountFacts ==
    ASSUME CountInv
    PROVE  /\ ProcessedItems \subseteq ChargedItems /\ IsFiniteSet(ProcessedItems)
           /\ Cardinality(ProcessedItems) \in Nat /\ Cardinality(ChargedItems) \in Nat
           /\ Cardinality(ProcessedItems) <= Cardinality(ChargedItems)
<1>1. ProcessedPhases \subseteq ChargedPhases
    BY SMT DEF ProcessedPhases, ChargedPhases, Queued
<1>2. ProcessedItems \subseteq ChargedItems
    BY <1>1, Zenon DEF ProcessedItems, ChargedItems, Processed, Charged, ProcessedPhases, ChargedPhases
<1>3. QED
    BY <1>2, FS_Subset, FS_CardinalityType DEF CountInv

\* The bytes of fewer items.
LEMMA BytesSubset ==
    ASSUME NEW S, NEW T, T \subseteq S, IsFiniteSet(BytesOf(S))
    PROVE  /\ IsFiniteSet(BytesOf(T)) /\ Cardinality(BytesOf(T)) <= Cardinality(BytesOf(S))
           /\ Cardinality(BytesOf(T)) \in Nat /\ Cardinality(BytesOf(S)) \in Nat
<1>1. BytesOf(T) \subseteq BytesOf(S)
    BY Zenon DEF BytesOf
<1>2. QED
    BY <1>1, FS_Subset, FS_CardinalityType

\* Only an item that is counted owes bytes.
LEMMA OwedCharged == OwedItems \subseteq ChargedItems
<1>1. {"send", "channel", "held", "start"} \cup Uploading \cup Ending \subseteq ChargedPhases
    BY SMT DEF ChargedPhases, Queued, Uploading, Ending
<1>2. \A i \in Items : Owed(i) => phase[i] \in {"send", "channel", "held", "start"} \cup Uploading \cup Ending
    BY SMT DEF Owed
<1>3. \A i \in Items : Owed(i) => Charged(i)
    BY <1>1, <1>2, Zenon DEF Charged, ChargedPhases
<1>4. QED
    BY <1>3, Zenon DEF OwedItems, ChargedItems

LEMMA OwedChargedNext == (OwedItems \subseteq ChargedItems)'
BY OwedCharged, PTL

\* A step that charges no item and debits none.
LEMMA BytesSame ==
    ASSUME BytesInv, UNCHANGED pendingBytes, ChargedItems' \subseteq ChargedItems,
           (aborted' = aborted /\ ChargedItems' = ChargedItems) \/ aborted' = TRUE,
           \A j \in Items : Owed(j)' => Owed(j)
    PROVE  BytesInv'
<1>1. /\ BytesOf(ChargedItems)' = BytesOf(ChargedItems') /\ BytesOf(OwedItems)' = BytesOf(OwedItems')
      /\ OwedItems' \subseteq OwedItems
    BY Zenon DEF BytesOf, OwedItems
<1>2. IsFiniteSet(BytesOf(ChargedItems)) /\ IsFiniteSet(BytesOf(ChargedItems'))
    BY BytesSubset DEF BytesInv
<1>3. IsFiniteSet(BytesOf(OwedItems))
    BY <1>2, OwedCharged, BytesSubset
<1>4. /\ Cardinality(BytesOf(OwedItems')) <= Cardinality(BytesOf(OwedItems))
      /\ Cardinality(BytesOf(OwedItems')) \in Nat /\ Cardinality(BytesOf(OwedItems)) \in Nat
    BY <1>1, <1>3, BytesSubset
<1>5. pendingBytes' \in Nat /\ pendingBytes' >= Cardinality(BytesOf(OwedItems'))
    BY <1>4, SMT DEF BytesInv
<1>6. RecoveryAwaited /\ ~aborted' => pendingBytes' = Cardinality(BytesOf(ChargedItems'))
    BY Zenon DEF BytesInv
<1>7. QED
    BY <1>1, <1>2, <1>5, <1>6, Zenon DEF BytesInv

\* An item more, with its bytes or, when its file is gone, without.
LEMMA BytesIn ==
    ASSUME BytesInv, NEW i \in Items, i \notin ChargedItems, ChargedItems' = ChargedItems \cup {i},
           NEW n \in {0, Size[i[1]]}, RecoveryAwaited => n = Size[i[1]],
           \A j \in Items : Owed(j)' => Owed(j) \/ (j = i /\ n = Size[i[1]]),
           pendingBytes' = pendingBytes + n, UNCHANGED aborted
    PROVE  BytesInv'
<1>1. BytesOf(ChargedItems)' = BytesOf(ChargedItems') /\ BytesOf(OwedItems)' = BytesOf(OwedItems')
    BY Zenon DEF BytesOf
<1>2. IsFiniteSet(BytesOf(ChargedItems)) /\ pendingBytes \in Nat /\ pendingBytes >= Cardinality(BytesOf(OwedItems))
    BY DEF BytesInv
<1>3. /\ IsFiniteSet(BytesOf(ChargedItems')) /\ Size[i[1]] \in Nat
      /\ Cardinality(BytesOf(ChargedItems')) = Cardinality(BytesOf(ChargedItems)) + Size[i[1]]
    BY <1>2, BytesAdd
<1>4. IsFiniteSet(BytesOf(OwedItems)) /\ Cardinality(BytesOf(OwedItems)) \in Nat /\ i \notin OwedItems
    BY <1>2, OwedCharged, BytesSubset
<1>5. Cardinality(BytesOf(OwedItems')) <= Cardinality(BytesOf(OwedItems)) + n
      /\ Cardinality(BytesOf(OwedItems')) \in Nat
  <2>1. CASE n = Size[i[1]]
    <3>1. OwedItems' \subseteq OwedItems \cup {i}
      BY Zenon DEF OwedItems
    <3>2. /\ IsFiniteSet(BytesOf(OwedItems \cup {i}))
          /\ Cardinality(BytesOf(OwedItems \cup {i})) = Cardinality(BytesOf(OwedItems)) + Size[i[1]]
      BY <1>4, BytesAdd
    <3>3. Cardinality(BytesOf(OwedItems')) <= Cardinality(BytesOf(OwedItems \cup {i}))
          /\ Cardinality(BytesOf(OwedItems')) \in Nat
      BY <3>1, <3>2, BytesSubset
    <3>4. QED
      BY <2>1, <3>2, <3>3
  <2>2. CASE n # Size[i[1]]
    <3>1. n = 0 /\ OwedItems' \subseteq OwedItems
      BY <2>2, Zenon DEF OwedItems
    <3>2. Cardinality(BytesOf(OwedItems')) <= Cardinality(BytesOf(OwedItems))
          /\ Cardinality(BytesOf(OwedItems')) \in Nat
      BY <1>4, <3>1, BytesSubset
    <3>3. QED
      BY <1>4, <3>1, <3>2, SMT
  <2>3. QED
    BY <2>1, <2>2
<1>6. n \in Nat
    BY <1>3
<1>7. pendingBytes' \in Nat /\ pendingBytes' >= Cardinality(BytesOf(OwedItems'))
    BY <1>2, <1>4, <1>5, <1>6, SMT
<1>8. RecoveryAwaited /\ ~aborted' => pendingBytes' = Cardinality(BytesOf(ChargedItems'))
    BY <1>3, Zenon DEF BytesInv
<1>9. QED
    BY <1>1, <1>3, <1>7, <1>8, Zenon DEF BytesInv

\* An item less, with the bytes it owed.
LEMMA BytesOut ==
    ASSUME BytesInv, NEW i \in Items, i \in ChargedItems, ChargedItems' = ChargedItems \ {i},
           NEW n \in {0, Size[i[1]]}, RecoveryAwaited => n = Size[i[1]], n # 0 => Owed(i),
           \A j \in Items : Owed(j)' => Owed(j),
           pendingBytes' = pendingBytes - n, UNCHANGED aborted
    PROVE  BytesInv'
<1>1. BytesOf(ChargedItems)' = BytesOf(ChargedItems') /\ BytesOf(OwedItems)' = BytesOf(OwedItems')
    BY Zenon DEF BytesOf
<1>2. IsFiniteSet(BytesOf(ChargedItems)) /\ pendingBytes \in Nat /\ pendingBytes >= Cardinality(BytesOf(OwedItems))
    BY DEF BytesInv
<1>3. /\ IsFiniteSet(BytesOf(ChargedItems')) /\ Size[i[1]] \in Nat
      /\ Cardinality(BytesOf(ChargedItems)) = Cardinality(BytesOf(ChargedItems')) + Size[i[1]]
      /\ Cardinality(BytesOf(ChargedItems')) \in Nat
    BY <1>2, BytesRemove
<1>4. IsFiniteSet(BytesOf(OwedItems)) /\ Cardinality(BytesOf(OwedItems)) \in Nat
    BY <1>2, OwedCharged, BytesSubset
<1>5. OwedItems' \subseteq OwedItems \ {i}
    BY OwedChargedNext, Zenon DEF OwedItems
<1>6. /\ Cardinality(BytesOf(OwedItems')) + n <= Cardinality(BytesOf(OwedItems))
      /\ Cardinality(BytesOf(OwedItems')) \in Nat /\ n \in Nat
  <2>1. CASE n = 0
    <3>1. OwedItems' \subseteq OwedItems
      BY <1>5
    <3>2. Cardinality(BytesOf(OwedItems')) <= Cardinality(BytesOf(OwedItems))
          /\ Cardinality(BytesOf(OwedItems')) \in Nat
      BY <1>4, <3>1, BytesSubset
    <3>3. QED
      BY <1>4, <2>1, <3>2, SMT
  <2>2. CASE n # 0
    <3>1. i \in OwedItems /\ n = Size[i[1]]
      BY <2>2 DEF OwedItems
    <3>2. /\ IsFiniteSet(BytesOf(OwedItems \ {i})) /\ Cardinality(BytesOf(OwedItems \ {i})) \in Nat
          /\ Cardinality(BytesOf(OwedItems)) = Cardinality(BytesOf(OwedItems \ {i})) + Size[i[1]]
      BY <1>4, <3>1, BytesRemove
    <3>3. Cardinality(BytesOf(OwedItems')) <= Cardinality(BytesOf(OwedItems \ {i}))
          /\ Cardinality(BytesOf(OwedItems')) \in Nat
      BY <1>5, <3>2, BytesSubset
    <3>4. QED
      BY <1>3, <3>1, <3>2, <3>3, SMT
  <2>3. QED
    BY <2>1, <2>2
<1>7. pendingBytes' \in Nat /\ pendingBytes' >= Cardinality(BytesOf(OwedItems'))
    BY <1>2, <1>4, <1>6, SMT
<1>8. RecoveryAwaited /\ ~aborted' => pendingBytes' = Cardinality(BytesOf(ChargedItems'))
  <2>1. RecoveryAwaited /\ ~aborted => pendingBytes = Cardinality(BytesOf(ChargedItems)) /\ n = Size[i[1]]
    BY DEF BytesInv
  <2>2. QED
    BY <1>3, <2>1, SMT
<1>9. QED
    BY <1>1, <1>3, <1>7, <1>8, Zenon DEF BytesInv

\* A step that neither charges nor processes.
LEMMA AccountSame ==
    ASSUME AccountInv, UNCHANGED <<pending, pendingBytes, inflight, aborted>>,
           \A i \in Items : (Charged(i)' <=> Charged(i)) /\ (Processed(i)' <=> Processed(i)),
           \A j \in Items : Owed(j)' => Owed(j)
    PROVE  AccountInv'
<1>1. ChargedItems' = ChargedItems
    BY Zenon DEF ChargedItems
<1>2. ProcessedItems' = ProcessedItems
    BY Zenon DEF ProcessedItems
<1>3. BytesInv'
    BY <1>1, BytesSame DEF AccountInv
<1>4. QED
    BY <1>1, <1>2, <1>3 DEF AccountInv, CountInv

\* What becomes of the two sets when one item moves.
LEMMA PhaseMove ==
    ASSUME Inv, NEW i \in Items, NEW p, phase' = [phase EXCEPT ![i] = p]
    PROVE  /\ p \in ChargedPhases => ChargedItems' = ChargedItems \cup {i}
           /\ p \notin ChargedPhases => ChargedItems' = ChargedItems \ {i}
           /\ p \in ProcessedPhases => ProcessedItems' = ProcessedItems \cup {i}
           /\ p \notin ProcessedPhases => ProcessedItems' = ProcessedItems \ {i}
           /\ i \in ChargedItems <=> phase[i] \in ChargedPhases
           /\ i \in ProcessedItems <=> phase[i] \in ProcessedPhases
           /\ (p \in ChargedPhases <=> phase[i] \in ChargedPhases) => ChargedItems' = ChargedItems
           /\ (p \in ProcessedPhases <=> phase[i] \in ProcessedPhases) => ProcessedItems' = ProcessedItems
<1>1. phase'[i] = p /\ \A j \in Items : j # i => phase'[j] = phase[j]
    BY Zenon DEF Inv, Shape
<1>2. /\ p \in ChargedPhases => ChargedItems' = ChargedItems \cup {i}
      /\ p \notin ChargedPhases => ChargedItems' = ChargedItems \ {i}
      /\ i \in ChargedItems <=> phase[i] \in ChargedPhases
    BY <1>1, Zenon DEF ChargedItems, Charged, ChargedPhases
<1>3. /\ p \in ProcessedPhases => ProcessedItems' = ProcessedItems \cup {i}
      /\ p \notin ProcessedPhases => ProcessedItems' = ProcessedItems \ {i}
      /\ i \in ProcessedItems <=> phase[i] \in ProcessedPhases
    BY <1>1, Zenon DEF ProcessedItems, Processed, ProcessedPhases
<1>4. (p \in ChargedPhases <=> phase[i] \in ChargedPhases) => ChargedItems' = ChargedItems
    BY <1>2, Zenon
<1>5. (p \in ProcessedPhases <=> phase[i] \in ProcessedPhases) => ProcessedItems' = ProcessedItems
    BY <1>3, Zenon
<1>6. QED
    BY <1>2, <1>3, <1>4, <1>5

LEMMA MoveSame ==
    ASSUME Inv, AccountInv, NEW i \in Items, NEW p, phase' = [phase EXCEPT ![i] = p],
           p \in ChargedPhases <=> phase[i] \in ChargedPhases,
           p \in ProcessedPhases <=> phase[i] \in ProcessedPhases,
           \A j \in Items : Owed(j)' => Owed(j),
           UNCHANGED <<pending, pendingBytes, inflight, aborted>>
    PROVE  AccountInv'
<1>1. ChargedItems' = ChargedItems /\ ProcessedItems' = ProcessedItems
    BY PhaseMove
<1>2. BytesInv'
    BY <1>1, BytesSame DEF AccountInv
<1>3. QED
    BY <1>1, <1>2 DEF AccountInv, CountInv

\* enqueue adds an item and its bytes.
LEMMA MoveIn ==
    ASSUME Inv, AccountInv, NEW i \in Items, NEW p, phase' = [phase EXCEPT ![i] = p],
           p \in ChargedPhases, phase[i] \notin ChargedPhases,
           p \notin ProcessedPhases, phase[i] \notin ProcessedPhases,
           NEW n \in {0, Size[i[1]]}, RecoveryAwaited => n = Size[i[1]],
           \A j \in Items : Owed(j)' => Owed(j) \/ (j = i /\ n = Size[i[1]]),
           pending' = pending + 1, pendingBytes' = pendingBytes + n, UNCHANGED <<inflight, aborted>>
    PROVE  AccountInv'
<1>1. ChargedItems' = ChargedItems \cup {i} /\ i \notin ChargedItems /\ ProcessedItems' = ProcessedItems
    BY PhaseMove
<1>2. BytesInv'
    BY <1>1, BytesIn DEF AccountInv
<1>3. IsFiniteSet(ChargedItems') /\ Cardinality(ChargedItems') = Cardinality(ChargedItems) + 1
    BY <1>1, FS_AddElement DEF AccountInv, CountInv
<1> DEFINE c == Cardinality(ChargedItems)
           w == Cardinality(ProcessedItems)
<1>5. c \in Nat /\ w \in Nat /\ w <= c
    BY AccountFacts DEF AccountInv
<1>6. /\ pending \in Nat /\ inflight \in Nat /\ inflight >= w /\ pending + w >= inflight + c
      /\ ~aborted => pending = c /\ inflight = w
    BY DEF AccountInv, CountInv
<1>7. c' = c + 1 /\ w' = w
    BY <1>1, <1>3
<1> HIDE DEF c, w
<1>8. /\ pending' \in Nat /\ inflight' \in Nat /\ inflight' >= w' /\ pending' + w' >= inflight' + c'
      /\ ~aborted' => pending' = c' /\ inflight' = w'
    BY <1>5, <1>6, <1>7, SMT
<1>9. QED
    BY <1>2, <1>3, <1>8 DEF AccountInv, CountInv, c, w

\* A settlement, or the rollback of a refused hand-over, takes them off again.
LEMMA MoveOut ==
    ASSUME Inv, AccountInv, NEW i \in Items, NEW p, phase' = [phase EXCEPT ![i] = p],
           p \notin ChargedPhases, phase[i] \in ChargedPhases,
           p \notin ProcessedPhases, phase[i] \notin ProcessedPhases,
           NEW n \in {0, Size[i[1]]}, RecoveryAwaited => n = Size[i[1]], n # 0 => Owed(i),
           \A j \in Items : Owed(j)' => Owed(j),
           pending' = pending - 1, pendingBytes' = pendingBytes - n, UNCHANGED <<inflight, aborted>>
    PROVE  AccountInv'
<1>1. ChargedItems' = ChargedItems \ {i} /\ i \in ChargedItems /\ ProcessedItems' = ProcessedItems
    BY PhaseMove
<1>2. BytesInv'
    BY <1>1, BytesOut DEF AccountInv
<1>3. IsFiniteSet(ChargedItems') /\ Cardinality(ChargedItems') = Cardinality(ChargedItems) - 1
    BY <1>1, FS_RemoveElement DEF AccountInv, CountInv
<1>5. Cardinality(ChargedItems') \in Nat
    BY <1>3, FS_CardinalityType
<1>6. Cardinality(ProcessedItems') <= Cardinality(ChargedItems')
  <2>1. ProcessedItems' \subseteq ChargedItems'
    <3>1. i \notin ProcessedItems
      BY PhaseMove
    <3>2. QED
      BY <1>1, <3>1, AccountFacts DEF AccountInv
  <2>2. QED
    BY <1>3, <2>1, FS_Subset
<1> DEFINE c == Cardinality(ChargedItems)
           w == Cardinality(ProcessedItems)
<1>7. c \in Nat /\ w \in Nat /\ w <= c
    BY AccountFacts DEF AccountInv
<1>8. /\ pending \in Nat /\ inflight \in Nat /\ inflight >= w /\ pending + w >= inflight + c
      /\ ~aborted => pending = c /\ inflight = w
    BY DEF AccountInv, CountInv
<1>9. c' = c - 1 /\ w' = w /\ c' \in Nat /\ w' <= c'
    BY <1>1, <1>3, <1>5, <1>6
<1> HIDE DEF c, w
<1>10. /\ pending' \in Nat /\ inflight' \in Nat /\ inflight' >= w' /\ pending' + w' >= inflight' + c'
       /\ ~aborted' => pending' = c' /\ inflight' = w'
    BY <1>7, <1>8, <1>9, SMT
<1>11. QED
    BY <1>2, <1>3, <1>10 DEF AccountInv, CountInv, c, w

\* process_item begins.
LEMMA MoveStart ==
    ASSUME Inv, AccountInv, NEW i \in Items, NEW p, phase' = [phase EXCEPT ![i] = p],
           p \in ChargedPhases, phase[i] \in ChargedPhases,
           p \in ProcessedPhases, phase[i] \notin ProcessedPhases,
           \A j \in Items : Owed(j)' => Owed(j),
           inflight' = inflight + 1, UNCHANGED <<pending, pendingBytes, aborted>>
    PROVE  AccountInv'
<1>1. /\ ChargedItems' = ChargedItems /\ ProcessedItems' = ProcessedItems \cup {i} /\ i \notin ProcessedItems
    BY PhaseMove
<1>2. BytesInv'
    BY <1>1, BytesSame DEF AccountInv
<1>f. CountInv
    BY DEF AccountInv
<1>3. Cardinality(ProcessedItems') = Cardinality(ProcessedItems) + 1
    BY <1>1, <1>f, AccountFacts, FS_AddElement
<1>4. CountInv'
    BY <1>1, <1>3, <1>f, AccountFacts, SMT DEF CountInv
<1>5. QED
    BY <1>2, <1>4 DEF AccountInv

\* settle_pending begins.
LEMMA MoveSettle ==
    ASSUME Inv, AccountInv, NEW i \in Items, NEW p, phase' = [phase EXCEPT ![i] = p],
           p \in ChargedPhases, phase[i] \in ChargedPhases,
           p \notin ProcessedPhases, phase[i] \in ProcessedPhases,
           \A j \in Items : Owed(j)' => Owed(j),
           inflight' = inflight - 1, UNCHANGED <<pending, pendingBytes, aborted>>
    PROVE  AccountInv'
<1>1. /\ ChargedItems' = ChargedItems /\ ProcessedItems' = ProcessedItems \ {i} /\ i \in ProcessedItems
    BY PhaseMove
<1>2. BytesInv'
    BY <1>1, BytesSame DEF AccountInv
<1>f. CountInv
    BY DEF AccountInv
<1>3. IsFiniteSet(ProcessedItems') /\ Cardinality(ProcessedItems') = Cardinality(ProcessedItems) - 1
    BY <1>1, <1>f, AccountFacts, FS_RemoveElement
<1>4. Cardinality(ProcessedItems') \in Nat
    BY <1>3, FS_CardinalityType
<1>5. CountInv'
    BY <1>1, <1>3, <1>4, <1>f, AccountFacts, SMT DEF CountInv
<1>6. QED
    BY <1>2, <1>5 DEF AccountInv

\* Which phases are charged, and which are processed.
LEMMA AccountPhases ==
    /\ \A p \in {"idle", "verified", "out", "budget", "sidecar", "count"} :
          p \notin ChargedPhases /\ p \notin ProcessedPhases
    /\ \A p \in {"send", "channel", "held", "start", "debit"} : p \in ChargedPhases /\ p \notin ProcessedPhases
    /\ \A p \in {"try", "backoff", "park", "reacquire", "finish", "unlink", "settle"} :
          p \in ChargedPhases /\ p \in ProcessedPhases
BY SMT DEF ChargedPhases, ProcessedPhases, Queued, Uploading, Ending

\* A step of a caller makes no item owe bytes but its own, and that only when it counts it.
LEMMA CallerOwed ==
    ASSUME Inv, TasksInv, NEW f \in Files,
           \/ Begin(f) \/ Deduplicated(f) \/ WriteFails(f) \/ CheckBudget(f) \/ WriteSidecar(f)
           \/ Count(f) \/ Accept(f) \/ Reject(f),
           NEW j \in Items, Owed(j)'
    PROVE  Owed(j) \/ (j = Own(f) /\ phase'[Own(f)] = "send")
<1>1. PICK p \in {"out", "channel"} \cup Calling :
        phase' = [phase EXCEPT ![Own(f)] = p] /\ (p = "channel" => phase[Own(f)] = "send")
    BY CallFacts
<1>2. /\ phase[Rec(f)] = "idle" \/ temp' = temp \/ temp'[f] = "none"
      /\ task' = task /\ \A g \in Files : g # f => temp'[g] = temp[g]
    BY CallFacts
<1>3. phase'[Own(f)] = p /\ \A i \in Items : i # Own(f) => phase'[i] = phase[i]
    BY <1>1, ItemFacts, Zenon DEF Inv, Shape
<1>4. CASE j = Own(f)
  <2>1. p \in {"send", "channel"}
    <3>1. p \in {"send", "channel", "held", "start"} \cup Uploading \cup Ending
      BY <1>3, <1>4, SMT DEF Owed
    <3>2. p \in {"out", "channel", "budget", "sidecar", "count", "send"}
      BY <1>1 DEF Calling
    <3>3. QED
      BY <3>1, <3>2, SMT DEF Uploading, Ending
  <2>2. QED
    BY <1>1, <1>3, <1>4, <2>1, Zenon DEF Owed
<1>5. CASE j # Own(f)
  <2>1. phase'[j] = phase[j] /\ task'[j] = task[j]
    BY <1>2, <1>3, <1>5
  <2>2. j = Rec(f) \/ (j[1] \in Files /\ j[1] # f)
    BY <1>5, ItemFacts
  <2>3. CASE j = Rec(f)
    <3>1. "idle" \notin {"send", "channel", "held", "start"} \cup Uploading \cup Ending /\ Rec(f)[1] = f
      BY ItemFacts, SMT DEF Uploading, Ending
    <3>2. CASE phase[Rec(f)] = "idle"
      BY <2>1, <2>3, <3>1, <3>2, Zenon DEF Owed
    <3>3. CASE temp' = temp
      BY <2>1, <3>3, Zenon DEF Owed
    <3>4. CASE temp'[f] = "none"
      BY <2>1, <2>3, <3>1, <3>4, Zenon DEF Owed
    <3>5. QED
      BY <1>2, <3>2, <3>3, <3>4
  <2>4. CASE j[1] \in Files /\ j[1] # f
    <3>1. temp'[j[1]] = temp[j[1]]
      BY <1>2, <2>4
    <3>2. QED
      BY <2>1, <3>1, Zenon DEF Owed
  <2>5. QED
    BY <2>2, <2>3, <2>4
<1>6. QED
    BY <1>4, <1>5

LEMMA CallerAccount ==
    ASSUME Inv, TasksInv, AccountInv, NEW f \in Files,
           \/ Begin(f) \/ Deduplicated(f) \/ WriteFails(f) \/ CheckBudget(f) \/ WriteSidecar(f)
           \/ Count(f) \/ Accept(f) \/ Reject(f)
    PROVE  AccountInv'
<1>0. Own(f) \in Items /\ Own(f)[1] = f /\ aborted' = aborted
    BY ItemFacts, CallFacts
<1>o. /\ \A j \in Items : Owed(j)' => Owed(j) \/ (j = Own(f) /\ phase'[Own(f)] = "send")
      /\ phase'[Own(f)] # "send" => \A j \in Items : Owed(j)' => Owed(j)
    BY CallerOwed
<1>p. \A p : phase' = [phase EXCEPT ![Own(f)] = p] => phase'[Own(f)] = p
    BY <1>0, Zenon DEF Inv, Shape
<1>1. CASE Begin(f) \/ Deduplicated(f) \/ WriteFails(f) \/ CheckBudget(f) \/ WriteSidecar(f)
  <2>1. UNCHANGED <<pending, pendingBytes, inflight>>
    BY <1>1 DEF Begin, Deduplicated, WriteFails, CheckBudget, WriteSidecar, Refuse, stats
  <2>2. phase[Own(f)] \in {"idle", "budget", "sidecar"}
    BY <1>1, Zenon DEF Begin, Deduplicated, WriteFails, CheckBudget, WriteSidecar, At
  <2>3. \E p \in {"out", "budget", "sidecar", "count"} : phase' = [phase EXCEPT ![Own(f)] = p]
    BY <1>1, SMT DEF Begin, Deduplicated, WriteFails, CheckBudget, WriteSidecar, Refuse, GoTo
  <2>4. PICK p \in {"out", "budget", "sidecar", "count"} : phase' = [phase EXCEPT ![Own(f)] = p]
    BY <2>3
  <2>5. p \notin ChargedPhases /\ p \notin ProcessedPhases /\ p # "send"
        /\ phase[Own(f)] \notin ChargedPhases /\ phase[Own(f)] \notin ProcessedPhases
    BY <2>2, <2>4, AccountPhases
  <2>6. \A j \in Items : Owed(j)' => Owed(j)
    BY <1>o, <1>p, <2>4, <2>5, Zenon
  <2>7. QED
    BY <1>0, <2>1, <2>4, <2>5, <2>6, MoveSame
<1>2. CASE Count(f)
  <2>1. /\ phase[Own(f)] = "count" /\ phase' = [phase EXCEPT ![Own(f)] = "send"]
        /\ pending' = pending + 1 /\ pendingBytes' = pendingBytes + Size[f] /\ inflight' = inflight
    BY <1>2 DEF Count, At, GoTo
  <2>2. \A j \in Items : Owed(j)' => Owed(j) \/ (j = Own(f) /\ Size[f] = Size[f])
    BY <1>o, Zenon
  <2>3. QED
    BY <1>0, <2>1, <2>2, AccountPhases, MoveIn
<1>3. CASE Accept(f)
  <2>1. /\ phase[Own(f)] = "send" /\ phase' = [phase EXCEPT ![Own(f)] = "channel"]
        /\ UNCHANGED <<pending, pendingBytes, inflight>>
    BY <1>3 DEF Accept, At, GoTo, stats
  <2>2. \A j \in Items : Owed(j)' => Owed(j)
    BY <1>o, <1>p, <2>1
  <2>3. QED
    BY <1>0, <2>1, <2>2, AccountPhases, MoveSame
<1>4. CASE Reject(f)
  <2>1. /\ phase[Own(f)] = "send" /\ phase' = [phase EXCEPT ![Own(f)] = "out"]
        /\ pending' = pending - 1 /\ pendingBytes' = pendingBytes - Size[f] /\ inflight' = inflight
    BY <1>4 DEF Reject, Rollback, Refuse, At, GoTo
  <2>2. (\A j \in Items : Owed(j)' => Owed(j)) /\ Owed(Own(f))
    BY <1>o, <1>p, <2>1 DEF Owed
  <2>3. QED
    BY <1>0, <2>1, <2>2, AccountPhases, MoveOut
<1>5. QED
    BY <1>1, <1>2, <1>3, <1>4

\* What owes bytes after a step of the recovery.
LEMMA RecoveryOwed ==
    ASSUME Inv, NEW f \in Files, NEW p \in {"verified", "channel", "out"},
           phase' = [phase EXCEPT ![Rec(f)] = p], phase[Rec(f)] \in {"idle", "verified"},
           UNCHANGED <<task, temp>>, NEW j \in Items, Owed(j)'
    PROVE  Owed(j) \/ (j = Rec(f) /\ p = "channel" /\ temp[f] # "none")
<1>1. Rec(f) \in Items /\ Rec(f)[1] = f
    BY ItemFacts
<1>2. phase'[Rec(f)] = p /\ \A i \in Items : i # Rec(f) => phase'[i] = phase[i]
    BY <1>1, Zenon DEF Inv, Shape
<1>3. CASE j = Rec(f)
  <2>1. p \notin {"send", "held", "start"} \cup Uploading \cup Ending
    BY SMT DEF Uploading, Ending
  <2>2. QED
    BY <1>1, <1>2, <1>3, <2>1, SMT DEF Owed
<1>4. CASE j # Rec(f)
    BY <1>2, <1>4, Zenon DEF Owed
<1>5. QED
    BY <1>3, <1>4

LEMMA RecoveryAccount ==
    ASSUME Inv, TasksInv, AccountInv, NEW f \in Files, RecoverReads(f) \/ RecoverEnqueues(f) \/ RecoverLeaves(f)
    PROVE  AccountInv'
<1>0. /\ Rec(f) \in Items /\ Rec(f)[1] = f /\ UNCHANGED <<task, temp>> /\ TaskInv(Rec(f))
      /\ aborted' = aborted
    BY ItemFacts DEF RecoverReads, RecoverEnqueues, RecoverLeaves, disk, work, TasksInv
<1>1. CASE RecoverReads(f) \/ RecoverLeaves(f)
  <2>1. /\ phase[Rec(f)] \in {"idle", "verified"}
        /\ \E p \in {"verified", "out"} : phase' = [phase EXCEPT ![Rec(f)] = p]
    <3>1. CASE RecoverReads(f)
      <4>1. f \in scan /\ phase' = [phase EXCEPT ![Rec(f)] = "verified"]
        BY <3>1 DEF RecoverReads, GoTo
      <4>2. phase[Rec(f)] = "idle"
        BY <4>1 DEF Inv, FileInv, OwnerInv
      <4>3. QED
        BY <4>1, <4>2
    <3>2. CASE RecoverLeaves(f)
      BY <3>2 DEF RecoverLeaves, Verified, At, GoTo
    <3>3. QED
      BY <1>1, <3>1, <3>2
  <2>2. UNCHANGED <<pending, pendingBytes, inflight>>
    BY <1>1 DEF RecoverReads, RecoverLeaves, stats
  <2>3. PICK p \in {"verified", "out"} : phase' = [phase EXCEPT ![Rec(f)] = p]
    BY <2>1
  <2>4. p \in {"verified", "channel", "out"} /\ p # "channel"
    BY <2>3
  <2>5. \A j \in Items : Owed(j)' => Owed(j)
    BY <1>0, <2>1, <2>3, <2>4, RecoveryOwed
  <2>6. /\ p \notin ChargedPhases /\ p \notin ProcessedPhases
        /\ phase[Rec(f)] \notin ChargedPhases /\ phase[Rec(f)] \notin ProcessedPhases
    BY <2>1, <2>3, AccountPhases
  <2>7. QED
    BY <1>0, <2>2, <2>3, <2>5, <2>6, MoveSame
<1>2. CASE RecoverEnqueues(f)
  <2>1. /\ phase[Rec(f)] = "verified" /\ phase' = [phase EXCEPT ![Rec(f)] = "channel"]
        /\ pending' = pending + 1 /\ pendingBytes' = pendingBytes + FileSize(f) /\ inflight' = inflight
    BY <1>2 DEF RecoverEnqueues, Verified, At, GoTo
  <2>2. FileSize(f) \in {0, Size[f]} /\ (temp[f] # "none" => FileSize(f) = Size[f])
    BY DEF FileSize
  <2>3. RecoveryAwaited => FileSize(f) = Size[f]
    <3>1. Kept(Rec(f))
      BY <1>0, <2>1 DEF Kept
    <3>2. QED
      BY <1>0, <2>2, <3>1 DEF TaskInv
  <2>4. \A j \in Items : Owed(j)' => Owed(j) \/ (j = Rec(f) /\ FileSize(f) = Size[f])
    BY <1>0, <2>1, <2>2, RecoveryOwed
  <2>5. QED
    BY <1>0, <2>1, <2>2, <2>3, <2>4, AccountPhases, MoveIn
<1>3. QED
    BY <1>1, <1>2

LEMMA UploadAccount ==
    ASSUME Inv, TasksInv, PermitInv, AccountInv, NEW i \in Items,
           Dispatch(i) \/ Wire(i) \/ TaskOf(i) \/ ParkRefused(i) \/ ParkWakes(i) \/ Reacquire(i)
    PROVE  AccountInv'
<1>o. \A j \in Items : Owed(j)' => Owed(j)
    BY UploadTasks, EndTasks DEF TaskOf, Wire
<1>1. CASE Dispatch(i)
  <2>1. /\ phase[i] = "held" /\ phase' = [phase EXCEPT ![i] = "start"]
        /\ UNCHANGED <<pending, pendingBytes, inflight, aborted>>
    BY <1>1 DEF Dispatch, At, GoTo, stats
  <2>2. QED
    BY <1>o, <2>1, AccountPhases, MoveSame
<1>2. CASE Start(i)
  <2>1. /\ phase[i] = "start" /\ (phase' = [phase EXCEPT ![i] = "finish"] \/ phase' = [phase EXCEPT ![i] = "try"])
        /\ inflight' = inflight + 1 /\ UNCHANGED <<pending, pendingBytes, aborted>>
    BY <1>2 DEF Start, At, GoTo, TaskOnly
  <2>2. QED
    BY <1>o, <2>1, AccountPhases, MoveStart
<1>3. CASE \/ WireSucceeds(i) \/ WireRefused(i) \/ WireFails(i) \/ Backoff(i) \/ WireParks(i)
           \/ ParkGivesUp(i) \/ Finish(i) \/ Unlink(i) \/ ParkRefused(i) \/ ParkWakes(i) \/ Reacquire(i)
  <2>1. UNCHANGED <<pending, pendingBytes, inflight, aborted>>
    BY <1>3 DEF WireSucceeds, WireRefused, WireFails, Backoff, WireParks, ParkGivesUp, Finish, Unlink,
       ParkRefused, ParkWakes, Reacquire, TaskOnly, stats
  <2>2. phase[i] \in {"try", "backoff", "park", "reacquire", "finish", "unlink"}
    BY <1>3, Zenon DEF WireSucceeds, WireRefused, WireFails, Backoff, WireParks, ParkGivesUp, Finish, Unlink,
       ParkRefused, ParkWakes, Reacquire, At
  <2>3. \E p \in {"try", "backoff", "park", "reacquire", "finish", "unlink", "settle"} :
           phase' = [phase EXCEPT ![i] = p]
    <3>0. CASE WireFails(i)
      <4>1. phase' = [phase EXCEPT ![i] = "finish"] \/ phase' = [phase EXCEPT ![i] = "backoff"]
        BY <3>0, Zenon DEF WireFails, Ends, GoTo
      <4>2. QED
        BY <4>1, Zenon
    <3>1. CASE WireSucceeds(i) \/ WireRefused(i) \/ Backoff(i) \/ WireParks(i)
      BY <3>1, Zenon DEF WireSucceeds, WireRefused, Backoff, WireParks, Ends, GoTo
    <3>2. CASE ParkGivesUp(i) \/ ParkRefused(i) \/ ParkWakes(i) \/ Reacquire(i) \/ Unlink(i)
      BY <3>2, Zenon DEF ParkGivesUp, ParkRefused, ParkWakes, Reacquire, Unlink, Ends, GoTo
    <3>3. CASE Finish(i)
      <4>1. phase' = [phase EXCEPT ![i] = IF HasSidecar(i) THEN "unlink" ELSE "settle"]
        BY <3>3, Zenon DEF Finish, GoTo
      <4>2. phase' = [phase EXCEPT ![i] = "unlink"] \/ phase' = [phase EXCEPT ![i] = "settle"]
        BY <4>1, Zenon
      <4>3. QED
        BY <4>2, Zenon
    <3>4. QED
      BY <1>3, <3>0, <3>1, <3>2, <3>3
  <2>4. PICK p \in {"try", "backoff", "park", "reacquire", "finish", "unlink", "settle"} :
           phase' = [phase EXCEPT ![i] = p]
    BY <2>3
  <2>5. p \in ChargedPhases /\ p \in ProcessedPhases /\ phase[i] \in ChargedPhases /\ phase[i] \in ProcessedPhases
    BY <2>2, <2>4, AccountPhases
  <2>6. QED
    BY <1>o, <2>1, <2>4, <2>5, MoveSame
<1>4. CASE WireUnauthorized(i)
  <2>1. UNCHANGED <<phase, pending, pendingBytes, inflight, aborted>>
    BY <1>4 DEF WireUnauthorized, TaskOnly, stats
  <2>2. \A j \in Items : (Charged(j)' <=> Charged(j)) /\ (Processed(j)' <=> Processed(j))
    BY <2>1 DEF Charged, Processed
  <2>3. QED
    BY <1>o, <2>1, <2>2, AccountSame
<1>5. CASE Settle(i)
  <2>1. /\ phase[i] = "settle" /\ phase' = [phase EXCEPT ![i] = "debit"]
        /\ inflight' = inflight - 1 /\ UNCHANGED <<pending, pendingBytes, aborted>>
    BY <1>5 DEF Settle, At, GoTo, TaskOnly
  <2>2. QED
    BY <1>o, <2>1, AccountPhases, MoveSettle
<1>6. CASE Debit(i)
  <2>1. /\ phase[i] = "debit" /\ phase' = [phase EXCEPT ![i] = "out"]
        /\ pending' = pending - 1 /\ pendingBytes' = pendingBytes - task[i].charge
        /\ UNCHANGED <<inflight, aborted>>
    BY <1>6 DEF Debit, At, GoTo, work
  <2>2. phase[i] \in Ending
    BY <2>1, SMT DEF Ending
  <2>3. ChargeOK(i, task[i].charge)
    BY <2>2, Zenon DEF TasksInv, TaskInv
  <2>4. task[i].charge # 0 => Owed(i)
    BY <2>2, Zenon DEF Owed
  <2>5. QED
    BY <1>o, <2>1, <2>3, <2>4, AccountPhases, MoveOut DEF ChargeOK
<1>7. QED
    BY <1>1, <1>2, <1>3, <1>4, <1>5, <1>6 DEF TaskOf, Wire

\* What an aborted drain drops stays counted, in pending no less than in inflight.
LEMMA DrainAccount ==
    ASSUME Inv, TasksInv, PermitInv, AccountInv, DrainTimeout
    PROVE  AccountInv'
<1>1. /\ phase' = [i \in Items |-> IF i \in Dropped THEN "out" ELSE phase[i]] /\ aborted' = TRUE
      /\ UNCHANGED <<pending, pendingBytes, inflight>>
    BY DEF DrainTimeout, stats
<1>2. ChargedItems' = ChargedItems \ Dropped
    BY <1>1, AccountPhases, Zenon DEF ChargedItems, Charged, ChargedPhases
<1>3. ProcessedItems' = ProcessedItems \ Dropped
    BY <1>1, AccountPhases, Zenon DEF ProcessedItems, Processed, ProcessedPhases
<1>4. BytesInv'
  <2>1. ChargedItems' \subseteq ChargedItems /\ \A j \in Items : Owed(j)' => Owed(j)
    BY <1>2, DrainTasks
  <2>2. QED
    BY <1>1, <2>1, BytesSame DEF AccountInv
<1>5. CountInv /\ IsFiniteSet(ChargedItems) /\ IsFiniteSet(ProcessedItems)
    BY AccountFacts DEF AccountInv, CountInv
<1> DEFINE c == Cardinality(ChargedItems)
           w == Cardinality(ProcessedItems)
           dc == Cardinality(ChargedItems \cap Dropped)
           dw == Cardinality(ProcessedItems \cap Dropped)
<1>6. IsFiniteSet(ChargedItems') /\ c' = c - dc /\ w' = w - dw
    BY <1>2, <1>3, <1>5, FS_Difference
<1>7. dc \in Nat /\ dw \in Nat /\ dw <= dc
  <2>1. /\ IsFiniteSet(ChargedItems \cap Dropped)
        /\ ProcessedItems \cap Dropped \subseteq ChargedItems \cap Dropped
    BY <1>5, AccountFacts, FS_Subset
  <2>2. QED
    BY <2>1, FS_Subset, FS_CardinalityType
<1>9. c \in Nat /\ w \in Nat /\ w <= c
    BY <1>5, AccountFacts
<1>10. pending \in Nat /\ inflight \in Nat /\ inflight >= w /\ pending + w >= inflight + c
    BY <1>5 DEF CountInv
<1> HIDE DEF c, w, dc, dw
<1>11. inflight >= w' /\ pending + w' >= inflight + c'
    BY <1>6, <1>7, <1>9, <1>10, SMT
<1>12. QED
    BY <1>1, <1>4, <1>6, <1>10, <1>11 DEF AccountInv, CountInv, c, w

LEMMA FreshAccount == Fresh => AccountInv
<1> SUFFICES ASSUME Fresh PROVE AccountInv
    OBVIOUS
<1>1. ChargedItems = {} /\ ProcessedItems = {} /\ OwedItems = {}
  <2>1. ChargedItems = {} /\ ProcessedItems = {}
    BY AccountPhases, Zenon DEF Fresh, ChargedItems, ProcessedItems, Charged, Processed, ChargedPhases,
       ProcessedPhases
  <2>2. QED
    BY <2>1, OwedCharged
<1>2. BytesOf(ChargedItems) = {} /\ BytesOf(OwedItems) = {}
    BY <1>1, Zenon DEF BytesOf
<1>3. IsFiniteSet({}) /\ Cardinality({}) = 0
    BY FS_EmptySet
<1>4. QED
    BY <1>1, <1>2, <1>3 DEF Fresh, AccountInv, CountInv, BytesInv

LEMMA FreshAccountNext == Fresh' => AccountInv'
BY FreshAccount, PTL

\* A step that moves no item and makes no file.
LEMMA AccountStill ==
    ASSUME AccountInv, UNCHANGED <<phase, task, pending, pendingBytes, inflight, aborted>>,
           \A j \in Items : temp[j[1]] = "none" => temp'[j[1]] = "none"
    PROVE  AccountInv'
<1>1. \A j \in Items : (Charged(j)' <=> Charged(j)) /\ (Processed(j)' <=> Processed(j))
    BY DEF Charged, Processed
<1>2. \A j \in Items : Owed(j)' => Owed(j)
    BY Zenon DEF Owed
<1>3. QED
    BY <1>1, <1>2, AccountSame

LEMMA AccountNext ==
    ASSUME Inv, TasksInv, PermitInv, AccountInv, [Next]_vars
    PROVE  AccountInv'
<1>1. ASSUME UNCHANGED <<phase, task, pending, pendingBytes, inflight, aborted, temp>> PROVE AccountInv'
    BY <1>1, AccountStill
<1>2. ASSUME NEW f \in Files, Caller(f) \/ InlineDone(f) \/ Recovery(f) PROVE AccountInv'
  <2>1. CASE \/ Begin(f) \/ Deduplicated(f) \/ WriteFails(f) \/ CheckBudget(f) \/ WriteSidecar(f)
             \/ Count(f) \/ Accept(f) \/ Reject(f)
    BY <2>1, CallerAccount
  <2>2. CASE InlineDone(f) \/ RecoverDrops(f)
    <3>1. /\ UNCHANGED <<phase, task, pending, pendingBytes, inflight, aborted>>
          /\ temp' = temp \/ temp' = [temp EXCEPT ![f] = "none"]
      BY <2>2, Zenon DEF InlineDone, RecoverDrops, stats, work
    <3>2. \A j \in Items : temp[j[1]] = "none" => temp'[j[1]] = "none"
      BY <3>1, ItemFacts, SMT DEF Inv, Shape
    <3>3. QED
      BY <3>1, <3>2, AccountStill
  <2>3. CASE RecoverReads(f) \/ RecoverEnqueues(f) \/ RecoverLeaves(f)
    BY <2>3, RecoveryAccount
  <2>4. QED
    BY <1>2, <2>1, <2>2, <2>3 DEF Caller, Recovery
<1>3. ASSUME NEW i \in Items,
             Dispatch(i) \/ Wire(i) \/ TaskOf(i) \/ ParkRefused(i) \/ ParkWakes(i) \/ Reacquire(i)
      PROVE  AccountInv'
    BY <1>3, UploadAccount
<1>4. ASSUME NEW i \in Items, Age(i) PROVE AccountInv'
    BY <1>1, <1>4 DEF Age, stats, work, disk
<1>5. CASE Worker \/ Drain \/ InlineAcquire \/ Scan
  <2>1. CASE WorkerRecv
    <3>1. PICK i \in Items : phase[i] = "channel" /\ phase' = [phase EXCEPT ![i] = "held"]
      BY <2>1, RecvMove
    <3>2. UNCHANGED <<task, temp, pending, pendingBytes, inflight, aborted>>
      BY <2>1 DEF WorkerRecv, WorkerGoes, stats, disk
    <3>3. phase'[i] = "held" /\ \A j \in Items : j # i => phase'[j] = phase[j]
      BY <3>1, Zenon DEF Inv, Shape
    <3>4. "held" \notin (Uploading \ {"start"}) \cup Ending
      BY SMT DEF Uploading, Ending
    <3>5. \A j \in Items : Owed(j)' => Owed(j)
      BY <3>1, <3>2, <3>3, <3>4, SMT DEF Owed
    <3>6. QED
      BY <3>1, <3>2, <3>5, AccountPhases, MoveSame
  <2>2. CASE \/ WorkerCheck \/ WorkerCooled \/ WorkerShutdown \/ WorkerJoin \/ WorkerExit
             \/ Drain \/ InlineAcquire \/ Scan
    BY <1>1, <2>2 DEF WorkerCheck, WorkerCooled, WorkerShutdown, WorkerJoin, WorkerExit, WorkerGoes,
       Drain, InlineAcquire, Scan, stats, work, disk
  <2>3. QED
    BY <1>5, <2>1, <2>2 DEF Worker
<1>c. CASE Cleanup
  <2>1. /\ UNCHANGED <<phase, task, pending, pendingBytes, inflight, aborted>>
        /\ temp' = [f \in Files |-> IF Own(f) \in old THEN "none" ELSE temp[f]]
    BY <1>c DEF Cleanup, stats, work
  <2>2. \A j \in Items : temp[j[1]] = "none" => temp'[j[1]] = "none"
    BY <2>1, ItemFacts, SMT
  <2>3. QED
    BY <2>1, <2>2, AccountStill
<1>6. CASE DrainTimeout
    BY <1>6, DrainAccount
<1>7. ASSUME NEW t, NEW d, NEW b, Crash(t, d, b) PROVE AccountInv'
  <2>1. Fresh'
    BY <1>7 DEF Crash, Fresh
  <2>2. QED
    BY <2>1, FreshAccountNext
<1>8. CASE UNCHANGED vars
    BY <1>1, <1>8 DEF vars, stats, work, disk
<1>9. QED
    BY <1>2, <1>3, <1>4, <1>5, <1>c, <1>6, <1>7, <1>8 DEF Next

LEMMA SpecAccount == Spec => [](Inv /\ TasksInv /\ PermitInv /\ AccountInv)
<1>1. Init => TasksInv /\ PermitInv /\ AccountInv
    BY FreshTasks, FreshAccount DEF Init, Fresh
<1>2. Inv /\ TasksInv /\ PermitInv /\ [Next]_vars => TasksInv' /\ PermitInv'
    BY TasksNext
<1>3. Inv /\ TasksInv /\ PermitInv /\ AccountInv /\ [Next]_vars => AccountInv'
    BY AccountNext
<1>4. QED
    BY <1>1, <1>2, <1>3, SpecInv, PTL DEF Spec

\* pending and inflight agree with the items between enqueue and settlement whatever is
\* rejected, rolled back, retried, parked or recovered, beside callers or before them; pending
\* is never below inflight, and only an aborted drain leaves any of them behind.
THEOREM AccountingIsExact == Spec => []CountsExact
<1>1. AccountInv => CountsExact
  <2> SUFFICES ASSUME AccountInv PROVE CountsExact
    OBVIOUS
  <2>1. inflight <= pending
    BY AccountFacts, SMT DEF AccountInv, CountInv
  <2>2. QED
    BY <2>1 DEF AccountInv, CountInv, CountsExact, ChargedItems, ProcessedItems
<1>2. QED
    BY <1>1, SpecAccount, PTL

\* Where the recovery is awaited, pending_bytes is the bytes of the items pending counts, at
\* every step: what enqueue charged is what settle_pending takes off, through rollbacks, retries
\* and recoveries, though the settlement measures the temp file again.
THEOREM BytesAreExact == RecoveryAwaited /\ Spec => []BytesExact
<1>1. RecoveryAwaited /\ AccountInv => BytesExact
    BY DEF AccountInv, BytesInv, BytesExact, ChargedItems
<1>2. CASE RecoveryAwaited
  <2>1. AccountInv => BytesExact
    BY <1>1, <1>2
  <2>2. QED
    BY <2>1, SpecAccount, PTL
<1>3. QED
    BY <1>2

----------------------------------------------------------------------------
(* The paths in flight *)

\* The item that marked the path of an artifact is one of a caller, and it still exists.
Holds(f) == Dedups(f) /\ phase[Own(f)] \in Calling \cup Queued

\* A marked path has a holder, and one only.
MarkInv ==
    /\ \A f \in Files : Holds(f) => Path[f] \in inFlight
    /\ \A f, g \in Files : Holds(f) /\ Holds(g) /\ Path[f] = Path[g] => f = g
    /\ \A p \in inFlight : \E f \in Files : Holds(f) /\ Path[f] = p

LEMMA MarkSame ==
    ASSUME MarkInv, inFlight' = inFlight, \A f \in Files : Holds(f)' <=> Holds(f)
    PROVE  MarkInv'
BY Zenon DEF MarkInv

\* Items end and their marks with them.
LEMMA MarkDrop ==
    ASSUME MarkInv, NEW S \in SUBSET Items, inFlight' = Unmarked(S),
           \A f \in Files : Own(f) \in S => phase[Own(f)] \in Calling \cup Queued,
           \A f \in Files : Holds(f)' <=> Holds(f) /\ Own(f) \notin S
    PROVE  MarkInv'
<1>0. \A f : Own(f)[1] = f /\ ~Own(f)[2]
    BY SMT DEF Own
<1>1. ASSUME NEW i \in S, ~i[2] PROVE i[1] \in Files /\ i = Own(i[1])
  <2>1. i = <<i[1], i[2]>> /\ i[1] \in Files /\ i[2] \in BOOLEAN
    BY SMT DEF Items
  <2>2. i[2] = FALSE
    BY <1>1, <2>1, Zenon
  <2>3. QED
    BY <2>1, <2>2, Zenon DEF Own
<1>2. ASSUME NEW p
      PROVE  p \in inFlight' <=> p \in inFlight /\ \A g \in Files : Own(g) \in S /\ Dedups(g) => Path[g] # p
  <2>1. p \in inFlight' <=> p \in inFlight /\ \A i \in S : ~i[2] /\ Dedups(i[1]) => Path[i[1]] # p
    BY Zenon DEF Unmarked
  <2>2. ASSUME \A i \in S : ~i[2] /\ Dedups(i[1]) => Path[i[1]] # p, NEW g \in Files, Own(g) \in S, Dedups(g)
        PROVE  Path[g] # p
    BY <1>0, <2>2, Zenon
  <2>3. ASSUME \A g \in Files : Own(g) \in S /\ Dedups(g) => Path[g] # p, NEW i \in S, ~i[2], Dedups(i[1])
        PROVE  Path[i[1]] # p
    <3>1. i[1] \in Files /\ i = Own(i[1])
      BY <1>1, <2>3
    <3>2. QED
      BY <2>3, <3>1
  <2>4. QED
    BY <2>1, <2>2, <2>3, Zenon
<1>3. ASSUME NEW f \in Files, Holds(f)' PROVE Path[f] \in inFlight'
  <2>1. Holds(f) /\ Own(f) \notin S /\ Path[f] \in inFlight
    BY <1>3 DEF MarkInv
  <2>2. ASSUME NEW g \in Files, Own(g) \in S, Dedups(g) PROVE Path[g] # Path[f]
    <3>1. Holds(g)
      BY <2>2 DEF Holds
    <3>2. QED
      BY <2>1, <2>2, <3>1, Zenon DEF MarkInv
  <2>3. QED
    BY <1>2, <2>1, <2>2, Zenon
<1>4. ASSUME NEW p \in inFlight' PROVE \E f \in Files : Holds(f)' /\ Path[f] = p
  <2>1. p \in inFlight /\ \A g \in Files : Own(g) \in S /\ Dedups(g) => Path[g] # p
    BY <1>2, Zenon
  <2>2. PICK f \in Files : Holds(f) /\ Path[f] = p
    BY <2>1 DEF MarkInv
  <2>3. Own(f) \notin S
    BY <2>1, <2>2 DEF Holds
  <2>4. QED
    BY <2>2, <2>3, Zenon
<1>5. \A f, g \in Files : Holds(f)' /\ Holds(g)' /\ Path[f] = Path[g] => f = g
    BY Zenon DEF MarkInv
<1>6. QED
    BY <1>3, <1>4, <1>5, Zenon DEF MarkInv

\* One item moves.
LEMMA HoldsMove ==
    ASSUME Inv, NEW i \in Items, NEW p, phase' = [phase EXCEPT ![i] = p]
    PROVE  /\ \A f \in Files : Own(f) # i => (Holds(f)' <=> Holds(f))
           /\ \A f \in Files : Own(f) = i => (Holds(f)' <=> Dedups(f) /\ p \in Calling \cup Queued)
<1>1. phase'[i] = p /\ \A j \in Items : j # i => phase'[j] = phase[j]
    BY Zenon DEF Inv, Shape
<1>2. ASSUME NEW f \in Files
      PROVE  /\ Own(f) # i => (Holds(f)' <=> Holds(f))
             /\ Own(f) = i => (Holds(f)' <=> Dedups(f) /\ p \in Calling \cup Queued)
  <2>1. Holds(f)' <=> Dedups(f) /\ phase'[Own(f)] \in Calling \cup Queued
    BY Zenon DEF Holds, Dedups
  <2>2. Own(f) \in Items
    BY ItemFacts
  <2>3. QED
    BY <1>1, <2>1, <2>2, Zenon DEF Holds
<1>3. QED
    BY <1>2

LEMMA MarkMove ==
    ASSUME Inv, MarkInv, NEW i \in Items, NEW p, phase' = [phase EXCEPT ![i] = p], inFlight' = inFlight,
           p \in Calling \cup Queued <=> phase[i] \in Calling \cup Queued
    PROVE  MarkInv'
<1>1. ASSUME NEW f \in Files PROVE Holds(f)' <=> Holds(f)
  <2>1. CASE Own(f) # i
    BY <2>1, HoldsMove
  <2>2. CASE Own(f) = i
    <3>1. Holds(f)' <=> Dedups(f) /\ p \in Calling \cup Queued
      BY <2>2, HoldsMove
    <3>2. QED
      BY <2>2, <3>1 DEF Holds
  <2>3. QED
    BY <2>1, <2>2
<1>2. QED
    BY <1>1, MarkSame

LEMMA MarkEnd ==
    ASSUME Inv, MarkInv, NEW i \in Items, phase[i] \in Calling \cup Queued,
           phase' = [phase EXCEPT ![i] = "out"], inFlight' = Unmarked({i})
    PROVE  MarkInv'
<1>1. \A f \in Files : Own(f) \in {i} => phase[Own(f)] \in Calling \cup Queued
    OBVIOUS
<1>2. \A f \in Files : Holds(f)' <=> Holds(f) /\ Own(f) \notin {i}
    BY HoldsMove, PhaseFacts, Zenon
<1>3. {i} \in SUBSET Items
    OBVIOUS
<1>4. QED
    BY <1>1, <1>2, <1>3, MarkDrop

LEMMA CallerMarks ==
    ASSUME Inv, MarkInv, NEW f \in Files,
           \/ Begin(f) \/ Deduplicated(f) \/ WriteFails(f) \/ CheckBudget(f) \/ WriteSidecar(f)
           \/ Count(f) \/ Accept(f) \/ Reject(f)
    PROVE  MarkInv'
<1>0. Own(f) \in Items /\ {"budget", "sidecar", "count", "send"} = Calling
    BY ItemFacts DEF Calling
<1>1. CASE Begin(f)
  <2>0. phase' = [phase EXCEPT ![Own(f)] = IF Kind[f] = "blocking" THEN "sidecar" ELSE "budget"]
    BY <1>1 DEF Begin, GoTo
  <2>1. PICK p \in {"sidecar", "budget"} : phase' = [phase EXCEPT ![Own(f)] = p]
    BY <2>0, Zenon
  <2>2. p \in Calling \cup Queued /\ phase[Own(f)] = "idle"
    BY <1>0, <1>1, <2>1 DEF Begin, At
  <2>3. ~Holds(f)
    BY <2>2, PhaseFacts DEF Holds
  <2>4. /\ Holds(f)' <=> Dedups(f)
        /\ \A g \in Files : g # f => (Holds(g)' <=> Holds(g))
    BY <1>0, <2>1, <2>2, HoldsMove, ItemFacts, Zenon
  <2>5. CASE Dedups(f)
    <3>1. Path[f] \notin inFlight /\ inFlight' = inFlight \cup {Path[f]}
      BY <1>1, <2>5 DEF Begin, MarkInFlight
    <3>2. \A g \in Files : Holds(g)' <=> Holds(g) \/ g = f
      BY <2>3, <2>4, <2>5
    <3>3. QED
      BY <3>1, <3>2, Zenon DEF MarkInv
  <2>6. CASE ~Dedups(f)
    <3>1. inFlight' = inFlight
      BY <1>1, <2>6 DEF Begin, MarkInFlight
    <3>2. \A g \in Files : Holds(g)' <=> Holds(g)
      BY <2>3, <2>4, <2>6
    <3>3. QED
      BY <3>1, <3>2, MarkSame
  <2>7. QED
    BY <2>5, <2>6
<1>2. CASE Deduplicated(f) \/ WriteFails(f)
  <2>1. phase[Own(f)] = "idle" /\ phase' = [phase EXCEPT ![Own(f)] = "out"] /\ inFlight' = inFlight
    BY <1>2 DEF Deduplicated, WriteFails, At, GoTo
  <2>2. QED
    BY <1>0, <2>1, PhaseFacts, MarkMove
<1>3. CASE CheckBudget(f) \/ WriteSidecar(f) \/ Count(f) \/ Accept(f) \/ Reject(f)
  <2>1. phase[Own(f)] \in Calling
    BY <1>0, <1>3, Zenon DEF CheckBudget, WriteSidecar, Count, Accept, Reject, At
  <2>2. CASE \E inlined : Refuse(f, inlined)
    <3>1. phase' = [phase EXCEPT ![Own(f)] = "out"] /\ inFlight' = Unmarked({Own(f)})
      BY <2>2 DEF Refuse, GoTo
    <3>2. QED
      BY <1>0, <2>1, <3>1, MarkEnd
  <2>3. CASE ~\E inlined : Refuse(f, inlined)
    <3>1. CASE CheckBudget(f)
      <4>1. /\ phase' = [phase EXCEPT ![Own(f)] = IF HasSidecar(Own(f)) THEN "sidecar" ELSE "count"]
            /\ inFlight' = inFlight
        BY <2>3, <3>1, Zenon DEF CheckBudget, GoTo
      <4>2. (IF HasSidecar(Own(f)) THEN "sidecar" ELSE "count") \in Calling
        BY <1>0, Zenon
      <4>3. QED
        BY <1>0, <2>1, <4>1, <4>2, MarkMove
    <3>2. CASE WriteSidecar(f)
      <4>1. phase' = [phase EXCEPT ![Own(f)] = "count"] /\ inFlight' = inFlight
        BY <2>3, <3>2, Zenon DEF WriteSidecar, GoTo
      <4>2. QED
        BY <1>0, <2>1, <4>1, MarkMove
    <3>3. CASE Count(f)
      <4>1. phase' = [phase EXCEPT ![Own(f)] = "send"] /\ inFlight' = inFlight
        BY <3>3 DEF Count, GoTo
      <4>2. QED
        BY <1>0, <2>1, <4>1, MarkMove
    <3>4. CASE Accept(f)
      <4>1. phase' = [phase EXCEPT ![Own(f)] = "channel"] /\ inFlight' = inFlight
        BY <3>4 DEF Accept, GoTo
      <4>2. QED
        BY <1>0, <2>1, <4>1, PhaseFacts, MarkMove
    <3>5. CASE Reject(f)
      BY <2>3, <3>5, Zenon DEF Reject
    <3>6. QED
      BY <1>3, <3>1, <3>2, <3>3, <3>4, <3>5
  <2>4. QED
    BY <2>2, <2>3
<1>4. QED
    BY <1>1, <1>2, <1>3

\* Up to its last step, the upload of an item keeps its mark.
LEMMA UploadMarks ==
    ASSUME Inv, MarkInv, NEW i \in Items,
           Dispatch(i) \/ Wire(i) \/ TaskOf(i) \/ ParkRefused(i) \/ ParkWakes(i) \/ Reacquire(i)
    PROVE  MarkInv'
<1>0. {"held", "start", "try", "backoff", "park", "reacquire", "finish", "unlink", "settle", "debit"} \subseteq Queued
    BY SMT DEF Queued, Uploading, Ending
<1>1. CASE Debit(i)
  <2>1. phase[i] = "debit" /\ phase' = [phase EXCEPT ![i] = "out"] /\ inFlight' = Unmarked({i})
    BY <1>1 DEF Debit, At, GoTo
  <2>2. QED
    BY <1>0, <2>1, MarkEnd
<1>2. CASE WireUnauthorized(i)
  <2>1. UNCHANGED <<phase, inFlight>>
    BY <1>2 DEF WireUnauthorized, TaskOnly
  <2>2. QED
    BY <2>1, MarkSame DEF Holds
<1>3. CASE \/ Dispatch(i) \/ Start(i) \/ WireSucceeds(i) \/ WireRefused(i) \/ WireFails(i) \/ Backoff(i)
           \/ WireParks(i) \/ ParkGivesUp(i) \/ Finish(i) \/ Unlink(i) \/ Settle(i)
           \/ ParkRefused(i) \/ ParkWakes(i) \/ Reacquire(i)
  <2>1. inFlight' = inFlight
    BY <1>3 DEF Dispatch, Start, WireSucceeds, WireRefused, WireFails, Backoff, WireParks, ParkGivesUp, Finish,
       Unlink, Settle, ParkRefused, ParkWakes, Reacquire, TaskOnly
  <2>2. phase[i] \in {"held", "start", "try", "backoff", "park", "reacquire", "finish", "unlink", "settle"}
    BY <1>3, Zenon DEF Dispatch, Start, WireSucceeds, WireRefused, WireFails, Backoff, WireParks, ParkGivesUp,
       Finish, Unlink, Settle, ParkRefused, ParkWakes, Reacquire, At
  <2>3. \/ phase' = [phase EXCEPT ![i] = "start"] \/ phase' = [phase EXCEPT ![i] = "finish"]
        \/ phase' = [phase EXCEPT ![i] = "try"] \/ phase' = [phase EXCEPT ![i] = "backoff"]
        \/ phase' = [phase EXCEPT ![i] = "park"] \/ phase' = [phase EXCEPT ![i] = "reacquire"]
        \/ phase' = [phase EXCEPT ![i] = "settle"] \/ phase' = [phase EXCEPT ![i] = "debit"]
        \/ phase' = [phase EXCEPT ![i] = IF HasSidecar(i) THEN "unlink" ELSE "settle"]
    BY <1>3, Zenon DEF Dispatch, Start, WireSucceeds, WireRefused, WireFails, Backoff, WireParks, ParkGivesUp,
       Finish, Unlink, Settle, ParkRefused, ParkWakes, Reacquire, Ends, GoTo
  <2>4. (IF HasSidecar(i) THEN "unlink" ELSE "settle") \in Queued
    BY <1>0, Zenon
  <2>5. PICK p \in Queued : phase' = [phase EXCEPT ![i] = p]
    BY <1>0, <2>3, <2>4, Zenon
  <2>6. p \in Calling \cup Queued <=> phase[i] \in Calling \cup Queued
    BY <1>0, <2>2, <2>5
  <2>7. QED
    BY <2>1, <2>5, <2>6, MarkMove
<1>4. QED
    BY <1>1, <1>2, <1>3 DEF TaskOf, Wire

LEMMA DrainMarks ==
    ASSUME Inv, MarkInv, DrainTimeout
    PROVE  MarkInv'
<1>1. /\ phase' = [i \in Items |-> IF i \in Dropped THEN "out" ELSE phase[i]]
      /\ inFlight' = Unmarked(Dropped)
    BY DEF DrainTimeout
<1>2. Dropped \in SUBSET Items /\ \A i \in Dropped : phase[i] \in Calling \cup Queued
    BY PhaseFacts DEF Dropped
<1>3. ASSUME NEW f \in Files PROVE Holds(f)' <=> Holds(f) /\ Own(f) \notin Dropped
  <2>1. phase'[Own(f)] = IF Own(f) \in Dropped THEN "out" ELSE phase[Own(f)]
    BY <1>1, ItemFacts, Zenon
  <2>2. Holds(f)' <=> Dedups(f) /\ phase'[Own(f)] \in Calling \cup Queued
    BY Zenon DEF Holds, Dedups
  <2>3. QED
    BY <2>1, <2>2, PhaseFacts, Zenon DEF Holds
<1>4. QED
    BY <1>1, <1>2, <1>3, MarkDrop

LEMMA FreshMarks == Fresh => MarkInv
<1> SUFFICES ASSUME Fresh PROVE MarkInv
    OBVIOUS
<1>1. \A f \in Files : ~Holds(f)
    BY ItemFacts, PhaseFacts, Zenon DEF Fresh, Holds
<1>2. QED
    BY <1>1, Zenon DEF Fresh, MarkInv

LEMMA FreshMarksNext == Fresh' => MarkInv'
BY FreshMarks, PTL

LEMMA MarksNext ==
    ASSUME Inv, TasksInv, MarkInv, [Next]_vars
    PROVE  MarkInv'
<1>1. ASSUME UNCHANGED <<phase, inFlight>> PROVE MarkInv'
    BY <1>1, MarkSame DEF Holds
<1>2. ASSUME NEW f \in Files, Caller(f) \/ InlineDone(f) \/ Recovery(f) PROVE MarkInv'
  <2>1. CASE \/ Begin(f) \/ Deduplicated(f) \/ WriteFails(f) \/ CheckBudget(f) \/ WriteSidecar(f)
             \/ Count(f) \/ Accept(f) \/ Reject(f)
    BY <2>1, CallerMarks
  <2>2. CASE InlineDone(f) \/ RecoverDrops(f)
    BY <1>1, <2>2 DEF InlineDone, RecoverDrops
  <2>3. CASE RecoverReads(f) \/ RecoverEnqueues(f) \/ RecoverLeaves(f)
    <3>1. PICK p \in {"verified", "channel", "out"} :
            phase' = [phase EXCEPT ![Rec(f)] = p] /\ inFlight' = inFlight /\ Rec(f) \in Items
      BY <2>3, ItemFacts DEF RecoverReads, RecoverEnqueues, RecoverLeaves, GoTo
    <3>2. \A g \in Files : Own(g) # Rec(f)
      BY ItemFacts
    <3>3. \A g \in Files : Holds(g)' <=> Holds(g)
      BY <3>1, <3>2, HoldsMove
    <3>4. QED
      BY <3>1, <3>3, MarkSame
  <2>4. QED
    BY <1>2, <2>1, <2>2, <2>3 DEF Caller, Recovery
<1>3. ASSUME NEW i \in Items,
             Dispatch(i) \/ Wire(i) \/ TaskOf(i) \/ ParkRefused(i) \/ ParkWakes(i) \/ Reacquire(i)
      PROVE  MarkInv'
    BY <1>3, UploadMarks
<1>4. ASSUME NEW i \in Items, Age(i) PROVE MarkInv'
    BY <1>1, <1>4 DEF Age
<1>5. CASE Worker \/ Drain \/ InlineAcquire \/ Scan \/ Cleanup
  <2>1. CASE WorkerRecv
    <3>1. PICK i \in Items : phase[i] = "channel" /\ phase' = [phase EXCEPT ![i] = "held"]
      BY <2>1, RecvMove
    <3>2. inFlight' = inFlight
      BY <2>1 DEF WorkerRecv, WorkerGoes
    <3>3. QED
      BY <3>1, <3>2, PhaseFacts, MarkMove
  <2>2. CASE \/ WorkerCheck \/ WorkerCooled \/ WorkerShutdown \/ WorkerJoin \/ WorkerExit
             \/ Drain \/ InlineAcquire \/ Scan \/ Cleanup
    BY <1>1, <2>2 DEF WorkerCheck, WorkerCooled, WorkerShutdown, WorkerJoin, WorkerExit, WorkerGoes,
       Drain, InlineAcquire, Scan, Cleanup
  <2>3. QED
    BY <1>5, <2>1, <2>2 DEF Worker
<1>6. CASE DrainTimeout
    BY <1>6, DrainMarks
<1>7. ASSUME NEW t, NEW d, NEW b, Crash(t, d, b) PROVE MarkInv'
  <2>1. Fresh'
    BY <1>7 DEF Crash, Fresh
  <2>2. QED
    BY <2>1, FreshMarksNext
<1>8. CASE UNCHANGED vars
    BY <1>1, <1>8 DEF vars
<1>9. QED
    BY <1>2, <1>3, <1>4, <1>5, <1>6, <1>7, <1>8 DEF Next

LEMMA SpecMarks == Spec => []MarkInv
<1>1. Init => MarkInv
    BY FreshMarks DEF Init, Fresh
<1>2. Inv /\ TasksInv /\ MarkInv /\ [Next]_vars => MarkInv'
    BY MarksNext
<1>3. QED
    BY <1>1, <1>2, SpecAccount, PTL DEF Spec

\* A content-addressed path is marked exactly as long as the one item that marked it exists,
\* however that item ends: refused, rolled back, uploaded, given up or dropped by an abort.
THEOREM MarksAreExact == Spec => []DedupExact
<1>1. ASSUME MarkInv PROVE DedupExact
  <2> DEFINE Holders(p) == {f \in Files : Dedups(f) /\ Path[f] = p /\ phase[Own(f)] \in Calling \cup Queued}
  <2>1. ASSUME NEW p \in Addressed PROVE Cardinality(Holders(p)) = IF p \in inFlight THEN 1 ELSE 0
    <3>1. CASE p \in inFlight
      <4>1. PICK f \in Files : Holds(f) /\ Path[f] = p
        BY <1>1, <3>1 DEF MarkInv
      <4>2. Holders(p) = {f}
        BY <1>1, <4>1, Zenon DEF MarkInv, Holds
      <4>3. QED
        BY <3>1, <4>2, FS_Singleton
    <3>2. CASE p \notin inFlight
      <4>1. Holders(p) = {}
        BY <1>1, <3>2, Zenon DEF MarkInv, Holds
      <4>2. QED
        BY <3>2, <4>1, FS_EmptySet
    <3>3. QED
      BY <3>1, <3>2
  <2>2. QED
    BY <2>1 DEF DedupExact
<1>2. QED
    BY <1>1, SpecMarks, PTL

----------------------------------------------------------------------------
(* Types *)

\* The variables the invariants above say nothing about.
RestType ==
    /\ worker \in {"check", "cool", "select", "dispatch", "drain", "join", "exited"}
    /\ shutdown \in BOOLEAN /\ draining \in BOOLEAN /\ aborted \in BOOLEAN
    /\ fails \in 0..Threshold /\ inlineFree \in Nat /\ lives \in Nat /\ old \subseteq Items

LEMMA InlinePermitsType == \A f \in Files : InlinePermits(f) \in Nat
BY QueueAssumption, SMT DEF InlinePermits

LEMMA RestNext ==
    ASSUME Inv, RestType, [Next]_vars
    PROVE  RestType'
<1>0. Threshold \in Nat /\ 0 \in 0..Threshold
    BY QueueAssumption, SMT
<1>1. ASSUME UNCHANGED <<worker, shutdown, draining, aborted, fails, inlineFree, lives, old>> PROVE RestType'
    BY <1>1 DEF RestType
<1>2. ASSUME NEW f \in Files, Caller(f) \/ InlineDone(f) \/ Recovery(f) PROVE RestType'
  <2>1. CASE InlineDone(f)
    <3>1. /\ inlineFree' = inlineFree + InlinePermits(f)
          /\ UNCHANGED <<worker, shutdown, draining, aborted, fails, lives, old>>
      BY <2>1 DEF InlineDone, work
    <3>2. inlineFree' \in Nat
      BY <3>1, InlinePermitsType DEF RestType
    <3>3. QED
      BY <3>1, <3>2 DEF RestType
  <2>2. CASE Begin(f) \/ Deduplicated(f) \/ WriteFails(f)
    BY <1>1, <2>2 DEF Begin, Deduplicated, WriteFails, work, inline
  <2>3. CASE CheckBudget(f) \/ WriteSidecar(f) \/ Count(f) \/ Accept(f) \/ Reject(f)
    BY <1>1, <2>3 DEF CheckBudget, WriteSidecar, Count, Accept, Reject, Refuse, work, inline
  <2>4. CASE Recovery(f)
    BY <1>1, <2>4 DEF Recovery, RecoverDrops, RecoverReads, RecoverEnqueues, RecoverLeaves, work, inline
  <2>5. QED
    BY <1>2, <2>1, <2>2, <2>3, <2>4 DEF Caller
<1>3. ASSUME NEW i \in Items,
             Dispatch(i) \/ Wire(i) \/ TaskOf(i) \/ ParkRefused(i) \/ ParkWakes(i) \/ Reacquire(i)
      PROVE  RestType'
  <2>1. CASE Dispatch(i)
    <3>1. worker' \in {"drain", "check"}
      BY <2>1, Zenon DEF Dispatch
    <3>2. UNCHANGED <<shutdown, draining, aborted, fails, inlineFree, lives, old>>
      BY <2>1 DEF Dispatch, inline
    <3>3. QED
      BY <3>1, <3>2 DEF RestType
  <2>2. CASE Finish(i)
    <3>1. UNCHANGED <<worker, shutdown, draining, aborted, inlineFree, lives, old>>
      BY <2>2 DEF Finish, TaskOnly, inline
    <3>2. fails' = 0 \/ fails' = fails \/ fails' = IF fails < Threshold THEN fails + 1 ELSE fails
      BY <2>2, SMT DEF Finish
    <3>3. fails \in 0..Threshold
      BY DEF RestType
    <3>4. fails' \in 0..Threshold
      BY <1>0, <3>2, <3>3, SMT
    <3>5. QED
      BY <3>1, <3>4 DEF RestType
  <2>3. CASE Debit(i)
    BY <1>1, <2>3 DEF Debit, work, inline
  <2>4. CASE \/ Start(i) \/ WireSucceeds(i) \/ WireRefused(i) \/ WireFails(i) \/ Backoff(i)
             \/ WireUnauthorized(i) \/ WireParks(i) \/ ParkGivesUp(i) \/ Unlink(i) \/ Settle(i)
             \/ ParkRefused(i) \/ ParkWakes(i) \/ Reacquire(i)
    BY <1>1, <2>4 DEF Start, WireSucceeds, WireRefused, WireFails, Backoff, WireUnauthorized, WireParks,
       ParkGivesUp, Unlink, Settle, ParkRefused, ParkWakes, Reacquire, TaskOnly, inline
  <2>5. QED
    BY <1>3, <2>1, <2>2, <2>3, <2>4 DEF TaskOf, Wire
<1>4. ASSUME NEW i \in Items, Age(i) PROVE RestType'
  <2>1. old' = old \cup {i, Own(i[1])} /\ Own(i[1]) \in Items
    BY <1>4, ItemFacts DEF Age
  <2>2. UNCHANGED <<worker, shutdown, draining, aborted, fails, inlineFree, lives>>
    BY <1>4 DEF Age, work, inline
  <2>3. QED
    BY <2>1, <2>2 DEF RestType
<1>5. CASE Worker
  <2>1. CASE WorkerCheck \/ WorkerCooled \/ WorkerRecv \/ WorkerJoin \/ WorkerExit
    <3>1. worker' \in {"cool", "select", "dispatch", "join", "exited"}
      BY <2>1, Zenon DEF WorkerCheck, WorkerCooled, WorkerRecv, WorkerJoin, WorkerExit, WorkerGoes
    <3>2. (fails' = fails \/ fails' = 0) /\ UNCHANGED <<shutdown, draining, aborted, inlineFree, lives, old>>
      BY <2>1 DEF WorkerCheck, WorkerCooled, WorkerRecv, WorkerJoin, WorkerExit, WorkerGoes, inline
    <3>3. QED
      BY <1>0, <3>1, <3>2 DEF RestType
  <2>2. CASE WorkerShutdown
    <3>1. /\ worker' = "drain" /\ draining' = TRUE
          /\ UNCHANGED <<shutdown, aborted, fails, inlineFree, lives, old>>
      BY <2>2 DEF WorkerShutdown, WorkerGoes, inline
    <3>2. QED
      BY <3>1 DEF RestType
  <2>3. QED
    BY <1>5, <2>1, <2>2 DEF Worker
<1>6. CASE Drain
    BY <1>6 DEF Drain, RestType, inline
<1>7. CASE DrainTimeout
    BY <1>7 DEF DrainTimeout, RestType, inline
<1>8. CASE InlineAcquire
  <2>1. /\ inlineQ # <<>> /\ inlineFree >= InlinePermits(Head(inlineQ))
        /\ inlineFree' = inlineFree - InlinePermits(Head(inlineQ))
        /\ UNCHANGED <<worker, shutdown, draining, aborted, fails, lives, old>>
    BY <1>8 DEF InlineAcquire, work
  <2>2. Head(inlineQ) \in Files
    BY <2>1 DEF Inv, Shape
  <2>3. inlineFree' \in Nat
    BY <2>1, <2>2, InlinePermitsType, SMT DEF RestType
  <2>4. QED
    BY <2>1, <2>3 DEF RestType
<1>9. CASE Scan \/ Cleanup
    BY <1>1, <1>9 DEF Scan, Cleanup, work, inline
<1>10. ASSUME NEW t, NEW d, NEW b, Crash(t, d, b) PROVE RestType'
  <2>1. /\ lives > 0 /\ lives' = lives - 1 /\ worker' = "check" /\ shutdown' = FALSE /\ draining' = FALSE
        /\ aborted' = FALSE /\ fails' = 0 /\ inlineFree' = InlineTotal /\ old' \subseteq old
    BY <1>10 DEF Crash
  <2>2. lives' \in Nat /\ InlineTotal \in Nat
    BY <2>1, QueueAssumption, SMT DEF RestType
  <2>3. QED
    BY <1>0, <2>1, <2>2 DEF RestType
<1>11. CASE UNCHANGED vars
    BY <1>1, <1>11 DEF vars, work, inline
<1>12. QED
    BY <1>2, <1>3, <1>4, <1>5, <1>6, <1>7, <1>8, <1>9, <1>10, <1>11 DEF Next

LEMMA RestInit == Init => RestType
<1> SUFFICES ASSUME Init PROVE RestType
    OBVIOUS
<1>1. 0 \in 0..Threshold /\ InlineTotal \in Nat /\ MaxLives - 1 \in Nat
    BY QueueAssumption, SMT
<1>2. QED
    BY <1>1 DEF Init, RestType

\* Every variable keeps its type: no counter and neither semaphore is taken below zero, where
\* the code's unsigned atomics would wrap.
THEOREM TypeCorrect == Spec => []TypeOK
<1>1. ASSUME Inv, TasksInv, PermitInv, AccountInv, MarkInv, RestType PROVE TypeOK
  <2>1. inFlight \subseteq Addressed
    BY <1>1 DEF MarkInv, Holds, Dedups
  <2>2. /\ pending \in Nat /\ pendingBytes \in Nat /\ inflight \in Nat /\ permits \in Nat
    BY <1>1 DEF AccountInv, CountInv, BytesInv, PermitInv
  <2>3. remote \in [Files -> {"none", "full", "torn"}]
    BY <1>1, SMT DEF Inv, Shape
  <2>4. /\ {pending, pendingBytes, inflight, inlineFree, lives} \subseteq Nat
        /\ {shutdown, draining, aborted} \subseteq BOOLEAN
    BY <1>1, <2>2, Zenon DEF RestType
  <2>5. task \in [Items -> [attempts : 0..MaxAttempts, auth : BOOLEAN, permit : BOOLEAN, charge : Nat,
                           result : {"none", "ok", "terminal", "exhausted", "expired"}]]
    BY <1>1, Zenon DEF TasksInv, Tasks
  <2>6. QED
    BY <1>1, <2>1, <2>2, <2>3, <2>4, <2>5, Zenon DEF TypeOK, Inv, Shape, RestType, Fates
<1>2. Inv /\ RestType /\ [Next]_vars => RestType'
    BY RestNext
<1>3. QED
    BY <1>1, <1>2, RestInit, SpecAccount, SpecMarks, PTL DEF Spec

=============================================================================
