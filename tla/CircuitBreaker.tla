--------------------------- MODULE CircuitBreaker ---------------------------
(***************************************************************************)
(* The lock-free circuit breaker of crates/common/hystersis-circuit-breaker *)
(* (breaker.rs, window.rs).  A breaker is shared by many callers: each      *)
(* caller consults check() before a request and reports the outcome with    *)
(* record(), or is cancelled in between and never reports.                  *)
(*                                                                         *)
(* Every atomic load, store, read-modify-write and every critical section  *)
(* of the window mutex is one action, so the interleavings of the model are *)
(* those of the code.  An operation that only reads the clock to use the    *)
(* value later has its own step too.                                       *)
(***************************************************************************)
EXTENDS Integers, Sequences, FiniteSets

CONSTANTS
    Callers,            \* the requests that share the breaker
    OpenDuration,       \* config.open_duration: cool-down, and lease of a probe
    WindowDuration,     \* config.window_duration
    MinSamples,         \* config.min_samples
    RateNum, RateDen,   \* config.error_rate_threshold = RateNum / RateDen
    HalfOpenMaxProbes,  \* config.half_open_max_probes before with_clock clamps it
    MaxWindowEntries,   \* MAX_WINDOW_ENTRIES
    Usize,              \* 2^64 in the code: the counter of probes wraps here
    MaxClock            \* bound: the clock of the model stops here

ASSUME ConstantsAssumption ==
    /\ OpenDuration \in Nat
    /\ WindowDuration \in Nat
    /\ MinSamples \in Nat
    /\ RateNum \in Nat /\ RateDen \in Nat \ {0}
    /\ HalfOpenMaxProbes \in Nat
    /\ MaxWindowEntries \in Nat \ {0}
    /\ Usize \in Nat \ {0, 1}
    /\ MaxClock \in Nat

VARIABLES
    state,             \* authoritative BreakerState
    opened_at,         \* opened_at_millis
    half_open_probes,  \* AtomicUsize: a residue modulo Usize
    probe_claimed_at,  \* probe_claimed_at_millis
    is_open_fast,      \* the mirror is_open() reads
    window,            \* SlidingWindow: the entries and the running failure count
    clock,             \* elapsed_millis()
    pc,                \* where each caller is
    loc                \* the local values each caller carries between its steps

shared == <<state, opened_at, half_open_probes, probe_claimed_at, is_open_fast, window>>
vars == <<shared, clock, pc, loc>>

BreakerStates == {"Closed", "Open", "HalfOpen"}

\* with_clock: config.half_open_max_probes.max(1).
MaxProbes == IF HalfOpenMaxProbes >= 1 THEN HalfOpenMaxProbes ELSE 1

\* A caller is outside the breaker's code: no request, or a request in flight
\* that was let through by a Closed breaker ("calling") or as a probe ("probing").
AtRest == {"idle", "calling", "probing"}

CheckPcs == {"open_load", "open_clock", "open_cas", "open_mirror", "open_retry",
             "probe_clock", "probe_add", "probe_store", "probe_sub", "probe_load",
             "probe_cas"}
TripPcs == {"trip_state", "trip_clock", "trip_at", "trip_probes", "trip_mirror"}
ClosePcs == {"close_state", "close_window", "close_probes", "close_mirror"}
RecordPcs == {"record_state", "record_closed", "record_open"}
Pcs == AtRest \cup CheckPcs \cup RecordPcs \cup TripPcs \cup ClosePcs

\* Durations saturate at zero.
Since(now, at) == IF now >= at THEN now - at ELSE 0

NoLocals == [now |-> 0, read |-> 0, fail |-> FALSE]

Init ==
    /\ state = "Closed"
    /\ opened_at = 0
    /\ half_open_probes = 0
    /\ probe_claimed_at = 0
    /\ is_open_fast = FALSE
    /\ window = [entries |-> <<>>, failures |-> 0]
    /\ clock = 0
    /\ pc = [c \in Callers |-> "idle"]
    /\ loc = [c \in Callers |-> NoLocals]

-----------------------------------------------------------------------------
(* SlidingWindow *)

Failures(es) == Cardinality({i \in DOMAIN es : es[i].fail})

\* Fault: the entry dropped at the cap is not subtracted from the count.
WindowPush_KeepsCount(w, fail, at) ==
    LET full == Len(w.entries) >= MaxWindowEntries
    IN  [entries  |-> Append(IF full THEN Tail(w.entries) ELSE w.entries,
                             [at |-> at, fail |-> fail]),
         failures |-> w.failures + (IF fail THEN 1 ELSE 0)]

\* push: at the cap the oldest entry makes room.
WindowPush(w, fail, at) ==
    LET full == Len(w.entries) >= MaxWindowEntries
        kept == IF full THEN Tail(w.entries) ELSE w.entries
        gone == IF full /\ Head(w.entries).fail THEN 1 ELSE 0
    IN  [entries  |-> Append(kept, [at |-> at, fail |-> fail]),
         failures |-> w.failures - gone + (IF fail THEN 1 ELSE 0)]

\* evict: pop from the front while the front entry is older than the window.
WindowEvict(w, now) ==
    LET old(i) == w.entries[i].at < now - WindowDuration
        n == Cardinality({i \in DOMAIN w.entries : \A j \in 1..i : old(j)})
    IN  [entries  |-> SubSeq(w.entries, n + 1, Len(w.entries)),
         failures |-> w.failures - Failures(SubSeq(w.entries, 1, n))]

\* sample_count() >= min_samples && error_rate() >= error_rate_threshold; the
\* rate of an empty window is 0.
ShouldTrip(w) ==
    /\ Len(w.entries) >= MinSamples
    /\ IF w.entries = <<>> THEN RateNum = 0
                           ELSE w.failures * RateDen >= RateNum * Len(w.entries)

-----------------------------------------------------------------------------
(* Steps of a caller *)

\* Caller c moves from one point of the code to another.
Go(c, from, to) ==
    /\ pc[c] = from
    /\ pc' = [pc EXCEPT ![c] = to]

\* Read the state and continue where it says.
Branch(c, from, closed, open, halfOpen) ==
    Go(c, from, CASE state = "Closed"   -> closed
                  [] state = "Open"     -> open
                  [] state = "HalfOpen" -> halfOpen)

Forget(c) == loc' = [loc EXCEPT ![c] = NoLocals]

\* Fault: the hot path refuses on the mirror, so that nobody reaches the clock.
Check_Fast(c) ==
    /\ ~is_open_fast
    /\ Branch(c, "idle", "calling", "open_load", "probe_clock")
    /\ UNCHANGED <<shared, clock, loc>>

\* check(): dispatch on the state.
Check(c) ==
    /\ Branch(c, "idle", "calling", "open_load", "probe_clock")
    /\ UNCHANGED <<shared, clock, loc>>

\* check_open(): load opened_at_millis ...
OpenLoad(c) ==
    /\ Go(c, "open_load", "open_clock")
    /\ loc' = [loc EXCEPT ![c].read = opened_at]
    /\ UNCHANGED <<shared, clock>>

\* ... read the clock: the caller is refused inside the cool-down ...
OpenClock(c) ==
    /\ IF Since(clock, loc[c].read) >= OpenDuration
       THEN Go(c, "open_clock", "open_cas")
       ELSE Go(c, "open_clock", "idle")
    /\ Forget(c)
    /\ UNCHANGED <<shared, clock>>

\* ... and after it competes for the move to HalfOpen.
OpenCas(c) ==
    /\ IF state = "Open"
       THEN Go(c, "open_cas", "open_mirror") /\ state' = "HalfOpen"
       ELSE Go(c, "open_cas", "open_retry") /\ UNCHANGED state
    /\ UNCHANGED <<opened_at, half_open_probes, probe_claimed_at, is_open_fast,
                   window, clock, loc>>

OpenMirror(c) ==
    /\ Go(c, "open_mirror", "probe_clock")
    /\ is_open_fast' = FALSE
    /\ UNCHANGED <<state, opened_at, half_open_probes, probe_claimed_at, window,
                   clock, loc>>

\* The loser of the race looks at the state again.
OpenRetry(c) ==
    /\ Branch(c, "open_retry", "calling", "idle", "probe_clock")
    /\ UNCHANGED <<shared, clock, loc>>

\* try_half_open_probe(): the clock is read before the slot is taken.
ProbeClock(c) ==
    /\ Go(c, "probe_clock", "probe_add")
    /\ loc' = [loc EXCEPT ![c].now = clock]
    /\ UNCHANGED <<shared, clock>>

\* fetch_add(1)
ProbeAdd(c) ==
    /\ IF half_open_probes < MaxProbes
       THEN Go(c, "probe_add", "probe_store")
       ELSE Go(c, "probe_add", "probe_sub")
    /\ half_open_probes' = (half_open_probes + 1) % Usize
    /\ UNCHANGED <<state, opened_at, probe_claimed_at, is_open_fast, window,
                   clock, loc>>

\* The slot is taken: note when, and let the request through.
ProbeStore(c) ==
    /\ Go(c, "probe_store", "probing")
    /\ probe_claimed_at' = loc[c].now
    /\ Forget(c)
    /\ UNCHANGED <<state, opened_at, half_open_probes, is_open_fast, window, clock>>

\* fetch_sub(1): every slot was taken.
ProbeSub(c) ==
    /\ Go(c, "probe_sub", "probe_load")
    /\ half_open_probes' = (half_open_probes + Usize - 1) % Usize
    /\ UNCHANGED <<state, opened_at, probe_claimed_at, is_open_fast, window,
                   clock, loc>>

\* Fault: a claim is never given up for lost.
ProbeLoad_NoLease(c) ==
    /\ Go(c, "probe_load", "idle")
    /\ Forget(c)
    /\ UNCHANGED <<shared, clock>>

\* Is the last claim older than its lease?
ProbeLoad(c) ==
    \/ /\ Since(loc[c].now, probe_claimed_at) >= OpenDuration
       /\ Go(c, "probe_load", "probe_cas")
       /\ loc' = [loc EXCEPT ![c].read = probe_claimed_at]
       /\ UNCHANGED <<shared, clock>>
    \/ /\ Since(loc[c].now, probe_claimed_at) < OpenDuration
       /\ Go(c, "probe_load", "idle")
       /\ Forget(c)
       /\ UNCHANGED <<shared, clock>>

\* Fault: the claim is taken over with a plain store.
ProbeCas_Store(c) ==
    /\ Go(c, "probe_cas", "probing")
    /\ probe_claimed_at' = loc[c].now
    /\ Forget(c)
    /\ UNCHANGED <<state, opened_at, half_open_probes, is_open_fast, window, clock>>

\* compare_exchange: one caller takes an abandoned claim over.
ProbeCas(c) ==
    /\ IF probe_claimed_at = loc[c].read
       THEN Go(c, "probe_cas", "probing") /\ probe_claimed_at' = loc[c].now
       ELSE Go(c, "probe_cas", "idle") /\ UNCHANGED probe_claimed_at
    /\ Forget(c)
    /\ UNCHANGED <<state, opened_at, half_open_probes, is_open_fast, window, clock>>

\* The request is over and its caller is gone without a record(): its future
\* was dropped, or its outcome is one the caller does not report.
Abandon(c) ==
    /\ pc[c] \in {"calling", "probing"}
    /\ pc' = [pc EXCEPT ![c] = "idle"]
    /\ UNCHANGED <<shared, clock, loc>>

\* record(outcome): read the clock ...
Record(c, fail) ==
    /\ \E from \in {"calling", "probing"} : Go(c, from, "record_state")
    /\ loc' = [loc EXCEPT ![c] = [now |-> clock, read |-> 0, fail |-> fail]]
    /\ UNCHANGED <<shared, clock>>

\* ... then the state, which decides what the outcome means.
RecordState(c) ==
    /\ Branch(c, "record_state", "record_closed", "record_open",
              IF loc[c].fail THEN "trip_state" ELSE "close_state")
    /\ UNCHANGED <<shared, clock, loc>>

\* Under the window mutex: push, evict, decide.
RecordClosed(c) ==
    LET w == WindowEvict(WindowPush(window, loc[c].fail, loc[c].now), loc[c].now)
    IN  /\ IF ShouldTrip(w) THEN Go(c, "record_closed", "trip_state")
                            ELSE Go(c, "record_closed", "idle")
        /\ window' = w
        /\ Forget(c)
        /\ UNCHANGED <<state, opened_at, half_open_probes, probe_claimed_at,
                       is_open_fast, clock>>

RecordOpen(c) ==
    /\ Go(c, "record_open", "idle")
    /\ window' = WindowEvict(WindowPush(window, loc[c].fail, loc[c].now), loc[c].now)
    /\ Forget(c)
    /\ UNCHANGED <<state, opened_at, half_open_probes, probe_claimed_at,
                   is_open_fast, clock>>

\* trip(): four stores.
TripState(c) ==
    /\ Go(c, "trip_state", "trip_clock")
    /\ state' = "Open"
    /\ UNCHANGED <<opened_at, half_open_probes, probe_claimed_at, is_open_fast,
                   window, clock, loc>>

TripClock(c) ==
    /\ Go(c, "trip_clock", "trip_at")
    /\ loc' = [loc EXCEPT ![c].now = clock]
    /\ UNCHANGED <<shared, clock>>

\* Fault: the end of the cool-down is stored where its start belongs.
TripAt_Deadline(c) ==
    /\ Go(c, "trip_at", "trip_probes")
    /\ opened_at' = loc[c].now + OpenDuration
    /\ Forget(c)
    /\ UNCHANGED <<state, half_open_probes, probe_claimed_at, is_open_fast,
                   window, clock>>

TripAt(c) ==
    /\ Go(c, "trip_at", "trip_probes")
    /\ opened_at' = loc[c].now
    /\ Forget(c)
    /\ UNCHANGED <<state, half_open_probes, probe_claimed_at, is_open_fast,
                   window, clock>>

TripProbes(c) ==
    /\ Go(c, "trip_probes", "trip_mirror")
    /\ half_open_probes' = 0
    /\ UNCHANGED <<state, opened_at, probe_claimed_at, is_open_fast, window,
                   clock, loc>>

TripMirror(c) ==
    /\ Go(c, "trip_mirror", "idle")
    /\ is_open_fast' = TRUE
    /\ UNCHANGED <<state, opened_at, half_open_probes, probe_claimed_at, window,
                   clock, loc>>

\* close(): three stores and the window cleared under its mutex.
CloseState(c) ==
    /\ Go(c, "close_state", "close_window")
    /\ state' = "Closed"
    /\ UNCHANGED <<opened_at, half_open_probes, probe_claimed_at, is_open_fast,
                   window, clock, loc>>

CloseWindow(c) ==
    /\ Go(c, "close_window", "close_probes")
    /\ window' = [entries |-> <<>>, failures |-> 0]
    /\ UNCHANGED <<state, opened_at, half_open_probes, probe_claimed_at,
                   is_open_fast, clock, loc>>

CloseProbes(c) ==
    /\ Go(c, "close_probes", "close_mirror")
    /\ half_open_probes' = 0
    /\ UNCHANGED <<state, opened_at, probe_claimed_at, is_open_fast, window,
                   clock, loc>>

CloseMirror(c) ==
    /\ Go(c, "close_mirror", "idle")
    /\ is_open_fast' = FALSE
    /\ Forget(c)
    /\ UNCHANGED <<state, opened_at, half_open_probes, probe_claimed_at, window, clock>>

\* error_rate(): a reader evicts old samples under the mutex, and may have
\* waited for it since it read the clock.
ErrorRate ==
    /\ \E now \in 0..clock : window' = WindowEvict(window, now)
    /\ UNCHANGED <<state, opened_at, half_open_probes, probe_claimed_at,
                   is_open_fast, clock, pc, loc>>

Tick ==
    /\ clock < MaxClock
    /\ clock' = clock + 1
    /\ UNCHANGED <<shared, pc, loc>>

CheckStep(c) ==
    \/ OpenLoad(c) \/ OpenClock(c) \/ OpenCas(c) \/ OpenMirror(c) \/ OpenRetry(c)
    \/ ProbeClock(c) \/ ProbeAdd(c) \/ ProbeStore(c) \/ ProbeSub(c)
    \/ ProbeLoad(c) \/ ProbeCas(c)

RecordStep(c) ==
    \/ RecordState(c) \/ RecordClosed(c) \/ RecordOpen(c)
    \/ TripState(c) \/ TripClock(c) \/ TripAt(c) \/ TripProbes(c) \/ TripMirror(c)
    \/ CloseState(c) \/ CloseWindow(c) \/ CloseProbes(c) \/ CloseMirror(c)

Next ==
    \/ \E c \in Callers :
          \/ Check(c) \/ CheckStep(c)
          \/ \E fail \in BOOLEAN : Record(c, fail)
          \/ RecordStep(c)
          \/ Abandon(c)
    \/ ErrorRate
    \/ Tick

Spec == Init /\ [][Next]_vars

\* A caller inside check() or record() is running code and gets on with it,
\* time passes, and requests keep arriving.  Whether and how a request ends is
\* left open.
Fairness ==
    /\ \A c \in Callers : WF_vars(Check(c)) /\ WF_vars(CheckStep(c)) /\ WF_vars(RecordStep(c))
    /\ WF_vars(Tick)

FairSpec == Spec /\ Fairness

-----------------------------------------------------------------------------
(* Properties *)

Sample == [at : Nat, fail : BOOLEAN]

\* Type correctness of the shared cells and of every caller's locals; the two
\* time stamps never lie in the future, so a cool-down and a lease always end.
TypeOK ==
    /\ state \in BreakerStates
    /\ clock \in Nat
    /\ opened_at \in 0..clock
    /\ half_open_probes \in 0..(Usize - 1)
    /\ probe_claimed_at \in 0..clock
    /\ is_open_fast \in BOOLEAN
    /\ window \in [entries : Seq(Sample), failures : Int]
    /\ pc \in [Callers -> Pcs]
    /\ loc \in [Callers -> [now : 0..clock, read : 0..clock, fail : BOOLEAN]]

\* The running count error_rate() divides is the number of failed samples in
\* the window, at the cap and after evictions too (window.rs: "Maintained on
\* push/pop so error_rate() is O(1)"), and the window never passes its cap.
WindowCountExact ==
    /\ window.failures = Failures(window.entries)
    /\ Len(window.entries) <= MaxWindowEntries

\* is_open_fast is the "Lock-free mirror of state == Open" (breaker.rs:41):
\* once no check() or record() is under way, is_open() tells the truth.
MirrorAtRest ==
    (\A c \in Callers : pc[c] \in AtRest) => (is_open_fast <=> state = "Open")

\* A claim that is taken over is older than its lease by then, whoever claimed
\* or took it over in the meantime: "let exactly one caller (the CAS winner)
\* take it over" (breaker.rs:293), and the next one waits a full lease.
OneTakeover ==
    [][\A c \in Callers : pc[c] = "probe_cas" /\ pc'[c] = "probing" =>
          Since(probe_claimed_at', probe_claimed_at) >= OpenDuration]_vars

\* The cool-down of the last trip ends within the clock of the model.
Cools == opened_at + OpenDuration <= MaxClock

\* An open breaker whose cool-down can end is tried again, whatever the stores
\* of concurrent trips, closes and probes leave behind: check() reads the
\* authoritative state and the clock, never the mirror.
OpenRetried ==
    state = "Open" /\ Cools ~> state # "Open" \/ ~Cools

\* Every slot is taken by a probe nobody will report, and no probe is out.
Stranded == state = "HalfOpen" /\ \A c \in Callers : pc[c] # "probing"

\* A probe whose owner vanished does not strand the breaker in HalfOpen: "a
\* lost probe delays recovery by at most one cool-down" (breaker.rs:39).  The
\* bound on the clock of the model leaves room for that cool-down.
LostProbeReplaced ==
    Stranded /\ clock + OpenDuration <= MaxClock ~> ~Stranded

-----------------------------------------------------------------------------
(* What comments and tests say of callers that take turns, and callers that race refute. *)

\* check_open() does not reset the counter of probes on the way to HalfOpen
\* because "It is already 0" (breaker.rs:211).
ProbesZeroOnEntry ==
    [][state = "Open" /\ state' = "HalfOpen" => half_open_probes = 0]_vars

\* An open breaker lets nobody try before the cool-down since the trip it
\* remembers is over (open_to_half_open_after_duration, state_machine.rs:64).
CoolDownRespected ==
    [][state = "Open" /\ state' = "HalfOpen" => Since(clock, opened_at) >= OpenDuration]_vars
=============================================================================
