---------------------------- MODULE MirrorRouting ----------------------------
(***************************************************************************)
(* Which mirror each attempt at a chunk goes to: the circuit breakers, the *)
(* health monitor and the dispatcher of reliadl/algorithms/                *)
(* mirror_bandit.py, scheduling.py in front of them, and the retry loop of *)
(* download_engine.py that asks for mirrors and reports what became of its *)
(* requests.  One session with adaptive mirror routing and a pool of at    *)
(* least two mirrors; a scheduler lives as long as its session.            *)
(*                                                                         *)
(* EXP3's weights only bias which of the eligible mirrors is drawn, and    *)
(* exploration gives each of them a positive probability: the draw is a    *)
(* free choice.  Time is what is left of each cooldown and of each         *)
(* worker's patience, so no clock has to be bounded.                       *)
(***************************************************************************)
EXTENDS Naturals, FiniteSets, Sequences

CONSTANTS
    Mirrors,       \* the mirror pool, the origin among them
    Workers,       \* the engine's worker tasks
    NumChunks,     \* chunks in the queue of the session
    MaxAttempts,   \* config.max_retries_per_chunk
    Threshold,     \* failure_threshold of every breaker
    BaseCooldown,  \* cooldown_seconds
    MaxCooldown,   \* max_cooldown_seconds
    Backoff,       \* backoff_multiplier
    Patience,      \* config.mirror_wait_timeout_seconds
    ZeroDuration   \* the clock may read the same before and after a transfer

Chunks == 1..NumChunks

\* What CircuitBreaker.__init__ and MirrorDispatcher.__init__ accept, and
\* TransferScheduler routes: at least two endpoints.
ASSUME RoutingAssumption ==
    /\ IsFiniteSet(Mirrors) /\ Cardinality(Mirrors) > 1
    /\ IsFiniteSet(Workers)
    /\ NumChunks \in Nat
    /\ MaxAttempts \in Nat \ {0} /\ Threshold \in Nat \ {0}
    /\ BaseCooldown \in Nat \ {0} /\ Backoff \in Nat \ {0}
    /\ MaxCooldown \in Nat /\ BaseCooldown =< MaxCooldown
    /\ Patience \in Nat
    /\ ZeroDuration \in BOOLEAN

VARIABLES
    breaker,         \* the CircuitBreaker of each mirror
    inFlight,        \* MirrorDispatcher._in_flight
    dispatched,      \* _dispatched, always equal to _next_request_id
    completed,       \* _completed
    failed,          \* _failed
    queue,           \* chunks not handed out yet
    finished,        \* chunks marked complete
    retries,         \* ChunkState.retries
    failedMirrors,   \* the engine's _failed_mirrors of each chunk
    wpc, wchunk,     \* where each worker is, and the chunk it holds
    selection,       \* the request it holds, as a set: empty for the origin
    patience,        \* what is left until its deadline in _select_mirror
    shutdown,        \* the _shutdown event
    session          \* "running" until the workers are gathered

dispatcherVars == <<breaker, inFlight, dispatched, completed, failed>>
chunkVars      == <<queue, finished, retries, failedMirrors>>
workerVars     == <<wpc, wchunk, selection, patience>>
vars == <<dispatcherVars, chunkVars, workerVars, shutdown, session>>

-----------------------------------------------------------------------------
(* CircuitBreaker *)

Breaker == [fails : Nat, opened : BOOLEAN, cooldown : Nat, left : Nat, trips : Nat]

Fresh == [fails |-> 0, opened |-> FALSE, cooldown |-> BaseCooldown, left |-> 0, trips |-> 0]

\* Derived from the clock: nothing has to happen for OPEN to become HALF_OPEN.
CircuitState(b) ==
    IF ~b.opened THEN "CLOSED" ELSE IF b.left = 0 THEN "HALF_OPEN" ELSE "OPEN"

\* A success that leaves the longer cooldown in force.
RecordSuccessKeepingCooldown(b) == [b EXCEPT !.fails = 0, !.opened = FALSE, !.left = 0]

\* A success closes the breaker whatever its state, and forgets the backoff.
RecordSuccess(b) ==
    [b EXCEPT !.fails = 0, !.opened = FALSE, !.left = 0, !.cooldown = BaseCooldown]

Longer(d) == IF d * Backoff < MaxCooldown THEN d * Backoff ELSE MaxCooldown

\* A failed trial reopens for longer; otherwise the count must reach the
\* threshold, and a breaker that is open already is not opened again.
RecordFailure(b) ==
    LET n == b.fails + 1 IN
    CASE CircuitState(b) = "HALF_OPEN" ->
            [fails |-> n, opened |-> TRUE, cooldown |-> Longer(b.cooldown),
             left |-> Longer(b.cooldown), trips |-> b.trips + 1]
      [] CircuitState(b) = "CLOSED" /\ n >= Threshold ->
            [fails |-> n, opened |-> TRUE, cooldown |-> b.cooldown,
             left |-> b.cooldown, trips |-> b.trips + 1]
      [] OTHER -> [b EXCEPT !.fails = n]

\* One unit of time passes for a breaker.
Cooler(b) == [b EXCEPT !.left = IF @ > 0 THEN @ - 1 ELSE 0]

-----------------------------------------------------------------------------
(* MirrorDispatcher and MirrorHealthMonitor *)

\* A request, with the trips of its mirror's breaker when it was dispatched.
Request == [id : Nat, mirror : Mirrors, trips : Nat]

\* The monitor's breakers, one per mirror.
Breakers == [m \in Mirrors |-> Fresh]

\* Consulting a breaker only once its cooldown has been lengthened.
HealthyAfterBackoff(m) ==
    ~(CircuitState(breaker[m]) = "OPEN" /\ breaker[m].cooldown > BaseCooldown)

\* is_available of the monitor.
Healthy(m) == CircuitState(breaker[m]) # "OPEN"

\* The mirrors a request may go to.
AvailableMirrors(exclude) == {m \in Mirrors \ exclude : Healthy(m)}

\* EXP3's draw among the candidates.
Draws(candidates, m) == m \in candidates

\* dispatch: draw an eligible mirror and open a request to it.
Dispatch(w, exclude) ==
    \E m \in Mirrors :
        LET r == [id |-> dispatched, mirror |-> m, trips |-> breaker[m].trips]
        IN /\ Draws(AvailableMirrors(exclude), m)
           /\ selection' = [selection EXCEPT ![w] = {r}]
           /\ inFlight' = inFlight \cup {r}
           /\ dispatched' = dispatched + 1

\* A report that leaves the request with the dispatcher.
RetireNothing(r) == UNCHANGED inFlight

\* _retire_locked: a request is reported once.
Retire(r) == inFlight' = inFlight \ {r}

\* record_transfer of the monitor, for a transfer that took some time.
MirrorServed(m) == breaker' = [breaker EXCEPT ![m] = RecordSuccess(@)]

\* record_failure of the monitor.
MirrorFailed(m) == breaker' = [breaker EXCEPT ![m] = RecordFailure(@)]

\* complete.
ReportSuccess(r) ==
    /\ Retire(r)
    /\ MirrorServed(r.mirror)
    /\ completed' = completed + 1
    /\ UNCHANGED <<dispatched, failed>>

\* complete, when record_transfer rejects the duration: the request is
\* retired already, and neither the breaker nor a counter hears of it.
ReportRejected(r) ==
    /\ Retire(r)
    /\ UNCHANGED <<breaker, dispatched, completed, failed>>

\* fail.
ReportFailure(r) ==
    /\ Retire(r)
    /\ MirrorFailed(r.mirror)
    /\ failed' = failed + 1
    /\ UNCHANGED <<dispatched, completed>>

\* The scheduler passes an outcome on if the attempt went through the router.
ScoreSuccess(s) ==
    IF s = {} THEN UNCHANGED dispatcherVars ELSE \E r \in s : ReportSuccess(r)

ScoreFailure(s) ==
    IF s = {} THEN UNCHANGED dispatcherVars ELSE \E r \in s : ReportFailure(r)

-----------------------------------------------------------------------------
(* The engine's workers *)

WorkerPCs == {"loop",     \* at the head of _worker
              "select",   \* in _select_mirror
              "fetch",    \* in _fetch_chunk
              "backoff",  \* asleep before the next attempt
              "raised",   \* the task ended with an exception
              "returned", \* the task returned
              "cancelled"}

Excluded(c) == {failedMirrors[c][i] : i \in DOMAIN failedMirrors[c]}

Init ==
    /\ breaker = Breakers
    /\ inFlight = {}
    /\ dispatched = 0 /\ completed = 0 /\ failed = 0
    /\ queue = Chunks
    /\ finished = {}
    /\ retries = [c \in Chunks |-> 0]
    /\ failedMirrors = [c \in Chunks |-> <<>>]
    /\ wpc = [w \in Workers |-> "loop"]
    /\ wchunk = [w \in Workers |-> 0]
    /\ selection = [w \in Workers |-> {}]
    /\ patience = [w \in Workers |-> 0]
    /\ shutdown = FALSE
    /\ session = "running"

\* _worker takes the next chunk and asks for a mirror.
TakeChunk(w) ==
    /\ session = "running" /\ wpc[w] = "loop" /\ ~shutdown
    /\ \E c \in queue :
        /\ \A d \in queue : c =< d
        /\ queue' = queue \ {c}
        /\ wchunk' = [wchunk EXCEPT ![w] = c]
    /\ wpc' = [wpc EXCEPT ![w] = "select"]
    /\ patience' = [patience EXCEPT ![w] = Patience]
    /\ UNCHANGED <<dispatcherVars, finished, retries, failedMirrors, selection,
                   shutdown, session>>

\* _worker returns: shutdown, or nothing left to do.
Return(w) ==
    /\ session = "running" /\ wpc[w] = "loop"
    /\ shutdown \/ queue = {}
    /\ wpc' = [wpc EXCEPT ![w] = "returned"]
    /\ UNCHANGED <<dispatcherVars, chunkVars, wchunk, selection, patience, shutdown, session>>

\* A poll of _select_mirror that finds an eligible mirror.  How long it slept
\* between polls does not matter: a poll may come at any time.
SelectMirror(w) ==
    /\ session = "running" /\ wpc[w] = "select" /\ ~shutdown
    /\ Dispatch(w, Excluded(wchunk[w]))
    /\ wpc' = [wpc EXCEPT ![w] = "fetch"]
    /\ patience' = [patience EXCEPT ![w] = 0]
    /\ UNCHANGED <<breaker, completed, failed, chunkVars, wchunk, shutdown, session>>

\* _select_mirror under shutdown: no selection, so the origin is used as is.
SelectOrigin(w) ==
    /\ session = "running" /\ wpc[w] = "select" /\ shutdown
    /\ wpc' = [wpc EXCEPT ![w] = "fetch"]
    /\ patience' = [patience EXCEPT ![w] = 0]
    /\ UNCHANGED <<dispatcherVars, chunkVars, wchunk, selection, shutdown, session>>

\* Waiting until a mirror comes back, however long it takes.
NeverTimeOut(w) == FALSE

\* A poll at or after the deadline that finds no mirror.
TimeOut(w) == patience[w] = 0 /\ AvailableMirrors(Excluded(wchunk[w])) = {}

\* _select_mirror raises, outside the try of the retry loop: the worker ends
\* without marking its chunk.
GiveUp(w) ==
    /\ session = "running" /\ wpc[w] = "select" /\ ~shutdown
    /\ TimeOut(w)
    /\ wpc' = [wpc EXCEPT ![w] = "raised"]
    /\ UNCHANGED <<dispatcherVars, chunkVars, wchunk, selection, patience, shutdown, session>>

\* The chunk arrived and verified: record_success, then mark_complete.
Fetched(w) ==
    /\ session = "running" /\ wpc[w] = "fetch"
    /\ ScoreSuccess(selection[w])
    /\ finished' = finished \cup {wchunk[w]}
    /\ failedMirrors' = [failedMirrors EXCEPT ![wchunk[w]] = <<>>]
    /\ wpc' = [wpc EXCEPT ![w] = "loop"]
    /\ wchunk' = [wchunk EXCEPT ![w] = 0]
    /\ selection' = [selection EXCEPT ![w] = {}]
    /\ UNCHANGED <<queue, retries, patience, shutdown, session>>

\* The same, within one reading of the clock: record_success raises, outside
\* the try, and the chunk is not marked complete.
FetchedInNoTime(w) ==
    /\ ZeroDuration
    /\ session = "running" /\ wpc[w] = "fetch"
    /\ \E r \in selection[w] : ReportRejected(r)
    /\ wpc' = [wpc EXCEPT ![w] = "raised"]
    /\ UNCHANGED <<chunkVars, wchunk, selection, patience, shutdown, session>>

\* An exclusion that forgets the mirrors excluded before.
ExcludeNone(c, r) == failedMirrors' = [failedMirrors EXCEPT ![c] = <<>>]

\* The failed mirror is excluded from this chunk's next attempts.
ExcludeFailed(c, r) == failedMirrors' = [failedMirrors EXCEPT ![c] = Append(@, r.mirror)]

\* Counting the attempt that just failed out of the limit.
ExhaustedLate(c) == retries[c] >= MaxAttempts

\* The attempt that just failed was the chunk's last.
Exhausted(c) == retries[c] + 1 >= MaxAttempts

\* The except branch of the retry loop: report, exclude the mirror, and back
\* off or re-raise.
FetchFailed(w, retryable) ==
    LET c == wchunk[w] IN
    /\ session = "running" /\ wpc[w] = "fetch"
    /\ ScoreFailure(selection[w])
    /\ IF selection[w] = {} THEN UNCHANGED failedMirrors
       ELSE \E r \in selection[w] : ExcludeFailed(c, r)
    /\ IF ~retryable \/ Exhausted(c)
       THEN wpc' = [wpc EXCEPT ![w] = "raised"] /\ UNCHANGED retries
       ELSE /\ wpc' = [wpc EXCEPT ![w] = "backoff"]
            /\ retries' = [retries EXCEPT ![c] = @ + 1]
    /\ selection' = [selection EXCEPT ![w] = {}]
    /\ UNCHANGED <<queue, finished, wchunk, patience, shutdown, session>>

\* The backoff is over: mark_in_progress, and ask for a mirror again.
Wake(w) ==
    /\ session = "running" /\ wpc[w] = "backoff"
    /\ wpc' = [wpc EXCEPT ![w] = "select"]
    /\ patience' = [patience EXCEPT ![w] = Patience]
    /\ UNCHANGED <<dispatcherVars, chunkVars, wchunk, selection, shutdown, session>>

Worker(w) ==
    \/ TakeChunk(w) \/ Return(w)
    \/ SelectMirror(w) \/ SelectOrigin(w) \/ GiveUp(w)
    \/ Fetched(w) \/ FetchedInNoTime(w)
    \/ \E retryable \in BOOLEAN : FetchFailed(w, retryable)
    \/ Wake(w)

-----------------------------------------------------------------------------
(* The session, and time *)

RequestShutdown ==
    /\ session = "running" /\ ~shutdown
    /\ shutdown' = TRUE
    /\ UNCHANGED <<dispatcherVars, chunkVars, workerVars, session>>

Running == {w \in Workers : wpc[w] \notin {"raised", "returned"}}

\* _run and _stop_workers: the first exception, a shutdown or the last return
\* ends the session, and every other worker is cancelled where it is.  A
\* request it held is abandoned by nobody.
StopWorkers ==
    /\ session = "running"
    /\ shutdown \/ Running = {} \/ \E w \in Workers : wpc[w] = "raised"
    /\ wpc' = [w \in Workers |-> IF w \in Running THEN "cancelled" ELSE wpc[w]]
    /\ session' = "ended"
    /\ UNCHANGED <<dispatcherVars, chunkVars, wchunk, selection, patience, shutdown>>

\* Time passes for cooldowns and for the workers that wait for a mirror.
Tick ==
    /\ session = "running"
    /\ (\E m \in Mirrors : breaker[m].left > 0) \/ (\E w \in Workers : patience[w] > 0)
    /\ breaker' = [m \in Mirrors |-> Cooler(breaker[m])]
    /\ patience' = [w \in Workers |-> IF patience[w] > 0 THEN patience[w] - 1 ELSE 0]
    /\ UNCHANGED <<inFlight, dispatched, completed, failed, chunkVars, wpc, wchunk,
                   selection, shutdown, session>>

Next == (\E w \in Workers : Worker(w)) \/ RequestShutdown \/ StopWorkers \/ Tick

Spec == Init /\ [][Next]_vars

\* The event loop runs every task that is ready, timers fire, an attempt ends
\* (the client has timeouts), and a poll follows each sleep.
FairSpec ==
    /\ Spec
    /\ \A w \in Workers : WF_vars(Worker(w))
    /\ WF_vars(StopWorkers)
    /\ WF_vars(Tick)

-----------------------------------------------------------------------------
(* Properties *)

TypeOK ==
    /\ breaker \in [Mirrors -> Breaker]
    /\ inFlight \in SUBSET Request
    /\ dispatched \in Nat /\ completed \in Nat /\ failed \in Nat
    /\ queue \subseteq Chunks /\ finished \subseteq Chunks
    /\ retries \in [Chunks -> 0..(MaxAttempts - 1)]
    /\ failedMirrors \in [Chunks -> Seq(Mirrors)]
    /\ wpc \in [Workers -> WorkerPCs]
    /\ wchunk \in [Workers -> Chunks \cup {0}]
    /\ selection \in [Workers -> SUBSET Request]
    /\ patience \in [Workers -> 0..Patience]
    /\ shutdown \in BOOLEAN /\ session \in {"running", "ended"}

(***************************************************************************)
(* A breaker is open exactly when its consecutive failures reached the     *)
(* threshold, whatever order the outcomes of concurrent requests arrive    *)
(* in; a closed one has the base cooldown again, and no backoff takes a    *)
(* cooldown past its bounds.                                               *)
(***************************************************************************)
BreakerMatchesFailures ==
    \A m \in Mirrors :
        /\ breaker[m].opened <=> breaker[m].fails >= Threshold
        /\ ~breaker[m].opened => breaker[m].cooldown = BaseCooldown
        /\ breaker[m].cooldown \in BaseCooldown..MaxCooldown
        /\ breaker[m].left =< breaker[m].cooldown

\* The requests the workers wait for.
Held == UNION {selection[w] : w \in {v \in Workers : wpc[v] \in {"fetch", "cancelled"}}}

(***************************************************************************)
(* Reporting is exact: what is in flight is what the workers wait for, so  *)
(* no report finds its request gone, and every request dispatched was      *)
(* completed, was failed, is in flight, or is the one whose report raised. *)
(***************************************************************************)
EveryRequestAccounted ==
    /\ inFlight = Held
    /\ dispatched = completed + failed + Cardinality(inFlight)
                    + Cardinality({w \in Workers : wpc[w] = "raised" /\ selection[w] # {}})

(***************************************************************************)
(* A chunk is never sent twice to a mirror that failed it: its excluded    *)
(* mirrors are distinct, and unless the session is shutting down it has    *)
(* had one of them for each of its retries, so a chunk never has more      *)
(* retries than the pool has mirrors, whatever max_retries_per_chunk is.   *)
(***************************************************************************)
RetriesGoElsewhere ==
    \A c \in Chunks :
        /\ \A i, j \in DOMAIN failedMirrors[c] :
                failedMirrors[c][i] = failedMirrors[c][j] => i = j
        /\ ~shutdown /\ c \notin finished => retries[c] =< Len(failedMirrors[c])

(***************************************************************************)
(* A breaker closes before its cooldown is over only on the word of a      *)
(* request that was already under way when it opened.                      *)
(***************************************************************************)
ClosesEarlyOnlyForOldRequests ==
    [][\A m \in Mirrors :
          CircuitState(breaker[m]) = "OPEN" /\ ~breaker'[m].opened =>
              \E r \in inFlight \ inFlight' : r.mirror = m /\ r.trips < breaker[m].trips]_vars

(***************************************************************************)
(* Every session ends, also when every mirror is in cooldown or excluded:  *)
(* the wait for a mirror has a deadline.                                   *)
(***************************************************************************)
SessionEnds == <>(session = "ended")

(***************************************************************************)
(* "Every mirror is in cooldown and has stayed there": the wait of a       *)
(* worker fails only when no mirror of the pool is available.              *)
(***************************************************************************)
WaitFailsOnlyInCooldown ==
    [][\A w \in Workers :
          wpc[w] = "select" /\ wpc'[w] = "raised" => AvailableMirrors({}) = {}]_vars
=============================================================================
