-------------------------- MODULE MirrorRoutingProofs --------------------------
(***************************************************************************)
(* Theorems about MirrorRouting for any pool of mirrors, workers, chunks,  *)
(* thresholds, cooldowns and patience.                                     *)
(***************************************************************************)
EXTENDS MirrorRouting, FiniteSetTheorems, TLAPS

\* One breaker: its state follows from its failures, and its cooldown stays
\* within its bounds.
Sound(b) ==
    /\ b.opened <=> b.fails >= Threshold
    /\ ~b.opened => b.cooldown = BaseCooldown
    /\ BaseCooldown =< b.cooldown /\ b.cooldown =< MaxCooldown
    /\ b.left =< b.cooldown

-----------------------------------------------------------------------------
(* A breaker *)

LEMMA LongerBounds ==
    ASSUME NEW d \in Nat, BaseCooldown =< d, d =< MaxCooldown
    PROVE  Longer(d) \in Nat /\ BaseCooldown =< Longer(d) /\ Longer(d) =< MaxCooldown
<1>1. d * Backoff \in Nat /\ d =< d * Backoff
  BY RoutingAssumption
<1>. QED  BY <1>1, RoutingAssumption DEF Longer

LEMMA BreakerFresh == Fresh \in Breaker /\ Sound(Fresh) /\ CircuitState(Fresh) = "CLOSED"
BY RoutingAssumption DEF Fresh, Breaker, Sound, CircuitState

LEMMA BreakerSuccess ==
    ASSUME NEW b \in Breaker
    PROVE  /\ RecordSuccess(b) \in Breaker
           /\ Sound(b) => Sound(RecordSuccess(b))
           /\ RecordSuccess(b).trips = b.trips
           /\ CircuitState(RecordSuccess(b)) = "CLOSED"
<1>. DEFINE f == RecordSuccess(b)
<1>1. /\ f \in Breaker /\ f.fails = 0 /\ f.opened = FALSE /\ f.left = 0
      /\ f.cooldown = BaseCooldown /\ f.trips = b.trips
  BY RoutingAssumption DEF RecordSuccess, Breaker
<1>2. Sound(f)
  BY <1>1, RoutingAssumption DEF Sound
<1>3. CircuitState(f) = "CLOSED"
  BY <1>1 DEF CircuitState
<1>. QED  BY <1>1, <1>2, <1>3

LEMMA BreakerCooler ==
    ASSUME NEW b \in Breaker
    PROVE  /\ Cooler(b) \in Breaker
           /\ Sound(b) => Sound(Cooler(b))
           /\ Cooler(b).trips = b.trips /\ Cooler(b).opened = b.opened
           /\ CircuitState(Cooler(b)) = "OPEN" => CircuitState(b) = "OPEN"
BY RoutingAssumption DEF Cooler, Breaker, Sound, CircuitState

\* A failure opens a breaker by counting a trip, and never closes one.
LEMMA BreakerFailure ==
    ASSUME NEW b \in Breaker, Sound(b)
    PROVE  LET f == RecordFailure(b)
           IN  /\ f \in Breaker /\ Sound(f)
               /\ b.trips =< f.trips
               /\ b.opened => f.opened
               /\ CircuitState(f) = "OPEN" /\ CircuitState(b) # "OPEN" => b.trips < f.trips
<1>. DEFINE f == RecordFailure(b)
            n == b.fails + 1
<1>1. /\ b.fails \in Nat /\ b.opened \in BOOLEAN /\ b.cooldown \in Nat
      /\ b.left \in Nat /\ b.trips \in Nat /\ n \in Nat
  BY DEF Breaker
<1>2. CASE CircuitState(b) = "HALF_OPEN"
  <2>1. b.opened
    BY <1>2 DEF CircuitState
  <2>2. f = [fails |-> n, opened |-> TRUE, cooldown |-> Longer(b.cooldown),
             left |-> Longer(b.cooldown), trips |-> b.trips + 1]
    BY <1>2 DEF RecordFailure
  <2>3. n >= Threshold
    BY <1>1, <2>1, RoutingAssumption DEF Sound
  <2>4. Longer(b.cooldown) \in Nat /\ BaseCooldown =< Longer(b.cooldown)
        /\ Longer(b.cooldown) =< MaxCooldown
    BY <1>1, LongerBounds DEF Sound
  <2>. QED  BY <1>1, <2>1, <2>2, <2>3, <2>4 DEF Breaker, Sound
<1>3. CASE CircuitState(b) = "CLOSED" /\ n >= Threshold
  <2>1. ~b.opened
    BY <1>1, <1>3 DEF CircuitState
  <2>2. f = [fails |-> n, opened |-> TRUE, cooldown |-> b.cooldown,
             left |-> b.cooldown, trips |-> b.trips + 1]
    BY <1>3 DEF RecordFailure
  <2>. QED  BY <1>1, <1>3, <2>1, <2>2 DEF Breaker, Sound
<1>4. CASE CircuitState(b) # "HALF_OPEN" /\ ~(CircuitState(b) = "CLOSED" /\ n >= Threshold)
  <2>1. f = [b EXCEPT !.fails = n]
    BY <1>4 DEF RecordFailure
  <2>2. f.opened = b.opened /\ f.left = b.left /\ f.trips = b.trips /\ f.cooldown = b.cooldown
        /\ f.fails = n
    BY <2>1 DEF Breaker
  <2>3. f \in Breaker /\ CircuitState(f) = CircuitState(b)
    BY <1>1, <2>1, <2>2 DEF Breaker, CircuitState
  <2>4. b.opened <=> n >= Threshold
    BY <1>1, <1>4, RoutingAssumption DEF Sound, CircuitState
  <2>5. Sound(f)
    BY <2>2, <2>4 DEF Sound
  <2>. QED  BY <1>1, <2>2, <2>3, <2>5
<1>. HIDE DEF f, n
<1>. QED  BY <1>2, <1>3, <1>4 DEF f

-----------------------------------------------------------------------------
(* Types, and every breaker sound *)

AllSound == \A m \in Mirrors : Sound(breaker[m])

\* A worker past the head of its loop holds a chunk.
Holding == \A w \in Workers : wpc[w] \in {"select", "fetch", "backoff"} => wchunk[w] \in Chunks

LEMMA TypeInit == Init => TypeOK /\ AllSound /\ Holding
<1>. SUFFICES ASSUME Init PROVE TypeOK /\ AllSound /\ Holding
  OBVIOUS
<1>0. Holding
  BY DEF Init, Holding
<1>1. breaker \in [Mirrors -> Breaker] /\ AllSound
  BY BreakerFresh DEF Init, Breakers, AllSound
<1>2. failedMirrors \in [Chunks -> Seq(Mirrors)]
  BY DEF Init
<1>3. retries \in [Chunks -> 0..(MaxAttempts - 1)]
  BY RoutingAssumption DEF Init
<1>4. /\ wpc \in [Workers -> WorkerPCs] /\ wchunk \in [Workers -> Chunks \cup {0}]
      /\ patience \in [Workers -> 0..Patience]
  BY RoutingAssumption DEF Init, WorkerPCs
<1>5. selection \in [Workers -> SUBSET Request] /\ inFlight \in SUBSET Request
  BY DEF Init
<1>6. queue \subseteq Chunks /\ finished \subseteq Chunks
  BY DEF Init
<1>7. /\ dispatched \in Nat /\ completed \in Nat /\ failed \in Nat
      /\ shutdown \in BOOLEAN /\ session \in {"running", "ended"}
  BY DEF Init
<1>. QED  BY <1>0, <1>1, <1>2, <1>3, <1>4, <1>5, <1>6, <1>7 DEF TypeOK

\* What a report does to the dispatcher and to the breaker of its mirror.
LEMMA Reported ==
    ASSUME TypeOK, AllSound, NEW s \in SUBSET Request, ScoreSuccess(s) \/ ScoreFailure(s)
    PROVE  /\ breaker' \in [Mirrors -> Breaker] /\ AllSound'
           /\ inFlight' \in SUBSET Request /\ dispatched' = dispatched
           /\ completed' \in Nat /\ failed' \in Nat
<1>1. CASE UNCHANGED dispatcherVars
  BY <1>1 DEF dispatcherVars, TypeOK, AllSound
<1>2. ASSUME NEW r \in s, ReportSuccess(r) PROVE breaker' \in [Mirrors -> Breaker] /\ AllSound'
  <2>1. breaker' = [breaker EXCEPT ![r.mirror] = RecordSuccess(@)] /\ r.mirror \in Mirrors
    BY <1>2 DEF ReportSuccess, MirrorServed, Request
  <2>. QED  BY <2>1, BreakerSuccess DEF TypeOK, AllSound
<1>3. ASSUME NEW r \in s, ReportFailure(r) PROVE breaker' \in [Mirrors -> Breaker] /\ AllSound'
  <2>1. breaker' = [breaker EXCEPT ![r.mirror] = RecordFailure(@)] /\ r.mirror \in Mirrors
    BY <1>3 DEF ReportFailure, MirrorFailed, Request
  <2>. QED  BY <2>1, BreakerFailure DEF TypeOK, AllSound
<1>4. ASSUME NEW r \in s, ReportSuccess(r) \/ ReportFailure(r)
      PROVE  /\ inFlight' \in SUBSET Request /\ dispatched' = dispatched
             /\ completed' \in Nat /\ failed' \in Nat
  BY <1>4 DEF ReportSuccess, ReportFailure, Retire, TypeOK
<1>. QED  BY <1>1, <1>2, <1>3, <1>4 DEF ScoreSuccess, ScoreFailure

LEMMA HoldingStep == TypeOK /\ Holding /\ [Next]_vars => Holding'
<1>. SUFFICES ASSUME TypeOK, Holding, [Next]_vars PROVE Holding'
  OBVIOUS
<1>1. ASSUME NEW w \in Workers, TakeChunk(w) PROVE Holding'
  BY <1>1 DEF TakeChunk, TypeOK, Holding
<1>2. ASSUME NEW w \in Workers, Return(w) \/ GiveUp(w) \/ FetchedInNoTime(w) PROVE Holding'
  BY <1>2 DEF Return, GiveUp, FetchedInNoTime, TypeOK, Holding
<1>3. ASSUME NEW w \in Workers, SelectMirror(w) \/ SelectOrigin(w) \/ Wake(w) PROVE Holding'
  BY <1>3 DEF SelectMirror, SelectOrigin, Wake, TypeOK, Holding
<1>4. ASSUME NEW w \in Workers, Fetched(w) PROVE Holding'
  BY <1>4 DEF Fetched, TypeOK, Holding
<1>5. ASSUME NEW w \in Workers, NEW retryable \in BOOLEAN, FetchFailed(w, retryable)
      PROVE  Holding'
  <2>1. wpc' = [wpc EXCEPT ![w] = wpc'[w]] /\ wchunk' = wchunk /\ wpc[w] = "fetch"
    BY <1>5 DEF FetchFailed, TypeOK
  <2>. QED  BY <2>1 DEF TypeOK, Holding
<1>6. CASE StopWorkers
  BY <1>6 DEF StopWorkers, TypeOK, Holding
<1>7. ASSUME UNCHANGED <<wpc, wchunk>> PROVE Holding'
  BY <1>7 DEF Holding
<1>. QED
  BY <1>1, <1>2, <1>3, <1>4, <1>5, <1>6, <1>7
  DEF Next, Worker, RequestShutdown, Tick, chunkVars, workerVars, vars

LEMMA TypeStep == TypeOK /\ AllSound /\ Holding /\ [Next]_vars => TypeOK' /\ AllSound'
<1>. SUFFICES ASSUME TypeOK, AllSound, Holding, [Next]_vars PROVE TypeOK' /\ AllSound'
  OBVIOUS
<1>. USE RoutingAssumption
<1>1. ASSUME NEW w \in Workers, TakeChunk(w) PROVE TypeOK' /\ AllSound'
  BY <1>1 DEF TakeChunk, dispatcherVars, TypeOK, AllSound, WorkerPCs
<1>2. ASSUME NEW w \in Workers, Return(w) PROVE TypeOK' /\ AllSound'
  BY <1>2 DEF Return, dispatcherVars, chunkVars, TypeOK, AllSound, WorkerPCs
<1>3. ASSUME NEW w \in Workers, SelectMirror(w) PROVE TypeOK' /\ AllSound'
  <2>1. PICK m \in Mirrors :
            LET r == [id |-> dispatched, mirror |-> m, trips |-> breaker[m].trips]
            IN /\ selection' = [selection EXCEPT ![w] = {r}]
               /\ inFlight' = inFlight \cup {r}
               /\ dispatched' = dispatched + 1
    BY <1>3 DEF SelectMirror, Dispatch
  <2>2. [id |-> dispatched, mirror |-> m, trips |-> breaker[m].trips] \in Request
    BY DEF TypeOK, Breaker, Request
  <2>3. /\ selection' \in [Workers -> SUBSET Request]
        /\ inFlight' \in SUBSET Request /\ dispatched' \in Nat
    BY <2>1, <2>2 DEF TypeOK
  <2>4. wpc' \in [Workers -> WorkerPCs] /\ patience' \in [Workers -> 0..Patience]
    BY <1>3 DEF SelectMirror, TypeOK, WorkerPCs
  <2>5. UNCHANGED <<breaker, completed, failed, chunkVars, wchunk, shutdown, session>>
    BY <1>3 DEF SelectMirror
  <2>6. AllSound'
    BY <2>5 DEF AllSound
  <2>. QED  BY <2>3, <2>4, <2>5, <2>6 DEF chunkVars, TypeOK
<1>4. ASSUME NEW w \in Workers, SelectOrigin(w) PROVE TypeOK' /\ AllSound'
  BY <1>4 DEF SelectOrigin, dispatcherVars, chunkVars, TypeOK, AllSound, WorkerPCs
<1>5. ASSUME NEW w \in Workers, GiveUp(w) PROVE TypeOK' /\ AllSound'
  BY <1>5 DEF GiveUp, dispatcherVars, chunkVars, TypeOK, AllSound, WorkerPCs
<1>6. ASSUME NEW w \in Workers, Fetched(w) PROVE TypeOK' /\ AllSound'
  <2>1. /\ breaker' \in [Mirrors -> Breaker] /\ AllSound'
        /\ inFlight' \in SUBSET Request /\ dispatched' = dispatched
        /\ completed' \in Nat /\ failed' \in Nat
    BY <1>6, Reported DEF Fetched, TypeOK
  <2>2. failedMirrors' = [failedMirrors EXCEPT ![wchunk[w]] = <<>>]
        /\ selection' = [selection EXCEPT ![w] = {}]
        /\ finished' = finished \cup {wchunk[w]}
    BY <1>6 DEF Fetched
  <2>3. failedMirrors' \in [Chunks -> Seq(Mirrors)]
    <3>1. <<>> \in Seq(Mirrors)
      OBVIOUS
    <3>. QED  BY <2>2, <3>1 DEF TypeOK
  <2>4. selection' \in [Workers -> SUBSET Request]
    BY <2>2 DEF TypeOK
  <2>5. finished' \subseteq Chunks
    BY <1>6, <2>2 DEF Fetched, Holding, TypeOK
  <2>6. wpc' \in [Workers -> WorkerPCs] /\ wchunk' \in [Workers -> Chunks \cup {0}]
    BY <1>6 DEF Fetched, TypeOK, WorkerPCs
  <2>. QED  BY <1>6, <2>1, <2>3, <2>4, <2>5, <2>6 DEF Fetched, TypeOK
<1>7. ASSUME NEW w \in Workers, FetchedInNoTime(w) PROVE TypeOK' /\ AllSound'
  BY <1>7 DEF FetchedInNoTime, ReportRejected, Retire, chunkVars, TypeOK, AllSound, WorkerPCs
<1>8. ASSUME NEW w \in Workers, NEW retryable \in BOOLEAN, FetchFailed(w, retryable)
      PROVE  TypeOK' /\ AllSound'
  <2>1. /\ breaker' \in [Mirrors -> Breaker] /\ AllSound'
        /\ inFlight' \in SUBSET Request /\ dispatched' = dispatched
        /\ completed' \in Nat /\ failed' \in Nat
    BY <1>8, Reported DEF FetchFailed, TypeOK
  <2>2. failedMirrors' \in [Chunks -> Seq(Mirrors)]
    <3>1. CASE UNCHANGED failedMirrors
      BY <3>1 DEF TypeOK
    <3>2. ASSUME NEW r \in selection[w], ExcludeFailed(wchunk[w], r)
          PROVE  failedMirrors' \in [Chunks -> Seq(Mirrors)]
      <4>1. r.mirror \in Mirrors
        BY DEF Request, TypeOK
      <4>2. wchunk[w] \in Chunks
        BY <1>8 DEF FetchFailed, Holding
      <4>3. Append(failedMirrors[wchunk[w]], r.mirror) \in Seq(Mirrors)
        BY <4>1, <4>2 DEF TypeOK
      <4>4. failedMirrors' = [failedMirrors EXCEPT ![wchunk[w]] =
                                  Append(failedMirrors[wchunk[w]], r.mirror)]
        BY <3>2 DEF ExcludeFailed
      <4>. QED  BY <4>2, <4>3, <4>4 DEF TypeOK
    <3>. QED  BY <1>8, <3>1, <3>2 DEF FetchFailed
  <2>3. wpc' \in [Workers -> WorkerPCs] /\ retries' \in [Chunks -> 0..(MaxAttempts - 1)]
    <3>1. CASE ~retryable \/ Exhausted(wchunk[w])
      BY <1>8, <3>1 DEF FetchFailed, TypeOK, WorkerPCs
    <3>2. CASE ~(~retryable \/ Exhausted(wchunk[w]))
      <4>1. wpc' = [wpc EXCEPT ![w] = "backoff"]
            /\ retries' = [retries EXCEPT ![wchunk[w]] = @ + 1]
        BY <1>8, <3>2 DEF FetchFailed
      <4>2. wpc' \in [Workers -> WorkerPCs]
        BY <4>1 DEF TypeOK, WorkerPCs
      <4>3. ~(retries[wchunk[w]] + 1 >= MaxAttempts)
        BY <3>2 DEF Exhausted
      <4>4. retries[wchunk[w]] + 1 \in 0..(MaxAttempts - 1)
        BY <1>8, <4>3 DEF FetchFailed, Holding, TypeOK
      <4>5. retries' \in [Chunks -> 0..(MaxAttempts - 1)]
        BY <4>1, <4>4 DEF TypeOK
      <4>. QED  BY <4>2, <4>5
    <3>. QED  BY <3>1, <3>2
  <2>4. selection' \in [Workers -> SUBSET Request]
    BY <1>8 DEF FetchFailed, TypeOK
  <2>. QED  BY <1>8, <2>1, <2>2, <2>3, <2>4 DEF FetchFailed, TypeOK
<1>9. ASSUME NEW w \in Workers, Wake(w) PROVE TypeOK' /\ AllSound'
  BY <1>9 DEF Wake, dispatcherVars, chunkVars, TypeOK, AllSound, WorkerPCs
<1>10. CASE RequestShutdown
  BY <1>10 DEF RequestShutdown, dispatcherVars, chunkVars, workerVars, TypeOK, AllSound
<1>11. CASE StopWorkers
  BY <1>11 DEF StopWorkers, dispatcherVars, chunkVars, TypeOK, AllSound, WorkerPCs
<1>12. CASE Tick
  <2>1. breaker' \in [Mirrors -> Breaker] /\ AllSound'
    BY <1>12, BreakerCooler DEF Tick, TypeOK, AllSound
  <2>2. patience' \in [Workers -> 0..Patience]
    BY <1>12 DEF Tick, TypeOK
  <2>. QED  BY <1>12, <2>1, <2>2 DEF Tick, chunkVars, TypeOK
<1>13. CASE UNCHANGED vars
  BY <1>13 DEF vars, dispatcherVars, chunkVars, workerVars, TypeOK, AllSound
<1>. QED
  BY <1>1, <1>2, <1>3, <1>4, <1>5, <1>6, <1>7, <1>8, <1>9, <1>10, <1>11, <1>12, <1>13
  DEF Next, Worker

\* A chunk has no more retries than it may have, a request names a mirror of
\* the pool, and patience never grows.
THEOREM TypeCorrect == Spec => []TypeOK
<1>. QED  BY TypeInit, TypeStep, HoldingStep, PTL DEF Spec

\* In whatever order the outcomes of concurrent requests arrive, each breaker
\* is open exactly when its failures in a row reached the threshold.
THEOREM BreakersMatch == Spec => []BreakerMatchesFailures
<1>1. TypeOK /\ AllSound => BreakerMatchesFailures
  BY RoutingAssumption DEF TypeOK, Breaker, AllSound, Sound, BreakerMatchesFailures
<1>. QED  BY <1>1, TypeInit, TypeStep, HoldingStep, PTL DEF Spec

-----------------------------------------------------------------------------
(* Retries go elsewhere *)

\* A chunk is in the queue, with one worker, or finished.
OneHolder ==
    /\ queue \cap finished = {}
    /\ \A w \in Workers : wchunk[w] # 0 => wchunk[w] \notin queue /\ wchunk[w] \notin finished
    /\ \A w, v \in Workers : wchunk[w] # 0 /\ wchunk[w] = wchunk[v] => w = v

\* A request goes to a mirror that has not failed its chunk, and only a
\* shutdown sends an attempt past the router.
Eligible ==
    \A w \in Workers : wpc[w] = "fetch" =>
        /\ \A r \in selection[w] : \A i \in DOMAIN failedMirrors[wchunk[w]] :
               failedMirrors[wchunk[w]][i] # r.mirror
        /\ ~shutdown => selection[w] # {}

\* A worker that waits for no request holds none.
Released ==
    \A w \in Workers : wpc[w] \in {"loop", "select", "backoff", "returned"} => selection[w] = {}

LEMMA ReleasedStep == TypeOK /\ Released /\ [Next]_vars => Released'
<1>. SUFFICES ASSUME TypeOK, Released, [Next]_vars PROVE Released'
  OBVIOUS
<1>1. ASSUME NEW w \in Workers, Fetched(w) PROVE Released'
  BY <1>1 DEF Fetched, TypeOK, Released
<1>2. ASSUME NEW w \in Workers, NEW retryable \in BOOLEAN, FetchFailed(w, retryable)
      PROVE  Released'
  <2>1. wpc' = [wpc EXCEPT ![w] = wpc'[w]] /\ selection' = [selection EXCEPT ![w] = {}]
    BY <1>2 DEF FetchFailed, TypeOK
  <2>. QED  BY <2>1 DEF TypeOK, Released
<1>3. ASSUME NEW w \in Workers, SelectMirror(w) PROVE Released'
  <2>1. /\ wpc' = [wpc EXCEPT ![w] = "fetch"]
        /\ selection' = [selection EXCEPT ![w] = selection'[w]]
    BY <1>3 DEF SelectMirror, Dispatch, TypeOK
  <2>. QED  BY <2>1 DEF TypeOK, Released
<1>4. ASSUME NEW w \in Workers,
             TakeChunk(w) \/ Return(w) \/ SelectOrigin(w) \/ GiveUp(w) \/ FetchedInNoTime(w)
               \/ Wake(w)
      PROVE  Released'
  <2>1. /\ wpc' = [wpc EXCEPT ![w] = wpc'[w]] /\ UNCHANGED selection
        /\ wpc[w] \in {"loop", "select", "backoff"} \/ wpc'[w] = "raised"
    BY <1>4 DEF TakeChunk, Return, SelectOrigin, GiveUp, FetchedInNoTime, Wake, TypeOK
  <2>. QED  BY <2>1 DEF TypeOK, Released
<1>5. CASE StopWorkers
  BY <1>5 DEF StopWorkers, TypeOK, Released
<1>6. ASSUME UNCHANGED <<wpc, selection>> PROVE Released'
  BY <1>6 DEF Released
<1>. QED
  BY <1>1, <1>2, <1>3, <1>4, <1>5, <1>6
  DEF Next, Worker, RequestShutdown, Tick, workerVars, vars

LEMMA OneHolderStep == TypeOK /\ Holding /\ OneHolder /\ [Next]_vars => OneHolder'
<1>. SUFFICES ASSUME TypeOK, Holding, OneHolder, [Next]_vars PROVE OneHolder'
  OBVIOUS
<1>1. ASSUME NEW w \in Workers, TakeChunk(w) PROVE OneHolder'
  <2>1. PICK c \in queue : queue' = queue \ {c} /\ wchunk' = [wchunk EXCEPT ![w] = c]
    BY <1>1 DEF TakeChunk
  <2>2. UNCHANGED finished
    BY <1>1 DEF TakeChunk
  <2>. QED  BY <2>1, <2>2 DEF OneHolder, TypeOK
<1>2. ASSUME NEW w \in Workers, Fetched(w) PROVE OneHolder'
  <2>1. /\ wchunk[w] \in Chunks /\ wchunk[w] # 0
        /\ finished' = finished \cup {wchunk[w]} /\ UNCHANGED queue
        /\ wchunk' = [wchunk EXCEPT ![w] = 0]
    BY <1>2 DEF Fetched, Holding, Chunks
  <2>. QED  BY <2>1 DEF OneHolder, TypeOK
<1>3. ASSUME UNCHANGED <<queue, finished, wchunk>> PROVE OneHolder'
  BY <1>3 DEF OneHolder
<1>. QED
  BY <1>1, <1>2, <1>3
  DEF Next, Worker, Return, SelectMirror, SelectOrigin, GiveUp, FetchedInNoTime, FetchFailed,
      Wake, StopWorkers, RequestShutdown, Tick, chunkVars, workerVars, vars

LEMMA EligibleStep ==
    TypeOK /\ Holding /\ OneHolder /\ Released /\ Eligible /\ [Next]_vars => Eligible'
<1>. SUFFICES ASSUME TypeOK, Holding, OneHolder, Released, Eligible, [Next]_vars PROVE Eligible'
  OBVIOUS
<1>1. ASSUME NEW w \in Workers, wpc'[w] # "fetch",
             wpc' = [wpc EXCEPT ![w] = wpc'[w]],
             UNCHANGED <<failedMirrors, shutdown>>,
             selection' = [selection EXCEPT ![w] = selection'[w]],
             wchunk' = [wchunk EXCEPT ![w] = wchunk'[w]]
      PROVE  Eligible'
  <2>1. \A v \in Workers : wpc'[v] = "fetch" =>
            /\ wpc[v] = "fetch"
            /\ wchunk'[v] = wchunk[v] /\ selection'[v] = selection[v]
    BY <1>1 DEF TypeOK
  <2>. QED  BY <1>1, <2>1 DEF Eligible
<1>2. ASSUME NEW w \in Workers, TakeChunk(w) \/ Wake(w) PROVE Eligible'
  BY <1>1, <1>2 DEF TakeChunk, Wake, chunkVars, TypeOK
<1>3. ASSUME NEW w \in Workers, Return(w) \/ GiveUp(w) \/ FetchedInNoTime(w) PROVE Eligible'
  BY <1>1, <1>3 DEF Return, GiveUp, FetchedInNoTime, chunkVars, TypeOK
<1>4. ASSUME NEW w \in Workers, SelectMirror(w) PROVE Eligible'
  <2>1. PICK m \in Mirrors \ Excluded(wchunk[w]) :
            selection' = [selection EXCEPT ![w] =
                {[id |-> dispatched, mirror |-> m, trips |-> breaker[m].trips]}]
    BY <1>4 DEF SelectMirror, Dispatch, Draws, AvailableMirrors
  <2>2. UNCHANGED <<failedMirrors, shutdown, wchunk>> /\ wpc' = [wpc EXCEPT ![w] = "fetch"]
    BY <1>4 DEF SelectMirror, chunkVars
  <2>3. \A i \in DOMAIN failedMirrors[wchunk[w]] : failedMirrors[wchunk[w]][i] # m
    BY DEF Excluded
  <2>4. \A r \in selection'[w] : r.mirror = m
    BY <2>1 DEF TypeOK
  <2>5. selection'[w] # {}
    BY <2>1 DEF TypeOK
  <2>6. \A v \in Workers \ {w} : wpc'[v] = wpc[v] /\ selection'[v] = selection[v]
    BY <2>1, <2>2 DEF TypeOK
  <2>. QED  BY <2>2, <2>3, <2>4, <2>5, <2>6 DEF Eligible
<1>5. ASSUME NEW w \in Workers, SelectOrigin(w) PROVE Eligible'
  <2>1. /\ UNCHANGED <<failedMirrors, shutdown, wchunk, selection>> /\ shutdown
        /\ wpc' = [wpc EXCEPT ![w] = "fetch"]
        /\ selection[w] = {}
    BY <1>5 DEF SelectOrigin, chunkVars, Released
  <2>. QED  BY <2>1 DEF Eligible, TypeOK
<1>6. ASSUME NEW w \in Workers, wpc[w] = "fetch", wpc'[w] # "fetch",
             wpc' = [wpc EXCEPT ![w] = wpc'[w]], UNCHANGED shutdown,
             \E list : failedMirrors' = [failedMirrors EXCEPT ![wchunk[w]] = list],
             selection' = [selection EXCEPT ![w] = {}],
             wchunk' = [wchunk EXCEPT ![w] = wchunk'[w]]
      PROVE  Eligible'
  <2>1. SUFFICES ASSUME NEW v \in Workers, wpc'[v] = "fetch"
                 PROVE  /\ \A r \in selection'[v] : \A i \in DOMAIN failedMirrors'[wchunk'[v]] :
                               failedMirrors'[wchunk'[v]][i] # r.mirror
                        /\ ~shutdown' => selection'[v] # {}
    BY DEF Eligible
  <2>2. v # w /\ wpc[v] = "fetch" /\ wchunk'[v] = wchunk[v] /\ selection'[v] = selection[v]
    BY <1>6, <2>1 DEF TypeOK
  <2>3. wchunk[v] \in Chunks /\ wchunk[v] # 0
    BY <2>2 DEF Holding, Chunks
  <2>4. wchunk[v] # wchunk[w]
    BY <2>2, <2>3 DEF OneHolder
  <2>5. failedMirrors'[wchunk[v]] = failedMirrors[wchunk[v]]
    BY <1>6, <2>3, <2>4 DEF TypeOK
  <2>. QED  BY <1>6, <2>2, <2>5 DEF Eligible
<1>7. ASSUME NEW w \in Workers, Fetched(w) PROVE Eligible'
  <2>1. wpc[w] = "fetch" /\ wpc'[w] = "loop" /\ wpc' = [wpc EXCEPT ![w] = wpc'[w]]
        /\ wchunk' = [wchunk EXCEPT ![w] = wchunk'[w]]
    BY <1>7 DEF Fetched, TypeOK
  <2>. QED  BY <1>6, <1>7, <2>1 DEF Fetched
<1>8. ASSUME NEW w \in Workers, NEW retryable \in BOOLEAN, FetchFailed(w, retryable)
      PROVE  Eligible'
  <2>1. /\ wpc[w] = "fetch" /\ wpc'[w] # "fetch" /\ wpc' = [wpc EXCEPT ![w] = wpc'[w]]
        /\ wchunk' = [wchunk EXCEPT ![w] = wchunk'[w]]
        /\ selection' = [selection EXCEPT ![w] = {}] /\ UNCHANGED shutdown
    BY <1>8 DEF FetchFailed, TypeOK
  <2>2. \E list : failedMirrors' = [failedMirrors EXCEPT ![wchunk[w]] = list]
    <3>1. CASE UNCHANGED failedMirrors
      <4>1. failedMirrors' = [failedMirrors EXCEPT ![wchunk[w]] = failedMirrors[wchunk[w]]]
        BY <3>1 DEF TypeOK
      <4>. QED  BY <4>1
    <3>2. ASSUME NEW r \in selection[w], ExcludeFailed(wchunk[w], r)
          PROVE  \E list : failedMirrors' = [failedMirrors EXCEPT ![wchunk[w]] = list]
      BY <3>2 DEF ExcludeFailed
    <3>. QED  BY <1>8, <3>1, <3>2 DEF FetchFailed
  <2>. QED  BY <1>6, <2>1, <2>2
<1>9. CASE StopWorkers
  <2>1. \A w \in Workers : wpc'[w] # "fetch"
    BY <1>9 DEF StopWorkers, Running
  <2>. QED  BY <2>1 DEF Eligible
<1>10. CASE RequestShutdown
  BY <1>10 DEF RequestShutdown, chunkVars, workerVars, Eligible
<1>11. ASSUME UNCHANGED <<wpc, wchunk, selection, shutdown, failedMirrors>> PROVE Eligible'
  BY <1>11 DEF Eligible
<1>. QED
  BY <1>2, <1>3, <1>4, <1>5, <1>7, <1>8, <1>9, <1>10, <1>11
  DEF Next, Worker, Tick, chunkVars, workerVars, vars

LEMMA RetriesStep ==
    TypeOK /\ Holding /\ Eligible /\ RetriesGoElsewhere /\ [Next]_vars => RetriesGoElsewhere'
<1>. SUFFICES ASSUME TypeOK, Holding, Eligible, RetriesGoElsewhere, [Next]_vars,
                     NEW d \in Chunks
              PROVE  /\ \A i, j \in DOMAIN failedMirrors'[d] :
                            failedMirrors'[d][i] = failedMirrors'[d][j] => i = j
                     /\ ~shutdown' /\ d \notin finished' => retries'[d] =< Len(failedMirrors'[d])
  BY DEF RetriesGoElsewhere
<1>1. ASSUME finished \subseteq finished', UNCHANGED <<retries, failedMirrors>>,
             shutdown => shutdown'
      PROVE  /\ \A i, j \in DOMAIN failedMirrors'[d] :
                    failedMirrors'[d][i] = failedMirrors'[d][j] => i = j
             /\ ~shutdown' /\ d \notin finished' => retries'[d] =< Len(failedMirrors'[d])
  BY <1>1 DEF RetriesGoElsewhere
<1>2. ASSUME NEW w \in Workers, Fetched(w)
      PROVE  /\ \A i, j \in DOMAIN failedMirrors'[d] :
                    failedMirrors'[d][i] = failedMirrors'[d][j] => i = j
             /\ ~shutdown' /\ d \notin finished' => retries'[d] =< Len(failedMirrors'[d])
  <2>1. /\ failedMirrors' = [failedMirrors EXCEPT ![wchunk[w]] = <<>>]
        /\ finished' = finished \cup {wchunk[w]} /\ UNCHANGED <<retries, shutdown>>
    BY <1>2 DEF Fetched
  <2>2. CASE wchunk[w] = d
    <3>1. failedMirrors'[d] = <<>> /\ d \in finished'
      BY <2>1, <2>2 DEF TypeOK
    <3>. QED  BY <3>1
  <2>3. CASE wchunk[w] # d
    <3>1. failedMirrors'[d] = failedMirrors[d]
      BY <2>1, <2>3 DEF TypeOK
    <3>. QED  BY <2>1, <3>1 DEF RetriesGoElsewhere
  <2>. QED  BY <2>2, <2>3
<1>3. ASSUME NEW w \in Workers, NEW retryable \in BOOLEAN, FetchFailed(w, retryable)
      PROVE  /\ \A i, j \in DOMAIN failedMirrors'[d] :
                    failedMirrors'[d][i] = failedMirrors'[d][j] => i = j
             /\ ~shutdown' /\ d \notin finished' => retries'[d] =< Len(failedMirrors'[d])
  <2>1. wpc[w] = "fetch" /\ UNCHANGED <<finished, shutdown>>
    BY <1>3 DEF FetchFailed
  <2>2. \/ UNCHANGED retries
        \/ retries' = [retries EXCEPT ![wchunk[w]] = @ + 1]
    BY <1>3 DEF FetchFailed
  <2>3. failedMirrors[d] \in Seq(Mirrors) /\ retries[d] \in Nat
    BY DEF TypeOK
  <2>4. CASE wchunk[w] # d
    <3>1. retries'[d] = retries[d]
      BY <2>2, <2>4 DEF TypeOK
    <3>2. failedMirrors'[d] = failedMirrors[d]
      BY <1>3, <2>4 DEF FetchFailed, ExcludeFailed, TypeOK
    <3>. QED  BY <2>1, <3>1, <3>2 DEF RetriesGoElsewhere
  <2>5. CASE wchunk[w] = d /\ selection[w] = {}
    <3>1. shutdown /\ UNCHANGED failedMirrors
      BY <1>3, <2>1, <2>5 DEF FetchFailed, Eligible
    <3>. QED  BY <2>1, <3>1 DEF RetriesGoElsewhere
  <2>6. CASE wchunk[w] = d /\ selection[w] # {}
    <3>1. PICK r \in selection[w] : ExcludeFailed(d, r)
      BY <1>3, <2>6 DEF FetchFailed
    <3>2. failedMirrors'[d] = Append(failedMirrors[d], r.mirror)
      BY <3>1 DEF ExcludeFailed, TypeOK
    <3>3. r.mirror \in Mirrors
      BY DEF TypeOK, Request
    <3>4. \A i \in 1..Len(failedMirrors[d]) : failedMirrors[d][i] # r.mirror
      BY <2>1, <2>3, <2>6 DEF Eligible
    <3>5. \A i, j \in 1..Len(failedMirrors[d]) :
              failedMirrors[d][i] = failedMirrors[d][j] => i = j
      BY <2>3 DEF RetriesGoElsewhere
    <3>6. ASSUME NEW i \in DOMAIN failedMirrors'[d], NEW j \in DOMAIN failedMirrors'[d],
                 failedMirrors'[d][i] = failedMirrors'[d][j]
          PROVE  i = j
      <4>. DEFINE n == Len(failedMirrors[d])
      <4>1. n \in Nat /\ i \in 1..(n + 1) /\ j \in 1..(n + 1)
        BY <2>3, <3>2, <3>3
      <4>2. \A k \in 1..n : failedMirrors'[d][k] = failedMirrors[d][k]
        BY <2>3, <3>2, <3>3
      <4>3. failedMirrors'[d][n + 1] = r.mirror
        BY <2>3, <3>2, <3>3
      <4>. QED  BY <3>4, <3>5, <3>6, <4>1, <4>2, <4>3
    <3>7. Len(failedMirrors'[d]) = Len(failedMirrors[d]) + 1
      BY <2>3, <3>2, <3>3
    <3>8. retries'[d] \in Nat /\ retries'[d] =< retries[d] + 1
      BY <2>2, <2>3, <2>6 DEF TypeOK
    <3>9. ~shutdown' /\ d \notin finished' => retries'[d] =< Len(failedMirrors'[d])
      BY <2>1, <2>3, <3>7, <3>8 DEF RetriesGoElsewhere
    <3>. QED  BY <3>6, <3>9
  <2>. QED  BY <2>4, <2>5, <2>6
<1>. QED
  BY <1>1, <1>2, <1>3
  DEF Next, Worker, TakeChunk, Return, SelectMirror, SelectOrigin, GiveUp, FetchedInNoTime,
      Wake, StopWorkers, RequestShutdown, Tick, chunkVars, workerVars, vars

\* Whatever the pool and max_retries_per_chunk: no chunk is sent again to a
\* mirror that failed it, and it has no more retries than mirrors failed it.
THEOREM NoMirrorIsAskedAgain == Spec => []RetriesGoElsewhere
<1>1. Init => OneHolder /\ Released /\ Eligible /\ RetriesGoElsewhere
  BY DEF Init, OneHolder, Released, Eligible, RetriesGoElsewhere
<1>. QED
  BY <1>1, TypeInit, TypeStep, HoldingStep, OneHolderStep, ReleasedStep, EligibleStep,
     RetriesStep, PTL
  DEF Spec

-----------------------------------------------------------------------------
(* Every request is accounted for *)

\* The workers whose report raised.
Lost == {w \in Workers : wpc[w] = "raised" /\ selection[w] # {}}

Waiting == {"fetch", "cancelled"}

\* Requests have ids of their own, and a worker holds at most one.
OwnRequests ==
    /\ \A w \in Workers : \A r \in selection[w] : r.id < dispatched
    /\ \A w \in Workers : \A r, q \in selection[w] : r = q
    /\ \A w, v \in Workers : \A r \in selection[w], q \in selection[v] : r.id = q.id => w = v

Counted ==
    /\ IsFiniteSet(inFlight)
    /\ dispatched = completed + failed + Cardinality(inFlight) + Cardinality(Lost)

LEMMA HeldBy == \A r : r \in Held <=> \E w \in Workers : wpc[w] \in Waiting /\ r \in selection[w]
BY DEF Held, Waiting

LEMMA HeldBy2 ==
    \A r : r \in Held' <=> \E w \in Workers : wpc'[w] \in Waiting /\ r \in selection'[w]
BY DEF Held, Waiting

LEMMA LostFinite == IsFiniteSet(Lost)
<1>1. Lost \subseteq Workers
  BY DEF Lost
<1>. QED  BY <1>1, RoutingAssumption, FS_Subset

LEMMA OwnRequestsStep == TypeOK /\ OwnRequests /\ [Next]_vars => OwnRequests'
<1>. SUFFICES ASSUME TypeOK, OwnRequests, [Next]_vars PROVE OwnRequests'
  OBVIOUS
<1>1. ASSUME NEW w \in Workers, SelectMirror(w) PROVE OwnRequests'
  <2>1. PICK m \in Mirrors :
            /\ selection' = [selection EXCEPT ![w] =
                   {[id |-> dispatched, mirror |-> m, trips |-> breaker[m].trips]}]
            /\ dispatched' = dispatched + 1
    BY <1>1 DEF SelectMirror, Dispatch
  <2>. DEFINE new == [id |-> dispatched, mirror |-> m, trips |-> breaker[m].trips]
  <2>2. new.id = dispatched /\ dispatched \in Nat
    BY DEF TypeOK
  <2>3. selection'[w] = {new} /\ \A v \in Workers \ {w} : selection'[v] = selection[v]
    BY <2>1 DEF TypeOK
  <2>. HIDE DEF new
  <2>4. \A v \in Workers : \A r \in selection[v] : r.id \in Nat /\ r.id < dispatched
    BY DEF OwnRequests, TypeOK, Request
  <2>5. \A v \in Workers : \A r \in selection'[v] :
            r.id \in Nat /\ (v # w => r \in selection[v]) /\ (v = w => r = new)
    BY <2>2, <2>3, <2>4
  <2>6. \A v \in Workers : \A r \in selection'[v] : r.id < dispatched'
    BY <2>1, <2>2, <2>4, <2>5
  <2>7. \A v \in Workers : \A r, q \in selection'[v] : r = q
    BY <2>5 DEF OwnRequests
  <2>8. \A v, u \in Workers : \A r \in selection'[v], q \in selection'[u] : r.id = q.id => v = u
    BY <2>2, <2>4, <2>5 DEF OwnRequests
  <2>. QED  BY <2>6, <2>7, <2>8 DEF OwnRequests
<1>2. ASSUME NEW w \in Workers, selection' = [selection EXCEPT ![w] = {}],
             dispatched' = dispatched
      PROVE  OwnRequests'
  BY <1>2 DEF OwnRequests, TypeOK
<1>3. ASSUME NEW s \in SUBSET Request, ScoreSuccess(s) \/ ScoreFailure(s)
      PROVE  dispatched' = dispatched
  BY <1>3 DEF ScoreSuccess, ScoreFailure, ReportSuccess, ReportFailure, dispatcherVars
<1>4. ASSUME NEW w \in Workers, Fetched(w) PROVE OwnRequests'
  BY <1>2, <1>3, <1>4 DEF Fetched, TypeOK
<1>5. ASSUME NEW w \in Workers, NEW retryable \in BOOLEAN, FetchFailed(w, retryable)
      PROVE  OwnRequests'
  BY <1>2, <1>3, <1>5 DEF FetchFailed, TypeOK
<1>6. ASSUME UNCHANGED <<selection, dispatched>> PROVE OwnRequests'
  BY <1>6 DEF OwnRequests
<1>. QED
  BY <1>1, <1>4, <1>5, <1>6
  DEF Next, Worker, TakeChunk, Return, SelectOrigin, GiveUp, FetchedInNoTime, ReportRejected,
      Wake, RequestShutdown, StopWorkers, Tick, dispatcherVars, workerVars, vars

\* Steps that move nobody who holds a request.
LEMMA NobodyMoves ==
    ASSUME EveryRequestAccounted, Counted,
           UNCHANGED <<inFlight, dispatched, completed, failed, selection>>,
           \A w \in Workers : selection[w] # {} =>
               /\ wpc[w] \in Waiting <=> wpc'[w] \in Waiting
               /\ wpc[w] = "raised" <=> wpc'[w] = "raised"
    PROVE  inFlight' = Held' /\ Counted'
<1>1. Held' = Held
  BY HeldBy, HeldBy2
<1>2. Lost' = Lost
  BY DEF Lost
<1>. QED  BY <1>1, <1>2 DEF EveryRequestAccounted, Counted

\* A report retires what its worker holds.
LEMMA Retires ==
    ASSUME TypeOK, OwnRequests, EveryRequestAccounted, Counted,
           NEW w \in Workers, wpc[w] = "fetch",
           NEW r \in selection[w], Retire(r),
           \A v \in Workers \ {w} : wpc'[v] = wpc[v] /\ selection'[v] = selection[v],
           selection'[w] = {} \/ wpc'[w] = "raised"
    PROVE  /\ inFlight' = Held' /\ IsFiniteSet(inFlight')
           /\ Cardinality(inFlight) = Cardinality(inFlight') + 1
<1>1. r \in inFlight
  BY HeldBy DEF EveryRequestAccounted, Waiting
<1>2. \A q \in selection[w] : q = r
  BY DEF OwnRequests
<1>3. \A v \in Workers \ {w} : r \notin selection[v]
  BY DEF OwnRequests
<1>4. \A q : q \in Held' <=> q \in Held /\ q # r
  BY <1>2, <1>3, HeldBy, HeldBy2 DEF Waiting
<1>5. inFlight' = Held'
  BY <1>4 DEF Retire, EveryRequestAccounted
<1>6. IsFiniteSet(inFlight) /\ inFlight' = inFlight \ {r}
  BY DEF Counted, Retire
<1>7. Cardinality(inFlight') = Cardinality(inFlight) - 1 /\ IsFiniteSet(inFlight')
  BY <1>1, <1>6, FS_RemoveElement
<1>8. Cardinality(inFlight) \in Nat
  BY <1>6, FS_CardinalityType
<1>. QED  BY <1>5, <1>7, <1>8

LEMMA AccountStep ==
    /\ TypeOK /\ Holding /\ Released /\ OwnRequests /\ EveryRequestAccounted /\ Counted
    /\ [Next]_vars
    => inFlight' = Held' /\ Counted'
<1>. SUFFICES ASSUME TypeOK, Holding, Released, OwnRequests, EveryRequestAccounted, Counted,
                     [Next]_vars
              PROVE  inFlight' = Held' /\ Counted'
  OBVIOUS
<1>n. /\ dispatched \in Nat /\ completed \in Nat /\ failed \in Nat
      /\ Cardinality(inFlight) \in Nat /\ Cardinality(Lost) \in Nat
  BY FS_CardinalityType, LostFinite DEF TypeOK, Counted
<1>1. ASSUME NEW w \in Workers,
             TakeChunk(w) \/ Return(w) \/ SelectOrigin(w) \/ GiveUp(w) \/ Wake(w)
      PROVE  inFlight' = Held' /\ Counted'
  <2>1. /\ selection[w] = {}
        /\ UNCHANGED <<inFlight, dispatched, completed, failed, selection>>
        /\ \A v \in Workers \ {w} : wpc'[v] = wpc[v]
    BY <1>1 DEF TakeChunk, Return, SelectOrigin, GiveUp, Wake, dispatcherVars, Released, TypeOK
  <2>. QED  BY <2>1, NobodyMoves
<1>2. ASSUME NEW w \in Workers, SelectMirror(w) PROVE inFlight' = Held' /\ Counted'
  <2>1. PICK m \in Mirrors :
            LET r == [id |-> dispatched, mirror |-> m, trips |-> breaker[m].trips]
            IN /\ selection' = [selection EXCEPT ![w] = {r}]
               /\ inFlight' = inFlight \cup {r}
               /\ dispatched' = dispatched + 1
    BY <1>2 DEF SelectMirror, Dispatch
  <2>. DEFINE new == [id |-> dispatched, mirror |-> m, trips |-> breaker[m].trips]
  <2>2. new.id = dispatched
    OBVIOUS
  <2>3. /\ selection' = [selection EXCEPT ![w] = {new}]
        /\ inFlight' = inFlight \cup {new} /\ dispatched' = dispatched + 1
    BY <2>1
  <2>. HIDE DEF new
  <2>4. /\ wpc[w] = "select" /\ wpc' = [wpc EXCEPT ![w] = "fetch"]
        /\ UNCHANGED <<completed, failed>> /\ selection[w] = {}
    BY <1>2 DEF SelectMirror, Released
  <2>5. /\ selection'[w] = {new} /\ wpc'[w] = "fetch"
        /\ \A v \in Workers \ {w} : selection'[v] = selection[v] /\ wpc'[v] = wpc[v]
    BY <2>3, <2>4 DEF TypeOK
  <2>6. new \notin inFlight
    <3>1. \A v \in Workers : new \notin selection[v]
      BY <1>n, <2>2 DEF OwnRequests
    <3>. QED  BY <3>1, HeldBy DEF EveryRequestAccounted
  <2>7. \A q : q \in Held' <=> q \in Held \/ q = new
    BY <2>4, <2>5, HeldBy, HeldBy2 DEF Waiting
  <2>8. inFlight' = Held'
    BY <2>3, <2>7 DEF EveryRequestAccounted
  <2>9. IsFiniteSet(inFlight') /\ Cardinality(inFlight') = Cardinality(inFlight) + 1
    BY <2>3, <2>6, FS_AddElement DEF Counted
  <2>10. Lost' = Lost
    BY <2>4, <2>5 DEF Lost
  <2>. QED  BY <1>n, <2>3, <2>4, <2>8, <2>9, <2>10 DEF Counted
<1>3. ASSUME NEW w \in Workers, wpc[w] = "fetch",
             NEW r \in selection[w], Retire(r), UNCHANGED dispatched,
             completed' + failed' = completed + failed + 1,
             completed' \in Nat, failed' \in Nat,
             \A v \in Workers \ {w} : wpc'[v] = wpc[v] /\ selection'[v] = selection[v],
             selection'[w] = {}
      PROVE  inFlight' = Held' /\ Counted'
  <2>1. /\ inFlight' = Held' /\ IsFiniteSet(inFlight')
        /\ Cardinality(inFlight) = Cardinality(inFlight') + 1
    BY <1>3, Retires
  <2>2. Lost' = Lost
    BY <1>3 DEF Lost
  <2>3. Cardinality(inFlight') \in Nat
    BY <2>1, FS_CardinalityType
  <2>4. dispatched = completed + failed + Cardinality(inFlight) + Cardinality(Lost)
    BY DEF Counted
  <2>5. dispatched = completed' + failed' + Cardinality(inFlight') + Cardinality(Lost)
    BY <1>3, <1>n, <2>1, <2>3, <2>4
  <2>. QED  BY <1>3, <2>1, <2>2, <2>5 DEF Counted
<1>4. ASSUME NEW w \in Workers, wpc[w] = "fetch", selection[w] = {},
             UNCHANGED <<dispatcherVars, selection>>,
             \A v \in Workers \ {w} : wpc'[v] = wpc[v]
      PROVE  inFlight' = Held' /\ Counted'
  BY <1>4, NobodyMoves DEF dispatcherVars
<1>5. ASSUME NEW w \in Workers, Fetched(w) PROVE inFlight' = Held' /\ Counted'
  <2>1. /\ wpc[w] = "fetch" /\ ScoreSuccess(selection[w])
        /\ selection' = [selection EXCEPT ![w] = {}] /\ selection'[w] = {}
        /\ \A v \in Workers \ {w} : wpc'[v] = wpc[v] /\ selection'[v] = selection[v]
    BY <1>5 DEF Fetched, TypeOK
  <2>2. CASE selection[w] = {}
    <3>1. UNCHANGED dispatcherVars /\ selection' = selection
      BY <2>1, <2>2 DEF ScoreSuccess, TypeOK
    <3>. QED  BY <1>4, <2>1, <2>2, <3>1
  <2>3. CASE selection[w] # {}
    <3>1. PICK r \in selection[w] : ReportSuccess(r)
      BY <2>1, <2>3 DEF ScoreSuccess
    <3>2. Retire(r) /\ UNCHANGED <<dispatched, failed>> /\ completed' = completed + 1
      BY <3>1 DEF ReportSuccess
    <3>. QED  BY <1>3, <1>n, <2>1, <3>2
  <2>. QED  BY <2>2, <2>3
<1>6. ASSUME NEW w \in Workers, NEW retryable \in BOOLEAN, FetchFailed(w, retryable)
      PROVE  inFlight' = Held' /\ Counted'
  <2>1. /\ wpc[w] = "fetch" /\ ScoreFailure(selection[w])
        /\ selection' = [selection EXCEPT ![w] = {}] /\ selection'[w] = {}
        /\ \A v \in Workers \ {w} : wpc'[v] = wpc[v] /\ selection'[v] = selection[v]
    BY <1>6 DEF FetchFailed, TypeOK
  <2>2. CASE selection[w] = {}
    <3>1. UNCHANGED dispatcherVars /\ selection' = selection
      BY <2>1, <2>2 DEF ScoreFailure, TypeOK
    <3>. QED  BY <1>4, <2>1, <2>2, <3>1
  <2>3. CASE selection[w] # {}
    <3>1. PICK r \in selection[w] : ReportFailure(r)
      BY <2>1, <2>3 DEF ScoreFailure
    <3>2. Retire(r) /\ UNCHANGED <<dispatched, completed>> /\ failed' = failed + 1
      BY <3>1 DEF ReportFailure
    <3>. QED  BY <1>3, <1>n, <2>1, <3>2
  <2>. QED  BY <2>2, <2>3
<1>7. ASSUME NEW w \in Workers, FetchedInNoTime(w) PROVE inFlight' = Held' /\ Counted'
  <2>1. PICK r \in selection[w] :
            Retire(r) /\ UNCHANGED <<dispatched, completed, failed, selection>>
    BY <1>7 DEF FetchedInNoTime, ReportRejected
  <2>2. /\ wpc[w] = "fetch" /\ wpc'[w] = "raised"
        /\ \A v \in Workers \ {w} : wpc'[v] = wpc[v]
    BY <1>7 DEF FetchedInNoTime, TypeOK
  <2>3. /\ inFlight' = Held' /\ IsFiniteSet(inFlight')
        /\ Cardinality(inFlight) = Cardinality(inFlight') + 1
    BY <2>1, <2>2, Retires
  <2>4. Lost' = Lost \cup {w} /\ w \notin Lost
    BY <2>1, <2>2 DEF Lost
  <2>5. Cardinality(Lost') = Cardinality(Lost) + 1
    BY <2>4, LostFinite, FS_AddElement
  <2>6. Cardinality(inFlight') \in Nat
    BY <2>3, FS_CardinalityType
  <2>7. dispatched = completed + failed + Cardinality(inFlight) + Cardinality(Lost)
    BY DEF Counted
  <2>8. dispatched = completed + failed + Cardinality(inFlight') + Cardinality(Lost')
    BY <1>n, <2>3, <2>5, <2>6, <2>7
  <2>. QED  BY <2>1, <2>3, <2>8 DEF Counted
<1>8. CASE StopWorkers
  <2>1. /\ UNCHANGED <<inFlight, dispatched, completed, failed, selection>>
        /\ wpc' = [w \in Workers |-> IF w \in Running THEN "cancelled" ELSE wpc[w]]
    BY <1>8 DEF StopWorkers, dispatcherVars
  <2>2. \A w \in Workers : selection[w] # {} => wpc[w] \in {"fetch", "raised", "cancelled"}
    BY DEF Released, TypeOK, WorkerPCs
  <2>3. \A w \in Workers : selection[w] # {} =>
            /\ wpc[w] \in Waiting <=> wpc'[w] \in Waiting
            /\ wpc[w] = "raised" <=> wpc'[w] = "raised"
    BY <2>1, <2>2 DEF Running, Waiting
  <2>. QED  BY <2>1, <2>3, NobodyMoves
<1>9. ASSUME UNCHANGED <<inFlight, dispatched, completed, failed, selection, wpc>>
      PROVE  inFlight' = Held' /\ Counted'
  BY <1>9, NobodyMoves
<1>. QED
  BY <1>1, <1>2, <1>5, <1>6, <1>7, <1>8, <1>9
  DEF Next, Worker, RequestShutdown, Tick, dispatcherVars, workerVars, vars

\* For any pool and any number of workers: no report finds its request gone,
\* and no request is lost but the one whose report raised.
THEOREM RequestsAreAccounted == Spec => []EveryRequestAccounted
<1>. DEFINE Inv == /\ TypeOK /\ AllSound /\ Holding /\ Released /\ OwnRequests
                   /\ EveryRequestAccounted /\ Counted
<1>1. Init => OwnRequests /\ EveryRequestAccounted /\ Counted /\ Released
  <2>. SUFFICES ASSUME Init PROVE OwnRequests /\ EveryRequestAccounted /\ Counted /\ Released
    OBVIOUS
  <2>1. OwnRequests /\ Released
    BY DEF Init, OwnRequests, Released
  <2>2. Held = {} /\ Lost = {} /\ inFlight = {}
    BY HeldBy DEF Init, Lost, Waiting
  <2>3. IsFiniteSet({}) /\ Cardinality({}) = 0
    BY FS_EmptySet
  <2>4. Counted
    BY <2>2, <2>3 DEF Init, Counted
  <2>. QED  BY <2>1, <2>2, <2>4 DEF EveryRequestAccounted, Counted, Lost
<1>2. Inv /\ [Next]_vars => Inv'
  <2>1. inFlight' = Held' /\ Counted' => EveryRequestAccounted'
    BY DEF EveryRequestAccounted, Counted, Lost
  <2>. QED
    BY <2>1, TypeStep, HoldingStep, ReleasedStep, OwnRequestsStep, AccountStep
<1>3. Init => Inv
  BY <1>1, TypeInit
<1>. QED  BY <1>2, <1>3, PTL DEF Spec

-----------------------------------------------------------------------------
(* What closes an open breaker *)

\* A request in flight was dispatched before its mirror's breaker opened.
OldWhenOpen ==
    \A r \in inFlight :
        /\ r.trips =< breaker[r.mirror].trips
        /\ CircuitState(breaker[r.mirror]) = "OPEN" => r.trips < breaker[r.mirror].trips

\* What no step but a dispatch has to know: breakers count their trips up and
\* open with a new one.
LEMMA OldStaysOld ==
    ASSUME TypeOK, OldWhenOpen, inFlight' \subseteq inFlight,
           breaker' \in [Mirrors -> Breaker],
           \A m \in Mirrors :
               /\ breaker[m].trips =< breaker'[m].trips
               /\ CircuitState(breaker'[m]) = "OPEN" /\ CircuitState(breaker[m]) # "OPEN" =>
                      breaker[m].trips < breaker'[m].trips
    PROVE  OldWhenOpen'
<1>. SUFFICES ASSUME NEW r \in inFlight'
              PROVE  /\ r.trips =< breaker'[r.mirror].trips
                     /\ CircuitState(breaker'[r.mirror]) = "OPEN" =>
                            r.trips < breaker'[r.mirror].trips
  BY DEF OldWhenOpen, CircuitState
<1>1. /\ r \in inFlight /\ r.mirror \in Mirrors /\ r.trips \in Nat
      /\ breaker[r.mirror].trips \in Nat /\ breaker'[r.mirror].trips \in Nat
  BY DEF TypeOK, Request, Breaker
<1>2. /\ r.trips =< breaker[r.mirror].trips
      /\ CircuitState(breaker[r.mirror]) = "OPEN" => r.trips < breaker[r.mirror].trips
  BY <1>1 DEF OldWhenOpen
<1>. QED  BY <1>1, <1>2

\* What a report means for every breaker, and which one it may close.
LEMMA ReportedBreakers ==
    ASSUME TypeOK, AllSound, NEW s \in SUBSET Request, ScoreSuccess(s) \/ ScoreFailure(s)
    PROVE  /\ inFlight' \subseteq inFlight
           /\ \A m \in Mirrors :
                  /\ breaker[m].trips =< breaker'[m].trips
                  /\ CircuitState(breaker'[m]) = "OPEN" /\ CircuitState(breaker[m]) # "OPEN" =>
                         breaker[m].trips < breaker'[m].trips
                  /\ breaker[m].opened /\ ~breaker'[m].opened =>
                         \E r \in s : r.mirror = m /\ Retire(r)
<1>0. \A m \in Mirrors : breaker[m] \in Breaker /\ breaker[m].trips \in Nat
  BY DEF TypeOK, Breaker
<1>1. CASE UNCHANGED dispatcherVars
  BY <1>0, <1>1 DEF dispatcherVars
<1>2. ASSUME NEW r \in s, ReportSuccess(r)
      PROVE  \A m \in Mirrors :
                  /\ breaker[m].trips =< breaker'[m].trips
                  /\ CircuitState(breaker'[m]) = "OPEN" /\ CircuitState(breaker[m]) # "OPEN" =>
                         breaker[m].trips < breaker'[m].trips
                  /\ breaker[m].opened /\ ~breaker'[m].opened =>
                         r.mirror = m /\ Retire(r)
  <2>1. breaker' = [breaker EXCEPT ![r.mirror] = RecordSuccess(@)] /\ Retire(r)
    BY <1>2 DEF ReportSuccess, MirrorServed
  <2>2. SUFFICES ASSUME NEW m \in Mirrors
                 PROVE  /\ breaker[m].trips =< breaker'[m].trips
                        /\ CircuitState(breaker'[m]) = "OPEN"
                              /\ CircuitState(breaker[m]) # "OPEN" =>
                               breaker[m].trips < breaker'[m].trips
                        /\ breaker[m].opened /\ ~breaker'[m].opened =>
                               r.mirror = m /\ Retire(r)
    OBVIOUS
  <2>3. CASE m = r.mirror
    <3>1. breaker'[m] = RecordSuccess(breaker[m])
      BY <2>1, <2>3 DEF TypeOK
    <3>. QED  BY <1>0, <2>1, <2>3, <3>1, BreakerSuccess
  <2>4. CASE m # r.mirror
    <3>1. breaker'[m] = breaker[m]
      BY <2>1, <2>4 DEF TypeOK
    <3>. QED  BY <1>0, <3>1
  <2>. QED  BY <2>3, <2>4
<1>3. ASSUME NEW r \in s, ReportFailure(r)
      PROVE  \A m \in Mirrors :
                  /\ breaker[m].trips =< breaker'[m].trips
                  /\ CircuitState(breaker'[m]) = "OPEN" /\ CircuitState(breaker[m]) # "OPEN" =>
                         breaker[m].trips < breaker'[m].trips
                  /\ breaker[m].opened => breaker'[m].opened
  <2>1. breaker' = [breaker EXCEPT ![r.mirror] = RecordFailure(@)]
    BY <1>3 DEF ReportFailure, MirrorFailed
  <2>2. SUFFICES ASSUME NEW m \in Mirrors
                 PROVE  /\ breaker[m].trips =< breaker'[m].trips
                        /\ CircuitState(breaker'[m]) = "OPEN"
                              /\ CircuitState(breaker[m]) # "OPEN" =>
                               breaker[m].trips < breaker'[m].trips
                        /\ breaker[m].opened => breaker'[m].opened
    OBVIOUS
  <2>3. CASE m = r.mirror
    <3>1. breaker'[m] = RecordFailure(breaker[m]) /\ Sound(breaker[m])
      BY <2>1, <2>3 DEF TypeOK, AllSound
    <3>. QED  BY <1>0, <3>1, BreakerFailure
  <2>4. CASE m # r.mirror
    <3>1. breaker'[m] = breaker[m]
      BY <2>1, <2>4 DEF TypeOK
    <3>. QED  BY <1>0, <3>1
  <2>. QED  BY <2>3, <2>4
<1>4. ASSUME NEW r \in s, ReportSuccess(r) \/ ReportFailure(r) PROVE inFlight' \subseteq inFlight
  BY <1>4 DEF ReportSuccess, ReportFailure, Retire
<1>. QED  BY <1>1, <1>2, <1>3, <1>4 DEF ScoreSuccess, ScoreFailure

LEMMA OldStep ==
    TypeOK /\ AllSound /\ OldWhenOpen /\ [Next]_vars => OldWhenOpen'
<1>. SUFFICES ASSUME TypeOK, AllSound, OldWhenOpen, [Next]_vars PROVE OldWhenOpen'
  OBVIOUS
<1>0. \A m \in Mirrors : breaker[m] \in Breaker /\ breaker[m].trips \in Nat
  BY DEF TypeOK, Breaker
<1>1. ASSUME NEW s \in SUBSET Request, ScoreSuccess(s) \/ ScoreFailure(s) PROVE OldWhenOpen'
  BY <1>1, Reported, ReportedBreakers, OldStaysOld
<1>2. ASSUME NEW w \in Workers, Fetched(w) PROVE OldWhenOpen'
  BY <1>1, <1>2 DEF Fetched, TypeOK
<1>3. ASSUME NEW w \in Workers, NEW retryable \in BOOLEAN, FetchFailed(w, retryable)
      PROVE  OldWhenOpen'
  BY <1>1, <1>3 DEF FetchFailed, TypeOK
<1>4. CASE Tick
  <2>1. \A m \in Mirrors : breaker'[m] = Cooler(breaker[m])
    BY <1>4 DEF Tick
  <2>2. inFlight' = inFlight /\ breaker' \in [Mirrors -> Breaker]
    BY <1>0, <1>4, BreakerCooler DEF Tick
  <2>3. \A m \in Mirrors :
            /\ breaker[m].trips =< breaker'[m].trips
            /\ CircuitState(breaker'[m]) = "OPEN" => CircuitState(breaker[m]) = "OPEN"
    BY <1>0, <2>1, BreakerCooler
  <2>. QED  BY <2>2, <2>3, OldStaysOld
<1>5. ASSUME NEW w \in Workers, SelectMirror(w) PROVE OldWhenOpen'
  <2>1. PICK m \in Mirrors :
            /\ Healthy(m)
            /\ inFlight' = inFlight \cup
                   {[id |-> dispatched, mirror |-> m, trips |-> breaker[m].trips]}
    BY <1>5 DEF SelectMirror, Dispatch, Draws, AvailableMirrors
  <2>2. UNCHANGED breaker
    BY <1>5 DEF SelectMirror
  <2>3. \A r \in inFlight' :
            r \in inFlight \/ (r.mirror = m /\ r.trips = breaker[m].trips)
    BY <2>1
  <2>. QED  BY <1>0, <2>1, <2>2, <2>3 DEF OldWhenOpen, Healthy, CircuitState
<1>6. ASSUME UNCHANGED breaker, inFlight' \subseteq inFlight PROVE OldWhenOpen'
  BY <1>6 DEF OldWhenOpen, CircuitState
<1>7. ASSUME NEW w \in Workers, FetchedInNoTime(w) PROVE OldWhenOpen'
  BY <1>6, <1>7 DEF FetchedInNoTime, ReportRejected, Retire
<1>. QED
  BY <1>2, <1>3, <1>4, <1>5, <1>6, <1>7
  DEF Next, Worker, TakeChunk, Return, SelectOrigin, GiveUp, Wake, RequestShutdown,
      StopWorkers, dispatcherVars, vars

\* For any thresholds and cooldowns: only a request that was under way before
\* a breaker opened closes it before its cooldown is over.
THEOREM OnlyOldRequestsCloseEarly == Spec => ClosesEarlyOnlyForOldRequests
<1>. DEFINE Inv == /\ TypeOK /\ AllSound /\ Holding /\ Released /\ OwnRequests /\ OldWhenOpen
                   /\ EveryRequestAccounted
<1>. DEFINE Closing == \A m \in Mirrors :
          CircuitState(breaker[m]) = "OPEN" /\ ~breaker'[m].opened =>
              \E r \in inFlight \ inFlight' : r.mirror = m /\ r.trips < breaker[m].trips
<1>1. Inv /\ [Next]_vars => Closing
  <2>. SUFFICES ASSUME Inv, [Next]_vars, NEW m \in Mirrors,
                       CircuitState(breaker[m]) = "OPEN", ~breaker'[m].opened
                PROVE  \E r \in inFlight \ inFlight' :
                           r.mirror = m /\ r.trips < breaker[m].trips
    OBVIOUS
  <2>0. breaker[m].opened
    BY DEF CircuitState
  <2>1. ASSUME NEW w \in Workers, wpc[w] = "fetch",
               ScoreSuccess(selection[w]) \/ ScoreFailure(selection[w])
        PROVE  \E r \in inFlight \ inFlight' : r.mirror = m /\ r.trips < breaker[m].trips
    <3>1. PICK r \in selection[w] : r.mirror = m /\ Retire(r)
      BY <2>0, <2>1, ReportedBreakers DEF TypeOK
    <3>2. r \in inFlight
      BY <2>1, HeldBy DEF EveryRequestAccounted, Waiting
    <3>. QED  BY <3>1, <3>2 DEF Retire, OldWhenOpen
  <2>2. ASSUME NEW w \in Workers, Fetched(w)
        PROVE  \E r \in inFlight \ inFlight' : r.mirror = m /\ r.trips < breaker[m].trips
    BY <2>1, <2>2 DEF Fetched
  <2>3. ASSUME NEW w \in Workers, NEW retryable \in BOOLEAN, FetchFailed(w, retryable)
        PROVE  \E r \in inFlight \ inFlight' : r.mirror = m /\ r.trips < breaker[m].trips
    BY <2>1, <2>3 DEF FetchFailed
  <2>4. CASE Tick
    BY <2>0, <2>4, BreakerCooler DEF Tick, TypeOK
  <2>5. CASE UNCHANGED breaker
    BY <2>0, <2>5
  <2>. QED
    BY <2>2, <2>3, <2>4, <2>5
    DEF Next, Worker, TakeChunk, Return, SelectMirror, SelectOrigin, GiveUp, FetchedInNoTime,
        ReportRejected, Wake, RequestShutdown, StopWorkers, dispatcherVars, vars
<1>2. Init => OldWhenOpen /\ OwnRequests /\ Released
  BY DEF Init, OldWhenOpen, OwnRequests, Released
<1>3. Spec => [](TypeOK /\ AllSound /\ Holding)
  BY TypeInit, TypeStep, HoldingStep, PTL DEF Spec
<1>4. Spec => []OldWhenOpen
  BY <1>2, <1>3, OldStep, PTL DEF Spec
<1>5. Spec => [](OwnRequests /\ Released)
  BY <1>2, <1>3, OwnRequestsStep, ReleasedStep, PTL DEF Spec
<1>6. Inv /\ [Next]_vars => [Closing]_vars
  BY <1>1
<1>. HIDE DEF Closing
<1>7. Spec => [][Closing]_vars
  BY <1>3, <1>4, <1>5, <1>6, RequestsAreAccounted, PTL DEF Spec
<1>. QED  BY <1>7 DEF Closing, ClosesEarlyOnlyForOldRequests
=============================================================================
