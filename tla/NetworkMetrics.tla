--------------------------- MODULE NetworkMetrics ---------------------------
(***************************************************************************)
(* What a transfer knows of its network (algorithms/metrics_collector.py)  *)
(* and the chunk size it makes of it (BLDCSController in                   *)
(* algorithms/adaptive_chunker.py).  An exponentially weighted average is  *)
(* abstracted to a value anywhere from the old estimate to the new         *)
(* observation, which holds of every smoothing factor in (0, 1]; the size  *)
(* is computed in whole units from percentages.                            *)
(***************************************************************************)
EXTENDS Integers, Sequences, FiniteSets, FiniteSetsExt, SequencesExt, PowersOfTwo

CONSTANTS
    Rtts,              \* round-trip times
    TransferSizes,     \* bytes of a transfer
    TransferTimes,     \* its durations
    WindowSize,        \* outcomes the failure window retains
    ControllerMin, ControllerMax, ControllerDefault,
    Mss, Overhead,     \* of the loss model
    MaxOutcomes        \* bound: outcomes recorded

ASSUME NetworkAssumption ==
    /\ \A S \in {Rtts, TransferSizes, TransferTimes} : IsFiniteSet(S) /\ S \subseteq Int
    /\ {WindowSize, ControllerMin, ControllerMax, ControllerDefault, Mss, Overhead}
           \subseteq Nat \ {0}
    /\ MaxOutcomes \in Nat
    /\ ControllerDefault \in ControllerMin..ControllerMax
    /\ {ControllerMin, ControllerMax} \subseteq {TwoTo[n] : n \in 0..ControllerMax}

VARIABLES
    rtt,             \* [value, deviation] of the round-trip filter
    throughput,      \* its value, or None
    transferBytes,   \* value of the filter of transfer sizes, or None
    window,          \* outcomes retained, oldest first
    windowFailures,  \* its running count of failures
    outcomes,        \* every outcome since the last reset (history)
    seen             \* every observation a filter was to absorb since (history)

networkVars == <<rtt, throughput, transferBytes, window, windowFailures, outcomes, seen>>

None == -1
Unprimed == [value |-> None, deviation |-> 0]

Samples == [bytes : {b \in TransferSizes : b >= 0}, duration : {t \in TransferTimes : t > 0},
            latency : {l \in Rtts : l >= 0} \cup {None}, success : BOOLEAN]

ThroughputOf(sample) == sample.bytes \div sample.duration

\* Values between two others, both included.
Between(a, b) == Min({a, b})..Max({a, b})

\* EWMAEstimator.update: the first observation is the estimate; the deviation
\* is taken from the estimate before it moves.
Absorb(estimate, observation) ==
    IF estimate = Unprimed
    THEN {[value |-> observation, deviation |-> 0]}
    ELSE [value : Between(estimate.value, observation),
          deviation : Between(estimate.deviation, Max({observation - estimate.value,
                                                       estimate.value - observation}))]

\* The same filter where nobody reads the deviation.
AbsorbValue(value, observation) ==
    IF value = None THEN {observation} ELSE Between(value, observation)

NetworkInit ==
    /\ rtt = Unprimed
    /\ throughput = None /\ transferBytes = None
    /\ window = <<>> /\ windowFailures = 0
    /\ outcomes = <<>>
    /\ seen = [rtts |-> {}, bps |-> {}, sizes |-> {}]

\* FailureWindow.record that looks at the newest outcome it holds.
EvictedIsNewest == Len(window) = WindowSize /\ ~window[Len(window)]

\* FailureWindow.record: a full deque drops its oldest outcome on append.
Evicted == Len(window) = WindowSize /\ ~Head(window)

Record(success) ==
    /\ Len(outcomes) < MaxOutcomes
    /\ windowFailures' = windowFailures - (IF Evicted THEN 1 ELSE 0) + (IF success THEN 0 ELSE 1)
    /\ window' = Append(IF Len(window) = WindowSize THEN Tail(window) ELSE window, success)
    /\ outcomes' = Append(outcomes, success)

ObserveRtt(latency) ==
    /\ rtt' \in Absorb(rtt, latency)
    /\ seen' = [seen EXCEPT !.rtts = @ \cup {latency}]

\* Only a success that carried bytes says how fast the path is.
Credited(sample) == sample.success /\ sample.bytes > 0

RecordTransfer(sample) ==
    /\ rtt' \in IF sample.latency = None THEN {rtt} ELSE Absorb(rtt, sample.latency)
    /\ IF Credited(sample)
       THEN /\ throughput' \in AbsorbValue(throughput, ThroughputOf(sample))
            /\ transferBytes' \in AbsorbValue(transferBytes, sample.bytes)
       ELSE UNCHANGED <<throughput, transferBytes>>
    /\ Record(sample.success)
    /\ seen' = [rtts |-> seen.rtts \cup ({sample.latency} \ {None}),
                bps |-> seen.bps \cup
                    (IF sample.success /\ sample.bytes > 0 THEN {ThroughputOf(sample)} ELSE {}),
                sizes |-> seen.sizes \cup
                    (IF sample.success /\ sample.bytes > 0 THEN {sample.bytes} ELSE {})]

RecordFailure == Record(FALSE) /\ UNCHANGED <<rtt, throughput, transferBytes, seen>>

RecordRtt(latency) ==
    /\ latency >= 0
    /\ ObserveRtt(latency)
    /\ UNCHANGED <<throughput, transferBytes, window, windowFailures, outcomes>>

ResetEstimates ==
    /\ outcomes # <<>>
    /\ rtt' = Unprimed /\ throughput' = None /\ transferBytes' = None
    /\ window' = <<>> /\ windowFailures' = 0
    /\ outcomes' = <<>> /\ seen' = [rtts |-> {}, bps |-> {}, sizes |-> {}]

NetworkNext ==
    \/ \E sample \in Samples : RecordTransfer(sample)
    \/ RecordFailure
    \/ \E latency \in Rtts : RecordRtt(latency)
    \/ ResetEstimates

NetworkSpec == NetworkInit /\ [][NetworkNext]_networkVars

-----------------------------------------------------------------------------
(* BLDCSController.decide, a function of one snapshot. *)

\* Percentage of requests lost, none while the window is empty.
DropPercent(failed, total) == IF total = 0 THEN 0 ELSE (100 * failed) \div total

snapshot == [rtt |-> rtt.value, throughput |-> throughput, bytes |-> transferBytes,
             drop |-> DropPercent(windowFailures, Len(window))]

\* The percentage of segments lost, to first order: a chunk is as many as it has.
SegmentLoss(drop, bytes) ==
    IF drop \in {0, 100} THEN drop ELSE drop \div Max({1, bytes \div Mss})

SquareRoot(n) == Max({r \in 0..n : r * r =< n})

\* The nearest power of two in log space.
Aligned(size) ==
    IF size =< 1 THEN 1
    ELSE CHOOSE p \in {TwoTo[n] : n \in 0..size} : p * p =< 2 * size * size /\ size * size < 2 * p * p

Clamped(size) == Max({ControllerMin, Min({size, ControllerMax})})

ChunkSize(state) ==
    IF None \in {state.rtt, state.throughput} THEN ControllerDefault
    ELSE LET bytes == IF state.bytes = None THEN ControllerDefault ELSE state.bytes
             loss == SquareRoot((Overhead * state.throughput * Mss * 100)
                              \div (8 * SegmentLoss(state.drop, bytes) + 1))
         IN Clamped(Aligned(Clamped(loss + state.throughput * state.rtt)))

-----------------------------------------------------------------------------
(* Properties *)

\* The running count of failures is of the last outcomes and no other: one
\* evicted at the wrong end, or counted twice, stays wrong for the session.
WindowIsRecent ==
    /\ window = SubSeq(outcomes, Max({1, Len(outcomes) - WindowSize + 1}), Len(outcomes))
    /\ windowFailures = Cardinality({i \in DOMAIN window : ~window[i]})

\* No estimate leaves the range of what was observed, from the first one on,
\* and a failed transfer says nothing of the speed.
Within(value, observations) ==
    IF observations = {} THEN value = None ELSE value \in Min(observations)..Max(observations)

EstimatesAreObserved ==
    /\ Within(rtt.value, seen.rtts)
    /\ rtt.deviation =< IF seen.rtts = {} THEN 0 ELSE Max(seen.rtts) - Min(seen.rtts)
    /\ Within(throughput, seen.bps)
    /\ Within(transferBytes, seen.sizes)

(***************************************************************************)
(* Chunks are sized from what this transfer saw lately, and from nothing   *)
(* else: the evidence is recent and observed, the size is one ChunkPlanner *)
(* reckons with, and a path that loses more never gets larger chunks.      *)
(***************************************************************************)
SizingRestsOnEvidence ==
    /\ WindowIsRecent
    /\ EstimatesAreObserved
    /\ ChunkSize(snapshot) \in ControllerMin..ControllerMax
    /\ \A f \in windowFailures..Len(window) :
           ChunkSize([snapshot EXCEPT !.drop = DropPercent(f, Len(window))]) =< ChunkSize(snapshot)
=============================================================================
