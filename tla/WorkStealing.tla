----------------------------- MODULE WorkStealing -----------------------------
(***************************************************************************)
(* Straggler relief, reliadl/algorithms/work_stealer.py: workers download  *)
(* byte ranges; from time to time a coordinator reads a progress report of *)
(* each, flags the stragglers, and hands the far half of what a victim has *)
(* left to an idle worker.                                                 *)
(*                                                                         *)
(* A plan is enacted at the instant its reports are taken.  Throughputs    *)
(* are small integers: a projected time to completion is the fraction      *)
(* remaining / throughput, and two of them are compared by cross-          *)
(* multiplication, which also orders the infinite ones.                    *)
(***************************************************************************)
EXTENDS Naturals, FiniteSets, Sequences, SequencesExt

CONSTANTS
    Pool,             \* the workers
    FileSize,         \* bytes, numbered from 0
    MinSplit,         \* min_split_bytes of the coordinator and its detector
    Factor,           \* factor of the detector
    Throughputs,      \* the positive throughputs a report may show
    UseIdleCapacity   \* use_idle_capacity

ASSUME WorkStealingAssumption ==
    /\ IsFiniteSet(Pool)
    /\ FileSize \in Nat
    /\ MinSplit \in Nat \ {0}
    /\ Factor \in Nat /\ Factor > 1
    /\ Throughputs \subseteq Nat \ {0}
    /\ UseIdleCapacity \in BOOLEAN

VARIABLES
    range,     \* the range of each worker: first and last byte, and next_byte
    received   \* how often each byte was received

stealVars == <<range, received>>

Bytes == 0..(FileSize - 1)

\* A WorkerProgress, last = end - 1; next = end when it is complete.
Report == {r \in [start : Nat, end : Nat, next : Nat] :
              r.start =< r.next /\ r.next =< r.end /\ r.end =< FileSize}

Remaining(r) == r.end - r.next
IsComplete(r) == r.next = r.end

\* bisect_range: the midpoint of what has not been received.
Boundary(r) == r.next + Remaining(r) \div 2

\* A split as soon as one half is large enough.
CanBisectOneHalf(r) == ~IsComplete(r) /\ Remaining(r) >= MinSplit

\* can_bisect: both halves are at least min_split_bytes.
CanBisect(r) == ~IsComplete(r) /\ Remaining(r) >= 2 * MinSplit

\* RangeBisection: the two halves.
VictimHalf(r) == [r EXCEPT !.end = Boundary(r)]
ThiefHalf(r) == [start |-> Boundary(r), end |-> r.end, next |-> Boundary(r)]

-----------------------------------------------------------------------------
(* StragglerDetector *)

\* The throughputs in the reports: a worker without an estimate has none.
Speeds == UNION {[measured -> Throughputs \cup {0}] : measured \in SUBSET Pool}

\* is_active: what is left can be projected.
Projected(speed, w) == ~IsComplete(range[w]) /\ w \in DOMAIN speed

\* ttc of v > k * ttc of w.
TakesLonger(speed, v, w, k) ==
    Remaining(range[v]) * speed[w] > k * Remaining(range[w]) * speed[v]

\* _evaluate_one: the baseline is the fastest of the other projected workers.
IsStraggler(speed, w) ==
    /\ Projected(speed, w)
    /\ \E peer \in Pool \ {w} :
          Projected(speed, peer) /\ TakesLonger(speed, w, peer, Factor)
    /\ Remaining(range[w]) >= 2 * MinSplit

\* detect: the worst first, by projected time, then by bytes remaining.
WorstFirst(speed, order) ==
    \A i, j \in DOMAIN order : i < j =>
        /\ ~TakesLonger(speed, order[j], order[i], 1)
        /\ TakesLonger(speed, order[i], order[j], 1)
              \/ Remaining(range[order[i]]) >= Remaining(range[order[j]])

LargestFirst(order) ==
    \A i, j \in DOMAIN order : i < j =>
        Remaining(range[order[i]]) >= Remaining(range[order[j]])

-----------------------------------------------------------------------------
(* WorkStealCoordinator *)

Idle == {w \in Pool : IsComplete(range[w])}

\* The victims of the second pass, if idle capacity is to be used.
Spare(flagged) ==
    IF UseIdleCapacity THEN {w \in Pool \ (flagged \cup Idle) : CanBisect(range[w])} ELSE {}

\* plan: stragglers first, then the largest ranges, each with one thief, until
\* either runs out.  Each victim is split once.
Victims(first, second) ==
    LET wanted == first \o second
    IN SubSeq(wanted, 1, IF Len(wanted) < Cardinality(Idle) THEN Len(wanted)
                         ELSE Cardinality(Idle))

\* Thieves start before their victims are told to stop short.
EnactUntruncated(victims, thieves) ==
    range' = [w \in Pool |->
        IF \E i \in DOMAIN victims : thieves[i] = w
        THEN ThiefHalf(range[victims[CHOOSE i \in DOMAIN victims : thieves[i] = w]])
        ELSE range[w]]

\* Victims and thieves in pairs: each victim keeps the near half.
Enact(victims, thieves) ==
    range' = [w \in Pool |->
        IF \E i \in DOMAIN victims : victims[i] = w THEN VictimHalf(range[w])
        ELSE IF \E i \in DOMAIN victims : thieves[i] = w
             THEN ThiefHalf(range[victims[CHOOSE i \in DOMAIN victims : thieves[i] = w]])
             ELSE range[w]]

\* One epoch: reports are taken, a plan is made and enacted.
Epoch ==
    \E speed \in Speeds :
        LET flagged == {w \in Pool \ Idle : IsStraggler(speed, w) /\ CanBisect(range[w])}
        IN \E first \in SetToSeqs(flagged), second \in SetToSeqs(Spare(flagged)) :
              /\ WorstFirst(speed, first) /\ LargestFirst(second)
              /\ Victims(first, second) # <<>>
              /\ \E thieves \in SetToSeqs(Idle) : Enact(Victims(first, second), thieves)
              /\ UNCHANGED received

\* A worker receives the next byte of its range.
Advance(w) ==
    /\ ~IsComplete(range[w])
    /\ received' = [received EXCEPT ![range[w].next] = @ + 1]
    /\ range' = [range EXCEPT ![w].next = @ + 1]

\* Some worker starts with the whole file, the others with nothing.
StealInit ==
    /\ \E w \in Pool :
          range = [v \in Pool |-> [start |-> 0, next |-> 0,
                                   end |-> IF v = w THEN FileSize ELSE 0]]
    /\ received = [b \in Bytes |-> 0]

StealNext == Epoch \/ \E w \in Pool : Advance(w)

StealSpec == StealInit /\ [][StealNext]_stealVars

-----------------------------------------------------------------------------
(* Properties *)

StealTypeOK ==
    /\ range \in [Pool -> Report]
    /\ received \in [Bytes -> Nat]

Holds(w, b) == range[w].next =< b /\ b < range[w].end

(***************************************************************************)
(* However often ranges are split, every byte of the file is received once *)
(* or is still to be received by exactly one worker.                       *)
(***************************************************************************)
EveryByteOnce ==
    \A b \in Bytes :
        \/ received[b] = 1 /\ \A w \in Pool : ~Holds(w, b)
        \/ received[b] = 0 /\ \E w \in Pool : Holds(w, b) /\ \A v \in Pool \ {w} : ~Holds(v, b)

\* covers_original_range.
Covers(r) ==
    /\ r.start =< VictimHalf(r).end
    /\ VictimHalf(r).end = ThiefHalf(r).start /\ ThiefHalf(r).end = r.end
    /\ Remaining(VictimHalf(r)) + Remaining(ThiefHalf(r)) = Remaining(r)

(***************************************************************************)
(* Every split the coordinator may make passes the checks of               *)
(* RangeBisection: it reconstitutes the range, leaves what was received    *)
(* with the victim, and gives both sides at least the minimum.             *)
(***************************************************************************)
SplitsAreSound ==
    \A w \in Pool : CanBisect(range[w]) =>
        /\ range[w].next < Boundary(range[w]) /\ Boundary(range[w]) < range[w].end
        /\ Covers(range[w])
        /\ Remaining(VictimHalf(range[w])) >= MinSplit
        /\ Remaining(ThiefHalf(range[w])) >= MinSplit
=============================================================================
