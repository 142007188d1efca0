---------------------------- MODULE ChaseLevDeque ----------------------------
(***************************************************************************)
(* The work-stealing deque of reliadl/algorithms/task_deque.py: one owner  *)
(* pushes and pops at the bottom without a lock, thieves steal at the top, *)
(* and a lock guards nothing but the compare-and-swap of top.              *)
(*                                                                         *)
(* Every read or write of an attribute the owner and the thieves share is  *)
(* a step of its own: the interpreter may switch threads between any two.  *)
(***************************************************************************)
EXTENDS Integers, Sequences, FiniteSets

CONSTANTS
    Thieves,        \* threads that steal
    MaxTasks,       \* bound: tasks pushed
    FirstCapacity,  \* capacity the deque is built with
    StealAttempts   \* attempts of try_steal

ASSUME DequeAssumption ==
    /\ IsFiniteSet(Thieves)
    /\ MaxTasks \in Nat
    /\ FirstCapacity \in Nat \ {0} /\ \E k \in 0..FirstCapacity : FirstCapacity = 2^k
    /\ StealAttempts \in Nat \ {0}

Tasks == 1..MaxTasks

VARIABLES
    top, bottom,         \* _top and _bottom
    array,               \* the ring in use: a function on its slots; 0 is None
    ownerPc, ownerTop,   \* where the owner is, and the top it read
    thiefPc,             \* where each thief is
    thiefTop, thiefTask, \* the top and the task it read
    attempts,            \* attempts left of its try_steal
    pushed,              \* tasks pushed so far
    popped, stolen       \* what the owner and the thieves got, in order

ownerVars == <<ownerPc, ownerTop>>
thiefVars == <<thiefPc, thiefTop, thiefTask, attempts>>
dequeVars == <<top, bottom, array, ownerVars, thiefVars, pushed, popped, stolen>>

Capacity(a) == Cardinality(DOMAIN a)

\* get and put address the ring by the low bits of an index.
Get(a, i) == a[i % Capacity(a)]
Put(a, i, t) == [a EXCEPT ![i % Capacity(a)] = t]

\* A copy that keeps every task where it was in the smaller ring.
GrowInPlace(a, from, to) ==
    [s \in 0..(2 * Capacity(a) - 1) |-> IF s < Capacity(a) THEN a[s] ELSE 0]

\* grow: twice the slots, holding the tasks of [from, to).
Grow(a, from, to) ==
    [s \in 0..(2 * Capacity(a) - 1) |->
        LET live == {i \in from..(to - 1) : i % (2 * Capacity(a)) = s}
        IN IF live = {} THEN 0 ELSE Get(a, CHOOSE i \in live : TRUE)]

DequeInit ==
    /\ top = 0 /\ bottom = 0
    /\ array = [s \in 0..(FirstCapacity - 1) |-> 0]
    /\ ownerPc = "idle" /\ ownerTop = 0
    /\ thiefPc = [p \in Thieves |-> "idle"]
    /\ thiefTop = [p \in Thieves |-> 0]
    /\ thiefTask = [p \in Thieves |-> 0]
    /\ attempts = [p \in Thieves |-> 0]
    /\ pushed = 0 /\ popped = <<>> /\ stolen = <<>>

-----------------------------------------------------------------------------
(* The owner *)

\* push reads top; only the owner changes bottom and the array.
PushReadTop ==
    /\ ownerPc = "idle" /\ pushed < MaxTasks
    /\ ownerTop' = top
    /\ ownerPc' = "put"
    /\ UNCHANGED <<top, bottom, array, thiefVars, pushed, popped, stolen>>

\* The ring is full as far as the owner knows.
Full == bottom - ownerTop >= Capacity(array)

\* push grows the ring if it is full and stores the task.
PushStore ==
    /\ ownerPc = "put"
    /\ array' = Put(IF Full THEN Grow(array, ownerTop, bottom) ELSE array, bottom, pushed + 1)
    /\ pushed' = pushed + 1
    /\ ownerPc' = "publish"
    /\ UNCHANGED <<top, bottom, ownerTop, thiefVars, popped, stolen>>

\* push publishes it.
PushPublish ==
    /\ ownerPc = "publish"
    /\ bottom' = bottom + 1
    /\ ownerPc' = "idle"
    /\ UNCHANGED <<top, array, ownerTop, thiefVars, pushed, popped, stolen>>

\* pop lowers bottom before it reads top.
PopClaim ==
    /\ ownerPc = "idle"
    /\ bottom' = bottom - 1
    /\ ownerPc' = "claimed"
    /\ UNCHANGED <<top, array, ownerTop, thiefVars, pushed, popped, stolen>>

\* Taking the last task without the compare-and-swap.
UncontestedEvenIfLast(t) == t =< bottom

\* At least one more task is between the ends.
Uncontested(t) == t < bottom

\* pop reads top: nothing there, a task no thief can have, or the last one.
PopReadTop ==
    /\ ownerPc = "claimed"
    /\ ownerTop' = top
    /\ \/ top > bottom /\ ownerPc' = "empty" /\ UNCHANGED popped
       \/ /\ Uncontested(top)
          /\ popped' = Append(popped, Get(array, bottom))
          /\ ownerPc' = "idle"
       \/ /\ top =< bottom /\ ~Uncontested(top)
          /\ ownerPc' = "last" /\ UNCHANGED popped
    /\ UNCHANGED <<top, bottom, array, thiefVars, pushed, stolen>>

\* pop undoes its claim on an empty deque.
PopEmpty ==
    /\ ownerPc = "empty"
    /\ bottom' = ownerTop
    /\ ownerPc' = "idle"
    /\ UNCHANGED <<top, array, ownerTop, thiefVars, pushed, popped, stolen>>

\* pop competes for the last task by advancing top.
PopLast ==
    /\ ownerPc = "last"
    /\ IF top = ownerTop
       THEN top' = top + 1 /\ popped' = Append(popped, Get(array, bottom))
       ELSE UNCHANGED <<top, popped>>
    /\ ownerPc' = "restore"
    /\ UNCHANGED <<bottom, array, ownerTop, thiefVars, pushed, stolen>>

\* pop leaves the deque empty: bottom = top.
PopRestore ==
    /\ ownerPc = "restore"
    /\ bottom' = ownerTop + 1
    /\ ownerPc' = "idle"
    /\ UNCHANGED <<top, array, ownerTop, thiefVars, pushed, popped, stolen>>

Owner == PushReadTop \/ PushStore \/ PushPublish \/ PopClaim \/ PopReadTop
         \/ PopEmpty \/ PopLast \/ PopRestore

-----------------------------------------------------------------------------
(* A thief *)

\* try_steal starts.
TrySteal(p) ==
    /\ thiefPc[p] = "idle"
    /\ thiefPc' = [thiefPc EXCEPT ![p] = "top"]
    /\ attempts' = [attempts EXCEPT ![p] = StealAttempts]
    /\ UNCHANGED <<top, bottom, array, ownerVars, thiefTop, thiefTask, pushed, popped, stolen>>

StealReadTop(p) ==
    /\ thiefPc[p] = "top"
    /\ thiefTop' = [thiefTop EXCEPT ![p] = top]
    /\ thiefPc' = [thiefPc EXCEPT ![p] = "bottom"]
    /\ UNCHANGED <<top, bottom, array, ownerVars, thiefTask, attempts, pushed, popped, stolen>>

\* steal reads bottom: EMPTY ends try_steal whatever attempts are left.
StealReadBottom(p) ==
    /\ thiefPc[p] = "bottom"
    /\ thiefPc' = [thiefPc EXCEPT ![p] = IF thiefTop[p] >= bottom THEN "idle" ELSE "read"]
    /\ UNCHANGED <<top, bottom, array, ownerVars, thiefTop, thiefTask, attempts,
                   pushed, popped, stolen>>

\* steal reads the task out of the ring that is in use now.
StealReadTask(p) ==
    /\ thiefPc[p] = "read"
    /\ thiefTask' = [thiefTask EXCEPT ![p] = Get(array, thiefTop[p])]
    /\ thiefPc' = [thiefPc EXCEPT ![p] = "swap"]
    /\ UNCHANGED <<top, bottom, array, ownerVars, thiefTop, attempts, pushed, popped, stolen>>

\* The compare-and-swap: the task is the thief's only if top did not move.
\* An ABORTED attempt is repeated as often as try_steal allows.
StealSwap(p) ==
    /\ thiefPc[p] = "swap"
    /\ IF top = thiefTop[p]
       THEN /\ top' = top + 1
            /\ stolen' = Append(stolen, thiefTask[p])
            /\ thiefPc' = [thiefPc EXCEPT ![p] = "idle"]
            /\ UNCHANGED attempts
       ELSE /\ attempts' = [attempts EXCEPT ![p] = @ - 1]
            /\ thiefPc' = [thiefPc EXCEPT ![p] = IF attempts[p] > 1 THEN "top" ELSE "idle"]
            /\ UNCHANGED <<top, stolen>>
    /\ UNCHANGED <<bottom, array, ownerVars, thiefTop, thiefTask, pushed, popped>>

Thief(p) == TrySteal(p) \/ StealReadTop(p) \/ StealReadBottom(p) \/ StealReadTask(p)
            \/ StealSwap(p)

DequeNext == Owner \/ \E p \in Thieves : Thief(p)

DequeSpec == DequeInit /\ [][DequeNext]_dequeVars

-----------------------------------------------------------------------------
(* Properties *)

DequeTypeOK ==
    /\ top \in Nat /\ bottom \in Int
    /\ ownerPc \in {"idle", "put", "publish", "claimed", "empty", "last", "restore"}
    /\ ownerTop \in Nat
    /\ thiefPc \in [Thieves -> {"idle", "top", "bottom", "read", "swap"}]
    /\ thiefTop \in [Thieves -> Nat]
    /\ attempts \in [Thieves -> 0..StealAttempts]
    /\ pushed \in 0..MaxTasks

\* Where the deque ends once the owner's pop under way is undone.
End == CASE ownerPc \in {"claimed", "last"} -> bottom + 1
         [] ownerPc \in {"empty", "restore"} -> top
         [] OTHER -> bottom

(***************************************************************************)
(* A thief whose compare-and-swap would succeed takes a task that is in    *)
(* the deque: never one that the owner popped without the lock, and never  *)
(* one the owner has not published.                                        *)
(***************************************************************************)
SwapTakesAQueuedTask ==
    \A p \in Thieves :
        thiefPc[p] \in {"read", "swap"} /\ thiefTop[p] = top => top < End

\* The deque as its users see it.
Queued == [i \in 1..(End - top) |-> Get(array, top + i - 1)]

Abstract == INSTANCE WorkQueue WITH queued <- Queued

(***************************************************************************)
(* The deque is a queue: pop takes the newest task and steal the oldest,   *)
(* each as if at one instant, through growth of the ring and lost races;   *)
(* so no task is lost and none is delivered twice.                         *)
(***************************************************************************)
ImplementsWorkQueue == Abstract!Spec
=============================================================================
