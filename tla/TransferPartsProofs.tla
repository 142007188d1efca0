---------------------------- MODULE TransferPartsProofs ----------------------------
(***************************************************************************)
(* Theorems about the parts of a transfer. First how work moves between    *)
(* workers: ChaseLevDeque, for any number of thieves, tasks and attempts and*)
(* every initial capacity of the ring, and WorkStealing, for any pool, file,*)
(* minimum split, throughputs and number of epochs. Then the parts together:*)
(* what is proved of each of them holds of MCTransferParts.                *)
(***************************************************************************)
EXTENDS MCTransferParts, PartFileProofs, NetworkProofs, FiniteSetTheorems, SequenceTheorems,
        TLAPS

-----------------------------------------------------------------------------
(* The deque: its inductive invariant *)

\* A thief that is under way has attempts left.
AttemptsLeft == \A p \in Thieves : thiefPc[p] # "idle" => attempts[p] >= 1

\* How the ends lie, at each point of push and pop.
EndsLie ==
    /\ ownerPc \in {"idle", "put", "publish"} => top =< bottom
    /\ ownerPc = "put" => pushed < MaxTasks
    /\ ownerPc = "claimed" => top =< bottom + 1
    /\ ownerPc = "empty" => ownerTop = top /\ top = bottom + 1
    /\ ownerPc = "last" => ownerTop = bottom /\ ownerTop =< top /\ top =< bottom + 1
    /\ ownerPc = "restore" => ownerTop = bottom /\ top = bottom + 1

\* What a thief read of top was top once, and top only grows.
ReadsArePast ==
    \A p \in Thieves : thiefPc[p] \in {"bottom", "read", "swap"} => thiefTop[p] =< top

DequeInv == AttemptsLeft /\ EndsLie /\ ReadsArePast /\ SwapTakesAQueuedTask

-----------------------------------------------------------------------------
LEMMA DequeInitInv == DequeInit => DequeTypeOK /\ DequeInv
BY DequeAssumption
   DEF DequeInit, DequeTypeOK, DequeInv, AttemptsLeft, EndsLie, ReadsArePast, SwapTakesAQueuedTask

LEMMA DequeTypeStep == DequeTypeOK /\ DequeInv /\ [DequeNext]_dequeVars => DequeTypeOK'
<1>. SUFFICES ASSUME DequeTypeOK, DequeInv, [DequeNext]_dequeVars PROVE DequeTypeOK'
  OBVIOUS
<1>. USE DequeAssumption DEF DequeTypeOK, DequeInv, thiefVars, ownerVars
<1>1. CASE PushReadTop \/ PushStore \/ PushPublish
  <2>1. CASE PushReadTop
    BY <2>1 DEF PushReadTop
  <2>2. CASE PushStore
    BY <2>2 DEF PushStore, EndsLie
  <2>3. CASE PushPublish
    BY <2>3 DEF PushPublish
  <2>. QED  BY <1>1, <2>1, <2>2, <2>3
<1>2. CASE PopClaim \/ PopEmpty \/ PopLast \/ PopRestore
  BY <1>2 DEF PopClaim, PopEmpty, PopLast, PopRestore
<1>3. CASE PopReadTop
  BY <1>3 DEF PopReadTop
<1>4. ASSUME NEW p \in Thieves, TrySteal(p) \/ StealReadTop(p) \/ StealReadBottom(p)
                                \/ StealReadTask(p)
      PROVE  DequeTypeOK'
  BY <1>4 DEF TrySteal, StealReadTop, StealReadBottom, StealReadTask
<1>5. ASSUME NEW p \in Thieves, StealSwap(p) PROVE DequeTypeOK'
  <2>1. thiefPc' \in [Thieves -> {"idle", "top", "bottom", "read", "swap"}] /\ top' \in Nat
    <3>1. PICK to \in {"idle", "top"} : thiefPc' = [thiefPc EXCEPT ![p] = to]
      BY <1>5 DEF StealSwap
    <3>2. top' \in Nat
      BY <1>5 DEF StealSwap
    <3>. QED  BY <3>1, <3>2
  <2>2. attempts[p] \in 1..StealAttempts
    BY <1>5 DEF StealSwap, AttemptsLeft
  <2>3. attempts' \in [Thieves -> 0..StealAttempts]
    BY <1>5, <2>2 DEF StealSwap
  <2>. QED  BY <1>5, <2>1, <2>3 DEF StealSwap
<1>6. CASE UNCHANGED dequeVars
  BY <1>6 DEF dequeVars
<1>. QED  BY <1>1, <1>2, <1>3, <1>4, <1>5, <1>6 DEF DequeNext, Owner, Thief

LEMMA DequeInvStep == DequeTypeOK /\ DequeInv /\ [DequeNext]_dequeVars => DequeInv'
<1>. SUFFICES ASSUME DequeTypeOK, DequeInv, [DequeNext]_dequeVars PROVE DequeInv'
  OBVIOUS
<1>. USE DequeAssumption
     DEF DequeTypeOK, DequeInv, thiefVars, ownerVars, AttemptsLeft, EndsLie, ReadsArePast,
         SwapTakesAQueuedTask, End
<1>1. CASE PushReadTop
  BY <1>1 DEF PushReadTop
<1>2. CASE PushStore
  BY <1>2 DEF PushStore
<1>3. CASE PushPublish
  BY <1>3 DEF PushPublish
<1>4. CASE PopClaim
  BY <1>4 DEF PopClaim
<1>5. CASE PopReadTop
  BY <1>5 DEF PopReadTop, Uncontested
<1>6. CASE PopEmpty
  BY <1>6 DEF PopEmpty
<1>7. CASE PopLast
  BY <1>7 DEF PopLast
<1>8. CASE PopRestore
  BY <1>8 DEF PopRestore
<1>9. ASSUME NEW p \in Thieves, TrySteal(p) PROVE DequeInv'
  BY <1>9 DEF TrySteal
<1>10. ASSUME NEW p \in Thieves, StealReadTop(p) PROVE DequeInv'
  BY <1>10 DEF StealReadTop
<1>11. ASSUME NEW p \in Thieves, StealReadBottom(p) PROVE DequeInv'
  BY <1>11 DEF StealReadBottom
<1>12. ASSUME NEW p \in Thieves, StealReadTask(p) PROVE DequeInv'
  BY <1>12 DEF StealReadTask
<1>13. ASSUME NEW p \in Thieves, StealSwap(p) PROVE DequeInv'
  <2>1. CASE top = thiefTop[p]
    <3>1. top' = top + 1 /\ thiefPc' = [thiefPc EXCEPT ![p] = "idle"] /\ thiefPc[p] = "swap"
          /\ UNCHANGED <<bottom, ownerPc, ownerTop, thiefTop, attempts, pushed>>
      BY <1>13, <2>1 DEF StealSwap
    <3>2. top < End
      BY <2>1, <3>1
    <3>. QED  BY <2>1, <3>1, <3>2
  <2>2. CASE top # thiefTop[p]
    <3>1. AttemptsLeft'
      BY <1>13, <2>2 DEF StealSwap
    <3>2. EndsLie' /\ ReadsArePast' /\ SwapTakesAQueuedTask'
      BY <1>13, <2>2 DEF StealSwap
    <3>. QED  BY <3>1, <3>2
  <2>. QED  BY <2>1, <2>2
<1>14. CASE UNCHANGED dequeVars
  BY <1>14 DEF dequeVars
<1>. QED
  BY <1>1, <1>2, <1>3, <1>4, <1>5, <1>6, <1>7, <1>8, <1>9, <1>10, <1>11, <1>12, <1>13, <1>14
  DEF DequeNext, Owner, Thief

LEMMA DequeAlways == DequeSpec => [](DequeTypeOK /\ DequeInv)
<1>1. DequeInit => DequeTypeOK /\ DequeInv
  BY DequeInitInv
<1>2. (DequeTypeOK /\ DequeInv) /\ [DequeNext]_dequeVars => (DequeTypeOK /\ DequeInv)'
  BY DequeTypeStep, DequeInvStep
<1>. QED  BY <1>1, <1>2, PTL DEF DequeSpec

-----------------------------------------------------------------------------
(* Theorems *)

\* The ends of the deque, and what the owner and the thieves remember of them,
\* stay within their types.
THEOREM DequeTypeCorrect == DequeSpec => []DequeTypeOK
BY DequeAlways, PTL

\* However the owner and any number of thieves interleave, a compare-and-swap
\* that succeeds takes a task that is in the deque: pop's path without the lock
\* never hands the owner a task that a thief gets as well.
THEOREM ThievesTakeQueuedTasks == DequeSpec => []SwapTakesAQueuedTask
<1>1. DequeInv => SwapTakesAQueuedTask
  BY DEF DequeInv
<1>. QED  BY <1>1, DequeAlways, PTL

-----------------------------------------------------------------------------
(* The ring *)

\* Two indices less than the capacity apart share a slot only if they are the same.
LEMMA Multiples ==
    ASSUME NEW n \in Nat \ {0}, NEW q \in Int, NEW r \in Int,
           n * q - n * r < n, n * r - n * q < n
    PROVE  q = r
<1>1. n * (q - r) < n /\ n * (r - q) < n
  OBVIOUS
<1>2. CASE q - r >= 1
  <2>1. n * (q - r) >= n
    BY <1>2
  <2>. QED  BY <2>1, <1>1
<1>3. CASE r - q >= 1
  <2>1. n * (r - q) >= n
    BY <1>3
  <2>. QED  BY <2>1, <1>1
<1>. QED  BY <1>2, <1>3

LEMMA SameSlot ==
    ASSUME NEW n \in Nat \ {0}, NEW i \in Int, NEW j \in Int, i % n = j % n,
           i - j < n, j - i < n
    PROVE  i = j
<1>1. i = n * (i \div n) + (i % n) /\ j = n * (j \div n) + (j % n)
  OBVIOUS
<1>. DEFINE q == i \div n
            r == j \div n
<1>2. q \in Int /\ r \in Int
  OBVIOUS
<1>3. n * q - n * r < n /\ n * r - n * q < n
  BY <1>1
<1>4. q = r
  BY <1>2, <1>3, Multiples
<1>. QED  BY <1>1, <1>4

LEMMA SlotRange ==
    ASSUME NEW n \in Nat \ {0}, NEW i \in Int
    PROVE  i % n \in 0..(n - 1)
OBVIOUS

\* The rings of n slots.
Rings(n) == [0..(n - 1) -> 0..MaxTasks]

LEMMA RingShape ==
    ASSUME NEW n \in Nat \ {0}, NEW a \in Rings(n)
    PROVE  /\ Capacity(a) = n
           /\ \A i \in Int : Get(a, i) = a[i % n] /\ Get(a, i) \in 0..MaxTasks
<1>1. DOMAIN a = 0..(n - 1)
  BY DEF Rings
<1>2. Cardinality(0..(n - 1)) = n
  BY FS_Interval
<1>3. Capacity(a) = n
  BY <1>1, <1>2 DEF Capacity
<1>. QED  BY <1>3, SlotRange DEF Get, Rings

\* Storing a task disturbs none that is less than the capacity away.
LEMMA PutKeeps ==
    ASSUME NEW n \in Nat \ {0}, NEW a \in Rings(n), NEW b \in Int, NEW t \in 0..MaxTasks
    PROVE  /\ Put(a, b, t) \in Rings(n)
           /\ Get(Put(a, b, t), b) = t
           /\ \A i \in Int : i < b /\ b - i < n => Get(Put(a, b, t), i) = Get(a, i)
<1>1. Put(a, b, t) = [a EXCEPT ![b % n] = t]
  BY RingShape DEF Put
<1>2. Put(a, b, t) \in Rings(n)
  BY <1>1 DEF Rings
<1>3. Get(Put(a, b, t), b) = t
  <2>1. Get(Put(a, b, t), b) = Put(a, b, t)[b % n]
    BY <1>2, RingShape
  <2>. QED  BY <1>1, <2>1, SlotRange DEF Rings
<1>4. ASSUME NEW i \in Int, i < b, b - i < n PROVE Get(Put(a, b, t), i) = Get(a, i)
  <2>1. Get(Put(a, b, t), i) = Put(a, b, t)[i % n] /\ Get(a, i) = a[i % n]
    BY <1>2, RingShape
  <2>2. i % n # b % n
    <3>1. SUFFICES ASSUME i % n = b % n PROVE FALSE
      OBVIOUS
    <3>2. i - b < n /\ b - i < n
      BY <1>4
    <3>3. i = b
      BY <3>1, <3>2, SameSlot
    <3>. QED  BY <3>3, <1>4
  <2>. QED  BY <1>1, <2>1, <2>2, SlotRange DEF Rings
<1>. QED  BY <1>2, <1>3, <1>4

\* Growing the ring keeps every task where its index finds it.
LEMMA GrowKeeps ==
    ASSUME NEW n \in Nat \ {0}, NEW a \in Rings(n), NEW from \in Int, NEW to \in Int,
           to - from =< 2 * n
    PROVE  /\ Grow(a, from, to) \in Rings(2 * n)
           /\ \A i \in from..(to - 1) : Get(Grow(a, from, to), i) = Get(a, i)
<1>. DEFINE live(s) == {i \in from..(to - 1) : i % (2 * n) = s}
            g == [s \in 0..(2 * n - 1) |->
                     IF live(s) = {} THEN 0 ELSE Get(a, CHOOSE i \in live(s) : TRUE)]
<1>1. Grow(a, from, to) = g
  <2>1. Capacity(a) = n
    BY RingShape
  <2>. QED  BY <2>1 DEF Grow
<1>2. 2 * n \in Nat \ {0}
  OBVIOUS
<1>3. g \in Rings(2 * n)
  <2>1. ASSUME NEW s, live(s) # {} PROVE Get(a, CHOOSE i \in live(s) : TRUE) \in 0..MaxTasks
    <3>1. (CHOOSE i \in live(s) : TRUE) \in live(s)
      BY <2>1
    <3>. QED  BY <3>1, RingShape
  <2>2. 0 \in 0..MaxTasks
    BY DequeAssumption
  <2>. HIDE DEF live
  <2>. QED  BY <2>1, <2>2 DEF Rings
<1>4. ASSUME NEW i \in from..(to - 1) PROVE Get(g, i) = Get(a, i)
  <2>. DEFINE s == i % (2 * n)
  <2>1. s \in 0..(2 * n - 1)
    BY <1>2, SlotRange
  <2>2. live(s) = {i}
    <3>1. ASSUME NEW j \in live(s) PROVE j = i
      <4>1. j \in Int /\ i \in Int /\ j % (2 * n) = i % (2 * n) /\ j - i < 2 * n /\ i - j < 2 * n
        OBVIOUS
      <4>. HIDE DEF live, s
      <4>. QED  BY <4>1, <1>2, SameSlot
    <3>2. i \in live(s)
      OBVIOUS
    <3>. HIDE DEF live, s
    <3>. QED  BY <3>1, <3>2
  <2>3. g[s] = Get(a, i)
    <3>1. (CHOOSE j \in live(s) : TRUE) = i
      <4>. HIDE DEF live, s
      <4>. QED  BY <2>2
    <3>2. live(s) # {}
      <4>. HIDE DEF live, s
      <4>. QED  BY <2>2
    <3>3. g[s] = IF live(s) = {} THEN 0 ELSE Get(a, CHOOSE j \in live(s) : TRUE)
      BY <2>1
    <3>. HIDE DEF live, s, g
    <3>. QED  BY <3>1, <3>2, <3>3
  <2>4. Get(g, i) = g[s]
    <3>1. i \in Int
      OBVIOUS
    <3>. HIDE DEF g, live
    <3>2. \A j \in Int : Get(g, j) = g[j % (2 * n)]
      BY <1>2, <1>3, RingShape
    <3>. QED  BY <3>1, <3>2
  <2>. QED  BY <2>3, <2>4
<1>. QED  BY <1>1, <1>3, <1>4

-----------------------------------------------------------------------------
(* The tasks in the ring *)

\* The slots between the ends are not reused while a task in them may be read.
RingInv ==
    /\ \E n \in Nat \ {0} : array \in Rings(n)
    /\ End - top =< Capacity(array)
    /\ ownerPc = "put" => ownerTop =< top /\ bottom - ownerTop =< Capacity(array)
    /\ ownerPc = "publish" => /\ ownerTop =< top /\ bottom - ownerTop < Capacity(array)
                              /\ Get(array, bottom) = pushed /\ pushed \in Tasks
    /\ DOMAIN thiefTask = Thieves
    /\ \A p \in Thieves :
           thiefPc[p] = "swap" /\ thiefTop[p] = top => thiefTask[p] = Get(array, top)

LEMMA RingInit == DequeInit => RingInv
<1>. SUFFICES ASSUME DequeInit PROVE RingInv
  OBVIOUS
<1>1. array \in Rings(FirstCapacity) /\ FirstCapacity \in Nat \ {0}
  BY DequeAssumption DEF DequeInit, Rings
<1>2. Capacity(array) = FirstCapacity
  BY <1>1, RingShape
<1>. QED  BY <1>1, <1>2 DEF DequeInit, RingInv, End

LEMMA EndType ==
    ASSUME DequeTypeOK, DequeInv
    PROVE  End \in Int /\ top =< End
BY DEF DequeTypeOK, DequeInv, EndsLie, End

\* Storing a task, growing the ring if need be, leaves what is queued as it was.
LEMMA StoreKeeps ==
    ASSUME DequeTypeOK, DequeInv, RingInv, PushStore
    PROVE  /\ \E n \in Nat \ {0} : array' \in Rings(n) /\ bottom - ownerTop < n
           /\ Get(array', bottom) = pushed + 1
           /\ \A i \in top..(bottom - 1) : Get(array', i) = Get(array, i)
<1>1. PICK n \in Nat \ {0} : array \in Rings(n)
  BY DEF RingInv
<1>2. Capacity(array) = n
  BY <1>1, RingShape
<1>3. /\ ownerTop =< top /\ bottom - ownerTop =< n /\ top \in Nat /\ bottom \in Int
      /\ ownerTop \in Nat /\ pushed + 1 \in 0..MaxTasks
  BY <1>2, DequeAssumption DEF RingInv, PushStore, DequeTypeOK, DequeInv, EndsLie
<1>4. CASE Full
  <2>. DEFINE g == Grow(array, ownerTop, bottom)
  <2>1. /\ g \in Rings(2 * n) /\ 2 * n \in Nat \ {0}
        /\ \A i \in ownerTop..(bottom - 1) : Get(g, i) = Get(array, i)
    BY <1>1, <1>3, GrowKeeps
  <2>2. array' = Put(g, bottom, pushed + 1)
    BY <1>4 DEF PushStore
  <2>3. bottom - ownerTop < 2 * n
    BY <1>3
  <2>. HIDE DEF g
  <2>4. array' \in Rings(2 * n) /\ Get(array', bottom) = pushed + 1
    BY <1>3, <2>1, <2>2, PutKeeps
  <2>5. ASSUME NEW i \in top..(bottom - 1) PROVE Get(array', i) = Get(array, i)
    <3>1. i \in ownerTop..(bottom - 1) /\ i < bottom /\ bottom - i < 2 * n
      BY <1>3, <2>3
    <3>2. Get(array', i) = Get(g, i)
      BY <1>3, <2>1, <2>2, <3>1, PutKeeps
    <3>. QED  BY <2>1, <3>1, <3>2
  <2>. QED  BY <2>1, <2>3, <2>4, <2>5
<1>5. CASE ~Full
  <2>1. array' = Put(array, bottom, pushed + 1) /\ bottom - ownerTop < n
    BY <1>2, <1>3, <1>5 DEF PushStore, Full
  <2>2. array' \in Rings(n) /\ Get(array', bottom) = pushed + 1
    BY <1>1, <1>3, <2>1, PutKeeps
  <2>3. ASSUME NEW i \in top..(bottom - 1) PROVE Get(array', i) = Get(array, i)
    <3>1. i \in Int /\ i < bottom /\ bottom - i < n
      BY <1>3, <2>1
    <3>. QED  BY <1>1, <1>3, <2>1, <3>1, PutKeeps
  <2>. QED  BY <2>1, <2>2, <2>3
<1>. QED  BY <1>4, <1>5

LEMMA RingStep ==
    ASSUME DequeTypeOK, DequeInv, RingInv, DequeInv', [DequeNext]_dequeVars
    PROVE  RingInv'
<1>. USE DequeAssumption DEF thiefVars, ownerVars
<1>ty. /\ top \in Nat /\ bottom \in Int /\ ownerTop \in Nat
       /\ thiefPc \in [Thieves -> {"idle", "top", "bottom", "read", "swap"}]
       /\ thiefTop \in [Thieves -> Nat]
  BY DEF DequeTypeOK
<1>n. PICK n \in Nat \ {0} : array \in Rings(n)
  BY DEF RingInv
<1>cap. Capacity(array) = n
  BY <1>n, RingShape
<1>1. CASE PushStore
  <2>1. PICK m \in Nat \ {0} : array' \in Rings(m) /\ bottom - ownerTop < m
    BY <1>1, StoreKeeps
  <2>2. Capacity(array') = m
    BY <2>1, RingShape
  <2>3. /\ Get(array', bottom) = pushed + 1
        /\ \A i \in top..(bottom - 1) : Get(array', i) = Get(array, i)
    BY <1>1, StoreKeeps
  <2>4. /\ ownerPc = "put" /\ ownerPc' = "publish" /\ pushed' = pushed + 1 /\ ownerTop =< top
        /\ pushed' \in Tasks
        /\ UNCHANGED <<top, bottom, ownerTop, thiefPc, thiefTop, thiefTask>>
    BY <1>1 DEF PushStore, RingInv, DequeTypeOK, DequeInv, EndsLie, Tasks
  <2>5. ASSUME NEW p \in Thieves, thiefPc[p] = "swap", thiefTop[p] = top
        PROVE  thiefTask[p] = Get(array', top)
    <3>1. top < bottom
      BY <2>4, <2>5 DEF DequeInv, SwapTakesAQueuedTask, End
    <3>. QED  BY <2>3, <2>5, <3>1, <1>ty DEF RingInv
  <2>. QED  BY <2>1, <2>2, <2>3, <2>4, <2>5, <1>ty DEF RingInv, End
<1>2. CASE PushReadTop
  BY <1>2, <1>ty DEF PushReadTop, RingInv, End
<1>3. CASE PushPublish
  BY <1>3, <1>ty, <1>cap DEF PushPublish, RingInv, End
<1>4. CASE PopClaim \/ PopEmpty \/ PopRestore
  BY <1>4, <1>ty, <1>cap DEF PopClaim, PopEmpty, PopRestore, RingInv, End, DequeInv, EndsLie
<1>5. CASE PopReadTop
  <2>1. /\ ownerPc = "claimed" /\ ownerPc' \in {"empty", "idle", "last"}
        /\ ownerTop' = top
        /\ ownerPc' = "idle" => top < bottom
        /\ UNCHANGED <<top, bottom, array, thiefPc, thiefTop, thiefTask>>
    BY <1>5 DEF PopReadTop, Uncontested, thiefVars
  <2>2. End = bottom + 1 /\ End - top =< Capacity(array) /\ Capacity(array) \in Nat
    BY <1>cap, <2>1 DEF RingInv, End
  <2>3. End' =< bottom + 1 /\ End' \in Int
    <3>1. CASE ownerPc' = "empty"
      BY <1>ty, <2>1, <3>1 DEF End, DequeInv, EndsLie
    <3>2. CASE ownerPc' = "idle"
      BY <1>ty, <2>1, <3>2 DEF End
    <3>3. CASE ownerPc' = "last"
      BY <1>ty, <2>1, <3>3 DEF End
    <3>. QED  BY <2>1, <3>1, <3>2, <3>3
  <2>4. End' - top' =< Capacity(array')
    BY <1>ty, <2>1, <2>2, <2>3
  <2>. QED  BY <2>1, <2>4 DEF RingInv
<1>6. CASE PopLast
  <2>1. /\ ownerPc = "last" /\ ownerPc' = "restore"
        /\ UNCHANGED <<array, bottom, ownerTop, thiefPc, thiefTop, thiefTask>>
        /\ top' \in {top, top + 1}
    BY <1>6 DEF PopLast
  <2>2. ASSUME NEW p \in Thieves, thiefPc[p] = "swap", thiefTop[p] = top'
        PROVE  thiefTask[p] = Get(array, top')
    BY <2>1, <2>2, <1>ty DEF DequeInv, ReadsArePast, RingInv
  <2>. QED  BY <2>1, <2>2, <1>ty, <1>n, <1>cap DEF RingInv, End
<1>7. ASSUME NEW p \in Thieves, TrySteal(p) \/ StealReadTop(p) \/ StealReadBottom(p)
      PROVE  RingInv'
  <2>1. UNCHANGED <<top, bottom, array, ownerPc, ownerTop, pushed, thiefTask>>
    BY <1>7 DEF TrySteal, StealReadTop, StealReadBottom
  <2>2. ASSUME NEW q \in Thieves, thiefPc'[q] = "swap"
        PROVE  thiefPc[q] = "swap" /\ thiefTop'[q] = thiefTop[q]
    BY <1>7, <2>2, <1>ty DEF TrySteal, StealReadTop, StealReadBottom
  <2>. QED  BY <2>1, <2>2 DEF RingInv, End
<1>8. ASSUME NEW p \in Thieves, StealReadTask(p) PROVE RingInv'
  <2>1. /\ UNCHANGED <<top, bottom, array, ownerPc, ownerTop, pushed, thiefTop>>
        /\ thiefTask' = [thiefTask EXCEPT ![p] = Get(array, thiefTop[p])]
        /\ thiefPc' = [thiefPc EXCEPT ![p] = "swap"]
    BY <1>8 DEF StealReadTask
  <2>2. ASSUME NEW q \in Thieves, thiefPc'[q] = "swap", thiefTop[q] = top
        PROVE  thiefTask'[q] = Get(array, top)
    <3>1. CASE q = p
      BY <2>1, <2>2, <3>1 DEF RingInv
    <3>2. CASE q # p
      BY <2>1, <2>2, <3>2, <1>ty DEF RingInv
    <3>. QED  BY <3>1, <3>2
  <2>. QED  BY <2>1, <2>2 DEF RingInv, End
<1>9. ASSUME NEW p \in Thieves, StealSwap(p) PROVE RingInv'
  <2>1. /\ UNCHANGED <<bottom, array, ownerPc, ownerTop, pushed, thiefTop, thiefTask>>
        /\ \A q \in Thieves : thiefPc'[q] = "swap" => thiefPc[q] = "swap"
        /\ top' \in {top, top + 1}
    BY <1>9, <1>ty DEF StealSwap
  <2>2. ASSUME NEW q \in Thieves, thiefPc'[q] = "swap", thiefTop[q] = top'
        PROVE  thiefTask[q] = Get(array, top')
    BY <2>1, <2>2, <1>ty DEF DequeInv, ReadsArePast, RingInv
  <2>. QED  BY <2>1, <2>2, <1>ty, <1>n, <1>cap DEF RingInv, End
<1>10. CASE UNCHANGED dequeVars
  BY <1>10 DEF dequeVars, RingInv, End
<1>. QED
  BY <1>1, <1>2, <1>3, <1>4, <1>5, <1>6, <1>7, <1>8, <1>9, <1>10 DEF DequeNext, Owner, Thief

-----------------------------------------------------------------------------
(* The deque is a queue *)

\* What is queued is a sequence of as many tasks as lie between the ends.
LEMMA QueuedSeq ==
    ASSUME DequeTypeOK, DequeInv, RingInv
    PROVE  /\ Queued \in Seq(0..MaxTasks) /\ Len(Queued) = End - top
           /\ \A i \in 1..Len(Queued) : Queued[i] = Get(array, top + i - 1)
<1>1. End - top \in Nat /\ top \in Nat
  BY EndType DEF DequeTypeOK
<1>2. \A i \in 1..(End - top) : Get(array, top + i - 1) \in 0..MaxTasks
  <2>1. PICK n \in Nat \ {0} : array \in Rings(n)
    BY DEF RingInv
  <2>2. \A i \in Int : Get(array, i) \in 0..MaxTasks
    BY <2>1, RingShape
  <2>. QED  BY <1>1, <2>2
<1>3. Queued \in Seq(0..MaxTasks) /\ Len(Queued) = End - top
  <2>. DEFINE n == End - top
              f == [i \in 1..n |-> Get(array, top + i - 1)]
  <2>1. f \in [1..n -> 0..MaxTasks]
    BY <1>2
  <2>2. f \in Seq(0..MaxTasks)
    <3>1. n \in Nat
      BY <1>1
    <3>. HIDE DEF f, n
    <3>. QED  BY <2>1, <3>1, SeqDef
  <2>3. Len(f) = n
    <3>1. DOMAIN f = 1..n /\ n \in Nat
      BY <1>1
    <3>. HIDE DEF f, n
    <3>. QED  BY <2>2, <3>1, LenProperties
  <2>. QED  BY <2>2, <2>3 DEF Queued
<1>. QED  BY <1>3 DEF Queued

LEMMA QueuedSeqNext ==
    (DequeTypeOK /\ DequeInv /\ RingInv =>
        /\ Queued \in Seq(0..MaxTasks) /\ Len(Queued) = End - top
        /\ \A i \in 1..Len(Queued) : Queued[i] = Get(array, top + i - 1))'
<1>1. DequeTypeOK /\ DequeInv /\ RingInv =>
        /\ Queued \in Seq(0..MaxTasks) /\ Len(Queued) = End - top
        /\ \A i \in 1..Len(Queued) : Queued[i] = Get(array, top + i - 1)
  BY QueuedSeq
<1>. QED  BY <1>1, PTL

\* Two sequences as long and with the same elements are the same.
LEMMA SameSeq ==
    ASSUME NEW S, NEW s \in Seq(S), NEW t \in Seq(S), Len(s) = Len(t),
           \A i \in 1..Len(s) : s[i] = t[i]
    PROVE  s = t
BY SeqEqual

\* The ends and what lies between them decide what is queued.
LEMMA QueuedKept ==
    ASSUME DequeTypeOK, DequeInv, RingInv, (DequeTypeOK /\ DequeInv /\ RingInv)',
           top' = top, End' = End, \A i \in top..(End - 1) : Get(array', i) = Get(array, i)
    PROVE  Queued' = Queued
<1>. DEFINE q == Queued
            r == Queued'
<1>1. /\ q \in Seq(0..MaxTasks) /\ Len(q) = End - top
      /\ \A i \in 1..Len(q) : q[i] = Get(array, top + i - 1)
  BY QueuedSeq
<1>2. /\ r \in Seq(0..MaxTasks) /\ Len(r) = End' - top'
      /\ \A i \in 1..Len(r) : r[i] = Get(array', top' + i - 1)
  BY QueuedSeqNext
<1>3. top \in Int /\ End \in Int
  BY EndType DEF DequeTypeOK
<1>. HIDE DEF q, r
<1>4. \A i \in 1..Len(r) : r[i] = q[i]
  <2>1. TAKE i \in 1..Len(r)
  <2>2. top + i - 1 \in top..(End - 1) /\ i \in 1..Len(q)
    BY <1>1, <1>2, <1>3
  <2>. QED  BY <1>1, <1>2, <2>2
<1>5. r = q
  BY <1>1, <1>2, <1>4, SameSeq
<1>. QED  BY <1>5 DEF q, r

\* Publishing a task pushes it.
LEMMA PublishPushes ==
    ASSUME DequeTypeOK, DequeInv, RingInv, (DequeTypeOK /\ DequeInv /\ RingInv)', PushPublish
    PROVE  Queued' = Append(Queued, pushed) /\ pushed \in Tasks /\ UNCHANGED <<popped, stolen>>
<1>. DEFINE q == Queued
            r == Queued'
<1>1. /\ q \in Seq(0..MaxTasks) /\ Len(q) = End - top
      /\ \A i \in 1..Len(q) : q[i] = Get(array, top + i - 1)
  BY QueuedSeq
<1>2. /\ r \in Seq(0..MaxTasks) /\ Len(r) = End' - top'
      /\ \A i \in 1..Len(r) : r[i] = Get(array', top' + i - 1)
  BY QueuedSeqNext
<1>3. /\ top \in Nat /\ bottom \in Int /\ End = bottom /\ End' = bottom + 1
      /\ top =< bottom /\ UNCHANGED <<top, array, popped, stolen>>
      /\ Get(array, bottom) = pushed /\ pushed \in Tasks /\ pushed \in 0..MaxTasks
  BY DEF PushPublish, DequeTypeOK, DequeInv, EndsLie, RingInv, End
<1>. HIDE DEF q, r
<1>4. /\ Append(q, pushed) \in Seq(0..MaxTasks) /\ Len(Append(q, pushed)) = Len(q) + 1
      /\ \A i \in 1..Len(q) : Append(q, pushed)[i] = q[i]
      /\ Append(q, pushed)[Len(q) + 1] = pushed
  <2>1. q \in Seq(0..MaxTasks) /\ pushed \in 0..MaxTasks
    BY <1>1, <1>3
  <2>. QED  BY <2>1, AppendProperties
<1>5. \A i \in 1..Len(r) : r[i] = Append(q, pushed)[i]
  <2>1. TAKE i \in 1..Len(r)
  <2>2. r[i] = Get(array, top + i - 1) /\ Len(r) = Len(q) + 1 /\ Len(q) = bottom - top
    BY <1>1, <1>2, <1>3
  <2>3. CASE i \in 1..Len(q)
    BY <1>1, <1>4, <2>2, <2>3
  <2>4. CASE i = Len(q) + 1
    <3>1. top + i - 1 = bottom
      BY <1>3, <2>2, <2>4
    <3>. QED  BY <1>3, <1>4, <2>2, <2>4, <3>1
  <2>. QED  BY <2>2, <2>3, <2>4, <1>3
<1>6. r = Append(q, pushed)
  <2>1. Len(r) = Len(Append(q, pushed))
    BY <1>1, <1>2, <1>3, <1>4
  <2>. QED  BY <1>2, <1>4, <1>5, <2>1, SameSeq
<1>. QED  BY <1>3, <1>6 DEF q, r

\* Moving the bottom end down by one, or the top end up by one, past the last task
\* takes the newest.
LEMMA TakesNewest ==
    ASSUME DequeTypeOK, DequeInv, RingInv, (DequeTypeOK /\ DequeInv /\ RingInv)',
           array' = array, top < End,
           \/ top' = top /\ End' = End - 1
           \/ top' = top + 1 /\ End' = End /\ End = top + 1
    PROVE  /\ Queued # <<>> /\ Queued[Len(Queued)] = Get(array, End - 1)
           /\ Queued' = SubSeq(Queued, 1, Len(Queued) - 1)
<1>. DEFINE q == Queued
            r == Queued'
<1>1. /\ q \in Seq(0..MaxTasks) /\ Len(q) = End - top
      /\ \A i \in 1..Len(q) : q[i] = Get(array, top + i - 1)
  BY QueuedSeq
<1>2. /\ r \in Seq(0..MaxTasks) /\ Len(r) = End' - top'
      /\ \A i \in 1..Len(r) : r[i] = Get(array', top' + i - 1)
  BY QueuedSeqNext
<1>3. top \in Nat /\ End \in Int
  BY EndType DEF DequeTypeOK
<1>. HIDE DEF q, r
<1>4. q # <<>> /\ Len(q) \in 1..Len(q) /\ top + Len(q) - 1 = End - 1
  BY <1>1, <1>3
<1>5. q[Len(q)] = Get(array, End - 1)
  BY <1>1, <1>4
<1>6. /\ SubSeq(q, 1, Len(q) - 1) \in Seq(0..MaxTasks)
      /\ Len(SubSeq(q, 1, Len(q) - 1)) = Len(q) - 1
      /\ \A i \in 1..(Len(q) - 1) : SubSeq(q, 1, Len(q) - 1)[i] = q[i]
  <2>. DEFINE m == Len(q) - 1
              u == SubSeq(q, 1, m)
  <2>1. m \in Int /\ m - 1 + 1 = m /\ 1 \in Int /\ \A i \in 1..m : q[i] \in 0..MaxTasks
    <3>1. Len(q) \in Nat /\ \A i \in 1..Len(q) : q[i] \in 0..MaxTasks
      <4>1. q \in Seq(0..MaxTasks)
        BY <1>1
      <4>. QED  BY <4>1, LenProperties, ElementOfSeq
    <3>. QED  BY <3>1
  <2>2. /\ u \in Seq(0..MaxTasks) /\ Len(u) = IF 1 =< m THEN m - 1 + 1 ELSE 0
        /\ \A i \in 1..(m - 1 + 1) : u[i] = q[1 + i - 1]
    <3>. HIDE DEF m
    <3>. QED  BY <2>1, SubSeqProperties
  <2>3. m >= 0
    BY <1>1, <1>3
  <2>4. \A i \in 1..m : u[i] = q[i]
    <3>. HIDE DEF m, u
    <3>1. TAKE i \in 1..m
    <3>2. 1 + i - 1 = i
      BY <2>1
    <3>. QED  BY <2>1, <2>2, <3>2
  <2>. QED  BY <2>1, <2>2, <2>3, <2>4
<1>7. Len(r) = Len(q) - 1
  BY <1>1, <1>2, <1>3
<1>8. \A i \in 1..Len(r) : r[i] = SubSeq(q, 1, Len(q) - 1)[i]
  <2>1. TAKE i \in 1..Len(r)
  <2>2. i \in 1..Len(q) /\ i \in 1..(Len(q) - 1) /\ top' = top
    BY <1>1, <1>3, <1>7
  <2>. QED  BY <1>1, <1>2, <1>6, <2>2
<1>9. r = SubSeq(q, 1, Len(q) - 1)
  BY <1>2, <1>6, <1>7, <1>8, SameSeq
<1>. QED  BY <1>4, <1>5, <1>9 DEF q, r

\* Moving the top end up takes the oldest.
LEMMA TakesOldest ==
    ASSUME DequeTypeOK, DequeInv, RingInv, (DequeTypeOK /\ DequeInv /\ RingInv)',
           array' = array, top < End, top' = top + 1, End' = End
    PROVE  /\ Queued # <<>> /\ Head(Queued) = Get(array, top)
           /\ Queued' = Tail(Queued)
<1>. DEFINE q == Queued
            r == Queued'
<1>1. /\ q \in Seq(0..MaxTasks) /\ Len(q) = End - top
      /\ \A i \in 1..Len(q) : q[i] = Get(array, top + i - 1)
  BY QueuedSeq
<1>2. /\ r \in Seq(0..MaxTasks) /\ Len(r) = End' - top'
      /\ \A i \in 1..Len(r) : r[i] = Get(array', top' + i - 1)
  BY QueuedSeqNext
<1>3. top \in Nat /\ End \in Int
  BY EndType DEF DequeTypeOK
<1>. HIDE DEF q, r
<1>4. q # <<>> /\ 1 \in 1..Len(q) /\ top + 1 - 1 = top
  BY <1>1, <1>3
<1>5. Head(q) = Get(array, top)
  BY <1>1, <1>4
<1>6. /\ Tail(q) \in Seq(0..MaxTasks) /\ Len(Tail(q)) = Len(q) - 1
      /\ \A i \in 1..Len(Tail(q)) : Tail(q)[i] = q[i + 1]
  BY <1>1, <1>4, HeadTailProperties
<1>7. Len(r) = Len(Tail(q))
  BY <1>1, <1>2, <1>3, <1>6
<1>8. \A i \in 1..Len(r) : r[i] = Tail(q)[i]
  <2>1. TAKE i \in 1..Len(r)
  <2>2. i \in 1..Len(Tail(q)) /\ i + 1 \in 1..Len(q) /\ top' + i - 1 = top + (i + 1) - 1
    <3>1. Len(q) \in Nat
      BY <1>1, LenProperties
    <3>2. Len(Tail(q)) = Len(q) - 1 /\ Len(r) = Len(Tail(q))
      BY <1>6, <1>7
    <3>. QED  BY <1>3, <3>1, <3>2
  <2>. QED  BY <1>1, <1>2, <1>6, <2>2
<1>9. r = Tail(q)
  BY <1>2, <1>6, <1>7, <1>8, SameSeq
<1>. QED  BY <1>4, <1>5, <1>9 DEF q, r

LEMMA QueueInit == DequeInit => Abstract!Init
<1>. SUFFICES ASSUME DequeInit PROVE Abstract!Init
  OBVIOUS
<1>1. End - top = 0
  BY DEF DequeInit, End
<1>2. Queued = <<>>
  BY <1>1 DEF Queued
<1>. QED  BY <1>2 DEF DequeInit, Abstract!Init

LEMMA QueueStep ==
    ASSUME DequeTypeOK, DequeInv, RingInv, (DequeTypeOK /\ DequeInv /\ RingInv)', [DequeNext]_dequeVars
    PROVE  [Abstract!Next]_(Abstract!vars)
<1>. USE DequeAssumption DEF thiefVars, ownerVars
<1>ty. /\ top \in Nat /\ bottom \in Int /\ ownerTop \in Nat /\ End \in Int
       /\ thiefPc \in [Thieves -> {"idle", "top", "bottom", "read", "swap"}]
       /\ thiefTop \in [Thieves -> Nat]
  BY EndType DEF DequeTypeOK
<1>stutter. SUFFICES ASSUME Queued' # Queued \/ popped' # popped \/ stolen' # stolen
            PROVE  Abstract!Next
  BY DEF Abstract!vars
<1>1. CASE PushStore
  <2>1. /\ End = bottom /\ End' = End /\ UNCHANGED <<top, popped, stolen>>
    BY <1>1 DEF PushStore, End
  <2>2. \A i \in top..(bottom - 1) : Get(array', i) = Get(array, i)
    BY <1>1, StoreKeeps
  <2>3. Queued' = Queued
    BY <2>1, <2>2, QueuedKept
  <2>. QED  BY <1>stutter, <2>1, <2>3
<1>2. CASE PushReadTop \/ PopClaim \/ PopEmpty \/ PopRestore
  <2>1. End' = End /\ UNCHANGED <<top, array, popped, stolen>>
    BY <1>2, <1>ty DEF PushReadTop, PopClaim, PopEmpty, PopRestore, End, DequeInv, EndsLie
  <2>2. Queued' = Queued
    BY <2>1, QueuedKept
  <2>. QED  BY <1>stutter, <2>1, <2>2
<1>3. CASE PushPublish
  BY <1>3, PublishPushes DEF Abstract!Next, Abstract!Push
<1>4. CASE PopReadTop
  <2>1. UNCHANGED <<top, bottom, array, stolen>> /\ ownerPc = "claimed" /\ End = bottom + 1
    BY <1>4 DEF PopReadTop, End
  <2>2. CASE top < bottom
    <3>1. ownerPc' = "idle" /\ popped' = Append(popped, Get(array, bottom)) /\ End' = bottom
      BY <1>4, <1>ty, <2>1, <2>2 DEF PopReadTop, Uncontested, End
    <3>2. /\ Queued # <<>> /\ Queued[Len(Queued)] = Get(array, End - 1)
          /\ Queued' = SubSeq(Queued, 1, Len(Queued) - 1)
      BY <1>ty, <2>1, <2>2, <3>1, TakesNewest
    <3>3. End - 1 = bottom
      BY <1>ty, <2>1
    <3>. QED  BY <2>1, <3>1, <3>2, <3>3 DEF Abstract!Next, Abstract!Pop
  <2>3. CASE ~(top < bottom)
    <3>1. End' = End /\ popped' = popped
      BY <1>4, <1>ty, <2>1, <2>3 DEF PopReadTop, Uncontested, End, DequeInv, EndsLie
    <3>2. Queued' = Queued
      BY <2>1, <3>1, QueuedKept
    <3>. QED  BY <1>stutter, <2>1, <3>1, <3>2
  <2>. QED  BY <2>2, <2>3
<1>5. CASE PopLast
  <2>1. /\ ownerPc = "last" /\ ownerPc' = "restore" /\ UNCHANGED <<bottom, array, stolen>>
        /\ ownerTop = bottom /\ ownerTop =< top /\ top =< bottom + 1
        /\ End = bottom + 1 /\ End' = top'
    BY <1>5 DEF PopLast, End, DequeInv, EndsLie
  <2>2. CASE top = ownerTop
    <3>1. /\ top' = top + 1 /\ popped' = Append(popped, Get(array, bottom))
          /\ End = top + 1 /\ End' = End /\ End - 1 = bottom /\ top < End
      BY <1>5, <1>ty, <2>1, <2>2 DEF PopLast
    <3>2. /\ Queued # <<>> /\ Queued[Len(Queued)] = Get(array, End - 1)
          /\ Queued' = SubSeq(Queued, 1, Len(Queued) - 1)
      BY <2>1, <3>1, TakesNewest
    <3>. QED  BY <2>1, <3>1, <3>2 DEF Abstract!Next, Abstract!Pop
  <2>3. CASE top # ownerTop
    <3>1. top' = top /\ popped' = popped /\ End' = End
      BY <1>5, <1>ty, <2>1, <2>3 DEF PopLast
    <3>2. Queued' = Queued
      BY <2>1, <3>1, QueuedKept
    <3>. QED  BY <1>stutter, <2>1, <3>1, <3>2
  <2>. QED  BY <2>2, <2>3
<1>6. ASSUME NEW p \in Thieves,
             TrySteal(p) \/ StealReadTop(p) \/ StealReadBottom(p) \/ StealReadTask(p)
      PROVE  Abstract!Next
  <2>1. UNCHANGED <<top, bottom, array, ownerPc, popped, stolen>>
    BY <1>6 DEF TrySteal, StealReadTop, StealReadBottom, StealReadTask
  <2>2. Queued' = Queued
    BY <2>1, QueuedKept DEF End
  <2>. QED  BY <1>stutter, <2>1, <2>2
<1>7. ASSUME NEW p \in Thieves, StealSwap(p) PROVE Abstract!Next
  <2>1. UNCHANGED <<bottom, array, ownerPc, popped>> /\ thiefPc[p] = "swap"
    BY <1>7 DEF StealSwap
  <2>2. CASE top = thiefTop[p]
    <3>1. top' = top + 1 /\ stolen' = Append(stolen, thiefTask[p])
      BY <1>7, <2>2 DEF StealSwap
    <3>2. top < End /\ thiefTask[p] = Get(array, top)
      BY <2>1, <2>2 DEF DequeInv, SwapTakesAQueuedTask, RingInv
    <3>3. CASE End' = End
      <4>1. Queued # <<>> /\ Head(Queued) = Get(array, top) /\ Queued' = Tail(Queued)
        BY <2>1, <3>1, <3>2, <3>3, TakesOldest
      <4>. QED  BY <2>1, <3>1, <3>2, <4>1 DEF Abstract!Next, Abstract!Steal
    <3>4. CASE End' # End
      BY <1>ty, <2>1, <3>1, <3>2, <3>4 DEF End, DequeInv, EndsLie
    <3>. QED  BY <3>3, <3>4
  <2>3. CASE top # thiefTop[p]
    <3>1. UNCHANGED <<top, stolen>>
      BY <1>7, <2>3 DEF StealSwap
    <3>2. Queued' = Queued
      BY <2>1, <3>1, QueuedKept DEF End
    <3>. QED  BY <1>stutter, <2>1, <3>1, <3>2
  <2>. QED  BY <2>2, <2>3
<1>8. CASE UNCHANGED dequeVars
  <2>1. UNCHANGED <<top, bottom, array, ownerPc, popped, stolen>>
    BY <1>8 DEF dequeVars
  <2>2. Queued' = Queued
    BY <2>1, QueuedKept DEF End
  <2>. QED  BY <1>stutter, <2>1, <2>2
<1>. QED
  BY <1>1, <1>2, <1>3, <1>4, <1>5, <1>6, <1>7, <1>8 DEF DequeNext, Owner, Thief

LEMMA DequeInvariant == DequeSpec => [](DequeTypeOK /\ DequeInv /\ RingInv)
<1>1. DequeInit => DequeTypeOK /\ DequeInv /\ RingInv
  BY DequeInitInv, RingInit
<1>2. DequeTypeOK /\ DequeInv /\ RingInv /\ [DequeNext]_dequeVars => (DequeTypeOK /\ DequeInv /\ RingInv)'
  BY DequeTypeStep, DequeInvStep, RingStep
<1>. QED  BY <1>1, <1>2, PTL DEF DequeSpec

(***************************************************************************)
(* Read by the tasks between its ends, the deque of task_deque.py is the   *)
(* abstract queue: publishing a task appends it, a pop that succeeds takes *)
(* the newest, a compare-and-swap that succeeds takes the oldest, and no   *)
(* other step of push, pop or steal is seen.  The ring may grow at any     *)
(* push and every race over the last task may go either way.               *)
(***************************************************************************)
THEOREM DequeIsAQueue == DequeSpec => ImplementsWorkQueue
<1>1. DequeInit => Abstract!Init
  BY QueueInit
<1>2. /\ DequeTypeOK /\ DequeInv /\ RingInv /\ (DequeTypeOK /\ DequeInv /\ RingInv)'
      /\ [DequeNext]_dequeVars
      => [Abstract!Next]_(Abstract!vars)
  BY QueueStep
<1>. QED  BY <1>1, <1>2, DequeInvariant, PTL DEF DequeSpec, ImplementsWorkQueue, Abstract!Spec

-----------------------------------------------------------------------------
(* One split *)

\* Where a range that may be bisected is cut.
LEMMA CutInside ==
    ASSUME NEW r \in Report, CanBisect(r)
    PROVE  /\ Boundary(r) \in Nat /\ r.next + MinSplit =< Boundary(r)
           /\ Boundary(r) + MinSplit =< r.end
<1>1. r.next \in Nat /\ r.end \in Nat /\ r.next =< r.end /\ Remaining(r) >= 2 * MinSplit
  BY DEF Report, CanBisect
<1>2. \A n, k \in Nat : n >= 2 * k => n \div 2 \in Nat /\ k =< n \div 2 /\ n \div 2 + k =< n
  OBVIOUS
<1>3. Remaining(r) \in Nat /\ Remaining(r) = r.end - r.next
  BY <1>1 DEF Remaining
<1>4. MinSplit \in Nat
  BY WorkStealingAssumption
<1>. DEFINE half == Remaining(r) \div 2
<1>5. half \in Nat /\ MinSplit =< half /\ half + MinSplit =< Remaining(r)
  BY <1>1, <1>2, <1>3, <1>4
<1>6. Boundary(r) = r.next + half
  BY DEF Boundary
<1>. HIDE DEF half
<1>. QED  BY <1>1, <1>3, <1>4, <1>5, <1>6

LEMMA HalvesAreReports ==
    ASSUME NEW r \in Report, CanBisect(r)
    PROVE  /\ VictimHalf(r) \in Report /\ ThiefHalf(r) \in Report
           /\ VictimHalf(r).next = r.next /\ VictimHalf(r).end = Boundary(r)
           /\ ThiefHalf(r).next = Boundary(r) /\ ThiefHalf(r).end = r.end
           /\ VictimHalf(r).start = r.start /\ ThiefHalf(r).start = Boundary(r)
<1>1. /\ r.start \in Nat /\ r.next \in Nat /\ r.end \in Nat
      /\ r.start =< r.next /\ r.end =< FileSize
  BY DEF Report
<1>2. /\ Boundary(r) \in Nat /\ r.next =< Boundary(r) /\ Boundary(r) =< r.end
      /\ FileSize \in Nat
  BY <1>1, CutInside, WorkStealingAssumption
<1>3. VictimHalf(r) = [start |-> r.start, end |-> Boundary(r), next |-> r.next]
  BY DEF VictimHalf, Report
<1>4. ThiefHalf(r) = [start |-> Boundary(r), end |-> r.end, next |-> Boundary(r)]
  BY DEF ThiefHalf
<1>. QED  BY <1>1, <1>2, <1>3, <1>4 DEF Report

-----------------------------------------------------------------------------
(* A plan *)

\* Victims are distinct and may be bisected, thieves are distinct and idle, and
\* there is a thief for each victim.
LEMMA PlanPairs ==
    ASSUME StealTypeOK, NEW F \in SUBSET (Pool \ Idle), NEW S \in SUBSET (Pool \ (F \cup Idle)),
           \A w \in F \cup S : CanBisect(range[w]),
           NEW first \in SetToSeqs(F), NEW second \in SetToSeqs(S), NEW thieves \in SetToSeqs(Idle)
    PROVE  LET victims == Victims(first, second)
           IN  /\ \A i \in DOMAIN victims :
                      /\ victims[i] \in Pool \ Idle /\ CanBisect(range[victims[i]])
                      /\ i \in DOMAIN thieves /\ thieves[i] \in Idle
               /\ \A i, j \in DOMAIN victims : victims[i] = victims[j] => i = j
               /\ \A i, j \in DOMAIN victims : thieves[i] = thieves[j] => i = j
<1>. DEFINE n == Cardinality(F)  m == Cardinality(S)  t == Cardinality(Idle)
            wanted == first \o second
            k == IF Len(wanted) < t THEN Len(wanted) ELSE t
<1>1. IsFiniteSet(F) /\ IsFiniteSet(S) /\ IsFiniteSet(Idle)
  BY WorkStealingAssumption, FS_Subset DEF Idle
<1>2. n \in Nat /\ m \in Nat /\ t \in Nat
  BY <1>1, FS_CardinalityType
<1>3. /\ first \in [1..n -> F] /\ second \in [1..m -> S] /\ thieves \in [1..t -> Idle]
      /\ \A i, j \in 1..n : first[i] = first[j] => i = j
      /\ \A i, j \in 1..m : second[i] = second[j] => i = j
      /\ \A i, j \in 1..t : thieves[i] = thieves[j] => i = j
  BY DEF SetToSeqs
<1>. HIDE DEF n, m, t
<1>4. first \in Seq(Pool) /\ Len(first) = n /\ second \in Seq(Pool) /\ Len(second) = m
  BY <1>2, <1>3
<1>5. /\ wanted \in Seq(Pool) /\ Len(wanted) = n + m
      /\ \A i \in 1..n : wanted[i] = first[i]
      /\ \A i \in (n + 1)..(n + m) : wanted[i] = second[i - n]
  BY <1>2, <1>4
<1>. HIDE DEF wanted
<1>6. k \in Nat /\ k =< n + m /\ k =< t
  BY <1>2, <1>5
<1>7. Victims(first, second) = SubSeq(wanted, 1, k)
  BY DEF Victims, wanted, t
<1>. HIDE DEF k
<1>8. /\ DOMAIN SubSeq(wanted, 1, k) = 1..k
      /\ \A i \in 1..k : SubSeq(wanted, 1, k)[i] = wanted[i]
  BY <1>2, <1>5, <1>6
<1>9. \A i \in 1..(n + m) : wanted[i] \in F \cup S
  <2>. SUFFICES ASSUME NEW i \in 1..(n + m) PROVE wanted[i] \in F \cup S
    OBVIOUS
  <2>1. CASE i \in 1..n
    BY <1>3, <1>5, <2>1
  <2>2. CASE i \notin 1..n
    <3>1. i - n \in 1..m /\ i \in (n + 1)..(n + m)
      BY <1>2, <2>2
    <3>. QED  BY <1>3, <1>5, <3>1
  <2>. QED  BY <2>1, <2>2
<1>10. \A i, j \in 1..(n + m) : wanted[i] = wanted[j] => i = j
  <2>. SUFFICES ASSUME NEW i \in 1..(n + m), NEW j \in 1..(n + m), wanted[i] = wanted[j]
                PROVE  i = j
    OBVIOUS
  <2>0. \A l \in 1..(n + m) :
            \/ l \in 1..n /\ wanted[l] = first[l] /\ wanted[l] \in F
            \/ l - n \in 1..m /\ wanted[l] = second[l - n] /\ wanted[l] \in S
    <3>. SUFFICES ASSUME NEW l \in 1..(n + m), l \notin 1..n
                  PROVE  l - n \in 1..m /\ wanted[l] = second[l - n] /\ wanted[l] \in S
      BY <1>3, <1>5
    <3>1. l - n \in 1..m /\ l \in (n + 1)..(n + m)
      BY <1>2
    <3>. QED  BY <1>3, <1>5, <3>1
  <2>1. F \cap S = {}
    OBVIOUS
  <2>2. CASE i \in 1..n /\ j \in 1..n
    BY <1>3, <1>5, <2>2
  <2>3. CASE i - n \in 1..m /\ j - n \in 1..m /\ wanted[i] = second[i - n]
             /\ wanted[j] = second[j - n]
    <3>1. i - n = j - n
      BY <1>3, <2>3
    <3>. QED  BY <1>2, <3>1
  <2>. QED  BY <2>0, <2>1, <2>2, <2>3
<1>. DEFINE victims == Victims(first, second)
<1>11. /\ DOMAIN victims = 1..k
       /\ \A i \in 1..k : i \in 1..(n + m) /\ i \in 1..t /\ victims[i] = wanted[i]
  BY <1>2, <1>6, <1>7, <1>8
<1>. HIDE DEF victims
<1>12. \A i \in DOMAIN victims :
           /\ victims[i] \in Pool \ Idle /\ CanBisect(range[victims[i]])
           /\ i \in DOMAIN thieves /\ thieves[i] \in Idle
  BY <1>3, <1>9, <1>11
<1>13. \A i, j \in DOMAIN victims : victims[i] = victims[j] => i = j
  BY <1>10, <1>11
<1>14. \A i, j \in DOMAIN victims : thieves[i] = thieves[j] => i = j
  BY <1>3, <1>11
<1>. QED  BY <1>12, <1>13, <1>14 DEF victims

-----------------------------------------------------------------------------
(* Epochs and bytes *)

\* What a worker has of its range after a plan: a victim the near half, its
\* thief the far half, everybody else what it had.
LEMMA Enacted ==
    ASSUME StealTypeOK, NEW victims, NEW thieves, Enact(victims, thieves),
           \A i \in DOMAIN victims : /\ victims[i] \in Pool \ Idle /\ CanBisect(range[victims[i]])
                                     /\ thieves[i] \in Idle,
           \A i, j \in DOMAIN victims : victims[i] = victims[j] => i = j,
           \A i, j \in DOMAIN victims : thieves[i] = thieves[j] => i = j
    PROVE  /\ \A i \in DOMAIN victims :
                  /\ range'[victims[i]] = VictimHalf(range[victims[i]])
                  /\ range'[thieves[i]] = ThiefHalf(range[victims[i]])
           /\ \A w \in Pool :
                  \/ range'[w] = range[w]
                  \/ \E i \in DOMAIN victims : w = victims[i] \/ w = thieves[i]
           /\ range' \in [Pool -> Report]
<1>1. Idle \subseteq Pool
  BY DEF Idle
<1>2. ASSUME NEW i \in DOMAIN victims PROVE range'[victims[i]] = VictimHalf(range[victims[i]])
  BY <1>2 DEF Enact
<1>3. ASSUME NEW i \in DOMAIN victims PROVE range'[thieves[i]] = ThiefHalf(range[victims[i]])
  <2>1. thieves[i] \in Pool /\ ~(\E j \in DOMAIN victims : victims[j] = thieves[i])
    BY <1>1
  <2>2. (CHOOSE j \in DOMAIN victims : thieves[j] = thieves[i]) = i
    OBVIOUS
  <2>. QED  BY <2>1, <2>2 DEF Enact
<1>4. ASSUME NEW w \in Pool, ~(\E i \in DOMAIN victims : w = victims[i] \/ w = thieves[i])
      PROVE  range'[w] = range[w]
  BY <1>4 DEF Enact
<1>5. ASSUME NEW w \in Pool PROVE range'[w] \in Report
  <2>0. \A v \in Pool : range[v] \in Report
    BY DEF StealTypeOK
  <2>1. ASSUME NEW i \in DOMAIN victims, w = victims[i] PROVE range'[w] \in Report
    <3>1. range[victims[i]] \in Report /\ CanBisect(range[victims[i]])
      BY <2>0
    <3>. QED  BY <1>2, <2>1, <3>1, HalvesAreReports
  <2>2. ASSUME NEW i \in DOMAIN victims, w = thieves[i] PROVE range'[w] \in Report
    <3>1. range[victims[i]] \in Report /\ CanBisect(range[victims[i]])
      BY <2>0
    <3>. QED  BY <1>3, <2>2, <3>1, HalvesAreReports
  <2>. QED  BY <1>4, <2>0, <2>1, <2>2
<1>6. \E f : range' = [w \in Pool |-> f[w]]
  <2>1. range' = [w \in Pool |-> range'[w]]
    BY DEF Enact
  <2>. QED  BY <2>1
<1>7. range' \in [Pool -> Report]
  BY <1>5, <1>6
<1>. QED  BY <1>2, <1>3, <1>4, <1>7

\* An epoch that changes anything enacts such a plan.
LEMMA EpochEnacts ==
    ASSUME StealTypeOK, Epoch
    PROVE  \E victims, thieves :
               /\ Enact(victims, thieves)
               /\ \A i \in DOMAIN victims :
                      /\ victims[i] \in Pool \ Idle /\ CanBisect(range[victims[i]])
                      /\ thieves[i] \in Idle
               /\ \A i, j \in DOMAIN victims : victims[i] = victims[j] => i = j
               /\ \A i, j \in DOMAIN victims : thieves[i] = thieves[j] => i = j
<1>1. PICK speed \in Speeds :
        LET flagged == {w \in Pool \ Idle : IsStraggler(speed, w) /\ CanBisect(range[w])}
        IN \E first \in SetToSeqs(flagged), second \in SetToSeqs(Spare(flagged)) :
              \E thieves \in SetToSeqs(Idle) : Enact(Victims(first, second), thieves)
  BY DEF Epoch
<1>. DEFINE flagged == {w \in Pool \ Idle : IsStraggler(speed, w) /\ CanBisect(range[w])}
<1>2. PICK first \in SetToSeqs(flagged), second \in SetToSeqs(Spare(flagged)),
           thieves \in SetToSeqs(Idle) : Enact(Victims(first, second), thieves)
  BY <1>1
<1>3. /\ flagged \in SUBSET (Pool \ Idle)
      /\ Spare(flagged) \in SUBSET (Pool \ (flagged \cup Idle))
      /\ \A w \in flagged \cup Spare(flagged) : CanBisect(range[w])
  BY DEF Spare
<1>. HIDE DEF flagged
<1>. QED  BY <1>2, <1>3, PlanPairs

LEMMA StealTypeStep == StealTypeOK /\ [StealNext]_stealVars => StealTypeOK'
<1>. SUFFICES ASSUME StealTypeOK, [StealNext]_stealVars PROVE StealTypeOK'
  OBVIOUS
<1>1. CASE Epoch
  <2>1. range' \in [Pool -> Report]
    BY <1>1, EpochEnacts, Enacted
  <2>2. UNCHANGED received
    BY <1>1 DEF Epoch
  <2>. QED  BY <2>1, <2>2 DEF StealTypeOK
<1>2. ASSUME NEW w \in Pool, Advance(w) PROVE StealTypeOK'
  <2>1. range[w] \in Report /\ range[w].next # range[w].end
    BY <1>2 DEF Advance, IsComplete, StealTypeOK
  <2>2. [range[w] EXCEPT !.next = @ + 1] \in Report
    BY <2>1 DEF Report
  <2>3. range' = [range EXCEPT ![w] = [range[w] EXCEPT !.next = @ + 1]]
    BY <1>2 DEF Advance
  <2>4. range' \in [Pool -> Report]
    BY <2>2, <2>3 DEF StealTypeOK
  <2>5. received' \in [Bytes -> Nat]
    <3>1. received \in [Bytes -> Nat]
      BY DEF StealTypeOK
    <3>2. received' = [received EXCEPT ![range[w].next] = @ + 1]
      BY <1>2 DEF Advance
    <3>. DEFINE b == range[w].next
    <3>. HIDE DEF b
    <3>3. ASSUME b \in Bytes PROVE received' \in [Bytes -> Nat]
      BY <3>1, <3>2, <3>3 DEF b
    <3>4. ASSUME b \notin Bytes PROVE received' = received
      BY <3>1, <3>2, <3>4 DEF b
    <3>. QED  BY <3>1, <3>3, <3>4
  <2>. QED  BY <2>4, <2>5 DEF StealTypeOK
<1>3. CASE UNCHANGED stealVars
  BY <1>3 DEF stealVars, StealTypeOK
<1>. QED  BY <1>1, <1>2, <1>3 DEF StealNext

LEMMA StealTypeInit == StealInit => StealTypeOK
<1>. SUFFICES ASSUME StealInit PROVE StealTypeOK
  OBVIOUS
<1>1. FileSize \in Nat
  BY WorkStealingAssumption
<1>2. range \in [Pool -> Report]
  <2>1. PICK w \in Pool :
            range = [v \in Pool |-> [start |-> 0, next |-> 0,
                                    end |-> IF v = w THEN FileSize ELSE 0]]
    BY DEF StealInit
  <2>2. ASSUME NEW n \in Nat, n =< FileSize
        PROVE  [start |-> 0, next |-> 0, end |-> n] \in Report
    BY <2>2 DEF Report
  <2>3. \A v \in Pool :
            [start |-> 0, next |-> 0, end |-> IF v = w THEN FileSize ELSE 0] \in Report
    BY <1>1, <2>2
  <2>. QED  BY <2>1, <2>3
<1>3. received \in [Bytes -> Nat]
  BY DEF StealInit
<1>. QED  BY <1>2, <1>3 DEF StealTypeOK

\* However often ranges are split, each is a range of the file with its next
\* byte within it.
THEOREM StealTypeCorrect == StealSpec => []StealTypeOK
<1>. QED  BY StealTypeInit, StealTypeStep, PTL DEF StealSpec

\* For every minimum and every range a coordinator may split: the cut loses and
\* repeats no byte, and no side gets less than the minimum.
THEOREM EverySplitIsSound == StealSpec => []SplitsAreSound
<1>1. StealTypeOK => SplitsAreSound
  <2>. SUFFICES ASSUME StealTypeOK, NEW w \in Pool, CanBisect(range[w])
                PROVE  /\ range[w].next < Boundary(range[w])
                       /\ Boundary(range[w]) < range[w].end
                       /\ Covers(range[w])
                       /\ Remaining(VictimHalf(range[w])) >= MinSplit
                       /\ Remaining(ThiefHalf(range[w])) >= MinSplit
    BY DEF SplitsAreSound
  <2>. DEFINE r == range[w]
  <2>1. r \in Report /\ CanBisect(r)
    BY DEF StealTypeOK
  <2>2. r.start \in Nat /\ r.next \in Nat /\ r.end \in Nat /\ r.start =< r.next
        /\ MinSplit \in Nat \ {0}
    BY <2>1, WorkStealingAssumption DEF Report
  <2>. HIDE DEF r
  <2>3. /\ Boundary(r) \in Nat /\ r.next + MinSplit =< Boundary(r)
        /\ Boundary(r) + MinSplit =< r.end
    BY <2>1, CutInside
  <2>4. /\ VictimHalf(r).next = r.next /\ VictimHalf(r).end = Boundary(r)
        /\ ThiefHalf(r).next = Boundary(r) /\ ThiefHalf(r).end = r.end
        /\ ThiefHalf(r).start = Boundary(r)
    BY <2>1, HalvesAreReports
  <2>5. /\ r.next < Boundary(r) /\ Boundary(r) < r.end
        /\ Remaining(VictimHalf(r)) >= MinSplit /\ Remaining(ThiefHalf(r)) >= MinSplit
    BY <2>2, <2>3, <2>4 DEF Remaining
  <2>6. Covers(r)
    BY <2>2, <2>3, <2>4 DEF Covers, Remaining
  <2>. QED  BY <2>5, <2>6 DEF r
<1>. QED  BY <1>1, StealTypeCorrect, PTL

-----------------------------------------------------------------------------
(* Every byte once *)

\* Of one byte.
Once(b) ==
    \/ received[b] = 1 /\ \A w \in Pool : ~Holds(w, b)
    \/ received[b] = 0 /\ \E w \in Pool : Holds(w, b) /\ \A v \in Pool \ {w} : ~Holds(v, b)

LEMMA OnceEpoch ==
    ASSUME StealTypeOK, NEW b \in Bytes, Once(b), Epoch
    PROVE  Once(b)'
<1>1. PICK victims, thieves :
               /\ Enact(victims, thieves)
               /\ \A i \in DOMAIN victims :
                      /\ victims[i] \in Pool \ Idle /\ CanBisect(range[victims[i]])
                      /\ thieves[i] \in Idle
               /\ \A i, j \in DOMAIN victims : victims[i] = victims[j] => i = j
               /\ \A i, j \in DOMAIN victims : thieves[i] = thieves[j] => i = j
  BY EpochEnacts
<1>2. /\ \A i \in DOMAIN victims :
             /\ range'[victims[i]] = VictimHalf(range[victims[i]])
             /\ range'[thieves[i]] = ThiefHalf(range[victims[i]])
      /\ \A w \in Pool :
             \/ range'[w] = range[w]
             \/ \E i \in DOMAIN victims : w = victims[i] \/ w = thieves[i]
  BY <1>1, Enacted
<1>3. b \in Nat /\ \A w \in Pool : range[w] \in Report /\ range[w].next \in Nat
                                   /\ range[w].end \in Nat
  BY DEF StealTypeOK, Bytes, Report
<1>4. received'[b] = received[b]
  BY DEF Epoch
<1>5. \A w \in Idle : w \in Pool /\ ~Holds(w, b)
  BY <1>3 DEF Idle, IsComplete, Holds
<1>6. ASSUME NEW i \in DOMAIN victims
      PROVE  /\ Boundary(range[victims[i]]) \in Nat
             /\ Holds(victims[i], b)' <=> Holds(victims[i], b) /\ b < Boundary(range[victims[i]])
             /\ Holds(thieves[i], b)' <=> Holds(victims[i], b) /\ ~(b < Boundary(range[victims[i]]))
  <2>. DEFINE r == range[victims[i]]
  <2>1. r \in Report /\ CanBisect(r) /\ r.next \in Nat /\ r.end \in Nat
    BY <1>1, <1>3
  <2>2. /\ range'[victims[i]] = VictimHalf(r) /\ range'[thieves[i]] = ThiefHalf(r)
    BY <1>2
  <2>3. Holds(victims[i], b) <=> r.next =< b /\ b < r.end
    BY DEF Holds
  <2>4. MinSplit \in Nat
    BY WorkStealingAssumption
  <2>5. Holds(victims[i], b)' <=> VictimHalf(r).next =< b /\ b < VictimHalf(r).end
    BY <2>2 DEF Holds
  <2>6. Holds(thieves[i], b)' <=> ThiefHalf(r).next =< b /\ b < ThiefHalf(r).end
    BY <2>2 DEF Holds
  <2>. HIDE DEF r
  <2>7. /\ Boundary(r) \in Nat /\ r.next =< Boundary(r) /\ Boundary(r) =< r.end
    BY <2>1, <2>4, CutInside
  <2>8. /\ VictimHalf(r).next = r.next /\ VictimHalf(r).end = Boundary(r)
        /\ ThiefHalf(r).next = Boundary(r) /\ ThiefHalf(r).end = r.end
    BY <2>1, HalvesAreReports
  <2>9. Holds(victims[i], b)' <=> Holds(victims[i], b) /\ b < Boundary(r)
    BY <1>3, <2>1, <2>3, <2>5, <2>7, <2>8
  <2>10. Holds(thieves[i], b)' <=> Holds(victims[i], b) /\ ~(b < Boundary(r))
    BY <1>3, <2>1, <2>3, <2>6, <2>7, <2>8
  <2>. QED  BY <2>7, <2>9, <2>10 DEF r
<1>7. \A w \in Pool :
          \/ Holds(w, b)' <=> Holds(w, b)
          \/ \E i \in DOMAIN victims : w = victims[i] \/ w = thieves[i]
  BY <1>2 DEF Holds
<1>8. CASE received[b] = 1 /\ \A w \in Pool : ~Holds(w, b)
  <2>1. \A w \in Pool : ~Holds(w, b)'
    BY <1>1, <1>6, <1>7, <1>8
  <2>. QED  BY <1>4, <1>8, <2>1 DEF Once
<1>9. ASSUME received[b] = 0, NEW w \in Pool, Holds(w, b), \A v \in Pool \ {w} : ~Holds(v, b)
      PROVE  Once(b)'
  <2>1. ASSUME NEW i \in DOMAIN victims, victims[i] = w, b < Boundary(range[w])
        PROVE  Holds(w, b)' /\ \A v \in Pool \ {w} : ~Holds(v, b)'
    <3>1. Holds(w, b)'
      BY <1>6, <1>9, <2>1
    <3>2. \A v \in Pool \ {w} : ~Holds(v, b)'
      BY <1>1, <1>6, <1>7, <1>9, <2>1
    <3>. QED  BY <3>1, <3>2
  <2>2. ASSUME NEW i \in DOMAIN victims, victims[i] = w, ~(b < Boundary(range[w]))
        PROVE  Holds(thieves[i], b)' /\ \A v \in Pool \ {thieves[i]} : ~Holds(v, b)'
    <3>1. Holds(thieves[i], b)'
      BY <1>6, <1>9, <2>2
    <3>2. \A v \in Pool \ {thieves[i]} : ~Holds(v, b)'
      BY <1>1, <1>6, <1>7, <1>9, <2>2
    <3>. QED  BY <3>1, <3>2
  <2>3. ASSUME ~(\E i \in DOMAIN victims : victims[i] = w)
        PROVE  Holds(w, b)' /\ \A v \in Pool \ {w} : ~Holds(v, b)'
    <3>1. Holds(w, b)'
      BY <1>1, <1>5, <1>7, <1>9, <2>3
    <3>2. \A v \in Pool \ {w} : ~Holds(v, b)'
      BY <1>1, <1>6, <1>7, <1>9, <2>3
    <3>. QED  BY <3>1, <3>2
  <2>4. received'[b] = 0
    BY <1>4, <1>9
  <2>5. ASSUME NEW x \in Pool, Holds(x, b)', \A v \in Pool \ {x} : ~Holds(v, b)'
        PROVE  Once(b)'
    BY <2>4, <2>5 DEF Once
  <2>6. \A i \in DOMAIN victims : thieves[i] \in Pool
    BY <1>1, <1>5
  <2>. QED  BY <2>1, <2>2, <2>3, <2>5, <2>6
<1>. QED  BY <1>8, <1>9 DEF Once

LEMMA OnceAdvance ==
    ASSUME StealTypeOK, NEW b \in Bytes, Once(b), NEW x \in Pool, Advance(x)
    PROVE  Once(b)'
<1>1. /\ b \in Nat
      /\ \A w \in Pool : range[w] \in Report /\ range[w].next \in Nat /\ range[w].end \in Nat
  BY DEF StealTypeOK, Bytes, Report
<1>2. /\ range[x].next < range[x].end
      /\ range'[x].next = range[x].next + 1 /\ range'[x].end = range[x].end
      /\ \A w \in Pool \ {x} : range'[w] = range[w]
  <2>1. range[x] \in Report /\ range[x].next # range[x].end
    BY DEF Advance, IsComplete, StealTypeOK
  <2>2. range' = [range EXCEPT ![x] = [range[x] EXCEPT !.next = @ + 1]]
    BY DEF Advance
  <2>3. range'[x] = [range[x] EXCEPT !.next = @ + 1]
    BY <2>2 DEF StealTypeOK
  <2>4. range'[x].next = range[x].next + 1 /\ range'[x].end = range[x].end
    BY <2>1, <2>3 DEF Report
  <2>5. range[x].next < range[x].end
    BY <1>1, <2>1 DEF Report
  <2>6. \A w \in Pool \ {x} : range'[w] = range[w]
    BY <2>2 DEF StealTypeOK
  <2>. QED  BY <2>4, <2>5, <2>6
<1>3. \A w \in Pool \ {x} : Holds(w, b)' <=> Holds(w, b)
  BY <1>2 DEF Holds
<1>4. Holds(x, b)' <=> Holds(x, b) /\ b # range[x].next
  BY <1>1, <1>2 DEF Holds
<1>5. received' = [received EXCEPT ![range[x].next] = @ + 1]
  BY DEF Advance
<1>6. CASE b = range[x].next
  <2>1. Holds(x, b)
    BY <1>1, <1>2, <1>6 DEF Holds
  <2>2. received[b] = 0 /\ \A v \in Pool \ {x} : ~Holds(v, b)
    BY <2>1 DEF Once
  <2>3. received'[b] = 1
    BY <1>5, <1>6, <2>2 DEF StealTypeOK
  <2>4. \A v \in Pool : ~Holds(v, b)'
    BY <1>3, <1>4, <1>6, <2>2
  <2>. QED  BY <2>3, <2>4 DEF Once
<1>7. CASE b # range[x].next
  <2>1. received'[b] = received[b]
    BY <1>5, <1>7 DEF StealTypeOK
  <2>2. \A w \in Pool : Holds(w, b)' <=> Holds(w, b)
    BY <1>3, <1>4, <1>7
  <2>. QED  BY <2>1, <2>2 DEF Once
<1>. QED  BY <1>6, <1>7

\* However many workers, epochs and splits: no byte is received twice, and none
\* is left to nobody.
THEOREM BytesAreReceivedOnce == StealSpec => []EveryByteOnce
<1>1. EveryByteOnce <=> \A b \in Bytes : Once(b)
  BY DEF EveryByteOnce, Once
<1>2. StealInit => EveryByteOnce
  <2>. SUFFICES ASSUME StealInit, NEW b \in Bytes PROVE Once(b)
    BY <1>1
  <2>1. PICK w \in Pool :
            range = [v \in Pool |-> [start |-> 0, next |-> 0,
                                    end |-> IF v = w THEN FileSize ELSE 0]]
    BY DEF StealInit
  <2>2. received[b] = 0 /\ b \in Nat /\ b < FileSize
    BY WorkStealingAssumption DEF StealInit, Bytes
  <2>3. Holds(w, b)
    BY <2>1, <2>2, WorkStealingAssumption DEF Holds
  <2>4. \A v \in Pool \ {w} : ~Holds(v, b)
    BY <2>1, <2>2 DEF Holds
  <2>. QED  BY <2>2, <2>3, <2>4 DEF Once
<1>3. StealTypeOK /\ EveryByteOnce /\ [StealNext]_stealVars => EveryByteOnce'
  <2>. SUFFICES ASSUME StealTypeOK, EveryByteOnce, [StealNext]_stealVars, NEW b \in Bytes
                PROVE  Once(b)'
    BY DEF EveryByteOnce, Once, Holds
  <2>1. Once(b)
    BY <1>1
  <2>2. CASE UNCHANGED stealVars
    BY <2>1, <2>2 DEF stealVars, Once, Holds
  <2>. QED  BY <2>1, <2>2, OnceEpoch, OnceAdvance DEF StealNext
<1>. QED  BY <1>2, <1>3, StealTypeCorrect, PTL DEF StealSpec

-----------------------------------------------------------------------------
(* The parts together *)

\* The store of the run, with what is proved of every store.
Store == INSTANCE StateStoreProofs WITH
    Savers <- {"saver"}, MaxSaves <- 4, MaxFaults <- 2, BackupEnabled <- TRUE,
    ReplaceFails <- TRUE, DirSyncFails <- TRUE, DiskErrors <- TRUE, PowerLoss <- FALSE

\* It is a store those proofs are about, on a file system that may refuse to replace.
LEMMA StoreIsInPlace ==
    /\ 4 \in Nat /\ 2 \in Nat
    /\ {TRUE, FALSE} \subseteq BOOLEAN
    /\ \A s, t \in {"saver"} : s = t
    /\ Store!InPlace
BY DEF Store!InPlace

\* Both are one state machine.
LEMMA StoreInit == InPlaceStore!Init => Store!Init
BY DEF InPlaceStore!Absent, Store!Absent, InPlaceStore!Init, Store!Init

\* So each step of one is a step of the other.
LEMMA StoreStep ==
    [InPlaceStore!Next]_(InPlaceStore!vars) => [Store!Next]_(Store!vars)
<1>1. InPlaceStore!Next => Store!Next
  BY DEF InPlaceStore!Absent, Store!Absent, InPlaceStore!Torn, Store!Torn, InPlaceStore!Versions,
      Store!Versions, InPlaceStore!AllIdle, Store!AllIdle, InPlaceStore!Step, Store!Step,
      InPlaceStore!Fault, Store!Fault, InPlaceStore!DiskError, Store!DiskError,
      InPlaceStore!fileVars, Store!fileVars, InPlaceStore!history, Store!history,
      InPlaceStore!BackupWanted, Store!BackupWanted, InPlaceStore!Copying, Store!Copying,
      InPlaceStore!Serialize, Store!Serialize, InPlaceStore!WriteTemp, Store!WriteTemp,
      InPlaceStore!SkipCopy, Store!SkipCopy, InPlaceStore!StartCopy, Store!StartCopy,
      InPlaceStore!EndCopy, Store!EndCopy, InPlaceStore!Replace, Store!Replace,
      InPlaceStore!SyncDir, Store!SyncDir, InPlaceStore!Abort, Store!Abort,
      InPlaceStore!DeletePrimary, Store!DeletePrimary, InPlaceStore!DeleteBackup,
      Store!DeleteBackup, InPlaceStore!ReplaceRefused, Store!ReplaceRefused,
      InPlaceStore!WriteInPlace, Store!WriteInPlace, InPlaceStore!Recover, Store!Recover,
      InPlaceStore!Restart, Store!Restart, InPlaceStore!Kill, Store!Kill,
      InPlaceStore!LosePower, Store!LosePower, InPlaceStore!Next, Store!Next
<1>2. UNCHANGED InPlaceStore!vars => UNCHANGED Store!vars
  BY DEF InPlaceStore!fileVars, Store!fileVars, InPlaceStore!history, Store!history,
      InPlaceStore!vars, Store!vars
<1>. QED  BY <1>1, <1>2

\* What is proved of every such store holds of this one.
LEMMA StoreIsResumable == InPlaceStore!Spec => []ResumableInPlace
<1>1. Store!Spec => []Store!ResumableInPlace
  BY StoreIsInPlace, Store!ResumableAfterOneFault
<1>2. InPlaceStore!Spec => Store!Spec
  BY StoreInit, StoreStep, PTL DEF InPlaceStore!Spec, Store!Spec
<1>3. Store!ResumableInPlace => ResumableInPlace
  BY DEF InPlaceStore!Versions, Store!Versions, InPlaceStore!AllIdle, Store!AllIdle,
      InPlaceStore!LoadResult, Store!LoadResult, InPlaceStore!AlwaysResumable,
      Store!AlwaysResumable, InPlaceStore!ResumableInPlace, Store!ResumableInPlace,
      ResumableInPlace
<1>. QED  BY <1>1, <1>2, <1>3, PTL

\* The variables of all parts.
partsVars == <<part, dequeVars, stealVars, rateVars, fetchVars, merkleVars, asmVars,
               sparseVars, telemetryVars, tunnelVars, networkVars, storeVars>>

\* A step of the parts is a step of one of them, and for each of the others a stutter.
LEMMA StepOfOnePart ==
    ASSUME [Next]_partsVars
    PROVE  /\ [DequeNext]_dequeVars
           /\ [StealNext]_stealVars
           /\ [RateNext]_rateVars
           /\ [FetchNext]_fetchVars
           /\ [MerkleNext]_merkleVars
           /\ [AsmNext]_asmVars
           /\ [SparseNext]_sparseVars
           /\ [TelemetryNext]_telemetryVars
           /\ [TunnelNext]_tunnelVars
           /\ [NetworkNext]_networkVars
           /\ [InPlaceStore!Next]_(InPlaceStore!vars)
<1>1. UNCHANGED storeVars => UNCHANGED InPlaceStore!vars
  BY DEF storeVars, InPlaceStore!vars, InPlaceStore!fileVars, InPlaceStore!history
<1>2. CASE UNCHANGED partsVars
  BY <1>1, <1>2 DEF partsVars
<1>3. CASE Next
  BY <1>1, <1>3 DEF Next
<1>. QED  BY <1>2, <1>3

\* So the parts run as each would by itself.
LEMMA EachPartRuns ==
    Spec => /\ DequeSpec
            /\ StealSpec
            /\ RateSpec
            /\ FetchSpec
            /\ MerkleSpec
            /\ AsmSpec
            /\ SparseSpec
            /\ TelemetrySpec
            /\ TunnelSpec
            /\ NetworkSpec
            /\ InPlaceStore!Spec
<1>1. Init => /\ DequeInit
              /\ StealInit
              /\ RateInit
              /\ FetchInit
              /\ MerkleInit
              /\ AsmInit
              /\ SparseInit
              /\ TelemetryInit
              /\ TunnelInit
              /\ NetworkInit
              /\ InPlaceStore!Init
  BY DEF Init
<1>2. Spec => Init /\ [][Next]_partsVars
  BY DEF Spec, partsVars
<1>. QED
  BY <1>1, <1>2, StepOfOnePart, PTL
     DEF DequeSpec, StealSpec, RateSpec, FetchSpec, MerkleSpec, AsmSpec, SparseSpec, TelemetrySpec,
         TunnelSpec, NetworkSpec, InPlaceStore!Spec

\* In a transfer whose parts run side by side, the deque, the ranges, the bucket, the
\* fetched chunk, the staged files and the part file keep their types.
THEOREM PartsTypeCorrect == Spec => []PartsTypeOK
<1>1. DequeTypeOK /\ StealTypeOK /\ RateTypeOK /\ FetchTypeOK /\ AsmTypeOK /\ SparseTypeOK
          => PartsTypeOK
  BY DEF PartsTypeOK
<1>. QED
  BY <1>1, EachPartRuns, DequeTypeCorrect, StealTypeCorrect, RateTypeCorrect, FetchTypeCorrect,
     AssemblyTypeCorrect, SparseTypeCorrect, PTL

\* Where save() has to write the state file in place, load() finds a version that was
\* saved after one failed write or kill at any point of a save, whatever the deque, the
\* limiter, the writers and the other parts of the transfer do meanwhile.
THEOREM PartsStayResumable == Spec => []ResumableInPlace
BY EachPartRuns, StoreIsResumable, PTL

\* What each part promises by itself it keeps while all parts run: thieves take queued
\* tasks, ranges are received once, grants are earned, retries trust verified units,
\* the manifest's checks tell the truth, the destination is whole or absent, writes are
\* whole, scrapes are consistent, tunnels end at the payload, chunks are sized on
\* evidence.
THEOREM PartsKeepTheirPromises ==
    Spec => /\ []SwapTakesAQueuedTask /\ ImplementsWorkQueue
            /\ []EveryByteOnce /\ []SplitsAreSound
            /\ []GrantsAreEarned /\ []WakesWhenEarned
            /\ []PrefixIsVerified /\ []DigestIsOfTheChunk /\ []ChecksSayTheTruth
            /\ []AssemblyIsAtomic /\ []WritesLandWhole
            /\ []ScrapeIsConsistent /\ []TunnelStartsAtPayload /\ []SizingRestsOnEvidence
BY EachPartRuns, ThievesTakeQueuedTasks, DequeIsAQueue, BytesAreReceivedOnce, EverySplitIsSound,
   EveryGrantIsEarned, SleepersWakeInTime, RetriesTrustVerifiedUnits, DigestsAreOfTheChunk,
   ChecksTrue, DestinationIsAllOrNothing, WritesLand, ScrapesConsistent, TunnelsStartAtPayload,
   SizingOnEvidence, PTL

====================================================================================
