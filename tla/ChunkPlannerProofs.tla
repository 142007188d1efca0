------------------------- MODULE ChunkPlannerProofs -------------------------
(***************************************************************************)
(* Theorems about ChunkPlanner for every file, every bound on the size of  *)
(* a chunk, every number of workers and of sessions.                       *)
(***************************************************************************)
EXTENDS ChunkPlanner, TLAPS, SequenceTheorems

-----------------------------------------------------------------------------
(* The inductive invariant *)

Proper(chunks) == \A i \in DOMAIN chunks : chunks[i].start =< chunks[i].end

Ascending(chunks) ==
    \A i, j \in DOMAIN chunks : i < j => chunks[i].end < chunks[j].start

EndsBefore(chunks, b) == \A i \in DOMAIN chunks : chunks[i].end < b

\* Chunks are in the order of the file.
InFileOrder ==
    /\ Proper(plan) /\ Ascending(plan)
    /\ Proper(saved) /\ Ascending(saved)

\* The cursor is behind every chunk, or will be when advance_to is done.
CursorBehind ==
    /\ phase = "planning" \/ (phase = "running" /\ adaptive) => EndsBefore(plan, offset)
    /\ phase = "advancing" => EndsBefore(plan, target) /\ ~fresh

\* Indices of a session of download() are below the planner's.
FreshIndices ==
    fresh =>
        /\ \A i \in DOMAIN plan : plan[i].index < index
        /\ \A i, j \in DOMAIN plan : i # j => plan[i].index # plan[j].index

\* A session of download() has planned what is before the cursor, and without
\* adaptive sizing the whole file before it runs.
FreshCover ==
    fresh =>
        /\ \A b \in 0..(offset - 1) : Covered(b)
        /\ phase = "running" /\ ~adaptive => offset = FileSize

\* The workers of such a session, of which there is at least one, leave an
\* unplanned tail only to a shutdown.
FreshWorkers ==
    fresh =>
        /\ phase = "planning" /\ plan = <<>> => offset = 0 /\ left = PlanBatch
        /\ phase = "running" => plan # <<>>
        /\ phase = "planning" /\ visible > 0 => working
        /\ phase \in {"running", "delivered"} /\ ~working =>
                offset = FileSize \/ (adaptive /\ shutdown)
        /\ phase = "delivered" => ~working

PartitionInv ==
    TypeOK /\ InFileOrder /\ CursorBehind /\ FreshIndices /\ FreshCover /\ FreshWorkers

-----------------------------------------------------------------------------
(* Lemmas *)

\* The concurrency floor never asks for less than the smallest chunk.
LEMMA CeilingBound ==
    ASSUME offset \in 0..FileSize
    PROVE  Ceiling \in Int /\ MinSize =< Ceiling
<1>1. FileSize - offset \in Int /\ NumWorkers \in Nat \ {0}
  BY PlannerAssumption
<1>2. (FileSize - offset) \div NumWorkers \in Int
  BY <1>1, SMT
<1> QED
  BY <1>2, PlannerAssumption DEF Ceiling, Max2

\* next_chunk and the concurrency floor together take at least one byte and
\* nothing after the end of the file.
LEMMA IssuedSizeBound ==
    ASSUME offset \in 0..FileSize, offset < FileSize, size \in Nat \ {0}
    PROVE  IssuedSize \in 1..(FileSize - offset)
<1>1. Ceiling \in Int /\ 1 =< Ceiling
  BY CeilingBound, PlannerAssumption
<1> QED
  BY <1>1, PlannerAssumption DEF IssuedSize, Min2

\* The state of a session saved when some of its chunks are in state.chunks.
LEMMA PrefixIsSeq ==
    ASSUME plan \in Seq(ChunkSpec), NEW n \in 0..Len(plan)
    PROVE  /\ Prefix(n) \in Seq(ChunkSpec)
           /\ DOMAIN Prefix(n) = 1..n
           /\ \A i \in 1..n : i \in DOMAIN plan /\ Prefix(n)[i] = plan[i]
<1>1. Len(plan) \in Nat /\ DOMAIN plan = 1..Len(plan) /\ n \in Nat
  OBVIOUS
<1>2. \A i \in 1..n : i \in DOMAIN plan /\ plan[i] \in ChunkSpec
  BY <1>1
<1>3. Prefix(n) \in [1..n -> ChunkSpec]
  BY <1>2 DEF Prefix
<1> QED
  BY <1>1, <1>2, <1>3, SeqDef DEF Prefix

\* advance_to is asked to skip all that the state file describes, and no more.
LEMMA PlannedEndIsAfter ==
    ASSUME NEW chunks \in Seq(ChunkSpec), Proper(chunks), Ascending(chunks)
    PROVE  /\ PlannedEnd(chunks) \in 0..FileSize
           /\ EndsBefore(chunks, PlannedEnd(chunks))
<1>1. CASE chunks = <<>>
  BY <1>1, PlannerAssumption DEF PlannedEnd, EndsBefore
<1>2. CASE chunks # <<>>
  <2> DEFINE Ends == {chunks[i].end + 1 : i \in DOMAIN chunks}
             last == Len(chunks)
  <2>1. /\ last \in DOMAIN chunks
        /\ \A i \in DOMAIN chunks : /\ i \in 1..last
                                    /\ chunks[i].start \in 0..(FileSize - 1)
                                    /\ chunks[i].end \in 0..(FileSize - 1)
    <3>1. last \in DOMAIN chunks /\ DOMAIN chunks = 1..last
      BY <1>2
    <3>2. \A i \in DOMAIN chunks : chunks[i] \in ChunkSpec
      OBVIOUS
    <3> QED
      BY <3>1, <3>2 DEF ChunkSpec
  <2>2. \A i \in DOMAIN chunks : i < last => chunks[i].end < chunks[last].start
    BY <2>1 DEF Ascending
  <2>3. chunks[last].start =< chunks[last].end
    BY <2>1 DEF Proper
  <2>4. \A i \in DOMAIN chunks : chunks[i].end + 1 =< chunks[last].end + 1
    <3> SUFFICES ASSUME NEW i \in DOMAIN chunks
                 PROVE  chunks[i].end =< chunks[last].end
      BY <2>1, PlannerAssumption
    <3>1. CASE i = last
      BY <3>1, <2>1
    <3>2. CASE i < last
      BY <3>2, <2>1, <2>2, <2>3, PlannerAssumption
    <3> QED
      BY <3>1, <3>2, <2>1
  <2>5. \E e \in Ends : \A i \in DOMAIN chunks : chunks[i].end + 1 =< e
    BY <2>1, <2>4
  <2>6. /\ PlannedEnd(chunks) \in Ends
        /\ \A i \in DOMAIN chunks : chunks[i].end + 1 =< PlannedEnd(chunks)
    BY <1>2, <2>5 DEF PlannedEnd
  <2>7. \A e \in Ends : e \in 0..FileSize
    BY <2>1, PlannerAssumption
  <2> HIDE DEF Ends, last
  <2>8. PlannedEnd(chunks) \in 0..FileSize
    BY <2>6, <2>7
  <2> QED
    BY <2>1, <2>6, <2>8, PlannerAssumption DEF EndsBefore
<1> QED
  BY <1>1, <1>2

\* What Issue adds to the plan.
LEMMA AppendedPlan ==
    ASSUME plan \in Seq(ChunkSpec), NEW c \in ChunkSpec
    PROVE  LET more == Append(plan, c)
           IN  /\ more \in Seq(ChunkSpec)
               /\ Len(more) = Len(plan) + 1
               /\ DOMAIN more = 1..(Len(plan) + 1)
               /\ \A i \in DOMAIN plan : i \in 1..Len(plan) /\ more[i] = plan[i]
               /\ \A i \in DOMAIN more : i \notin DOMAIN plan => i = Len(plan) + 1
               /\ more[Len(plan) + 1] = c
OBVIOUS

-----------------------------------------------------------------------------
(* The invariant is inductive *)

LEMMA InitEstablishes == Init => PartitionInv
<1> SUFFICES ASSUME Init
             PROVE  PartitionInv
  OBVIOUS
<1> USE PlannerAssumption
<1>1. TypeOK
  <2>1. /\ plan \in Seq(ChunkSpec) /\ saved \in Seq(ChunkSpec)
        /\ Len(plan) = 0 /\ visible = 0
    BY DEF Init
  <2>2. /\ default \in Nat \ {0} /\ size \in Nat \ {0}
        /\ offset \in 0..FileSize /\ index \in Nat /\ target \in 0..FileSize
        /\ left \in 0..PlanBatch /\ sessions \in 0..MaxSessions
    BY DEF Init
  <2>3. /\ phase = "down" /\ fresh \in BOOLEAN /\ adaptive \in BOOLEAN
        /\ working \in BOOLEAN /\ shutdown \in BOOLEAN
    BY DEF Init
  <2> QED
    BY <2>1, <2>2, <2>3 DEF TypeOK
<1>2. InFileOrder
  <2>1. DOMAIN plan = {} /\ DOMAIN saved = {}
    BY DEF Init
  <2> QED
    BY <2>1 DEF InFileOrder, Proper, Ascending
<1>3. CursorBehind
  BY DEF Init, CursorBehind
<1>4. FreshIndices
  BY DEF Init, FreshIndices
<1>5. FreshCover
  BY DEF Init, FreshCover
<1>6. FreshWorkers
  BY DEF Init, FreshWorkers
<1> QED
  BY <1>1, <1>2, <1>3, <1>4, <1>5, <1>6 DEF PartitionInv

LEMMA IssuePreserves == PartitionInv /\ Issue => PartitionInv'
<1> SUFFICES ASSUME PartitionInv, Issue
             PROVE  PartitionInv'
  OBVIOUS
<1> DEFINE c == [index |-> index, start |-> offset, end |-> offset + IssuedSize - 1]
           n == Len(plan)
<1>1. /\ offset \in 0..FileSize /\ offset < FileSize
      /\ size \in Nat \ {0} /\ index \in Nat /\ left \in 0..PlanBatch
      /\ plan \in Seq(ChunkSpec) /\ n \in Nat /\ visible \in 0..n
      /\ FileSize \in Nat \ {0} /\ PlanBatch \in Nat \ {0}
  BY PlannerAssumption DEF PartitionInv, TypeOK, Issue
<1>2. IssuedSize \in 1..(FileSize - offset)
  BY <1>1, IssuedSizeBound
<1>3. /\ c \in ChunkSpec
      /\ c.start = offset /\ c.end = offset' - 1 /\ c.index = index
      /\ c.start =< c.end
      /\ offset' \in 0..FileSize /\ offset < offset'
  BY <1>1, <1>2 DEF Issue, ChunkSpec
<1>4. /\ plan' = Append(plan, c) /\ index' = index + 1
      /\ phase = "planning"
      /\ UNCHANGED <<phase, fresh, adaptive, default, sessions, target, size, visible, saved,
                     working, shutdown>>
  BY DEF Issue, config, pool
<1> HIDE DEF c
<1>5. /\ plan' \in Seq(ChunkSpec)
      /\ Len(plan') = n + 1
      /\ DOMAIN plan' = 1..(n + 1)
      /\ \A i \in DOMAIN plan : i \in 1..n /\ plan'[i] = plan[i]
      /\ \A i \in DOMAIN plan' : i \notin DOMAIN plan => i = n + 1
      /\ plan'[n + 1] = c
  BY <1>1, <1>3, <1>4, AppendedPlan
<1>6. \A i \in DOMAIN plan : /\ plan[i].end < offset
                             /\ plan[i].end \in Int /\ plan[i].start \in Int
                             /\ plan[i].index \in Nat
                             /\ i \in 1..n
  <2>1. \A i \in DOMAIN plan : plan[i] \in ChunkSpec
    BY <1>1
  <2>2. EndsBefore(plan, offset)
    BY <1>4 DEF PartitionInv, CursorBehind
  <2> TAKE i \in DOMAIN plan
  <2>3. plan[i].end \in Int /\ plan[i].start \in Int /\ plan[i].index \in Nat
    BY <2>1, PlannerAssumption DEF ChunkSpec
  <2>4. plan[i].end < offset
    BY <2>2 DEF EndsBefore
  <2> QED
    BY <1>5, <2>3, <2>4
<1> HIDE DEF n
<1>7. TypeOK'
  <2>1. left' \in 0..PlanBatch
    BY <1>1 DEF Issue
  <2>2. index' \in Nat
    BY <1>1, <1>4
  <2>3. visible' \in 0..Len(plan')
    BY <1>1, <1>4, <1>5
  <2> QED
    BY <1>3, <1>4, <1>5, <2>1, <2>2, <2>3 DEF PartitionInv, TypeOK
<1>8. Proper(plan') /\ Ascending(plan')
  <2>1. Proper(plan')
    BY <1>3, <1>5 DEF PartitionInv, InFileOrder, Proper
  <2>2. Ascending(plan')
    <3> SUFFICES ASSUME NEW i \in DOMAIN plan', NEW j \in DOMAIN plan', i < j
                 PROVE  plan'[i].end < plan'[j].start
      BY DEF Ascending
    <3>1. i \in DOMAIN plan
      BY <1>1, <1>5
    <3>2. CASE j \in DOMAIN plan
      BY <1>5, <3>1, <3>2 DEF PartitionInv, InFileOrder, Ascending
    <3>3. CASE j \notin DOMAIN plan
      BY <1>3, <1>5, <1>6, <3>1, <3>3
    <3> QED
      BY <3>2, <3>3
  <2> QED
    BY <2>1, <2>2
<1>9. InFileOrder'
  BY <1>4, <1>8 DEF PartitionInv, InFileOrder, Proper, Ascending
<1>10. EndsBefore(plan', offset')
  <2>1. ASSUME NEW i \in DOMAIN plan' PROVE plan'[i].end < offset'
    <3>1. CASE i \in DOMAIN plan
      <4>1. plan'[i] = plan[i]
        BY <1>5, <3>1
      <4>2. plan[i].end < offset /\ plan[i].end \in Int
        BY <1>6, <3>1
      <4>3. offset \in Int /\ offset' \in Int /\ offset < offset'
        BY <1>1, <1>3
      <4>. QED  BY <4>1, <4>2, <4>3
    <3>2. CASE i \notin DOMAIN plan
      <4>1. plan'[i] = c
        BY <1>5, <2>1, <3>2
      <4>. QED  BY <1>1, <1>3, <4>1
    <3>. QED  BY <3>1, <3>2
  <2>. QED  BY <2>1 DEF EndsBefore
<1>11. CursorBehind'
  BY <1>4, <1>10 DEF CursorBehind, EndsBefore
<1>12. FreshIndices'
  <2> SUFFICES ASSUME fresh
               PROVE  /\ \A i \in DOMAIN plan' : plan'[i].index < index'
                      /\ \A i, j \in DOMAIN plan' : i # j => plan'[i].index # plan'[j].index
    BY <1>4 DEF FreshIndices
  <2>1. \A i \in DOMAIN plan : plan[i].index < index
    BY DEF PartitionInv, FreshIndices
  <2>2. \A i, j \in DOMAIN plan : i # j => plan[i].index # plan[j].index
    BY DEF PartitionInv, FreshIndices
  <2>3. \A i \in DOMAIN plan' : plan'[i].index < index'
    BY <1>1, <1>3, <1>4, <1>5, <1>6, <2>1
  <2>4. \A i, j \in DOMAIN plan' : i # j => plan'[i].index # plan'[j].index
    <3> TAKE i, j \in DOMAIN plan'
    <3>1. \A k \in DOMAIN plan : plan'[k].index < plan'[n + 1].index /\ plan'[k].index \in Nat
      BY <1>1, <1>3, <1>5, <1>6, <2>1
    <3>2. \A k \in DOMAIN plan' : k \in DOMAIN plan \/ k = n + 1
      BY <1>5
    <3>3. \A k, l \in DOMAIN plan : k # l => plan'[k].index # plan'[l].index
      BY <1>5, <2>2
    <3>4. plan'[n + 1].index \in Nat
      BY <1>1, <1>3, <1>5
    <3> QED
      BY <3>1, <3>2, <3>3, <3>4
  <2> QED
    BY <2>3, <2>4
<1>13. FreshCover'
  <2> DEFINE In(b) == \E i \in DOMAIN plan' : plan'[i].start =< b /\ b =< plan'[i].end
             o == offset + IssuedSize
  <2>1. o \in Int /\ offset' = o /\ c.start = offset /\ c.end = o - 1 /\ offset \in Int
    BY <1>1, <1>2, <1>3 DEF Issue
  <2> HIDE DEF o
  <2>2. ASSUME fresh, NEW b \in 0..(offset - 1)
        PROVE  In(b)
    <3>1. PICK i \in DOMAIN plan : plan[i].start =< b /\ b =< plan[i].end
      BY <2>2 DEF PartitionInv, FreshCover, Covered
    <3>2. i \in DOMAIN plan' /\ plan'[i] = plan[i]
      BY <1>1, <1>5, <3>1
    <3> QED
      BY <3>1, <3>2
  <2>3. ASSUME NEW b \in offset..(o - 1)
        PROVE  In(b)
    <3>1. n + 1 \in DOMAIN plan' /\ plan'[n + 1] = c
      BY <1>1, <1>5
    <3>2. plan'[n + 1].start =< b /\ b =< plan'[n + 1].end
      BY <2>1, <3>1
    <3> QED
      BY <3>1, <3>2
  <2> HIDE DEF In
  <2>4. fresh => \A b \in 0..(o - 1) : In(b)
    BY <2>1, <2>2, <2>3
  <2> QED
    BY <1>4, <2>1, <2>4 DEF FreshCover, Covered, In
<1>14. FreshWorkers'
  <2>1. plan' # <<>>
    BY <1>1, <1>5
  <2>. QED  BY <1>4, <2>1 DEF PartitionInv, FreshWorkers
<1> QED
  BY <1>7, <1>9, <1>11, <1>12, <1>13, <1>14 DEF PartitionInv

LEMMA NextPreserves == PartitionInv /\ [Next]_vars => PartitionInv'
<1> SUFFICES ASSUME PartitionInv, [Next]_vars
             PROVE  PartitionInv'
  OBVIOUS
<1> USE PlannerAssumption
<1>1. ASSUME NEW d \in DefaultSizes, NEW a \in BOOLEAN, Download(d, a)
      PROVE  PartitionInv'
  <2>1. TypeOK'
    <3>1. /\ phase' = "planning" /\ fresh' \in BOOLEAN /\ adaptive' \in BOOLEAN
          /\ working' \in BOOLEAN /\ shutdown' \in BOOLEAN
      BY <1>1 DEF Download
    <3>2. /\ default' \in Nat \ {0} /\ offset' \in 0..FileSize /\ index' \in Nat
          /\ target' \in 0..FileSize /\ left' \in 0..PlanBatch /\ size' \in Nat \ {0}
          /\ sessions' \in 0..MaxSessions
      BY <1>1 DEF PartitionInv, TypeOK, Download
    <3>3. /\ plan' \in Seq(ChunkSpec) /\ saved' \in Seq(ChunkSpec)
          /\ visible' \in 0..Len(plan')
      BY <1>1 DEF PartitionInv, TypeOK, Download
    <3> QED
      BY <3>1, <3>2, <3>3 DEF TypeOK
  <2>2. InFileOrder' /\ CursorBehind' /\ FreshIndices' /\ FreshCover' /\ FreshWorkers'
    BY <1>1 DEF PartitionInv, Download, InFileOrder, CursorBehind, FreshIndices,
       FreshCover, FreshWorkers, Proper, Ascending, EndsBefore
  <2> QED
    BY <2>1, <2>2 DEF PartitionInv
<1>2. ASSUME NEW d \in DefaultSizes, NEW a \in ResumeAdaptive, Resume(d, a)
      PROVE  PartitionInv'
  <2>1. /\ PlannedEnd(saved) \in 0..FileSize
        /\ EndsBefore(saved, PlannedEnd(saved))
    BY PlannedEndIsAfter DEF PartitionInv, TypeOK, InFileOrder
  <2>2. TypeOK'
    <3>1. /\ phase' \in {"advancing", "running"}
          /\ fresh' \in BOOLEAN /\ adaptive' \in BOOLEAN
          /\ working' \in BOOLEAN /\ shutdown' \in BOOLEAN
      BY <1>2 DEF Resume
    <3>2. /\ default' \in Nat \ {0} /\ offset' \in 0..FileSize /\ index' \in Nat
          /\ target' \in 0..FileSize /\ left' \in 0..PlanBatch /\ size' \in Nat \ {0}
          /\ sessions' \in 0..MaxSessions
      BY <1>2, <2>1 DEF PartitionInv, TypeOK, Resume
    <3>3. /\ plan' \in Seq(ChunkSpec) /\ saved' \in Seq(ChunkSpec)
          /\ visible' \in 0..Len(plan')
      BY <1>2 DEF PartitionInv, TypeOK, Resume
    <3> QED
      BY <3>1, <3>2, <3>3 DEF TypeOK
  <2>3. InFileOrder' /\ CursorBehind' /\ FreshIndices' /\ FreshCover' /\ FreshWorkers'
    BY <1>2, <2>1 DEF PartitionInv, Resume, InFileOrder, CursorBehind, FreshIndices,
       FreshCover, FreshWorkers, Proper, Ascending, EndsBefore
  <2> QED
    BY <2>2, <2>3 DEF PartitionInv
<1>3. CASE Replay
  <2>1. /\ offset' \in 0..FileSize /\ index' \in Nat
        /\ ~fresh /\ phase = "advancing"
    BY <1>3 DEF PartitionInv, TypeOK, CursorBehind, Replay, Min2
  <2>2. TypeOK'
    BY <1>3, <2>1 DEF PartitionInv, TypeOK, Replay, config, pool
  <2>3. InFileOrder' /\ CursorBehind' /\ FreshIndices' /\ FreshCover' /\ FreshWorkers'
    BY <1>3, <2>1 DEF PartitionInv, Replay, config, pool, InFileOrder, CursorBehind, FreshIndices,
       FreshCover, FreshWorkers, Proper, Ascending, EndsBefore
  <2> QED
    BY <2>2, <2>3 DEF PartitionInv
<1>4. CASE Advanced
  <2>1. EndsBefore(plan, offset)
    <3>1. /\ offset \in Int /\ target \in Int
          /\ \A i \in DOMAIN plan : plan[i] \in ChunkSpec
      BY DEF PartitionInv, TypeOK
    <3>2. EndsBefore(plan, target) /\ (offset >= FileSize \/ offset >= target)
      BY <1>4, <3>1 DEF PartitionInv, CursorBehind, Advanced
    <3> QED
      BY <3>1, <3>2 DEF EndsBefore, ChunkSpec
  <2>2. TypeOK'
    BY <1>4 DEF PartitionInv, TypeOK, Advanced, config, cursor, pool
  <2>3. InFileOrder' /\ CursorBehind' /\ FreshIndices' /\ FreshCover' /\ FreshWorkers'
    BY <1>4, <2>1 DEF PartitionInv, Advanced, config, cursor, pool, InFileOrder, CursorBehind,
       FreshIndices, FreshCover, FreshWorkers, Proper, Ascending, EndsBefore
  <2> QED
    BY <2>2, <2>3 DEF PartitionInv
<1>5. CASE Issue
  BY <1>5, IssuePreserves
<1>6. CASE StartRunning
  <2>0. fresh => plan # <<>>
    <3>1. plan = <<>> => left # 0 /\ offset # FileSize
      BY <1>6 DEF PartitionInv, FreshWorkers, StartRunning, BatchDone
    <3>. QED  BY <1>6, <3>1 DEF StartRunning, BatchDone
  <2>1. TypeOK'
    <3>1. working' \in BOOLEAN /\ shutdown' \in BOOLEAN
      BY <1>6, Zenon DEF StartRunning
    <3>. QED  BY <1>6, <3>1 DEF PartitionInv, TypeOK, StartRunning, config, cursor
  <2>2. InFileOrder' /\ CursorBehind' /\ FreshIndices' /\ FreshCover' /\ FreshWorkers'
    BY <1>6, <2>0 DEF PartitionInv, StartRunning, BatchDone, config, cursor, pool, InFileOrder,
       CursorBehind, FreshIndices, FreshCover, FreshWorkers, Proper, Ascending, EndsBefore, Covered
  <2> QED
    BY <2>1, <2>2 DEF PartitionInv
<1>7. ASSUME NEW s \in MinSize..MaxSize, PlanMore(s)
      PROVE  PartitionInv'
  <2>1. TypeOK'
    BY <1>7 DEF PartitionInv, TypeOK, PlanMore, config, cursor, pool
  <2>2. InFileOrder' /\ CursorBehind' /\ FreshIndices' /\ FreshCover' /\ FreshWorkers'
    BY <1>7 DEF PartitionInv, PlanMore, CanPlan, config, cursor, pool, InFileOrder, CursorBehind,
       FreshIndices, FreshCover, FreshWorkers, Proper, Ascending, EndsBefore, Covered
  <2> QED
    BY <2>1, <2>2 DEF PartitionInv
<1>8. CASE AppendNext
  <2>1. TypeOK'
    BY <1>8 DEF PartitionInv, TypeOK, AppendNext, config, cursor, pool
  <2>2. InFileOrder' /\ CursorBehind' /\ FreshIndices' /\ FreshCover' /\ FreshWorkers'
    BY <1>8 DEF PartitionInv, AppendNext, BatchDone, config, cursor, pool, InFileOrder,
       CursorBehind, FreshIndices, FreshCover, FreshWorkers, Proper, Ascending, EndsBefore, Covered
  <2> QED
    BY <2>1, <2>2 DEF PartitionInv
<1>9. CASE Save
  <2>1. plan \in Seq(ChunkSpec) /\ visible \in 0..Len(plan)
    BY DEF PartitionInv, TypeOK
  <2>2. /\ saved' \in Seq(ChunkSpec)
        /\ DOMAIN saved' = 1..visible
        /\ \A i \in 1..visible : i \in DOMAIN plan /\ saved'[i] = plan[i]
    BY <1>9, <2>1, PrefixIsSeq DEF Save
  <2>3. TypeOK'
    BY <1>9, <2>2 DEF PartitionInv, TypeOK, Save, config, cursor, pool
  <2>4. Proper(saved') /\ Ascending(saved')
    BY <2>1, <2>2 DEF PartitionInv, InFileOrder, Proper, Ascending
  <2>5. InFileOrder' /\ CursorBehind' /\ FreshIndices' /\ FreshCover' /\ FreshWorkers'
    BY <1>9, <2>4 DEF PartitionInv, Save, config, cursor, pool, InFileOrder,
       CursorBehind, FreshIndices, FreshCover, FreshWorkers, Proper, Ascending, EndsBefore, Covered
  <2> QED
    BY <2>3, <2>5 DEF PartitionInv
<1>10. CASE Stop
  BY <1>10 DEF PartitionInv, TypeOK, Stop, config, cursor, pool, InFileOrder, CursorBehind,
     FreshIndices, FreshCover, FreshWorkers, Proper, Ascending, EndsBefore, Covered
<1>11. CASE Deliver
  <2>1. TypeOK'
    BY <1>11 DEF PartitionInv, TypeOK, Deliver, config, cursor, pool
  <2>3. InFileOrder' /\ CursorBehind' /\ FreshIndices' /\ FreshCover' /\ FreshWorkers'
    BY <1>11 DEF PartitionInv, Deliver, config, cursor, pool, InFileOrder,
       CursorBehind, FreshIndices, FreshCover, FreshWorkers, Proper, Ascending, EndsBefore, Covered
  <2> QED
    BY <2>1, <2>3 DEF PartitionInv
<1>12. CASE RequestShutdown
  <2>1. TypeOK'
    BY <1>12 DEF PartitionInv, TypeOK, RequestShutdown, config, cursor
  <2>2. InFileOrder' /\ CursorBehind' /\ FreshIndices' /\ FreshCover'
    BY <1>12 DEF PartitionInv, RequestShutdown, config, cursor, InFileOrder, CursorBehind,
       FreshIndices, FreshCover, Proper, Ascending, EndsBefore, Covered
  <2>3. FreshWorkers'
    BY <1>12 DEF PartitionInv, FreshWorkers, FreshCover, RequestShutdown, config, cursor
  <2> QED
    BY <2>1, <2>2, <2>3 DEF PartitionInv
<1>13. CASE WorkersLeave
  <2>1. TypeOK'
    BY <1>13 DEF PartitionInv, TypeOK, WorkersLeave, config, cursor
  <2>2. InFileOrder' /\ CursorBehind' /\ FreshIndices' /\ FreshCover'
    BY <1>13 DEF PartitionInv, WorkersLeave, config, cursor, InFileOrder, CursorBehind,
       FreshIndices, FreshCover, Proper, Ascending, EndsBefore, Covered
  <2>3. FreshWorkers'
    <3>1. fresh => offset = FileSize \/ (adaptive /\ shutdown)
      BY <1>13 DEF PartitionInv, TypeOK, FreshCover, WorkersLeave, CanPlan
    <3>. QED  BY <1>13, <3>1 DEF PartitionInv, FreshWorkers, WorkersLeave, config, cursor
  <2> QED
    BY <2>1, <2>2, <2>3 DEF PartitionInv
<1>14. CASE UNCHANGED vars
  BY <1>14 DEF PartitionInv, TypeOK, vars, config, cursor, pool, InFileOrder, CursorBehind,
     FreshIndices, FreshCover, FreshWorkers, Proper, Ascending, EndsBefore, Covered
<1> QED
  BY <1>1, <1>2, <1>3, <1>4, <1>5, <1>6, <1>7, <1>8, <1>9, <1>10, <1>11, <1>12,
     <1>13, <1>14 DEF Next

LEMMA PartitionInvariant == Spec => []PartitionInv
BY InitEstablishes, NextPreserves, PTL DEF Spec

-----------------------------------------------------------------------------
(* Theorems *)

\* The variables keep their types: in particular next_chunk and the concurrency
\* floor never issue a byte after the end of the file, and the cursor stays in it.
THEOREM TypeCorrect == Spec => []TypeOK
BY PartitionInvariant, PTL DEF PartitionInv

\* No byte is in two chunks of a session, for any sizes, batches, workers and any
\* sequence of interrupted and resumed sessions.
THEOREM PlannedOnce == Spec => []NeverPlannedTwice
<1>1. PartitionInv => NeverPlannedTwice
  <2> SUFFICES ASSUME PartitionInv, NEW i \in DOMAIN plan, NEW j \in DOMAIN plan, i # j
               PROVE  Apart(plan[i], plan[j])
    BY DEF NeverPlannedTwice
  <2>1. i \in Nat /\ j \in Nat
    BY DEF PartitionInv, TypeOK
  <2> QED
    BY <2>1 DEF PartitionInv, InFileOrder, Ascending, Apart
<1> QED
  BY <1>1, PartitionInvariant, PTL

\* Within one session of download() no two chunks share an index.
THEOREM UniqueIndices == Spec => []IndicesAreUnique
<1>1. PartitionInv => IndicesAreUnique
  BY DEF PartitionInv, FreshIndices, IndicesAreUnique
<1> QED
  BY <1>1, PartitionInvariant, PTL

\* A file that one call of download() delivers has no hole: what its chunks leave
\* out is the tail of a lazily planned file whose workers were shut down.
THEOREM NoHole == Spec => []FreshDeliveriesCover
<1>1. PartitionInv => FreshDeliveriesCover
  <2> SUFFICES ASSUME PartitionInv, phase = "delivered", fresh, NEW b \in 0..(FileSize - 1)
               PROVE  Covered(b) \/ (adaptive /\ shutdown /\ b >= offset)
    BY DEF FreshDeliveriesCover
  <2>1. offset = FileSize \/ (adaptive /\ shutdown)
    BY DEF PartitionInv, FreshWorkers
  <2>2. offset \in 0..FileSize /\ FileSize \in Nat
    BY PlannerAssumption DEF PartitionInv, TypeOK
  <2>3. b < offset => Covered(b)
    BY <2>2 DEF PartitionInv, FreshCover
  <2> QED
    BY <2>1, <2>2, <2>3
<1> QED
  BY <1>1, PartitionInvariant, PTL
=============================================================================
