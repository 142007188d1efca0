---------------------------- MODULE ChunkPlanner ----------------------------
(***************************************************************************)
(* How a file is cut into chunks while it is being downloaded              *)
(* (scheduling.py, algorithms/adaptive_chunker.py): the planner's cursor,  *)
(* the batches the engine appends to state.chunks, the state file that     *)
(* keeps them, and the resumed session that plans on from there.           *)
(*                                                                         *)
(* Sizes are in units of one byte; what the controller makes of the        *)
(* network (BLDCSController.decide) is any size within its bounds, not     *)
(* only the powers of two it rounds to.  Of the workers the module keeps   *)
(* what decides how much of the file is planned: whether some of them are  *)
(* still in their loop, and whether they were asked to leave it.           *)
(***************************************************************************)
EXTENDS Integers, Sequences

CONSTANTS
    FileSize,
    MinSize, MaxSize,  \* MIN_CHUNK_SIZE, MAX_CHUNK_SIZE
    DefaultSizes,      \* values of config.chunk_size_bytes, one per session
    NumWorkers,        \* config.max_parallel_workers
    PlanBatch,         \* chunks per batch
    ResumeAdaptive,    \* values of config.adaptive_chunk_sizing when resuming
    MaxSessions        \* bound: calls of download and resume

ASSUME PlannerAssumption ==
    /\ FileSize \in Nat \ {0}
    /\ MinSize \in Nat \ {0}
    /\ MaxSize \in Nat
    /\ DefaultSizes \subseteq Nat \ {0}
    /\ NumWorkers \in Nat \ {0}
    /\ PlanBatch \in Nat \ {0}
    /\ ResumeAdaptive \subseteq BOOLEAN
    /\ MaxSessions \in Nat

Min2(a, b) == IF a < b THEN a ELSE b
Max2(a, b) == IF a > b THEN a ELSE b

ChunkSpec == [index : Nat, start : 0..(FileSize - 1), end : 0..(FileSize - 1)]

VARIABLES
    phase,      \* "down", "advancing", "planning", "running", "delivered"
    fresh,      \* the session was started by download, not by resume
    adaptive,   \* adaptive_chunk_sizing of the session
    default,    \* chunk_size_bytes of the session
    offset,     \* the planner's cursor
    index,
    target,     \* what advance_to was asked to skip
    size,       \* what the controller wants in this batch
    left,       \* chunks the batch may still hold
    plan,       \* all chunks of the session, in the order they were issued
    visible,    \* how many of them are in state.chunks
    saved,      \* the chunks in the state file
    working,    \* some worker has not left its loop
    shutdown,   \* the _shutdown event
    sessions

cursor == <<offset, index>>
config == <<fresh, adaptive, default, sessions>>
pool == <<working, shutdown>>
vars == <<phase, config, cursor, target, size, left, plan, visible, saved, pool>>

Prefix(n) == [i \in 1..n |-> plan[i]]

\* The last byte of the state file's chunks, instead of the one after it.
PlannedEndInclusive(chunks) ==
    IF chunks = <<>> THEN 0
    ELSE CHOOSE e \in {chunks[i].end : i \in DOMAIN chunks} :
            \A i \in DOMAIN chunks : chunks[i].end =< e

\* _planned_end: the first byte after the last chunk of the state file.
PlannedEnd(chunks) ==
    IF chunks = <<>> THEN 0
    ELSE CHOOSE e \in {chunks[i].end + 1 : i \in DOMAIN chunks} :
            \A i \in DOMAIN chunks : chunks[i].end + 1 =< e

Init ==
    /\ phase = "down"
    /\ fresh = TRUE /\ adaptive = FALSE /\ default = MinSize
    /\ offset = 0 /\ index = 0 /\ target = 0
    /\ size = MinSize /\ left = 0
    /\ plan = <<>> /\ visible = 0
    /\ saved = <<>>
    /\ working = FALSE /\ shutdown = FALSE
    /\ sessions = 0

\* BLDCSController refuses a default outside of its bounds: the session raises
\* before it touches anything.
Configurable(d, a) == a => d \in MinSize..MaxSize

\* download(): plan_initial plans the whole file with chunks of the configured
\* size, or, with adaptive sizing, one batch; no network estimate is primed.
Download(d, a) ==
    /\ phase \in {"down", "delivered"} /\ sessions < MaxSessions
    /\ Configurable(d, a)
    /\ phase' = "planning"
    /\ fresh' = TRUE /\ adaptive' = a /\ default' = d
    /\ sessions' = sessions + 1
    /\ offset' = 0 /\ index' = 0 /\ target' = 0
    /\ size' = d
    /\ left' = PlanBatch
    /\ plan' = <<>> /\ visible' = 0
    /\ working' = FALSE /\ shutdown' = FALSE
    /\ UNCHANGED saved

\* resume(): the chunks of the state file stay; a planner of the new session is
\* advanced past them, if there is one.  Workers are started if any of the chunks
\* remains to be fetched.
Resume(d, a) ==
    /\ phase = "down" /\ sessions < MaxSessions
    /\ Configurable(d, a)
    /\ saved # <<>>
    /\ phase' = IF a THEN "advancing" ELSE "running"
    /\ fresh' = FALSE /\ adaptive' = a /\ default' = d
    /\ sessions' = sessions + 1
    /\ offset' = 0 /\ index' = 0 /\ target' = PlannedEnd(saved)
    /\ plan' = saved /\ visible' = Len(saved)
    /\ left' = 0
    /\ working' \in BOOLEAN /\ shutdown' = FALSE
    /\ UNCHANGED <<size, saved>>

\* next_chunk(None) in advance_to: a chunk of the default size is issued, and dropped.
Replay ==
    /\ phase = "advancing"
    /\ offset < FileSize /\ offset < target
    /\ offset' = offset + Min2(default, FileSize - offset)
    /\ index' = index + 1
    /\ UNCHANGED <<phase, config, target, size, left, plan, visible, saved, pool>>

Advanced ==
    /\ phase = "advancing"
    /\ ~(offset < FileSize /\ offset < target)
    /\ phase' = "running"
    /\ UNCHANGED <<config, cursor, target, size, left, plan, visible, saved, pool>>

\* _apply_concurrency_floor: no more than each worker's share of what remains.
Ceiling == Max2(MinSize, (FileSize - offset) \div NumWorkers)

\* next_chunk, and the rewind_to of what the concurrency floor takes off again.
IssuedSize ==
    LET wanted == Min2(size, FileSize - offset)
    IN IF adaptive THEN Min2(wanted, Ceiling) ELSE wanted

\* The concurrency floor shrinks a chunk and does not rewind the planner.
IssueWithoutRewind ==
    /\ phase = "planning"
    /\ adaptive => left > 0
    /\ offset < FileSize
    /\ plan' = Append(plan, [index |-> index, start |-> offset, end |-> offset + IssuedSize - 1])
    /\ offset' = offset + Min2(size, FileSize - offset)
    /\ index' = index + 1
    /\ left' = IF adaptive THEN left - 1 ELSE left
    /\ UNCHANGED <<phase, config, target, size, visible, saved, pool>>

\* The concurrency floor rewinds the planner to the index of the chunk it shrank.
IssueRewindingIndex ==
    /\ phase = "planning"
    /\ adaptive => left > 0
    /\ offset < FileSize
    /\ plan' = Append(plan, [index |-> index, start |-> offset, end |-> offset + IssuedSize - 1])
    /\ offset' = offset + IssuedSize
    /\ index' = IF IssuedSize < Min2(size, FileSize - offset) THEN index ELSE index + 1
    /\ left' = IF adaptive THEN left - 1 ELSE left
    /\ UNCHANGED <<phase, config, target, size, visible, saved, pool>>

Issue ==
    /\ phase = "planning"
    /\ adaptive => left > 0
    /\ offset < FileSize
    /\ plan' = Append(plan, [index |-> index, start |-> offset, end |-> offset + IssuedSize - 1])
    /\ offset' = offset + IssuedSize
    /\ index' = index + 1
    /\ left' = IF adaptive THEN left - 1 ELSE left
    /\ UNCHANGED <<phase, config, target, size, visible, saved, pool>>

BatchDone == phase = "planning" /\ ((adaptive /\ left = 0) \/ offset = FileSize)

\* The first batch becomes state.chunks as a whole and is saved by _run, which
\* clears the shutdown event and starts a worker for every chunk, up to the limit.
StartRunning ==
    /\ BatchDone /\ fresh /\ visible = 0
    /\ phase' = "running"
    /\ visible' = Len(plan)
    /\ saved' = plan
    /\ working' = (plan # <<>>) /\ shutdown' = FALSE
    /\ UNCHANGED <<config, cursor, target, size, left, plan>>

\* The planner has more of the file to hand out.
CanPlan == adaptive /\ offset < FileSize

\* A worker finds the queue empty: one sample of the network sizes the batch.
PlanMore(s) ==
    /\ phase = "running" /\ working /\ ~shutdown
    /\ CanPlan
    /\ phase' = "planning"
    /\ size' = s
    /\ left' = PlanBatch
    /\ UNCHANGED <<config, cursor, target, plan, visible, saved, pool>>

\* _refill_queue appends the batch to state.chunks one by one.
AppendNext ==
    /\ BatchDone /\ 0 < visible /\ visible < Len(plan)
    /\ visible' = visible + 1
    /\ phase' = IF visible' = Len(plan) THEN "running" ELSE "planning"
    /\ UNCHANGED <<config, cursor, target, size, left, plan, saved, pool>>

\* request_shutdown().
RequestShutdown ==
    /\ phase = "running" /\ ~shutdown
    /\ shutdown' = TRUE
    /\ UNCHANGED <<phase, config, cursor, target, size, left, plan, visible, saved, working>>

\* The last worker leaves its loop: it was asked to, or it finds the queue empty
\* and nothing is left to plan.
WorkersLeave ==
    /\ phase = "running" /\ working
    /\ shutdown \/ ~CanPlan
    /\ working' = FALSE
    /\ UNCHANGED <<phase, config, cursor, target, size, left, plan, visible, saved, shutdown>>

\* The checkpoint thread serializes state.chunks, whatever the event loop is doing.
Save ==
    /\ phase \in {"planning", "running"}
    /\ visible > 0
    /\ saved' = Prefix(visible)
    /\ UNCHANGED <<phase, config, cursor, target, size, left, plan, visible, pool>>

\* The session fails or is cancelled, or the process dies.
Stop ==
    /\ phase \in {"advancing", "planning", "running"}
    /\ phase' = "down"
    /\ working' = FALSE /\ shutdown' = FALSE
    /\ UNCHANGED <<config, cursor, target, size, left, plan, visible, saved>>

\* No worker is left and none failed: _run's wait ends, and _finalize delivers the
\* file without asking how much of it was planned.
Deliver ==
    /\ phase = "running" /\ ~working
    /\ phase' = "delivered"
    /\ saved' = <<>>
    /\ UNCHANGED <<config, cursor, target, size, left, plan, visible, pool>>

Next ==
    \/ \E d \in DefaultSizes :
        \/ \E a \in BOOLEAN : Download(d, a)
        \/ \E a \in ResumeAdaptive : Resume(d, a)
    \/ Replay
    \/ Advanced
    \/ Issue
    \/ StartRunning
    \/ \E s \in MinSize..MaxSize : PlanMore(s)
    \/ AppendNext
    \/ RequestShutdown
    \/ WorkersLeave
    \/ Save
    \/ Stop
    \/ Deliver

Spec == Init /\ [][Next]_vars

-----------------------------------------------------------------------------
(* Properties *)

TypeOK ==
    /\ phase \in {"down", "advancing", "planning", "running", "delivered"}
    /\ fresh \in BOOLEAN /\ adaptive \in BOOLEAN
    /\ default \in Nat \ {0}
    /\ offset \in 0..FileSize /\ index \in Nat /\ target \in 0..FileSize
    /\ size \in Nat \ {0} /\ left \in 0..PlanBatch
    /\ plan \in Seq(ChunkSpec) /\ visible \in 0..Len(plan)
    /\ saved \in Seq(ChunkSpec)
    /\ working \in BOOLEAN /\ shutdown \in BOOLEAN
    /\ sessions \in 0..MaxSessions

Apart(c, d) == c.end < d.start \/ d.end < c.start

\* advance_to and plan_more: no byte is in two chunks of a session, be they from
\* the state file of an earlier session, planned by this one, or both; so no two
\* workers ever fetch and write the same bytes.
NeverPlannedTwice ==
    \A i, j \in DOMAIN plan : i # j => Apart(plan[i], plan[j])

\* Chunk indices key the engine's tables of failed mirrors, verified prefixes and
\* bytes in flight: within one session of download() no two chunks share one.
IndicesAreUnique ==
    fresh => \A i, j \in DOMAIN plan : i # j => plan[i].index # plan[j].index

Covered(b) == \E i \in DOMAIN plan : plan[i].start =< b /\ b =< plan[i].end

\* A file that one call of download() delivers has no hole, whatever sizes the
\* network asked for and however often the concurrency floor took bytes back: it
\* is whole, or ends where the workers of a lazily planned file were shut down.
FreshDeliveriesCover ==
    phase = "delivered" /\ fresh =>
        \A b \in 0..(FileSize - 1) : Covered(b) \/ (adaptive /\ shutdown /\ b >= offset)

\* A planner that came to the end of the file has left out no byte of it, after
\* resumes, too.
DeliveriesCover ==
    phase = "delivered" /\ offset = FileSize => \A b \in 0..(FileSize - 1) : Covered(b)
=============================================================================
