--------------------------- MODULE DownloadEngine ---------------------------
(***************************************************************************)
(* One download, over as many sessions, crashes and resumes as it takes:   *)
(* reliadl/download_engine.py, with the parts of models.py it mutates.     *)
(*                                                                         *)
(* Three kinds of process interleave.  The event loop runs the main        *)
(* coroutine (_run, _finalize) and the worker tasks (_worker); each action *)
(* below is what one of them does between two awaits.  A checkpoint runs   *)
(* in a pool thread (_checkpoint_sync), truly in parallel with the loop,   *)
(* and reads the same DownloadState the workers are changing.  The         *)
(* environment answers requests, asks for a shutdown, and crashes the      *)
(* machine.                                                                *)
(*                                                                         *)
(* A chunk's bytes are abstracted to what its digest tells apart: "hole"   *)
(* (never written), "torn" (some of it written), "good" (what the origin   *)
(* published) and "bad" (a full chunk of other bytes).  A digest is the    *)
(* content it was computed over.  page is the file as the process reads    *)
(* it, durable the part that outlives a power loss.                        *)
(***************************************************************************)
EXTENDS Naturals, FiniteSets, Sequences, Functions

CONSTANTS
    NumChunks,      \* chunks in the partition of the file
    Workers,        \* worker slots: config.max_parallel_workers of them
    MaxAttempts,    \* config.max_retries_per_chunk
    Interval,       \* config.checkpoint_interval_chunks
    Adaptive,       \* config.adaptive_chunk_sizing: plan the file lazily
    PlanBatch,      \* chunks planned at a time when Adaptive
    HasManifest,    \* a manifest gives the partition, and each chunk an expected_hash
    ExpectedHash,   \* the caller gave an expected_file_hash
    Corruption,     \* servers may send a full chunk of wrong bytes
    Routing,        \* config.adaptive_mirror_routing, with more than one mirror
    CallbackErrors, \* the caller's progress callback may raise
    Interrupts,     \* request_shutdown / task cancellation may happen
    DiskErrors,     \* fsync, a save or the final rename may fail
    MaxSessions,    \* bound: download()/resume() calls
    MaxCrashes      \* bound: crashes

Chunks == 1..NumChunks

ASSUME EngineAssumption ==
    /\ NumChunks \in Nat
    /\ IsFiniteSet(Workers) /\ Workers # {}
    /\ MaxAttempts \in Nat \ {0}
    /\ Interval \in Nat \ {0}
    /\ PlanBatch \in Nat \ {0}
    /\ {Adaptive, HasManifest, ExpectedHash, Corruption, Routing, CallbackErrors,
        Interrupts, DiskErrors} \subseteq BOOLEAN
    /\ HasManifest => ~Adaptive   \* disable_planning
    /\ MaxSessions \in Nat
    /\ MaxCrashes \in Nat

VARIABLES
    main,             \* where the main coroutine is
    sessionStatus,    \* DownloadState.status, kept after the call returned
    status,           \* ChunkState.status
    retries,          \* ChunkState.retries
    hash,             \* ChunkState.computed_hash
    planned,          \* len(DownloadState.chunks)
    queue,            \* the asyncio.Queue; always in index order, so a set
    shutdown,         \* the _shutdown event
    wpc,              \* where each worker is
    wchunk,           \* the chunk it holds, 0 if none
    wdigest,          \* the digest _fetch_chunk returned to it
    sinceCheckpoint,  \* _chunks_since_checkpoint
    lock,             \* holder of _checkpoint_lock, as a set
    thread,           \* the pool thread running _checkpoint_sync
    page,             \* the .part file as read() sees it
    durable,          \* the .part file as a power loss leaves it
    part,             \* the .part file exists
    stateFile,        \* the state file, as a set: empty if there is none
    output,           \* the delivered file, as a set: empty if there is none
    sessions,         \* sessions started so far
    crashes           \* crashes so far

memVars    == <<status, retries, hash, planned>>
workerVars == <<wpc, wchunk, wdigest>>
ckptVars   == <<sinceCheckpoint, lock, thread>>
diskVars   == <<page, durable, part, stateFile, output>>
boundVars  == <<sessions, crashes>>
vars == <<main, sessionStatus, memVars, queue, shutdown, workerVars, ckptVars,
          diskVars, boundVars>>

-----------------------------------------------------------------------------
(* Values *)

Content  == {"hole", "torn", "good", "bad"}
Payloads == IF Corruption THEN {"good", "bad"} ELSE {"good"}
Digests  == {"none", "good", "bad"}

ChunkStatus   == {"PENDING", "IN_PROGRESS", "COMPLETE", "FAILED", "ABANDONED"}
SessionStatus == {"NONE", "DOWNLOADING", "VERIFYING", "COMPLETE", "FAILED", "CANCELLED"}

\* What ChunkState.to_dict writes about one chunk.
ChunkRecord == [st : ChunkStatus, h : Digests, r : 0..(MaxAttempts - 1)]

\* What DownloadState.to_json writes.
StateRecord == [status : SessionStatus, chunks : Seq(ChunkRecord)]

MainPCs == {"down",            \* no process
            "opening",         \* state built, initial save pending
            "running",         \* in the wait loop of _run
            "interruptSync",   \* workers cancelled, writer.sync pending
            "interruptSave",   \* writer closed, save pending
            "finalizing",      \* all workers returned, writer.sync pending
            "verifying",       \* writer closed, hash of the file pending
            "delivering",      \* os.replace(part, output) pending
            "cleaning",        \* state_manager.delete pending
            "ended"}           \* the call returned or raised

WorkerPCs == {"off", "loop", "select", "fetch", "got", "backoff", "lock", "ckpt", "exit", "fail"}

\* "raised": the checkpoint failed, and the worker has not been told yet.
ThreadPCs == {"off", "sync", "status", "read", "replace", "raised"}

IdleThread == [pc |-> "off", status |-> "NONE", chunks |-> <<>>]

\* The session's call has not returned yet.
Active == main \notin {"down", "ended", "cleaning"}

\* The SparseFileWriter has not been closed.
WriterOpen == main \in {"running", "interruptSync", "finalizing"}

Planned == 1..planned

\* ChunkState of c as a record, and the whole DownloadState.
RecordOf(c) == [st |-> status[c], h |-> hash[c], r |-> retries[c]]
Snapshot(st) == [status |-> st, chunks |-> [c \in Planned |-> RecordOf(c)]]

Init ==
    /\ main = "down"
    /\ sessionStatus = "NONE"
    /\ status = [c \in Chunks |-> "PENDING"]
    /\ retries = [c \in Chunks |-> 0]
    /\ hash = [c \in Chunks |-> "none"]
    /\ planned = 0
    /\ queue = {}
    /\ shutdown = FALSE
    /\ wpc = [w \in Workers |-> "off"]
    /\ wchunk = [w \in Workers |-> 0]
    /\ wdigest = [w \in Workers |-> "none"]
    /\ sinceCheckpoint = 0
    /\ lock = {}
    /\ thread = IdleThread
    /\ page = [c \in Chunks |-> "hole"]
    /\ durable = [c \in Chunks |-> "hole"]
    /\ part = FALSE
    /\ stateFile = {}
    /\ output = {}
    /\ sessions = 0
    /\ crashes = 0

-----------------------------------------------------------------------------
(* Starting a session *)

\* plan_initial / plan_more: one batch when lazy, the whole file otherwise.
PlanFrom(k) == IF Adaptive /\ k + PlanBatch < NumChunks THEN k + PlanBatch ELSE NumChunks

\* A refill that starts one chunk too early.
BatchOverlapping(k) == (IF k = 0 THEN 1 ELSE k)..PlanFrom(k)

\* The indices of the chunks the next batch adds.
Batch(k) == (k + 1)..PlanFrom(k)

\* download(): the state is built, a left-over .part is unlinked and a new one
\* created.  An older session's state file is still there until the first save.
Download ==
    /\ main = "down" /\ sessions < MaxSessions
    /\ sessions' = sessions + 1
    /\ main' = "opening"
    /\ sessionStatus' = "DOWNLOADING"
    /\ planned' = PlanFrom(0)
    /\ status' = [c \in Chunks |-> "PENDING"]
    /\ retries' = [c \in Chunks |-> 0]
    /\ hash' = [c \in Chunks |-> "none"]
    /\ queue' = Batch(0)
    /\ part' = TRUE
    /\ page' = [c \in Chunks |-> "hole"]
    /\ durable' = [c \in Chunks |-> "hole"]
    /\ UNCHANGED <<shutdown, workerVars, ckptVars, stateFile, output, crashes>>

\* Resuming on the word of the state file alone.
SurvivesUnread(rec, c) == part /\ rec.st = "COMPLETE" /\ rec.h # "none"

\* The chunk's bytes hash to what the state file recorded (_revalidate_chunks).
\* With no .part file, resume() resets every chunk first.
Survives(rec, c) ==
    /\ part
    /\ rec.st = "COMPLETE"
    /\ rec.h # "none"
    /\ page[c] = rec.h

\* _reset_chunk keeps the retry count of every chunk but an abandoned one.
ResetRetries(rec) == IF rec.st = "ABANDONED" THEN 0 ELSE rec.r

\* Leaving abandoned chunks out of the queue of a resumed session.
RemainingButAbandoned(file, kept) ==
    {c \in DOMAIN file.chunks \ kept : file.chunks[c].st # "ABANDONED"}

\* The chunks _run puts into the queue: all that are not successful.
Remaining(file, kept) == DOMAIN file.chunks \ kept

\* The chunks of the loaded state after _revalidate_chunks and _reset_chunk.
RestoreChunks(file) ==
    LET known == DOMAIN file.chunks
        kept  == {c \in known : Survives(file.chunks[c], c)}
    IN /\ planned' = Len(file.chunks)
       /\ status' = [c \in Chunks |-> IF c \in kept THEN "COMPLETE" ELSE "PENDING"]
       /\ hash' = [c \in Chunks |-> IF c \in kept THEN file.chunks[c].h ELSE "none"]
       /\ retries' = [c \in Chunks |->
                        IF c \in kept THEN file.chunks[c].r
                        ELSE IF c \in known THEN ResetRetries(file.chunks[c])
                        ELSE 0]
       /\ queue' = Remaining(file, kept)

\* resume(): load the state file, re-hash the chunks it calls complete, reset
\* and enqueue the rest.  The planner is moved past the recorded chunks.
Resume ==
    /\ main = "down" /\ sessions < MaxSessions
    /\ \E file \in stateFile : RestoreChunks(file)
    /\ sessions' = sessions + 1
    /\ main' = "opening"
    /\ sessionStatus' = "DOWNLOADING"
    /\ part' = TRUE
    /\ IF part
       THEN UNCHANGED <<page, durable>>
       ELSE /\ page' = [c \in Chunks |-> "hole"]
            /\ durable' = [c \in Chunks |-> "hole"]
    /\ UNCHANGED <<shutdown, workerVars, ckptVars, stateFile, output, crashes>>

\* Starting the workers before the session is on disk.
NoInitialSave == UNCHANGED stateFile

\* _run saves the state before the first worker starts.
InitialSave == stateFile' = {Snapshot("DOWNLOADING")}

\* The head of _run: clear the shutdown event, save the state, start
\* min(max_parallel_workers, queue size) workers, or none for an empty queue.
OpenSession ==
    /\ main = "opening"
    /\ shutdown' = FALSE
    /\ sinceCheckpoint' = 0
    /\ InitialSave
    /\ \E started \in SUBSET Workers :
        /\ Cardinality(started) = IF Cardinality(queue) < Cardinality(Workers)
                                  THEN Cardinality(queue) ELSE Cardinality(Workers)
        /\ wpc' = [w \in Workers |-> IF w \in started THEN "loop" ELSE "off"]
    /\ main' = "running"
    /\ UNCHANGED <<sessionStatus, memVars, queue, wchunk, wdigest, lock, thread,
                   page, durable, part, output, boundVars>>

-----------------------------------------------------------------------------
(* Workers *)

\* Reading the head of the queue without taking it off.
PeekNext(c) == c \in queue /\ (\A d \in queue : c =< d) /\ UNCHANGED queue

\* queue.get_nowait(): chunks are queued, and so come out, in index order.
GetNext(c) == c \in queue /\ (\A d \in queue : c =< d) /\ queue' = queue \ {c}

\* An attempt begins with the choice of a mirror, if there are several.
AttemptStart == IF Routing THEN "select" ELSE "fetch"

\* _worker takes the next chunk; _download_chunk_with_retries marks it.
TakeChunk(w) ==
    /\ main = "running" /\ wpc[w] = "loop" /\ ~shutdown
    /\ \E c \in Chunks :
        /\ GetNext(c)
        /\ wchunk' = [wchunk EXCEPT ![w] = c]
        /\ status' = [status EXCEPT ![c] = "IN_PROGRESS"]
    /\ wpc' = [wpc EXCEPT ![w] = AttemptStart]
    /\ UNCHANGED <<main, sessionStatus, retries, hash, planned, shutdown, wdigest,
                   ckptVars, diskVars, boundVars>>

\* The planner has more of the file to hand out (_refill_queue).
CanRefill == Adaptive /\ planned < NumChunks

\* An empty queue: plan the next batch when sizing is adaptive.
RefillQueue(w) ==
    /\ main = "running" /\ wpc[w] = "loop" /\ ~shutdown
    /\ queue = {} /\ CanRefill
    /\ planned' = PlanFrom(planned)
    /\ queue' = Batch(planned)
    /\ UNCHANGED <<main, sessionStatus, status, retries, hash, shutdown, workerVars,
                   ckptVars, diskVars, boundVars>>

\* The worker returns: shutdown was requested, or there is nothing left.
WorkerExit(w) ==
    /\ main = "running" /\ wpc[w] = "loop"
    /\ shutdown \/ (queue = {} /\ ~CanRefill)
    /\ wpc' = [wpc EXCEPT ![w] = "exit"]
    /\ UNCHANGED <<main, sessionStatus, memVars, queue, shutdown, wchunk, wdigest,
                   ckptVars, diskVars, boundVars>>

\* _select_mirror returns: a mirror, or after a shutdown none, that is the origin.
Select(w) ==
    /\ main = "running" /\ wpc[w] = "select"
    /\ wpc' = [wpc EXCEPT ![w] = "fetch"]
    /\ UNCHANGED <<main, sessionStatus, memVars, queue, shutdown, wchunk, wdigest,
                   ckptVars, diskVars, boundVars>>

\* The worker task ends with an exception raised outside of the retry loop's try:
\* its chunk stays IN_PROGRESS and in nobody's hands until _run notices.
LeaveInProgress(w) ==
    /\ wpc' = [wpc EXCEPT ![w] = "fail"]
    /\ wchunk' = [wchunk EXCEPT ![w] = 0]
    /\ wdigest' = [wdigest EXCEPT ![w] = "none"]
    /\ UNCHANGED <<main, sessionStatus, memVars, queue, shutdown, ckptVars, diskVars,
                   boundVars>>

\* _select_mirror's deadline passes with every mirror in cooldown or excluded.
NoMirror(w) == main = "running" /\ wpc[w] = "select" /\ LeaveInProgress(w)

\* The progress callback raises between two blocks: no ReliaDLError, so not retried.
CallbackRaises(w) ==
    main = "running" /\ CallbackErrors /\ wpc[w] = "fetch" /\ LeaveInProgress(w)

\* A write buffer of the chunk reaches the file, with more to come.
WriteBlock(w) ==
    /\ main = "running" /\ wpc[w] = "fetch"
    /\ page[wchunk[w]] # "torn"
    /\ page' = [page EXCEPT ![wchunk[w]] = "torn"]
    /\ UNCHANGED <<main, sessionStatus, memVars, queue, shutdown, workerVars,
                   ckptVars, durable, part, stateFile, output, boundVars>>

\* _fetch_chunk returns: the whole range was received, hashed on the way and
\* written, and the digest is the expected one if there is one.
Receive(w) ==
    /\ main = "running" /\ wpc[w] = "fetch"
    /\ \E p \in Payloads :
        /\ HasManifest => p = "good"
        /\ page' = [page EXCEPT ![wchunk[w]] = p]
        /\ wdigest' = [wdigest EXCEPT ![w] = p]
    /\ wpc' = [wpc EXCEPT ![w] = "got"]
    /\ UNCHANGED <<main, sessionStatus, memVars, queue, shutdown, wchunk,
                   ckptVars, durable, part, stateFile, output, boundVars>>

\* Counting the attempt that just failed out of the limit.
GiveUpOrRetryLate(w, retryable) ==
    LET c == wchunk[w] IN
    IF ~retryable \/ retries[c] >= MaxAttempts
    THEN /\ status' = [status EXCEPT ![c] = "ABANDONED"]
         /\ wpc' = [wpc EXCEPT ![w] = "fail"]
         /\ wchunk' = [wchunk EXCEPT ![w] = 0]
         /\ UNCHANGED retries
    ELSE /\ status' = [status EXCEPT ![c] = "FAILED"]
         /\ retries' = [retries EXCEPT ![c] = @ + 1]
         /\ wpc' = [wpc EXCEPT ![w] = "backoff"]
         /\ UNCHANGED wchunk

\* The except branch: back off and retry, or abandon the chunk and re-raise.
GiveUpOrRetry(w, retryable) ==
    LET c == wchunk[w] IN
    IF ~retryable \/ retries[c] + 1 >= MaxAttempts
    THEN /\ status' = [status EXCEPT ![c] = "ABANDONED"]
         /\ wpc' = [wpc EXCEPT ![w] = "fail"]
         /\ wchunk' = [wchunk EXCEPT ![w] = 0]
         /\ UNCHANGED retries
    ELSE /\ status' = [status EXCEPT ![c] = "FAILED"]
         /\ retries' = [retries EXCEPT ![c] = @ + 1]
         /\ wpc' = [wpc EXCEPT ![w] = "backoff"]
         /\ UNCHANGED wchunk

\* The request fails: refused, timed out, truncated, wrong range, ...
FetchError(w) ==
    /\ main = "running" /\ wpc[w] = "fetch"
    /\ \E retryable \in BOOLEAN : GiveUpOrRetry(w, retryable)
    /\ UNCHANGED <<main, sessionStatus, hash, planned, queue, shutdown, wdigest,
                   ckptVars, diskVars, boundVars>>

\* Every byte arrived and was written, but the digest is not the expected one.
HashMismatch(w) ==
    /\ main = "running" /\ wpc[w] = "fetch"
    /\ HasManifest /\ "bad" \in Payloads
    /\ page' = [page EXCEPT ![wchunk[w]] = "bad"]
    /\ GiveUpOrRetry(w, TRUE)
    /\ UNCHANGED <<main, sessionStatus, hash, planned, queue, shutdown, wdigest,
                   ckptVars, durable, part, stateFile, output, boundVars>>

\* The backoff sleep is over.
Retry(w) ==
    /\ main = "running" /\ wpc[w] = "backoff"
    /\ status' = [status EXCEPT ![wchunk[w]] = "IN_PROGRESS"]
    /\ wpc' = [wpc EXCEPT ![w] = AttemptStart]
    /\ UNCHANGED <<main, sessionStatus, retries, hash, planned, queue, shutdown,
                   wchunk, wdigest, ckptVars, diskVars, boundVars>>

\* Checkpointing one chunk too late.
CountDueLate(n) == n > Interval

\* The chunk count alone makes a checkpoint due.
CountDue(n) == n >= Interval

\* scheduler.record_success raises before the chunk is marked: the dispatcher
\* refuses a measurement such as a duration of zero.
RecordRaises(w) ==
    main = "running" /\ Routing /\ wpc[w] = "got" /\ LeaveInProgress(w)

\* mark_complete, and the worker lets go of the chunk.
MarkComplete(w) ==
    /\ main = "running" /\ wpc[w] = "got"
    /\ status' = [status EXCEPT ![wchunk[w]] = "COMPLETE"]
    /\ hash' = [hash EXCEPT ![wchunk[w]] = wdigest[w]]
    /\ wchunk' = [wchunk EXCEPT ![w] = 0]
    /\ wdigest' = [wdigest EXCEPT ![w] = "none"]

\* The chunk is marked, but the progress callback raises: it is not counted.
CompleteUncounted(w) ==
    /\ CallbackErrors
    /\ MarkComplete(w)
    /\ wpc' = [wpc EXCEPT ![w] = "fail"]
    /\ UNCHANGED <<main, sessionStatus, retries, planned, queue, shutdown, ckptVars,
                   diskVars, boundVars>>

\* The chunk is marked, then the head of _maybe_checkpoint: a checkpoint is due once
\* Interval chunks are counted, or earlier, when the time threshold has passed.
Complete(w) ==
    /\ MarkComplete(w)
    /\ sinceCheckpoint' = sinceCheckpoint + 1
    /\ \E timeDue \in BOOLEAN :
        wpc' = [wpc EXCEPT ![w] = IF CountDue(sinceCheckpoint') \/ timeDue
                                  THEN "lock" ELSE "loop"]
    /\ UNCHANGED <<main, sessionStatus, retries, planned, queue, shutdown, lock,
                   thread, diskVars, boundVars>>

\* The re-check under _checkpoint_lock: somebody else has just saved.
SkipCheckpoint(w) ==
    /\ main = "running" /\ wpc[w] = "lock" /\ lock = {}
    /\ sinceCheckpoint = 0
    /\ wpc' = [wpc EXCEPT ![w] = "loop"]
    /\ UNCHANGED <<main, sessionStatus, memVars, queue, shutdown, wchunk, wdigest,
                   ckptVars, diskVars, boundVars>>

\* Reset the counter and hand _checkpoint_sync to a pool thread.
StartCheckpoint(w) ==
    /\ main = "running" /\ wpc[w] = "lock" /\ lock = {}
    /\ sinceCheckpoint # 0
    /\ lock' = {w}
    /\ sinceCheckpoint' = 0
    /\ thread' = [IdleThread EXCEPT !.pc = "sync"]
    /\ wpc' = [wpc EXCEPT ![w] = "ckpt"]
    /\ UNCHANGED <<main, sessionStatus, memVars, queue, shutdown, wchunk, wdigest,
                   diskVars, boundVars>>

\* Leaving the locked section without releasing the lock.
KeepLock == UNCHANGED lock

\* The end of "async with self._checkpoint_lock".
ReleaseLock == lock' = {}

\* The thread is done: the worker releases the lock and goes on.
CheckpointDone(w) ==
    /\ main = "running" /\ wpc[w] = "ckpt"
    /\ thread.pc = "off"
    /\ ReleaseLock
    /\ wpc' = [wpc EXCEPT ![w] = "loop"]
    /\ UNCHANGED <<main, sessionStatus, memVars, queue, shutdown, wchunk, wdigest,
                   sinceCheckpoint, thread, diskVars, boundVars>>

\* The checkpoint failed: the worker releases the lock and raises.
CheckpointRaises(w) ==
    /\ main = "running" /\ wpc[w] = "ckpt"
    /\ thread.pc = "raised"
    /\ ReleaseLock
    /\ thread' = IdleThread
    /\ wpc' = [wpc EXCEPT ![w] = "fail"]
    /\ UNCHANGED <<main, sessionStatus, memVars, queue, shutdown, wchunk, wdigest,
                   sinceCheckpoint, diskVars, boundVars>>

Worker(w) ==
    \/ TakeChunk(w) \/ RefillQueue(w) \/ WorkerExit(w)
    \/ Select(w) \/ NoMirror(w)
    \/ WriteBlock(w) \/ Receive(w) \/ FetchError(w) \/ HashMismatch(w) \/ Retry(w)
    \/ CallbackRaises(w) \/ RecordRaises(w) \/ CompleteUncounted(w) \/ Complete(w)
    \/ SkipCheckpoint(w) \/ StartCheckpoint(w) \/ CheckpointDone(w) \/ CheckpointRaises(w)

-----------------------------------------------------------------------------
(* The checkpoint thread *)

\* writer.sync(); on a writer that was closed meanwhile it raises, and nobody
\* is left waiting for the result.
ThreadSync ==
    /\ thread.pc = "sync"
    /\ IF WriterOpen
       THEN /\ durable' = page
            /\ thread' = [thread EXCEPT !.pc = "status"]
       ELSE /\ thread' = IdleThread
            /\ UNCHANGED durable
    /\ UNCHANGED <<main, sessionStatus, memVars, queue, shutdown, workerVars,
                   sinceCheckpoint, lock, page, part, stateFile, output, boundVars>>

\* to_json() begins: the session's status is read before the chunks.
ThreadReadStatus ==
    /\ thread.pc = "status"
    /\ thread' = [thread EXCEPT !.pc = "read", !.status = sessionStatus]
    /\ UNCHANGED <<main, sessionStatus, memVars, queue, shutdown, workerVars,
                   sinceCheckpoint, lock, diskVars, boundVars>>

\* What to_dict() can see of chunk c.  It reads the status last, while
\* mark_complete and mark_failed set it first: the thread may see the new status
\* with the old hash, or the old retry count.
Readable(c) ==
    {RecordOf(c)} \cup
    {[RecordOf(c) EXCEPT !.st = st] : st \in
        {"COMPLETE" : w \in {v \in Workers : wpc[v] = "got" /\ wchunk[v] = c}} \cup
        {"FAILED" : w \in {v \in Workers : /\ wpc[v] = "fetch" /\ wchunk[v] = c
                                          /\ retries[c] + 1 < MaxAttempts}}}

\* to_json(): the chunks are read one after the other, workers running.
ThreadRead ==
    /\ thread.pc = "read"
    /\ LET next == Len(thread.chunks) + 1 IN
       IF next \in Planned
       THEN \E rec \in Readable(next) : thread' = [thread EXCEPT !.chunks = Append(@, rec)]
       ELSE thread' = [thread EXCEPT !.pc = "replace"]
    /\ UNCHANGED <<main, sessionStatus, memVars, queue, shutdown, workerVars,
                   sinceCheckpoint, lock, diskVars, boundVars>>

\* The end of StateManager.save: the new state file is in place and durable.
ThreadReplace ==
    /\ thread.pc = "replace"
    /\ stateFile' = {[status |-> thread.status, chunks |-> thread.chunks]}
    /\ thread' = IdleThread
    /\ UNCHANGED <<main, sessionStatus, memVars, queue, shutdown, workerVars,
                   sinceCheckpoint, lock, page, durable, part, output, boundVars>>

\* fsync or the save fails.  When the worker was cancelled, nobody is told.
ThreadRaises ==
    /\ DiskErrors /\ thread.pc \in {"sync", "replace"}
    /\ thread' = [IdleThread EXCEPT !.pc = IF lock = {} THEN "off" ELSE "raised"]
    /\ UNCHANGED <<main, sessionStatus, memVars, queue, shutdown, workerVars,
                   sinceCheckpoint, lock, diskVars, boundVars>>

CheckpointThread == ThreadSync \/ ThreadReadStatus \/ ThreadRead \/ ThreadReplace \/ ThreadRaises

-----------------------------------------------------------------------------
(* The main coroutine *)

\* Some worker task is done() with an exception.
WorkerFailed == \E w \in Workers : wpc[w] = "fail"

\* Taking a worker that sleeps before a retry for one that is done.
WorkerAwake == \E w \in Workers : wpc[w] \notin {"off", "exit", "fail", "backoff"}

\* Some worker task is not done().
WorkerLive == \E w \in Workers : wpc[w] \notin {"off", "exit", "fail"}

\* _stop_workers, then the head of _checkpoint_interrupted.  Cancelling a task
\* does not stop the pool thread it waits for: a checkpoint goes on without the
\* lock, and the write of a chunk (which wchunk remembers) may yet reach the file.
StopSession(result) ==
    /\ wpc' = [w \in Workers |-> "off"]
    /\ wchunk' = [w \in Workers |-> IF wpc[w] = "fetch" THEN wchunk[w] ELSE 0]
    /\ wdigest' = [w \in Workers |-> "none"]
    /\ lock' = {}
    /\ status' = [c \in Chunks |-> IF status[c] \in {"IN_PROGRESS", "FAILED"}
                                   THEN "PENDING" ELSE status[c]]
    /\ sessionStatus' = result
    /\ thread' = IF thread.pc = "raised" THEN IdleThread ELSE thread
    /\ main' = "interruptSync"
    /\ UNCHANGED <<retries, hash, planned, queue, shutdown, sinceCheckpoint,
                   diskVars, boundVars>>

\* A worker raised: stop the others and re-raise.
StopFailed == main = "running" /\ WorkerFailed /\ StopSession("FAILED")

\* Shutdown was requested and a worker is still at work.
StopShutdown ==
    /\ main = "running" /\ ~WorkerFailed /\ WorkerLive /\ shutdown
    /\ StopSession("CANCELLED")

\* The task running download()/resume() is cancelled (asyncio.CancelledError).
StopCancelled == main = "running" /\ Interrupts /\ StopSession("CANCELLED")

\* No worker is running and none failed: the loop of _run is over.
AllReturned ==
    /\ main = "running" /\ ~WorkerFailed /\ ~WorkerLive
    /\ main' = "finalizing"
    /\ UNCHANGED <<sessionStatus, memVars, queue, shutdown, workerVars, ckptVars,
                   diskVars, boundVars>>

\* The write of a cancelled worker lands before the writer is closed.
StrayWrite(w) ==
    /\ main = "interruptSync" /\ wpc[w] = "off" /\ wchunk[w] # 0
    /\ \E p \in {"torn"} \cup Payloads : page' = [page EXCEPT ![wchunk[w]] = p]
    /\ wchunk' = [wchunk EXCEPT ![w] = 0]
    /\ UNCHANGED <<main, sessionStatus, memVars, queue, shutdown, wpc, wdigest, ckptVars,
                   durable, part, stateFile, output, boundVars>>

\* _checkpoint_interrupted: writer.sync(), writer.close().
InterruptSync ==
    /\ main = "interruptSync"
    /\ durable' = page
    /\ main' = "interruptSave"
    /\ UNCHANGED <<sessionStatus, memVars, queue, shutdown, workerVars, ckptVars,
                   page, part, stateFile, output, boundVars>>

\* _checkpoint_interrupted: state_manager.save(), then the exception is raised.
InterruptSave ==
    /\ main = "interruptSave"
    /\ stateFile' = {Snapshot(sessionStatus)}
    /\ main' = "ended"
    /\ UNCHANGED <<sessionStatus, memVars, queue, shutdown, workerVars, ckptVars,
                   page, durable, part, output, boundVars>>

\* _finalize: writer.sync(), writer.close().
FinalizeSync ==
    /\ main = "finalizing"
    /\ durable' = page
    /\ main' = "verifying"
    /\ sessionStatus' = "VERIFYING"
    /\ UNCHANGED <<memVars, queue, shutdown, workerVars, ckptVars,
                   page, part, stateFile, output, boundVars>>

\* Checking only the chunks that were marked complete.
CompleteChunksMatch ==
    ExpectedHash => \A c \in Chunks : status[c] = "COMPLETE" => page[c] = "good"

\* The hash of the whole file is the expected one, if one is expected.
FileMatches == ExpectedHash => \A c \in Chunks : page[c] = "good"

\* _finalize: the hash of the whole file, compared if one was expected.
FinalizeVerify ==
    /\ main = "verifying"
    /\ IF FileMatches
       THEN /\ main' = "delivering"
            /\ UNCHANGED <<sessionStatus, stateFile>>
       ELSE /\ sessionStatus' = "FAILED"
            /\ stateFile' = {Snapshot("FAILED")}
            /\ main' = "ended"
    /\ UNCHANGED <<memVars, queue, shutdown, workerVars, ckptVars,
                   page, durable, part, output, boundVars>>

\* _finalize: os.replace(part_path, output).
FinalizeDeliver ==
    /\ main = "delivering"
    /\ output' = {page}
    /\ part' = FALSE
    /\ main' = "cleaning"
    /\ UNCHANGED <<sessionStatus, memVars, queue, shutdown, workerVars, ckptVars,
                   page, durable, stateFile, boundVars>>

\* _finalize: state_manager.delete(), and the call returns its result.
FinalizeDelete ==
    /\ main = "cleaning"
    /\ stateFile' = {}
    /\ sessionStatus' = "COMPLETE"
    /\ main' = "ended"
    /\ UNCHANGED <<memVars, queue, shutdown, workerVars, ckptVars,
                   page, durable, part, output, boundVars>>

\* A step of the call raises and nothing catches it: the disk fails under the
\* first save, under _checkpoint_interrupted or under _finalize, or the task is
\* cancelled while _finalize waits for its sync or its hash.
RaiseOut ==
    /\ \/ DiskErrors /\ main \in {"opening", "interruptSync", "interruptSave",
                                  "finalizing", "verifying", "delivering"}
       \/ Interrupts /\ main \in {"finalizing", "verifying"}
    /\ main' = "ended"
    /\ UNCHANGED <<sessionStatus, memVars, queue, shutdown, workerVars, ckptVars,
                   diskVars, boundVars>>

MainLoop ==
    \/ OpenSession \/ StopFailed \/ StopShutdown \/ AllReturned
    \/ InterruptSync \/ InterruptSave
    \/ FinalizeSync \/ FinalizeVerify \/ FinalizeDeliver \/ FinalizeDelete

-----------------------------------------------------------------------------
(* The environment *)

\* request_shutdown(), from a signal handler that is installed before the
\* session starts, or from the progress callback.
RequestShutdown ==
    /\ Interrupts /\ Active /\ ~shutdown
    /\ shutdown' = TRUE
    /\ UNCHANGED <<main, sessionStatus, memVars, queue, workerVars, ckptVars,
                   diskVars, boundVars>>

\* The memory of the process is gone.
Forget ==
    /\ main' = "down"
    /\ status' = [c \in Chunks |-> "PENDING"]
    /\ retries' = [c \in Chunks |-> 0]
    /\ hash' = [c \in Chunks |-> "none"]
    /\ planned' = 0
    /\ queue' = {}
    /\ shutdown' = FALSE
    /\ wpc' = [w \in Workers |-> "off"]
    /\ wchunk' = [w \in Workers |-> 0]
    /\ wdigest' = [w \in Workers |-> "none"]
    /\ sinceCheckpoint' = 0
    /\ lock' = {}
    /\ thread' = IdleThread

\* The command ends; asyncio.run first joins the pool threads.
ProcessExit ==
    /\ main = "ended" /\ thread.pc = "off"
    /\ Forget
    /\ UNCHANGED <<sessionStatus, diskVars, boundVars>>

\* A block that was not synced may be lost, kept, or kept in part.
CrashImages ==
    {img \in [Chunks -> Content] :
        \A c \in Chunks :
            \/ img[c] \in {page[c], durable[c]}
            \/ page[c] # durable[c] /\ img[c] = "torn"}

\* SIGKILL or a power loss, at any point.
Crash ==
    /\ main # "down" /\ crashes < MaxCrashes
    /\ crashes' = crashes + 1
    /\ \E img \in CrashImages : page' = img /\ durable' = img
    /\ sessionStatus' = "NONE"
    /\ Forget
    /\ UNCHANGED <<part, stateFile, output, sessions>>

Next ==
    \/ Download \/ Resume
    \/ MainLoop
    \/ StopCancelled \/ RaiseOut
    \/ \E w \in Workers : Worker(w) \/ StrayWrite(w)
    \/ CheckpointThread
    \/ RequestShutdown \/ ProcessExit \/ Crash

Spec == Init /\ [][Next]_vars

\* The loop runs every ready task, the pool every thread, and every request is
\* answered or times out.  Nobody has to start a session or ask for a shutdown.
Fairness ==
    /\ WF_vars(MainLoop)
    /\ WF_vars(CheckpointThread)
    /\ WF_vars(ProcessExit)
    /\ \A w \in Workers : WF_vars(Worker(w))

FairSpec == Spec /\ Fairness

-----------------------------------------------------------------------------
(* Properties *)

\* The worker holds a chunk that it is downloading.
Busy(w) == wpc[w] \in {"select", "fetch", "got", "backoff"}

MemoryTypeOK ==
    /\ main \in MainPCs
    /\ sessionStatus \in SessionStatus
    /\ status \in [Chunks -> ChunkStatus]
    /\ retries \in [Chunks -> 0..(MaxAttempts - 1)]
    /\ hash \in [Chunks -> Digests]
    /\ planned \in 0..NumChunks
    /\ queue \subseteq Planned
    /\ shutdown \in BOOLEAN

WorkersTypeOK ==
    /\ wpc \in [Workers -> WorkerPCs]
    /\ wchunk \in [Workers -> 0..NumChunks]
    /\ wdigest \in [Workers -> Digests]
    /\ \A w \in Workers : Busy(w) => wchunk[w] \in Chunks

CheckpointTypeOK ==
    /\ sinceCheckpoint \in Nat
    /\ lock \subseteq Workers
    /\ thread \in [pc : ThreadPCs, status : SessionStatus, chunks : Seq(ChunkRecord)]
    /\ Len(thread.chunks) =< NumChunks

DiskTypeOK ==
    /\ page \in [Chunks -> Content]
    /\ durable \in [Chunks -> Content]
    /\ part \in BOOLEAN
    /\ stateFile \subseteq StateRecord
    /\ \A file \in stateFile : Len(file.chunks) =< NumChunks
    /\ output \subseteq [Chunks -> Content]
    /\ sessions \in 0..MaxSessions
    /\ crashes \in 0..MaxCrashes

\* The types.  The retry count is part of them because it is bounded only by
\* the limit on attempts, across sessions that hand it on in the state file.
TypeOK == MemoryTypeOK /\ WorkersTypeOK /\ CheckpointTypeOK /\ DiskTypeOK

\* A chunk counted as complete is in the file, with the bytes its digest was
\* computed over.  Crashes lose written bytes, the state file may claim chunks
\* whose bytes never became durable or carry no hash, attempts are torn and
\* retried: revalidation and the ownership of chunks have to make up for it.
CompleteIsOnDisk ==
    Active => \A c \in Chunks :
        status[c] = "COMPLETE" => hash[c] # "none" /\ page[c] = hash[c]

Holders(c) == {w \in Workers : Busy(w) /\ wchunk[w] = c}

\* The chunks that nobody will fetch: neither waiting nor held, nor complete.
Stranded ==
    {c \in Planned : c \notin queue /\ status[c] # "COMPLETE" /\ Holders(c) = {}}

\* In a running session no chunk is in two places: one that waits in the queue is
\* pending and held by nobody, no two workers hold one, and nobody holds a complete
\* or an abandoned one.  And hardly one is in none: a worker that raises strands
\* the chunk it held, abandoned or in progress, and only that one.
OnePlacePerChunk ==
    main = "running" =>
        /\ \A c \in Planned :
            /\ c \in queue => status[c] = "PENDING" /\ Holders(c) = {}
            /\ status[c] \in {"COMPLETE", "ABANDONED"} => Holders(c) = {}
            /\ Cardinality(Holders(c)) =< 1
        /\ Cardinality(Stranded) =< Cardinality({w \in Workers : wpc[w] = "fail"})

\* Only a session that holds every chunk of the file reaches _finalize, which
\* looks at no chunk status before it renames the .part file.
FinalizesOnlyWhole ==
    main \in {"finalizing", "verifying", "delivering", "cleaning"} =>
        \A c \in Chunks : status[c] = "COMPLETE"

\* With an expected file hash, whatever was corrupted, lost or left out on the
\* way, only the published bytes are ever delivered.
DeliversOnlyExpected ==
    ExpectedHash => \A file \in output : \A c \in Chunks : file[c] = "good"

\* The chunks whose completion a crash would forget.
Unrecorded ==
    {c \in Planned : /\ status[c] = "COMPLETE"
                     /\ \A file \in stateFile :
                            c \notin DOMAIN file.chunks \/ file.chunks[c].st # "COMPLETE"}

\* "The cost of the looser cadence is bounded": a full interval may be waiting
\* for the checkpoint in progress while the other workers complete another.
LossIsBounded ==
    main = "running" =>
        Cardinality(Unrecorded) =<
            IF Cardinality(Workers) = 1 THEN Interval
            ELSE 2 * Interval + Cardinality(Workers) - 2

\* A chunk that is complete stays complete for the rest of its session, and
\* nobody writes into its range again.
CompleteIsFinal ==
    [][main = "running" /\ main' # "down" =>
        \A c \in Chunks : status[c] = "COMPLETE" =>
            status'[c] = "COMPLETE" /\ hash'[c] = hash[c] /\ page'[c] = page[c]]_vars

\* Bytes fetched into a .part file are never stranded: there is a state file to
\* resume from, from before the first byte until the file has its final name.
BytesAreResumable ==
    part /\ (\E c \in Chunks : page[c] # "hole") => stateFile # {}

\* Every session ends: no worker waits forever for a chunk, a lock, a retry or
\* a checkpoint, whatever the servers answer and whenever it is stopped.
SessionEnds == Active ~> ~Active

\* The engine implements the transfer it promises.  While no process runs, it
\* can rely on the chunks that the next resume() would keep.
Kept ==
    {c \in Chunks : \E file \in stateFile :
        c \in DOMAIN file.chunks /\ Survives(file.chunks[c], c)}

Phase == CASE Active                            -> "active"
           [] ~Active /\ ~part /\ output # {}   -> "delivered"
           [] OTHER                             -> "idle"

Have == IF main = "down" THEN Kept ELSE {c \in Chunks : status[c] = "COMPLETE"}

Promise == INSTANCE ResumableTransfer WITH Parts <- Chunks, phase <- Phase, have <- Have

ImplementsPromise == Promise!Spec

-----------------------------------------------------------------------------
(* The inductive invariants behind the theorems of DownloadEngineProofs *)

\* Who may change which chunk.  A worker's chunk is its own, is neither complete
\* nor queued, and once received is on disk with the digest the worker carries.
ChunkOwnership ==
    /\ main # "running" => \A w \in Workers : ~Busy(w)
    /\ main = "interruptSync" =>
            \A w \in Workers : wchunk[w] # 0 => status[wchunk[w]] = "PENDING"
    /\ \A w \in Workers : Busy(w) => status[wchunk[w]] \in {"IN_PROGRESS", "FAILED"}
    /\ \A v, w \in Workers : Busy(v) /\ Busy(w) /\ wchunk[v] = wchunk[w] => v = w
    /\ \A c \in queue : status[c] = "PENDING"
    /\ \A c \in Chunks \ Planned : status[c] = "PENDING"
    /\ \A w \in Workers : wpc[w] = "got" =>
            wdigest[w] \in {"good", "bad"} /\ page[wchunk[w]] = wdigest[w]

IntegrityInv == TypeOK /\ ChunkOwnership /\ CompleteIsOnDisk

\* With a fixed partition every state file describes the whole file.
WholePartition ==
    /\ main # "down" => planned = NumChunks
    /\ \A file \in stateFile : Len(file.chunks) = NumChunks
    /\ thread.pc # "off" => main # "down"
    /\ thread.pc = "replace" => Len(thread.chunks) = NumChunks

\* Without a shutdown the workers stay until the queue is empty, and a chunk
\* leaves the queue only for a worker.
NoChunkForgotten ==
    /\ ~shutdown
    /\ main = "opening" => \A c \in Chunks : status[c] = "COMPLETE" \/ c \in queue
    /\ main = "running" => \A c \in Chunks :
            \/ status[c] = "COMPLETE"
            \/ c \in queue
            \/ \E w \in Workers : Busy(w) /\ wchunk[w] = c
            \/ WorkerFailed
    /\ main = "running" /\ queue # {} => WorkerLive \/ WorkerFailed

WholeInv == TypeOK /\ WholePartition /\ NoChunkForgotten /\ FinalizesOnlyWhole

\* The file that is about to be renamed has been compared with the expectation.
ExpectedInv ==
    /\ DeliversOnlyExpected
    /\ main = "delivering" => FileMatches

-----------------------------------------------------------------------------
(* Statements of the docs and comments that the code does not keep *)

\* DownloadEngine: after request_shutdown "the awaiting download/resume call
\* then raises DownloadCancelledError", so unfinished work is not finalized.
ShutdownIsNotSuccess ==
    main = "delivering" /\ shutdown => \A c \in Planned : status[c] = "COMPLETE"

\* _worker: "an empty queue means 'nothing planned yet', not 'nothing left'".
EmptyQueueIsNotTheEnd ==
    main = "finalizing" => planned = NumChunks
=============================================================================
