------------------------ MODULE DownloadEngineProofs ------------------------
(***************************************************************************)
(* Theorems about DownloadEngine for every number of chunks, workers,      *)
(* attempts, sessions and crashes.                                         *)
(***************************************************************************)
EXTENDS DownloadEngine, FiniteSetTheorems, TLAPS

-----------------------------------------------------------------------------
(* Types *)

\* A batch of chunks stays within the partition.
LEMMA PlanFromType ==
    ASSUME NEW k \in 0..NumChunks
    PROVE  PlanFrom(k) \in 0..NumChunks /\ PlanFrom(k) >= k
BY EngineAssumption DEF PlanFrom

\* The record of a chunk, and of the whole state, is what to_dict may write.
LEMMA RecordType ==
    ASSUME MemoryTypeOK
    PROVE  /\ \A c \in Chunks : RecordOf(c) \in ChunkRecord
           /\ \A st \in SessionStatus : /\ Snapshot(st) \in StateRecord
                                        /\ Len(Snapshot(st).chunks) = planned
<1>1. \A c \in Chunks : RecordOf(c) \in ChunkRecord
  BY DEF MemoryTypeOK, RecordOf, ChunkRecord
<1>2. ASSUME NEW st \in SessionStatus
      PROVE  /\ Snapshot(st) \in StateRecord
             /\ Len(Snapshot(st).chunks) = planned
  <2>1. planned \in Nat /\ Planned \subseteq Chunks
    BY EngineAssumption DEF MemoryTypeOK, Planned, Chunks
  <2>2. [c \in Planned |-> RecordOf(c)] \in Seq(ChunkRecord)
    BY <1>1, <2>1 DEF Planned
  <2>3. Len([c \in Planned |-> RecordOf(c)]) = planned
    BY <2>1 DEF Planned
  <2>. QED  BY <2>2, <2>3 DEF Snapshot, StateRecord
<1>. QED  BY <1>1, <1>2

\* The thread that is not running is well-typed.
LEMMA IdleThreadType ==
    /\ IdleThread \in [pc : ThreadPCs, status : SessionStatus, chunks : Seq(ChunkRecord)]
    /\ Len(IdleThread.chunks) = 0
<1>1. <<>> \in Seq(ChunkRecord) /\ Len(<<>>) = 0
  OBVIOUS
<1>2. "off" \in ThreadPCs /\ "NONE" \in SessionStatus
  BY DEF ThreadPCs, SessionStatus
<1>. QED  BY <1>1, <1>2 DEF IdleThread

\* The counters that start from zero.
LEMMA ZeroType ==
    /\ 0 \in 0..(MaxAttempts - 1)
    /\ 0 \in 0..NumChunks
    /\ 0 \in 0..MaxSessions
    /\ 0 \in 0..MaxCrashes
BY EngineAssumption

\* An attempt starts at the choice of a mirror or at the request.
LEMMA AttemptStarts == AttemptStart \in {"select", "fetch"}
BY DEF AttemptStart

\* The three exits that leave the chunk in progress are one step for every proof.
LEMMA LeavingStep ==
    ASSUME NEW w \in Workers, NoMirror(w) \/ CallbackRaises(w) \/ RecordRaises(w)
    PROVE  /\ main = "running" /\ main' = "running"
           /\ wpc[w] \in {"select", "fetch", "got"}
           /\ wpc' = [wpc EXCEPT ![w] = "fail"]
           /\ wchunk' = [wchunk EXCEPT ![w] = 0]
           /\ wdigest' = [wdigest EXCEPT ![w] = "none"]
           /\ UNCHANGED <<sessionStatus, status, retries, hash, planned, queue, shutdown>>
           /\ UNCHANGED <<sinceCheckpoint, lock, thread>>
           /\ UNCHANGED <<page, durable, part, stateFile, output, sessions, crashes>>
BY DEF NoMirror, CallbackRaises, RecordRaises, LeaveInProgress, memVars, ckptVars, diskVars,
   boundVars

\* Completion, counted for the next checkpoint or not.
LEMMA CompletingStep ==
    ASSUME NEW w \in Workers, Complete(w) \/ CompleteUncounted(w)
    PROVE  /\ main = "running" /\ main' = "running"
           /\ wpc[w] = "got"
           /\ status' = [status EXCEPT ![wchunk[w]] = "COMPLETE"]
           /\ hash' = [hash EXCEPT ![wchunk[w]] = wdigest[w]]
           /\ wchunk' = [wchunk EXCEPT ![w] = 0]
           /\ wdigest' = [wdigest EXCEPT ![w] = "none"]
           /\ \E pc \in {"lock", "loop", "fail"} : wpc' = [wpc EXCEPT ![w] = pc]
           /\ UNCHANGED <<sessionStatus, retries, planned, queue, shutdown, lock, thread>>
           /\ UNCHANGED <<page, durable, part, stateFile, output, sessions, crashes>>
BY DEF Complete, CompleteUncounted, MarkComplete, memVars, ckptVars, diskVars, boundVars

\* A worker takes steps in a running session only, does not end it, and leaves its
\* files but the .part file's content alone.
LEMMA WorkersRun ==
    ASSUME NEW w \in Workers, Worker(w)
    PROVE  /\ main = "running" /\ main' = "running"
           /\ UNCHANGED <<sessionStatus, shutdown, durable, part, stateFile, output>>
<1>1. CASE NoMirror(w) \/ CallbackRaises(w) \/ RecordRaises(w)
  BY <1>1, LeavingStep
<1>2. CASE Complete(w) \/ CompleteUncounted(w)
  BY <1>2, CompletingStep
<1>3. CASE TakeChunk(w) \/ RefillQueue(w) \/ WorkerExit(w) \/ Select(w) \/ Retry(w)
  BY <1>3 DEF TakeChunk, RefillQueue, WorkerExit, Select, Retry, diskVars
<1>4. CASE WriteBlock(w) \/ Receive(w) \/ FetchError(w) \/ HashMismatch(w)
  BY <1>4 DEF WriteBlock, Receive, FetchError, HashMismatch, diskVars
<1>5. CASE SkipCheckpoint(w) \/ StartCheckpoint(w) \/ CheckpointDone(w) \/ CheckpointRaises(w)
  BY <1>5 DEF SkipCheckpoint, StartCheckpoint, CheckpointDone, CheckpointRaises, diskVars
<1>. QED  BY Worker(w), <1>1, <1>2, <1>3, <1>4, <1>5 DEF Worker

LEMMA TypeInit == Init => TypeOK
<1>. SUFFICES ASSUME Init PROVE TypeOK
  OBVIOUS
<1>. USE EngineAssumption DEF Init
<1>1. MemoryTypeOK
  BY ZeroType DEF MemoryTypeOK, MainPCs, SessionStatus, ChunkStatus, Digests, Planned
<1>2. WorkersTypeOK
  BY DEF WorkersTypeOK, WorkerPCs, Digests, Busy
<1>3. CheckpointTypeOK
  BY IdleThreadType DEF CheckpointTypeOK
<1>4. DiskTypeOK
  BY ZeroType DEF DiskTypeOK, Content
<1>. QED  BY <1>1, <1>2, <1>3, <1>4 DEF TypeOK

\* A step that stops the session, or ends the process, has nothing to type but
\* constants and the statuses that are set back.
LEMMA TypeStep == TypeOK /\ [Next]_vars => TypeOK'
<1>. SUFFICES ASSUME TypeOK, [Next]_vars PROVE TypeOK'
  OBVIOUS
<1>. USE EngineAssumption DEF TypeOK, memVars, workerVars, ckptVars, diskVars, boundVars
<1>mem. UNCHANGED <<main, sessionStatus, memVars, queue, shutdown>> => MemoryTypeOK'
  BY DEF MemoryTypeOK, Planned
<1>wrk. UNCHANGED workerVars => WorkersTypeOK'
  BY DEF WorkersTypeOK, Busy
<1>ckp. UNCHANGED ckptVars => CheckpointTypeOK'
  BY DEF CheckpointTypeOK
<1>dsk. UNCHANGED <<diskVars, boundVars>> => DiskTypeOK'
  BY DEF DiskTypeOK
<1>img. UNCHANGED <<part, stateFile, output, boundVars>> /\ page' \in [Chunks -> Content]
            /\ durable' \in [Chunks -> Content] => DiskTypeOK'
  BY DEF DiskTypeOK
<1>sav. ASSUME UNCHANGED <<page, durable, part, output, boundVars>>,
               NEW st \in SessionStatus, stateFile' = {Snapshot(st)}
        PROVE  DiskTypeOK'
  BY <1>sav, RecordType DEF DiskTypeOK, MemoryTypeOK
<1>1. CASE Download
  <2>1. MemoryTypeOK'
    BY <1>1, PlanFromType DEF Download, Batch, MemoryTypeOK, MainPCs, SessionStatus, ChunkStatus,
         Digests, Planned
  <2>2. DiskTypeOK'
    BY <1>1 DEF Download, DiskTypeOK, Content
  <2>. QED  BY <1>1, <1>wrk, <1>ckp, <2>1, <2>2 DEF Download
<1>2. CASE Resume
  <2>1. PICK file \in stateFile : RestoreChunks(file)
    BY <1>2 DEF Resume
  <2>. DEFINE known == DOMAIN file.chunks
              kept  == {c \in known : Survives(file.chunks[c], c)}
  <2>2. /\ file.chunks \in Seq(ChunkRecord)
        /\ Len(file.chunks) \in 0..NumChunks
        /\ known = 1..Len(file.chunks)
        /\ known \subseteq Chunks
    BY DEF DiskTypeOK, StateRecord, Chunks
  <2>3. ASSUME NEW c \in known
        PROVE  /\ file.chunks[c].h \in Digests
               /\ file.chunks[c].r \in 0..(MaxAttempts - 1)
               /\ ResetRetries(file.chunks[c]) \in 0..(MaxAttempts - 1)
    <3>1. file.chunks[c] \in ChunkRecord
      BY <2>2
    <3>. QED  BY <3>1 DEF ChunkRecord, ResetRetries
  <2>4. /\ planned' = Len(file.chunks)
        /\ status' = [c \in Chunks |-> IF c \in kept THEN "COMPLETE" ELSE "PENDING"]
        /\ hash' = [c \in Chunks |-> IF c \in kept THEN file.chunks[c].h ELSE "none"]
        /\ retries' = [c \in Chunks |-> IF c \in kept THEN file.chunks[c].r
                                        ELSE IF c \in known THEN ResetRetries(file.chunks[c])
                                        ELSE 0]
        /\ queue' = known \ kept
    BY <2>1 DEF RestoreChunks, Remaining
  <2>5. status' \in [Chunks -> ChunkStatus] /\ hash' \in [Chunks -> Digests]
    BY <2>3, <2>4 DEF ChunkStatus, Digests
  <2>6. retries' \in [Chunks -> 0..(MaxAttempts - 1)]
    BY <2>3, <2>4
  <2>7. MemoryTypeOK'
    BY <1>2, <2>2, <2>4, <2>5, <2>6 DEF Resume, MemoryTypeOK, MainPCs, SessionStatus, Planned
  <2>8. DiskTypeOK'
    BY <1>2 DEF Resume, DiskTypeOK, Content
  <2>. QED  BY <1>2, <1>wrk, <1>ckp, <2>7, <2>8 DEF Resume
<1>3. CASE OpenSession
  <2>1. MemoryTypeOK'
    BY <1>3 DEF OpenSession, MemoryTypeOK, MainPCs, Planned
  <2>2. WorkersTypeOK'
    BY <1>3 DEF OpenSession, WorkersTypeOK, WorkerPCs, Busy
  <2>3. CheckpointTypeOK'
    BY <1>3 DEF OpenSession, CheckpointTypeOK
  <2>4. DiskTypeOK'
    BY <1>3, <1>sav DEF OpenSession, InitialSave, SessionStatus
  <2>. QED  BY <2>1, <2>2, <2>3, <2>4
<1>4. ASSUME NEW w \in Workers, Worker(w) PROVE TypeOK'
  <2>. USE DEF WorkersTypeOK, Busy, Planned
  <2>1. CASE TakeChunk(w)
    <3>1. MemoryTypeOK'
      BY <2>1 DEF TakeChunk, GetNext, MemoryTypeOK, ChunkStatus
    <3>2. WorkersTypeOK'
      <4>1. PICK c \in Chunks :
                /\ wchunk' = [wchunk EXCEPT ![w] = c]
                /\ wpc' = [wpc EXCEPT ![w] = AttemptStart]
                /\ UNCHANGED wdigest
        BY <2>1 DEF TakeChunk
      <4>2. c \in 0..NumChunks
        BY EngineAssumption DEF Chunks
      <4>. QED  BY <4>1, <4>2, AttemptStarts DEF WorkerPCs
    <3>. QED  BY <2>1, <3>1, <3>2, <1>ckp, <1>dsk DEF TakeChunk
  <2>2. CASE RefillQueue(w)
    <3>1. /\ planned' = PlanFrom(planned) /\ queue' = Batch(planned) /\ planned \in 0..NumChunks
          /\ UNCHANGED <<main, sessionStatus, status, retries, hash, shutdown>>
      BY <2>2 DEF RefillQueue, MemoryTypeOK
    <3>2. planned' \in 0..NumChunks
      BY <3>1, PlanFromType
    <3>3. queue' \subseteq Planned'
      BY <3>1 DEF Batch
    <3>4. MemoryTypeOK'
      BY <3>1, <3>2, <3>3 DEF MemoryTypeOK
    <3>. QED  BY <2>2, <3>4, <1>wrk, <1>ckp, <1>dsk DEF RefillQueue
  <2>3. CASE WorkerExit(w)
    BY <2>3, <1>mem, <1>ckp, <1>dsk DEF WorkerExit, WorkerPCs
  <2>4. CASE WriteBlock(w)
    <3>1. page' \in [Chunks -> Content] /\ durable' \in [Chunks -> Content]
      BY <2>4 DEF WriteBlock, DiskTypeOK, Content
    <3>. QED  BY <2>4, <3>1, <1>mem, <1>wrk, <1>ckp, <1>img DEF WriteBlock
  <2>5. CASE Receive(w)
    <3>1. page' \in [Chunks -> Content] /\ durable' \in [Chunks -> Content]
      BY <2>5 DEF Receive, Payloads, DiskTypeOK, Content
    <3>2. WorkersTypeOK'
      BY <2>5 DEF Receive, Payloads, WorkerPCs, Digests
    <3>. QED  BY <2>5, <3>1, <3>2, <1>mem, <1>ckp, <1>img DEF Receive
  <2>gur. ASSUME NEW retryable \in BOOLEAN, GiveUpOrRetry(w, retryable), wpc[w] = "fetch",
                 UNCHANGED <<main, sessionStatus, hash, planned, queue, shutdown, wdigest>>
          PROVE  MemoryTypeOK' /\ WorkersTypeOK'
    <3>1. wchunk[w] \in Chunks
      BY <2>gur DEF MemoryTypeOK, Chunks
    <3>2. CASE ~retryable \/ retries[wchunk[w]] + 1 >= MaxAttempts
      <4>1. MemoryTypeOK'
        BY <2>gur, <3>1, <3>2 DEF GiveUpOrRetry, MemoryTypeOK, ChunkStatus
      <4>2. WorkersTypeOK'
        BY <2>gur, <3>2 DEF GiveUpOrRetry, WorkerPCs
      <4>. QED  BY <4>1, <4>2
    <3>3. CASE ~(~retryable \/ retries[wchunk[w]] + 1 >= MaxAttempts)
      <4>1. retries[wchunk[w]] + 1 \in 0..(MaxAttempts - 1)
        BY <3>1, <3>3 DEF MemoryTypeOK
      <4>2. MemoryTypeOK'
        BY <2>gur, <3>1, <3>3, <4>1 DEF GiveUpOrRetry, MemoryTypeOK, ChunkStatus
      <4>3. WorkersTypeOK'
        BY <2>gur, <3>3 DEF GiveUpOrRetry, WorkerPCs
      <4>. QED  BY <4>2, <4>3
    <3>. QED  BY <3>2, <3>3
  <2>6. CASE FetchError(w)
    BY <2>6, <2>gur, <1>ckp, <1>dsk DEF FetchError
  <2>7. CASE HashMismatch(w)
    <3>1. page' \in [Chunks -> Content] /\ durable' \in [Chunks -> Content]
      BY <2>7 DEF HashMismatch, DiskTypeOK, Content
    <3>2. MemoryTypeOK' /\ WorkersTypeOK'
      BY <2>7, <2>gur DEF HashMismatch
    <3>. QED  BY <2>7, <3>1, <3>2, <1>ckp, <1>img DEF HashMismatch
  <2>8. CASE Retry(w)
    <3>1. MemoryTypeOK'
      BY <2>8 DEF Retry, MemoryTypeOK, ChunkStatus
    <3>. QED  BY <2>8, <3>1, <1>ckp, <1>dsk, AttemptStarts DEF Retry, WorkerPCs
  <2>9. CASE Complete(w) \/ CompleteUncounted(w)
    <3>1. MemoryTypeOK'
      BY <2>9, CompletingStep DEF MemoryTypeOK, ChunkStatus
    <3>2. WorkersTypeOK'
      BY <2>9, CompletingStep, ZeroType DEF WorkerPCs, Digests
    <3>3. CheckpointTypeOK'
      BY <2>9 DEF Complete, CompleteUncounted, CheckpointTypeOK
    <3>. QED  BY <2>9, <3>1, <3>2, <3>3, <1>dsk, CompletingStep
  <2>sel. CASE Select(w)
    BY <2>sel, <1>mem, <1>ckp, <1>dsk DEF Select, WorkerPCs
  <2>lea. CASE NoMirror(w) \/ CallbackRaises(w) \/ RecordRaises(w)
    <3>1. WorkersTypeOK'
      BY <2>lea, LeavingStep, ZeroType DEF WorkerPCs, Digests
    <3>. QED  BY <2>lea, <3>1, LeavingStep, <1>mem, <1>ckp, <1>dsk
  <2>10. CASE SkipCheckpoint(w)
    BY <2>10, <1>mem, <1>ckp, <1>dsk DEF SkipCheckpoint, WorkerPCs
  <2>11. CASE StartCheckpoint(w)
    <3>0. /\ thread' \in [pc : ThreadPCs, status : SessionStatus, chunks : Seq(ChunkRecord)]
          /\ thread'.chunks = IdleThread.chunks
      BY <2>11, IdleThreadType DEF StartCheckpoint, ThreadPCs
    <3>1. CheckpointTypeOK'
      BY <2>11, <3>0, IdleThreadType DEF StartCheckpoint, CheckpointTypeOK
    <3>. QED  BY <2>11, <3>1, <1>mem, <1>dsk DEF StartCheckpoint, WorkerPCs
  <2>12. CASE CheckpointDone(w)
    <3>1. CheckpointTypeOK'
      BY <2>12 DEF CheckpointDone, ReleaseLock, CheckpointTypeOK
    <3>. QED  BY <2>12, <3>1, <1>mem, <1>dsk DEF CheckpointDone, WorkerPCs
  <2>13. CASE CheckpointRaises(w)
    <3>1. CheckpointTypeOK'
      BY <2>13, IdleThreadType DEF CheckpointRaises, ReleaseLock, CheckpointTypeOK
    <3>. QED  BY <2>13, <3>1, <1>mem, <1>dsk DEF CheckpointRaises, WorkerPCs
  <2>. QED  BY <1>4, <2>1, <2>2, <2>3, <2>4, <2>5, <2>6, <2>7, <2>8, <2>9, <2>sel, <2>lea,
               <2>10, <2>11, <2>12, <2>13 DEF Worker
<1>5. CASE ThreadSync
  <2>1. durable' \in [Chunks -> Content]
    BY <1>5 DEF ThreadSync, DiskTypeOK
  <2>2. page' \in [Chunks -> Content]
    BY <1>5 DEF ThreadSync, DiskTypeOK
  <2>3. thread' = [thread EXCEPT !.pc = "status"] \/ thread' = IdleThread
    BY <1>5 DEF ThreadSync
  <2>4. CheckpointTypeOK'
    <3>1. CASE thread' = [thread EXCEPT !.pc = "status"]
      BY <1>5, <3>1 DEF ThreadSync, CheckpointTypeOK, ThreadPCs
    <3>2. CASE thread' = IdleThread
      BY <1>5, <3>2, IdleThreadType DEF ThreadSync, CheckpointTypeOK
    <3>. QED  BY <2>3, <3>1, <3>2
  <2>. QED  BY <1>5, <2>1, <2>2, <2>4, <1>mem, <1>wrk, <1>img DEF ThreadSync
<1>sts. CASE ThreadReadStatus
  <2>1. CheckpointTypeOK'
    BY <1>sts DEF ThreadReadStatus, CheckpointTypeOK, MemoryTypeOK, ThreadPCs
  <2>. QED  BY <1>sts, <2>1, <1>mem, <1>wrk, <1>dsk DEF ThreadReadStatus
<1>6. CASE ThreadRead
  <2>1. \A c \in Chunks : Readable(c) \subseteq ChunkRecord
    BY RecordType DEF Readable, RecordOf, ChunkRecord, MemoryTypeOK, WorkersTypeOK, ChunkStatus
  <2>2. CheckpointTypeOK'
    <3>. DEFINE next == Len(thread.chunks) + 1
    <3>0. thread.chunks \in Seq(ChunkRecord)
      BY DEF CheckpointTypeOK
    <3>1. CASE next \in Planned
      <4>1. PICK rec \in Readable(next) : thread' = [thread EXCEPT !.chunks = Append(@, rec)]
        BY <1>6, <3>1 DEF ThreadRead
      <4>2. next \in Chunks /\ rec \in ChunkRecord
        <5>1. Planned \subseteq Chunks
          BY EngineAssumption DEF MemoryTypeOK, Planned, Chunks
        <5>. HIDE DEF next
        <5>2. next \in Chunks
          BY <3>1, <5>1
        <5>. QED  BY <2>1, <4>1, <5>2
      <4>3. /\ Append(thread.chunks, rec) \in Seq(ChunkRecord)
            /\ Len(Append(thread.chunks, rec)) = next
        BY <3>0, <4>2
      <4>4. /\ thread' \in [pc : ThreadPCs, status : SessionStatus, chunks : Seq(ChunkRecord)]
            /\ thread'.chunks = Append(thread.chunks, rec)
        BY <4>1, <4>3 DEF CheckpointTypeOK
      <4>. QED  BY <1>6, <4>2, <4>3, <4>4 DEF ThreadRead, CheckpointTypeOK, Chunks
    <3>2. CASE next \notin Planned
      BY <1>6, <3>2 DEF ThreadRead, CheckpointTypeOK, ThreadPCs
    <3>. QED  BY <3>1, <3>2
  <2>. QED  BY <1>6, <2>2, <1>mem, <1>wrk, <1>dsk DEF ThreadRead
<1>7. CASE ThreadReplace
  <2>1. CheckpointTypeOK'
    BY <1>7, IdleThreadType DEF ThreadReplace, CheckpointTypeOK
  <2>2. DiskTypeOK'
    BY <1>7 DEF ThreadReplace, DiskTypeOK, CheckpointTypeOK, StateRecord
  <2>. QED  BY <1>7, <2>1, <2>2, <1>mem, <1>wrk DEF ThreadReplace
<1>rai. CASE ThreadRaises
  <2>1. /\ thread' \in [pc : ThreadPCs, status : SessionStatus, chunks : Seq(ChunkRecord)]
        /\ thread'.chunks = IdleThread.chunks
    BY <1>rai, IdleThreadType DEF ThreadRaises, ThreadPCs
  <2>2. CheckpointTypeOK'
    BY <1>rai, <2>1, IdleThreadType DEF ThreadRaises, CheckpointTypeOK
  <2>. QED  BY <1>rai, <2>2, <1>mem, <1>wrk, <1>dsk DEF ThreadRaises
<1>str. ASSUME NEW w \in Workers, StrayWrite(w) PROVE TypeOK'
  <2>1. page' \in [Chunks -> Content] /\ durable' \in [Chunks -> Content]
    BY <1>str DEF StrayWrite, Payloads, DiskTypeOK, Content
  <2>2. WorkersTypeOK'
    BY <1>str DEF StrayWrite, WorkersTypeOK, Busy
  <2>. QED  BY <1>str, <2>1, <2>2, <1>mem, <1>ckp, <1>img DEF StrayWrite
<1>out. CASE RaiseOut
  BY <1>out, <1>wrk, <1>ckp, <1>dsk DEF RaiseOut, MemoryTypeOK, MainPCs, Planned
<1>8. CASE StopFailed \/ StopShutdown \/ StopCancelled
  <2>1. StopSession("FAILED") \/ StopSession("CANCELLED")
    BY <1>8 DEF StopFailed, StopShutdown, StopCancelled
  <2>2. MemoryTypeOK'
    BY <2>1 DEF StopSession, MemoryTypeOK, MainPCs, SessionStatus, ChunkStatus, Planned
  <2>3. WorkersTypeOK'
    BY <2>1 DEF StopSession, WorkersTypeOK, WorkerPCs, Digests, Busy
  <2>4. CheckpointTypeOK'
    BY <2>1, IdleThreadType DEF StopSession, CheckpointTypeOK
  <2>. QED  BY <2>1, <2>2, <2>3, <2>4, <1>dsk DEF StopSession
<1>9. CASE AllReturned
  BY <1>9, <1>wrk, <1>ckp, <1>dsk DEF AllReturned, MemoryTypeOK, MainPCs, Planned
<1>10. CASE InterruptSync \/ InterruptSave
  <2>1. MemoryTypeOK' /\ UNCHANGED <<workerVars, ckptVars>>
    BY <1>10 DEF InterruptSync, InterruptSave, MemoryTypeOK, MainPCs, Planned
  <2>2. CASE InterruptSync
    BY <2>1, <2>2, <1>wrk, <1>ckp, <1>img DEF InterruptSync, DiskTypeOK
  <2>3. CASE InterruptSave
    BY <2>1, <2>3, <1>wrk, <1>ckp, <1>sav DEF InterruptSave, MemoryTypeOK
  <2>. QED  BY <1>10, <2>2, <2>3
<1>11. CASE FinalizeSync \/ FinalizeVerify \/ FinalizeDeliver \/ FinalizeDelete
  <2>1. MemoryTypeOK' /\ UNCHANGED <<workerVars, ckptVars>>
    BY <1>11 DEF FinalizeSync, FinalizeVerify, FinalizeDeliver, FinalizeDelete, MemoryTypeOK,
         MainPCs, SessionStatus, Planned
  <2>2. CASE FinalizeSync
    BY <2>1, <2>2, <1>wrk, <1>ckp, <1>img DEF FinalizeSync, DiskTypeOK
  <2>3. CASE FinalizeVerify
    <3>1. CASE FileMatches
      BY <2>1, <2>3, <3>1, <1>wrk, <1>ckp, <1>dsk DEF FinalizeVerify
    <3>2. CASE ~FileMatches
      BY <2>1, <2>3, <3>2, <1>wrk, <1>ckp, <1>sav DEF FinalizeVerify, SessionStatus
    <3>. QED  BY <3>1, <3>2
  <2>4. CASE FinalizeDeliver
    BY <2>1, <2>4, <1>wrk, <1>ckp DEF FinalizeDeliver, DiskTypeOK
  <2>5. CASE FinalizeDelete
    BY <2>1, <2>5, <1>wrk, <1>ckp DEF FinalizeDelete, DiskTypeOK
  <2>. QED  BY <1>11, <2>2, <2>3, <2>4, <2>5
<1>12. CASE RequestShutdown
  BY <1>12, <1>wrk, <1>ckp, <1>dsk DEF RequestShutdown, MemoryTypeOK, Planned
<1>13. CASE ProcessExit \/ Crash
  <2>0. sessionStatus' \in SessionStatus /\ Forget
    BY <1>13 DEF ProcessExit, Crash, SessionStatus, MemoryTypeOK
  <2>1. MemoryTypeOK'
    <3>1. planned' \in 0..NumChunks /\ queue' \subseteq Planned'
      BY <2>0, ZeroType DEF Forget
    <3>2. /\ main' \in MainPCs
          /\ status' \in [Chunks -> ChunkStatus]
          /\ retries' \in [Chunks -> 0..(MaxAttempts - 1)]
          /\ hash' \in [Chunks -> Digests]
          /\ shutdown' \in BOOLEAN
      BY <2>0, ZeroType DEF Forget, MainPCs, ChunkStatus, Digests
    <3>. QED  BY <2>0, <3>1, <3>2 DEF MemoryTypeOK
  <2>2. WorkersTypeOK'
    BY <1>13 DEF ProcessExit, Crash, Forget, WorkersTypeOK, WorkerPCs, Digests, Busy
  <2>3. CheckpointTypeOK'
    BY <1>13, IdleThreadType DEF ProcessExit, Crash, Forget, CheckpointTypeOK
  <2>4. DiskTypeOK'
    BY <1>13 DEF ProcessExit, Crash, CrashImages, DiskTypeOK
  <2>. QED  BY <2>1, <2>2, <2>3, <2>4
<1>14. CASE UNCHANGED vars
  BY <1>14, <1>mem, <1>wrk, <1>ckp, <1>dsk DEF vars
<1>. QED
  BY <1>1, <1>2, <1>3, <1>4, <1>5, <1>sts, <1>6, <1>7, <1>rai, <1>str, <1>out, <1>8, <1>9,
     <1>10, <1>11, <1>12, <1>13, <1>14
     DEF Next, MainLoop, CheckpointThread

\* Every variable keeps its type; in particular no chunk is ever attempted more
\* often than the retry limit allows, counted across sessions.
THEOREM TypeCorrect == Spec => []TypeOK
BY TypeInit, TypeStep, PTL DEF Spec
-----------------------------------------------------------------------------
(* A complete chunk is on disk *)

LEMMA IntegrityInit == Init => IntegrityInv
<1>. SUFFICES ASSUME Init PROVE IntegrityInv
  OBVIOUS
<1>1. TypeOK
  BY TypeInit
<1>2. ChunkOwnership
  BY DEF Init, ChunkOwnership, Busy
<1>3. CompleteIsOnDisk
  BY DEF Init, CompleteIsOnDisk, Active
<1>. QED  BY <1>1, <1>2, <1>3 DEF IntegrityInv

LEMMA IntegrityStep == IntegrityInv /\ [Next]_vars => IntegrityInv'
<1>. SUFFICES ASSUME IntegrityInv, [Next]_vars PROVE IntegrityInv'
  OBVIOUS
<1>. USE DEF IntegrityInv
<1>typ. TypeOK'
  BY TypeStep
<1>wty. /\ wpc \in [Workers -> WorkerPCs] /\ wchunk \in [Workers -> 0..NumChunks]
        /\ wdigest \in [Workers -> Digests]
        /\ status \in [Chunks -> ChunkStatus] /\ hash \in [Chunks -> Digests]
        /\ page \in [Chunks -> Content]
        /\ \A w \in Workers : Busy(w) => wchunk[w] \in Chunks
        /\ queue \subseteq Planned /\ Planned \subseteq Chunks
  BY EngineAssumption DEF TypeOK, MemoryTypeOK, WorkersTypeOK, DiskTypeOK, Planned, Chunks
<1>frm. ASSUME UNCHANGED <<status, hash, planned, queue, workerVars, page>>,
               main' # "running" => \A w \in Workers : ~Busy(w),
               main' = "interruptSync" => main = "interruptSync",
               Active' => Active
        PROVE  ChunkOwnership' /\ CompleteIsOnDisk'
  <2>1. ChunkOwnership'
    BY <1>frm DEF ChunkOwnership, workerVars, Busy, Planned
  <2>2. CompleteIsOnDisk'
    BY <1>frm DEF CompleteIsOnDisk
  <2>. QED  BY <2>1, <2>2
<1>idl. main # "running" => \A w \in Workers : ~Busy(w)
  BY DEF ChunkOwnership
<1>1. CASE Download
  <2>0. queue' \subseteq Chunks /\ \A c \in Chunks : status'[c] = "PENDING"
    BY <1>1, PlanFromType, EngineAssumption DEF Download, Batch, Chunks
  <2>1. ChunkOwnership'
    BY <1>1, <2>0, <1>idl DEF Download, ChunkOwnership, Busy, workerVars
  <2>2. CompleteIsOnDisk'
    BY <1>1 DEF Download, CompleteIsOnDisk
  <2>. QED  BY <2>1, <2>2, <1>typ
<1>2. CASE Resume
  <2>1. PICK file \in stateFile : RestoreChunks(file)
    BY <1>2 DEF Resume
  <2>. DEFINE known == DOMAIN file.chunks
              kept  == {c \in known : Survives(file.chunks[c], c)}
  <2>2. /\ planned' = Len(file.chunks)
        /\ status' = [c \in Chunks |-> IF c \in kept THEN "COMPLETE" ELSE "PENDING"]
        /\ hash' = [c \in Chunks |-> IF c \in kept THEN file.chunks[c].h ELSE "none"]
        /\ queue' = known \ kept
    BY <2>1 DEF RestoreChunks, Remaining
  <2>3. known = 1..Len(file.chunks) /\ known \subseteq Chunks
    <3>1. file.chunks \in Seq(ChunkRecord) /\ Len(file.chunks) =< NumChunks
      BY DEF TypeOK, DiskTypeOK, StateRecord
    <3>. QED  BY <3>1, EngineAssumption DEF Chunks
  <2>4. ChunkOwnership'
    BY <1>2, <1>idl, <2>2, <2>3 DEF Resume, ChunkOwnership, Busy, workerVars, Planned
  <2>5. ASSUME NEW c \in Chunks, status'[c] = "COMPLETE"
        PROVE  hash'[c] # "none" /\ page'[c] = hash'[c]
    <3>1. c \in kept
      BY <2>2, <2>5
    <3>2. part /\ file.chunks[c].h # "none" /\ page[c] = file.chunks[c].h
      BY <3>1 DEF Survives
    <3>. QED  BY <1>2, <2>2, <3>1, <3>2 DEF Resume
  <2>6. CompleteIsOnDisk'
    BY <2>5 DEF CompleteIsOnDisk
  <2>. QED  BY <2>4, <2>6, <1>typ
<1>3. CASE OpenSession
  <2>1. ChunkOwnership'
    BY <1>3 DEF OpenSession, ChunkOwnership, Busy, memVars, Planned
  <2>2. CompleteIsOnDisk'
    BY <1>3 DEF OpenSession, CompleteIsOnDisk, Active, memVars
  <2>. QED  BY <2>1, <2>2, <1>typ
<1>4. ASSUME NEW w \in Workers, Worker(w) PROVE IntegrityInv'
  <2>run. main = "running" /\ main' = "running"
    BY <1>4, WorkersRun
  <2>own. ASSUME Busy(w) PROVE \A v \in Workers : Busy(v) /\ v # w => wchunk[v] # wchunk[w]
    BY <2>own DEF ChunkOwnership
  <2>1. CASE TakeChunk(w)
    <3>1. PICK c \in Chunks : /\ GetNext(c)
                              /\ wchunk' = [wchunk EXCEPT ![w] = c]
                              /\ status' = [status EXCEPT ![c] = "IN_PROGRESS"]
      BY <2>1 DEF TakeChunk
    <3>2. c \in queue /\ queue' = queue \ {c} /\ status[c] = "PENDING" /\ c \in Planned
      BY <3>1, <1>wty DEF GetNext, ChunkOwnership
    <3>3. \A v \in Workers : Busy(v) => wchunk[v] # c
      BY <3>2 DEF ChunkOwnership
    <3>4. wpc' = [wpc EXCEPT ![w] = AttemptStart]
          /\ UNCHANGED <<hash, planned, wdigest, page>>
      BY <2>1 DEF TakeChunk, diskVars
    <3>5. ChunkOwnership'
      BY <3>1, <3>2, <3>3, <3>4, AttemptStarts, <1>wty, <2>run DEF ChunkOwnership, Busy, Planned
    <3>6. CompleteIsOnDisk'
      BY <3>1, <3>4, <1>wty, <2>run DEF CompleteIsOnDisk, Active
    <3>. QED  BY <3>5, <3>6, <1>typ
  <2>2. CASE RefillQueue(w)
    <3>1. planned \in 0..NumChunks /\ planned' >= planned /\ planned' = PlanFrom(planned)
      BY <2>2, PlanFromType DEF RefillQueue, TypeOK, MemoryTypeOK
    <3>2. queue' = (planned + 1)..planned'
          /\ UNCHANGED <<status, hash, wpc, wchunk, wdigest, page>>
      BY <2>2 DEF RefillQueue, Batch, workerVars, diskVars
    <3>3. \A c \in queue' : c \in Chunks => c \notin Planned
      BY <3>1, <3>2, EngineAssumption DEF Planned
    <3>4. queue' \subseteq Chunks
      <4>1. planned' \in 0..NumChunks /\ planned \in Nat /\ NumChunks \in Nat
        BY <3>1, PlanFromType, EngineAssumption
      <4>. QED  BY <3>2, <4>1 DEF Chunks
    <3>5. Planned \subseteq Planned'
      BY <3>1, PlanFromType DEF Planned
    <3>6. ChunkOwnership'
      BY <3>2, <3>3, <3>4, <3>5, <2>run DEF ChunkOwnership, Busy
    <3>7. CompleteIsOnDisk'
      BY <3>2, <2>run DEF CompleteIsOnDisk, Active
    <3>. QED  BY <3>6, <3>7, <1>typ
  <2>3. ASSUME UNCHANGED <<status, hash, planned, queue, wchunk, wdigest, page>>,
               NEW pc \in {"loop", "exit", "lock", "ckpt", "fail"}, ~Busy(w),
               wpc' = [wpc EXCEPT ![w] = pc]
        PROVE  IntegrityInv'
    <3>1. \A v \in Workers : Busy(v)' <=> Busy(v)
      BY <2>3, <1>wty DEF Busy
    <3>2. ChunkOwnership'
      BY <2>3, <3>1, <1>wty, <2>run DEF ChunkOwnership, Busy, Planned
    <3>3. CompleteIsOnDisk'
      BY <2>3, <2>run DEF CompleteIsOnDisk, Active
    <3>. QED  BY <3>2, <3>3, <1>typ
  <2>4. CASE WorkerExit(w) \/ SkipCheckpoint(w) \/ StartCheckpoint(w) \/ CheckpointDone(w)
             \/ CheckpointRaises(w)
    BY <2>4, <2>3 DEF WorkerExit, SkipCheckpoint, StartCheckpoint, CheckpointDone,
         CheckpointRaises, Busy, memVars, diskVars, ckptVars
  <2>5. CASE WriteBlock(w)
    <3>1. Busy(w) /\ wchunk[w] \in Chunks /\ status[wchunk[w]] # "COMPLETE"
      BY <2>5, <1>wty DEF WriteBlock, Busy, ChunkOwnership
    <3>2. page' = [page EXCEPT ![wchunk[w]] = "torn"]
          /\ UNCHANGED <<status, hash, planned, queue, wpc, wchunk, wdigest>>
          /\ wpc[w] = "fetch"
      BY <2>5 DEF WriteBlock, memVars, workerVars
    <3>3. ChunkOwnership'
      BY <3>1, <3>2, <1>wty, <2>own, <2>run DEF ChunkOwnership, Busy, Planned
    <3>4. CompleteIsOnDisk'
      BY <3>1, <3>2, <1>wty, <2>run DEF CompleteIsOnDisk, Active
    <3>. QED  BY <3>3, <3>4, <1>typ
  <2>6. CASE Receive(w)
    <3>1. PICK p \in {"good", "bad"} : /\ page' = [page EXCEPT ![wchunk[w]] = p]
                                       /\ wdigest' = [wdigest EXCEPT ![w] = p]
      BY <2>6 DEF Receive, Payloads
    <3>2. /\ wpc[w] = "fetch" /\ wpc' = [wpc EXCEPT ![w] = "got"]
          /\ UNCHANGED <<status, hash, planned, queue, wchunk>>
      BY <2>6 DEF Receive, memVars
    <3>3. Busy(w) /\ wchunk[w] \in Chunks /\ status[wchunk[w]] # "COMPLETE"
      BY <3>2, <1>wty DEF Busy, ChunkOwnership
    <3>4. \A v \in Workers : Busy(v)' <=> Busy(v)
      BY <3>2, <1>wty DEF Busy
    <3>5. ASSUME NEW v \in Workers, wpc'[v] = "got"
          PROVE  wdigest'[v] \in {"good", "bad"} /\ page'[wchunk'[v]] = wdigest'[v]
      <4>1. CASE v = w
        BY <4>1, <3>1, <3>2, <3>3, <1>wty
      <4>2. CASE v # w
        <5>1. wpc[v] = "got" /\ Busy(v)
          BY <4>2, <3>2, <3>5, <1>wty DEF Busy
        <5>2. wchunk[v] # wchunk[w] /\ wchunk[v] \in Chunks
          BY <4>2, <5>1, <3>3, <2>own, <1>wty
        <5>. QED  BY <4>2, <5>1, <5>2, <3>1, <3>2, <1>wty DEF ChunkOwnership
      <4>. QED  BY <4>1, <4>2
    <3>6. ChunkOwnership'
      BY <3>2, <3>4, <3>5, <2>run DEF ChunkOwnership, Planned
    <3>7. CompleteIsOnDisk'
      BY <3>1, <3>2, <3>3, <1>wty, <2>run DEF CompleteIsOnDisk, Active
    <3>. QED  BY <3>6, <3>7, <1>typ
  <2>gur. ASSUME NEW retryable \in BOOLEAN, GiveUpOrRetry(w, retryable), wpc[w] = "fetch",
                 UNCHANGED <<hash, planned, queue, wdigest>>,
                 \A c \in Chunks : c # wchunk[w] => page'[c] = page[c]
          PROVE  ChunkOwnership' /\ CompleteIsOnDisk'
    <3>1. Busy(w) /\ wchunk[w] \in Chunks /\ status[wchunk[w]] \in {"IN_PROGRESS", "FAILED"}
      BY <2>gur, <1>wty DEF Busy, ChunkOwnership
    <3>2. PICK st \in {"ABANDONED", "FAILED"} : status' = [status EXCEPT ![wchunk[w]] = st]
      BY <2>gur DEF GiveUpOrRetry
    <3>3. \A c \in Chunks : c # wchunk[w] => status'[c] = status[c]
      BY <3>2, <1>wty
    <3>4. status'[wchunk[w]] \in {"ABANDONED", "FAILED"}
      BY <3>1, <3>2, <1>wty
    <3>5. \A v \in Workers : v # w => wpc'[v] = wpc[v] /\ wchunk'[v] = wchunk[v]
      BY <2>gur, <1>wty DEF GiveUpOrRetry
    <3>6. \/ wpc'[w] = "fail"
          \/ wpc'[w] = "backoff" /\ status'[wchunk[w]] = "FAILED" /\ wchunk'[w] = wchunk[w]
      BY <2>gur, <3>1, <1>wty DEF GiveUpOrRetry
    <3>7. ASSUME NEW v \in Workers, v # w
          PROVE  /\ Busy(v)' <=> Busy(v)
                 /\ Busy(v) => wchunk[v] # wchunk[w] /\ wchunk[v] \in Chunks
      BY <3>5, <3>7, <3>1, <2>own, <1>wty DEF Busy
    <3>8. wchunk[w] \notin queue /\ wchunk[w] \in Planned
      BY <3>1 DEF ChunkOwnership
    <3>9. ChunkOwnership'
      <4>1. \A v \in Workers : Busy(v)' => status'[wchunk'[v]] \in {"IN_PROGRESS", "FAILED"}
        <5>. SUFFICES ASSUME NEW v \in Workers, Busy(v)'
                      PROVE  status'[wchunk'[v]] \in {"IN_PROGRESS", "FAILED"}
          OBVIOUS
        <5>1. CASE v = w
          BY <5>1, <3>6 DEF Busy
        <5>2. CASE v # w
          BY <5>2, <3>3, <3>5, <3>7 DEF ChunkOwnership
        <5>. QED  BY <5>1, <5>2
      <4>2. \A u, v \in Workers : Busy(u)' /\ Busy(v)' /\ wchunk'[u] = wchunk'[v] => u = v
        BY <3>1, <3>5, <3>6, <3>7 DEF ChunkOwnership, Busy
      <4>3. \A c \in queue' : status'[c] = "PENDING"
        BY <2>gur, <3>3, <3>8, <1>wty DEF ChunkOwnership
      <4>4. \A c \in Chunks \ Planned' : status'[c] = "PENDING"
        BY <2>gur, <3>3, <3>8 DEF ChunkOwnership, Planned
      <4>5. \A v \in Workers : wpc'[v] = "got" =>
               wdigest'[v] \in {"good", "bad"} /\ page'[wchunk'[v]] = wdigest'[v]
        BY <2>gur, <3>5, <3>6, <3>7 DEF ChunkOwnership, Busy
      <4>. QED  BY <4>1, <4>2, <4>3, <4>4, <4>5, <2>run DEF ChunkOwnership
    <3>10. CompleteIsOnDisk'
      BY <2>gur, <3>3, <3>4, <2>run DEF CompleteIsOnDisk, Active
    <3>. QED  BY <3>9, <3>10
  <2>7. CASE FetchError(w)
    BY <2>7, <2>gur, <1>typ DEF FetchError, diskVars
  <2>8. CASE HashMismatch(w)
    <3>1. \A c \in Chunks : c # wchunk[w] => page'[c] = page[c]
      BY <2>8, <1>wty DEF HashMismatch
    <3>. QED  BY <2>8, <3>1, <2>gur, <1>typ DEF HashMismatch
  <2>9. CASE Retry(w)
    <3>1. wpc[w] = "backoff" /\ wpc' = [wpc EXCEPT ![w] = AttemptStart]
          /\ status' = [status EXCEPT ![wchunk[w]] = "IN_PROGRESS"]
          /\ UNCHANGED <<hash, planned, queue, wchunk, wdigest, page>>
      BY <2>9 DEF Retry, diskVars
    <3>2. Busy(w) /\ wchunk[w] \in Chunks /\ status[wchunk[w]] \in {"IN_PROGRESS", "FAILED"}
      BY <3>1, <1>wty DEF Busy, ChunkOwnership
    <3>3. \A v \in Workers : Busy(v)' <=> Busy(v)
      BY <3>1, AttemptStarts, <1>wty DEF Busy
    <3>4. ChunkOwnership'
      BY <3>1, <3>2, <3>3, AttemptStarts, <1>wty, <2>run, <2>own DEF ChunkOwnership, Planned
    <3>5. CompleteIsOnDisk'
      BY <3>1, <3>2, <1>wty, <2>run DEF CompleteIsOnDisk, Active
    <3>. QED  BY <3>4, <3>5, <1>typ
  <2>10. CASE Complete(w) \/ CompleteUncounted(w)
    <3>1. /\ wpc[w] = "got"
          /\ status' = [status EXCEPT ![wchunk[w]] = "COMPLETE"]
          /\ hash' = [hash EXCEPT ![wchunk[w]] = wdigest[w]]
          /\ wchunk' = [wchunk EXCEPT ![w] = 0]
          /\ wdigest' = [wdigest EXCEPT ![w] = "none"]
          /\ UNCHANGED <<planned, queue, page>>
      BY <2>10, CompletingStep
    <3>2. PICK pc \in {"lock", "loop", "fail"} : wpc' = [wpc EXCEPT ![w] = pc]
      BY <2>10, CompletingStep
    <3>3. /\ Busy(w) /\ wchunk[w] \in Chunks
          /\ status[wchunk[w]] \in {"IN_PROGRESS", "FAILED"}
          /\ wdigest[w] \in {"good", "bad"} /\ page[wchunk[w]] = wdigest[w]
      BY <3>1, <1>wty DEF Busy, ChunkOwnership
    <3>4. ~Busy(w)' /\ \A v \in Workers : v # w => (Busy(v)' <=> Busy(v)) /\ wchunk'[v] = wchunk[v]
      BY <3>1, <3>2, <1>wty DEF Busy
    <3>5. wchunk[w] \notin queue /\ wchunk[w] \in Planned
      BY <3>3 DEF ChunkOwnership
    <3>6. \A c \in Chunks : c # wchunk[w] => status'[c] = status[c] /\ hash'[c] = hash[c]
      BY <3>1, <1>wty
    <3>7. ChunkOwnership'
      <4>1. \A v \in Workers : Busy(v)' => v # w /\ Busy(v) /\ wchunk'[v] = wchunk[v]
                                         /\ wchunk[v] \in Chunks /\ wchunk[v] # wchunk[w]
        BY <3>3, <3>4, <2>own, <1>wty
      <4>2. \A v \in Workers : wpc'[v] = "got" => v # w /\ Busy(v)' /\ wpc[v] = "got"
                                                /\ wdigest'[v] = wdigest[v]
        BY <3>1, <3>2, <1>wty DEF Busy
      <4>3. \A c \in queue' : status'[c] = "PENDING"
        BY <3>1, <3>5, <3>6, <1>wty DEF ChunkOwnership
      <4>4. \A c \in Chunks \ Planned' : status'[c] = "PENDING"
        BY <3>1, <3>5, <3>6 DEF ChunkOwnership, Planned
      <4>. QED  BY <3>1, <3>6, <4>1, <4>2, <4>3, <4>4, <2>run DEF ChunkOwnership
    <3>8. CompleteIsOnDisk'
      BY <3>1, <3>3, <3>6, <1>wty, <2>run DEF CompleteIsOnDisk, Active
    <3>. QED  BY <3>7, <3>8, <1>typ
  <2>11. CASE Select(w)
    <3>1. /\ wpc[w] = "select" /\ wpc' = [wpc EXCEPT ![w] = "fetch"]
          /\ UNCHANGED <<status, hash, planned, queue, wchunk, wdigest, page>>
      BY <2>11 DEF Select, memVars, diskVars
    <3>2. \A v \in Workers : Busy(v)' <=> Busy(v)
      BY <3>1, <1>wty DEF Busy
    <3>3. ChunkOwnership'
      BY <3>1, <3>2, <1>wty, <2>run DEF ChunkOwnership, Planned
    <3>4. CompleteIsOnDisk'
      BY <3>1, <2>run DEF CompleteIsOnDisk, Active
    <3>. QED  BY <3>3, <3>4, <1>typ
  <2>12. CASE NoMirror(w) \/ CallbackRaises(w) \/ RecordRaises(w)
    <3>1. /\ wpc' = [wpc EXCEPT ![w] = "fail"]
          /\ wchunk' = [wchunk EXCEPT ![w] = 0]
          /\ wdigest' = [wdigest EXCEPT ![w] = "none"]
          /\ UNCHANGED <<status, hash, planned, queue, page>>
      BY <2>12, LeavingStep
    <3>2. ~Busy(w)' /\ \A v \in Workers : v # w =>
              (Busy(v)' <=> Busy(v)) /\ wchunk'[v] = wchunk[v] /\ wdigest'[v] = wdigest[v]
      BY <3>1, <1>wty DEF Busy
    <3>3. \A v \in Workers : wpc'[v] = "got" => v # w /\ wpc[v] = "got"
      BY <3>1, <1>wty
    <3>4. ChunkOwnership'
      BY <3>1, <3>2, <3>3, <1>wty, <2>run DEF ChunkOwnership, Planned
    <3>5. CompleteIsOnDisk'
      BY <3>1, <2>run DEF CompleteIsOnDisk, Active
    <3>. QED  BY <3>4, <3>5, <1>typ
  <2>. QED  BY <1>4, <2>1, <2>2, <2>4, <2>5, <2>6, <2>7, <2>8, <2>9, <2>10, <2>11, <2>12
            DEF Worker
<1>5. CASE CheckpointThread
  BY <1>5, <1>frm, <1>typ, <1>idl DEF CheckpointThread, ThreadSync, ThreadReadStatus,
     ThreadRead, ThreadReplace, ThreadRaises, Active, memVars, workerVars, diskVars
<1>6. CASE StopFailed \/ StopShutdown \/ StopCancelled
  <2>1. main = "running" /\ (StopSession("FAILED") \/ StopSession("CANCELLED"))
    BY <1>6 DEF StopFailed, StopShutdown, StopCancelled
  <2>2. /\ \A w \in Workers : ~Busy(w)' /\ wpc'[w] # "got"
        /\ \A c \in Chunks : status'[c] = IF status[c] \in {"IN_PROGRESS", "FAILED"}
                                          THEN "PENDING" ELSE status[c]
        /\ UNCHANGED <<hash, planned, queue, page>>
    BY <2>1 DEF StopSession, Busy, diskVars
  <2>5. ASSUME NEW w \in Workers, wchunk'[w] # 0 PROVE status'[wchunk'[w]] = "PENDING"
    <3>1. wpc[w] = "fetch" /\ wchunk'[w] = wchunk[w]
      BY <2>1, <2>5 DEF StopSession
    <3>. QED  BY <2>2, <3>1, <1>wty DEF ChunkOwnership, Busy
  <2>3. ChunkOwnership'
    BY <2>2, <2>5, <1>wty DEF ChunkOwnership, Planned
  <2>4. CompleteIsOnDisk'
    BY <2>1, <2>2, <1>wty DEF CompleteIsOnDisk, Active
  <2>. QED  BY <2>3, <2>4, <1>typ
<1>7. CASE AllReturned
  <2>1. \A w \in Workers : ~Busy(w)
    BY <1>7 DEF AllReturned, WorkerLive, Busy
  <2>. QED  BY <1>7, <2>1, <1>frm, <1>typ DEF AllReturned, Active, memVars, workerVars, diskVars
<1>str. ASSUME NEW w \in Workers, StrayWrite(w) PROVE IntegrityInv'
  <2>1. PICK p \in {"torn"} \cup Payloads : page' = [page EXCEPT ![wchunk[w]] = p]
    BY <1>str DEF StrayWrite
  <2>2. /\ main = "interruptSync" /\ main' = main /\ wchunk[w] # 0
        /\ wchunk' = [wchunk EXCEPT ![w] = 0]
        /\ UNCHANGED <<status, hash, planned, queue, wpc, wdigest>>
    BY <1>str DEF StrayWrite, memVars
  <2>3. status[wchunk[w]] = "PENDING" /\ \A v \in Workers : ~Busy(v) /\ wpc[v] # "got"
    BY <2>2 DEF ChunkOwnership, Busy
  <2>4. ChunkOwnership'
    BY <2>2, <2>3, <1>wty DEF ChunkOwnership, Busy, Planned
  <2>5. CompleteIsOnDisk'
    BY <2>1, <2>2, <2>3, <1>wty DEF CompleteIsOnDisk, Active
  <2>. QED  BY <2>4, <2>5, <1>typ
<1>8. CASE InterruptSync \/ InterruptSave \/ FinalizeSync \/ FinalizeVerify \/ FinalizeDeliver
           \/ FinalizeDelete \/ RaiseOut
  <2>1. /\ UNCHANGED <<status, hash, planned, queue, workerVars, page>>
        /\ main # "running" /\ main' \notin {"running", "interruptSync"} /\ (Active' => Active)
    BY <1>8 DEF InterruptSync, InterruptSave, FinalizeSync, FinalizeVerify, FinalizeDeliver,
         FinalizeDelete, RaiseOut, Active, memVars, diskVars
  <2>. QED  BY <2>1, <1>frm, <1>typ, <1>idl
<1>9. CASE RequestShutdown
  BY <1>9, <1>frm, <1>typ, <1>idl DEF RequestShutdown, Active, memVars, workerVars, diskVars
<1>10. CASE ProcessExit \/ Crash
  <2>1. Forget
    BY <1>10 DEF ProcessExit, Crash
  <2>2. ChunkOwnership'
    BY <2>1 DEF Forget, ChunkOwnership, Busy
  <2>3. CompleteIsOnDisk'
    BY <2>1 DEF Forget, CompleteIsOnDisk, Active
  <2>. QED  BY <2>2, <2>3, <1>typ
<1>11. CASE UNCHANGED vars
  BY <1>11, <1>frm, <1>typ, <1>idl DEF vars, Active, memVars, workerVars, diskVars
<1>. QED
  BY <1>1, <1>2, <1>3, <1>4, <1>5, <1>6, <1>7, <1>str, <1>8, <1>9, <1>10, <1>11
     DEF Next, MainLoop

\* Whatever crashes, torn checkpoints and failed attempts came before, a chunk
\* that a session counts as complete is in the file with the digest's bytes.
THEOREM CompleteChunksAreOnDisk == Spec => []CompleteIsOnDisk
<1>1. IntegrityInv => CompleteIsOnDisk
  BY DEF IntegrityInv
<1>. QED  BY IntegrityInit, IntegrityStep, <1>1, PTL DEF Spec
-----------------------------------------------------------------------------
(* Only expected bytes are delivered *)

\* The comparison is made after the writer is closed: nothing writes to the
\* file between it and the rename.
THEOREM ExpectedBytesOnly == Spec => []DeliversOnlyExpected
<1>1. Init => ExpectedInv
  BY DEF Init, ExpectedInv, DeliversOnlyExpected
<1>2. ASSUME ExpectedInv, [Next]_vars PROVE ExpectedInv'
  <2>. USE <1>2 DEF ExpectedInv, DeliversOnlyExpected, FileMatches
  <2>1. CASE FinalizeVerify
    BY <2>1 DEF FinalizeVerify
  <2>2. CASE FinalizeDeliver
    BY <2>2 DEF FinalizeDeliver
  <2>3. ASSUME NEW w \in Workers, Worker(w) PROVE ExpectedInv'
    <3>1. main' = "running" /\ UNCHANGED output
      BY <2>3, WorkersRun
    <3>. QED  BY <3>1
  <2>4. CASE CheckpointThread
    BY <2>4 DEF CheckpointThread, ThreadSync, ThreadReadStatus, ThreadRead, ThreadReplace,
       ThreadRaises, diskVars
  <2>str. ASSUME NEW w \in Workers, StrayWrite(w) PROVE ExpectedInv'
    BY <2>str DEF StrayWrite
  <2>5. CASE Download \/ Resume \/ OpenSession
    BY <2>5 DEF Download, Resume, OpenSession
  <2>6. CASE StopFailed \/ StopShutdown \/ StopCancelled \/ AllReturned
    BY <2>6 DEF StopFailed, StopShutdown, StopCancelled, StopSession, AllReturned, diskVars
  <2>7. CASE InterruptSync \/ InterruptSave \/ FinalizeSync \/ FinalizeDelete \/ RaiseOut
    BY <2>7 DEF InterruptSync, InterruptSave, FinalizeSync, FinalizeDelete, RaiseOut, diskVars
  <2>8. CASE RequestShutdown \/ ProcessExit \/ Crash
    BY <2>8 DEF RequestShutdown, ProcessExit, Crash, Forget, diskVars
  <2>9. CASE UNCHANGED vars
    BY <2>9 DEF vars, diskVars
  <2>. QED  BY <2>1, <2>2, <2>3, <2>4, <2>str, <2>5, <2>6, <2>7, <2>8, <2>9
            DEF Next, MainLoop
<1>3. ExpectedInv => DeliversOnlyExpected
  BY DEF ExpectedInv
<1>. QED  BY <1>1, <1>2, <1>3, PTL DEF Spec

-----------------------------------------------------------------------------
(* A session that is neither adaptive nor interrupted finalizes whole files *)

LEMMA WholeInit ==
    ASSUME Interrupts = FALSE
    PROVE  Init => WholeInv
<1>. SUFFICES ASSUME Init PROVE WholeInv
  OBVIOUS
<1>1. TypeOK
  BY TypeInit
<1>2. WholePartition /\ NoChunkForgotten /\ FinalizesOnlyWhole
  BY DEF Init, WholePartition, NoChunkForgotten, FinalizesOnlyWhole, IdleThread
<1>. QED  BY <1>1, <1>2 DEF WholeInv

\* Each step keeps the partition whole.
LEMMA PartitionStep ==
    ASSUME Adaptive = FALSE, TypeOK, WholePartition, [Next]_vars
    PROVE  WholePartition'
<1>. USE DEF WholePartition
<1>pln. planned \in Nat /\ NumChunks \in Nat
  BY EngineAssumption DEF TypeOK, MemoryTypeOK
<1>snp. \A st \in SessionStatus : Len(Snapshot(st).chunks) = planned
  BY RecordType DEF TypeOK
<1>1. CASE Download
  BY <1>1 DEF Download, PlanFrom, ckptVars
<1>2. CASE Resume
  BY <1>2 DEF Resume, RestoreChunks, ckptVars
<1>3. CASE OpenSession
  BY <1>3, <1>snp DEF OpenSession, InitialSave, memVars, SessionStatus
<1>4. ASSUME NEW w \in Workers, Worker(w) PROVE WholePartition'
  <2>1. CASE RefillQueue(w)
    BY <2>1 DEF RefillQueue, CanRefill
  <2>2. CASE StartCheckpoint(w)
    BY <2>2 DEF StartCheckpoint, IdleThread, memVars, diskVars
  <2>4. CASE CheckpointRaises(w)
    BY <2>4 DEF CheckpointRaises, IdleThread, memVars, diskVars
  <2>3. CASE TakeChunk(w) \/ WorkerExit(w) \/ WriteBlock(w) \/ Receive(w) \/ FetchError(w)
             \/ HashMismatch(w) \/ Retry(w) \/ Select(w) \/ SkipCheckpoint(w) \/ CheckpointDone(w)
    BY <2>3 DEF TakeChunk, WorkerExit, WriteBlock, Receive, FetchError, HashMismatch, Retry,
       Select, SkipCheckpoint, CheckpointDone, memVars, ckptVars, diskVars
  <2>5. CASE NoMirror(w) \/ CallbackRaises(w) \/ RecordRaises(w)
    BY <2>5, LeavingStep
  <2>6. CASE Complete(w) \/ CompleteUncounted(w)
    BY <2>6, CompletingStep
  <2>. QED  BY <1>4, <2>1, <2>2, <2>3, <2>4, <2>5, <2>6 DEF Worker
<1>5. CASE ThreadSync \/ ThreadReadStatus
  <2>1. thread \in [pc : ThreadPCs, status : SessionStatus, chunks : Seq(ChunkRecord)]
    BY DEF TypeOK, CheckpointTypeOK
  <2>2. /\ thread'.pc \in {"off", "status", "read"}
        /\ thread'.pc # "off" => thread.pc # "off"
    <3>1. CASE thread' = IdleThread
      BY <3>1 DEF IdleThread
    <3>2. CASE thread' = [thread EXCEPT !.pc = "status"] /\ thread.pc = "sync"
      BY <2>1, <3>2
    <3>3. CASE ThreadReadStatus
      BY <2>1, <3>3 DEF ThreadReadStatus
    <3>. QED  BY <1>5, <3>1, <3>2, <3>3 DEF ThreadSync
  <2>. QED  BY <1>5, <2>2 DEF ThreadSync, ThreadReadStatus, memVars, diskVars
<1>6. CASE ThreadRead
  <2>1. Len(thread.chunks) \in Nat /\ Len(thread.chunks) =< NumChunks
    BY DEF TypeOK, CheckpointTypeOK
  <2>2. thread \in [pc : ThreadPCs, status : SessionStatus, chunks : Seq(ChunkRecord)]
    BY DEF TypeOK, CheckpointTypeOK
  <2>3. CASE Len(thread.chunks) + 1 \in Planned
    BY <1>6, <2>2, <2>3 DEF ThreadRead, memVars, diskVars
  <2>4. CASE Len(thread.chunks) + 1 \notin Planned
    <3>1. thread' = [thread EXCEPT !.pc = "replace"] /\ thread.pc = "read"
      BY <1>6, <2>4 DEF ThreadRead
    <3>2. Len(thread.chunks) = NumChunks
      BY <2>1, <2>4, <3>1, <1>pln DEF Planned
    <3>. QED  BY <1>6, <2>2, <3>1, <3>2 DEF ThreadRead, memVars, diskVars
  <2>. QED  BY <2>3, <2>4
<1>7. CASE ThreadReplace
  BY <1>7 DEF ThreadReplace, IdleThread, memVars
<1>rai. CASE ThreadRaises
  <2>1. thread \in [pc : ThreadPCs, status : SessionStatus, chunks : Seq(ChunkRecord)]
    BY DEF TypeOK, CheckpointTypeOK
  <2>2. thread'.pc \in {"off", "raised"} /\ thread.pc # "off"
    BY <1>rai, <2>1 DEF ThreadRaises, IdleThread
  <2>. QED  BY <1>rai, <2>2 DEF ThreadRaises, memVars, diskVars
<1>str. ASSUME NEW w \in Workers, StrayWrite(w) PROVE WholePartition'
  BY <1>str DEF StrayWrite, memVars, ckptVars
<1>stp. CASE StopFailed \/ StopShutdown \/ StopCancelled
  <2>1. /\ thread' \in {thread, IdleThread} /\ main = "running" /\ main' = "interruptSync"
        /\ UNCHANGED <<planned, stateFile>>
    BY <1>stp DEF StopFailed, StopShutdown, StopCancelled, StopSession, diskVars
  <2>. QED  BY <2>1 DEF IdleThread
<1>8. CASE AllReturned \/ RequestShutdown \/ RaiseOut
  BY <1>8 DEF AllReturned, RequestShutdown, RaiseOut, memVars, ckptVars, diskVars
<1>9. CASE InterruptSync \/ FinalizeSync \/ FinalizeDeliver \/ FinalizeDelete
  BY <1>9 DEF InterruptSync, FinalizeSync, FinalizeDeliver, FinalizeDelete, memVars, ckptVars
<1>10. CASE InterruptSave \/ FinalizeVerify
  <2>1. sessionStatus \in SessionStatus /\ "FAILED" \in SessionStatus
    BY DEF TypeOK, MemoryTypeOK, SessionStatus
  <2>2. \A file \in stateFile' : Len(file.chunks) = NumChunks
    BY <1>10, <2>1, <1>snp DEF InterruptSave, FinalizeVerify
  <2>. QED  BY <1>10, <2>2 DEF InterruptSave, FinalizeVerify, memVars, ckptVars
<1>11. CASE ProcessExit \/ Crash
  BY <1>11 DEF ProcessExit, Crash, Forget, IdleThread, diskVars
<1>12. CASE UNCHANGED vars
  BY <1>12 DEF vars, memVars, ckptVars, diskVars
<1>. QED
  BY <1>1, <1>2, <1>3, <1>4, <1>5, <1>6, <1>7, <1>rai, <1>str, <1>stp, <1>8, <1>9, <1>10,
     <1>11, <1>12
     DEF Next, MainLoop, CheckpointThread

\* Each step keeps every chunk accounted for.
LEMMA NoChunkForgottenStep ==
    ASSUME Adaptive = FALSE, Interrupts = FALSE, WholeInv, [Next]_vars
    PROVE  NoChunkForgotten' /\ FinalizesOnlyWhole'
<1>. USE DEF WholeInv
<1>wty. /\ wpc \in [Workers -> WorkerPCs] /\ wchunk \in [Workers -> 0..NumChunks]
        /\ status \in [Chunks -> ChunkStatus]
        /\ \A w \in Workers : Busy(w) => wchunk[w] \in Chunks
  BY DEF TypeOK, MemoryTypeOK, WorkersTypeOK
<1>qui. ASSUME main' # "opening", main' # "running", UNCHANGED <<shutdown, status>>,
               main' \in {"finalizing", "verifying", "delivering", "cleaning"} =>
                    main \in {"finalizing", "verifying", "delivering"}
        PROVE  NoChunkForgotten' /\ FinalizesOnlyWhole'
  BY <1>qui DEF NoChunkForgotten, FinalizesOnlyWhole
<1>1. CASE Download
  BY <1>1 DEF Download, Batch, PlanFrom, NoChunkForgotten, FinalizesOnlyWhole, Chunks
<1>2. CASE Resume
  <2>1. PICK file \in stateFile : RestoreChunks(file)
    BY <1>2 DEF Resume
  <2>. DEFINE known == DOMAIN file.chunks
              kept  == {c \in known : Survives(file.chunks[c], c)}
  <2>2. /\ status' = [c \in Chunks |-> IF c \in kept THEN "COMPLETE" ELSE "PENDING"]
        /\ queue' = known \ kept
    BY <2>1 DEF RestoreChunks, Remaining
  <2>3. known = Chunks
    <3>1. file.chunks \in Seq(ChunkRecord) /\ Len(file.chunks) = NumChunks
      BY DEF TypeOK, DiskTypeOK, StateRecord, WholePartition
    <3>. QED  BY <3>1 DEF Chunks
  <2>. QED  BY <1>2, <2>2, <2>3 DEF Resume, NoChunkForgotten, FinalizesOnlyWhole
<1>3. CASE OpenSession
  <2>1. PICK started \in SUBSET Workers :
            /\ Cardinality(started) = IF Cardinality(queue) < Cardinality(Workers)
                                      THEN Cardinality(queue) ELSE Cardinality(Workers)
            /\ wpc' = [w \in Workers |-> IF w \in started THEN "loop" ELSE "off"]
    BY <1>3 DEF OpenSession
  <2>2. ASSUME queue # {} PROVE started # {}
    <3>1. IsFiniteSet(queue)
      <4>1. queue \subseteq 1..NumChunks
        BY EngineAssumption DEF TypeOK, MemoryTypeOK, Planned
      <4>2. IsFiniteSet(1..NumChunks)
        BY EngineAssumption, FS_Interval
      <4>. QED  BY <4>1, <4>2, FS_Subset
    <3>2. Cardinality(queue) # 0 /\ Cardinality(Workers) # 0
      BY <2>2, <3>1, EngineAssumption, FS_EmptySet
    <3>. QED  BY <2>1, <3>2, FS_EmptySet
  <2>3. queue' # {} => WorkerLive'
    BY <1>3, <2>1, <2>2 DEF OpenSession, WorkerLive
  <2>. QED  BY <1>3, <2>3 DEF OpenSession, NoChunkForgotten, FinalizesOnlyWhole, memVars
<1>4. ASSUME NEW w \in Workers, Worker(w) PROVE NoChunkForgotten' /\ FinalizesOnlyWhole'
  <2>upd. main = "running" /\ UNCHANGED <<main, shutdown>>
    BY <1>4, WorkersRun
  <2>run. main = "running" /\ main' = "running" /\ ~shutdown'
    BY <2>upd DEF NoChunkForgotten
  <2>goal. ASSUME \A c \in Chunks :
                     \/ status'[c] = "COMPLETE"
                     \/ c \in queue'
                     \/ \E v \in Workers : Busy(v)' /\ wchunk'[v] = c
                     \/ WorkerFailed',
                  queue' # {} => WorkerLive' \/ WorkerFailed'
           PROVE  NoChunkForgotten' /\ FinalizesOnlyWhole'
    BY <2>goal, <2>run DEF NoChunkForgotten, FinalizesOnlyWhole
  <2>old. \A c \in Chunks :
             \/ status[c] = "COMPLETE"
             \/ c \in queue
             \/ \E v \in Workers : Busy(v) /\ wchunk[v] = c
             \/ WorkerFailed
    BY <2>run DEF NoChunkForgotten
  <2>fld. ASSUME NEW pc \in WorkerPCs, wpc' = [wpc EXCEPT ![w] = pc], wpc[w] # "fail"
          PROVE  WorkerFailed => WorkerFailed'
    BY <2>fld, <1>wty DEF WorkerFailed
  <2>1. CASE TakeChunk(w)
    <3>1. PICK c \in Chunks : /\ GetNext(c)
                              /\ wchunk' = [wchunk EXCEPT ![w] = c]
                              /\ status' = [status EXCEPT ![c] = "IN_PROGRESS"]
      BY <2>1 DEF TakeChunk
    <3>2. wpc' = [wpc EXCEPT ![w] = AttemptStart] /\ wpc[w] = "loop" /\ queue' = queue \ {c}
      BY <2>1, <3>1 DEF TakeChunk, GetNext
    <3>3. Busy(w)' /\ wchunk'[w] = c /\ WorkerLive' /\ ~Busy(w)
      BY <3>1, <3>2, AttemptStarts, <1>wty DEF Busy, WorkerLive
    <3>4. \A v \in Workers : Busy(v) => Busy(v)' /\ wchunk'[v] = wchunk[v]
      BY <3>1, <3>2, <3>3, <1>wty DEF Busy
    <3>5. WorkerFailed => WorkerFailed'
      BY <3>2, AttemptStarts, <2>fld DEF WorkerPCs
    <3>6. \A d \in Chunks :
             \/ status'[d] = "COMPLETE"
             \/ d \in queue'
             \/ \E v \in Workers : Busy(v)' /\ wchunk'[v] = d
             \/ WorkerFailed'
      <4>. SUFFICES ASSUME NEW d \in Chunks, d # c, ~WorkerFailed
                    PROVE  \/ status'[d] = "COMPLETE"
                           \/ d \in queue'
                           \/ \E v \in Workers : Busy(v)' /\ wchunk'[v] = d
        BY <3>3, <3>5
      <4>. QED  BY <3>1, <3>2, <3>4, <2>old, <1>wty
    <3>. QED  BY <3>3, <3>6, <2>goal
  <2>2. CASE RefillQueue(w)
    BY <2>2 DEF RefillQueue, CanRefill
  <2>3. CASE WorkerExit(w)
    <3>1. queue = {} /\ queue' = {} /\ wpc[w] = "loop"
          /\ wpc' = [wpc EXCEPT ![w] = "exit"] /\ UNCHANGED <<status, wchunk>>
      BY <2>3 DEF WorkerExit, memVars, NoChunkForgotten
    <3>2. \A v \in Workers : Busy(v) <=> Busy(v)'
      BY <3>1, <1>wty DEF Busy
    <3>3. WorkerFailed => WorkerFailed'
      BY <3>1, <2>fld DEF WorkerPCs
    <3>. QED  BY <3>1, <3>2, <3>3, <2>goal, <2>old
  <2>same. ASSUME UNCHANGED <<status, queue, wchunk>>, NEW pc \in WorkerPCs,
                  wpc' = [wpc EXCEPT ![w] = pc], wpc[w] \notin {"fail", "off"},
                  pc \notin {"off", "exit", "fail"},
                  Busy(w) => pc \in {"select", "fetch", "got", "backoff"}
           PROVE  NoChunkForgotten' /\ FinalizesOnlyWhole'
    <3>1. \A v \in Workers : Busy(v) => Busy(v)'
      BY <2>same, <1>wty DEF Busy
    <3>2. WorkerLive'
      BY <2>same, <1>wty DEF WorkerLive
    <3>3. WorkerFailed => WorkerFailed'
      BY <2>same, <2>fld
    <3>. QED  BY <2>same, <3>1, <3>2, <3>3, <2>goal, <2>old
  <2>4. CASE WriteBlock(w)
    BY <2>4, <2>goal, <2>old DEF WriteBlock, Busy, WorkerLive, WorkerFailed, memVars, workerVars
  <2>5. CASE Receive(w) \/ Select(w) \/ SkipCheckpoint(w) \/ StartCheckpoint(w)
             \/ CheckpointDone(w)
    BY <2>5, <2>same DEF Receive, Select, SkipCheckpoint, StartCheckpoint, CheckpointDone, Busy,
       memVars, WorkerPCs
  <2>gur. ASSUME NEW retryable \in BOOLEAN, GiveUpOrRetry(w, retryable), wpc[w] = "fetch",
                 UNCHANGED queue
          PROVE  NoChunkForgotten' /\ FinalizesOnlyWhole'
    <3>1. CASE wpc' = [wpc EXCEPT ![w] = "fail"]
      <4>1. WorkerFailed'
        BY <3>1, <1>wty DEF WorkerFailed
      <4>. QED  BY <4>1, <2>goal
    <3>2. CASE wpc' # [wpc EXCEPT ![w] = "fail"]
      <4>1. /\ status' = [status EXCEPT ![wchunk[w]] = "FAILED"]
            /\ wpc' = [wpc EXCEPT ![w] = "backoff"]
            /\ UNCHANGED wchunk
        BY <2>gur, <3>2 DEF GiveUpOrRetry
      <4>2. Busy(w)' /\ wchunk'[w] = wchunk[w] /\ WorkerLive'
        BY <4>1, <1>wty DEF Busy, WorkerLive
      <4>3. \A v \in Workers : Busy(v) => Busy(v)'
        BY <4>1, <1>wty DEF Busy
      <4>4. WorkerFailed => WorkerFailed'
        BY <2>gur, <4>1, <2>fld DEF WorkerPCs
      <4>5. \A d \in Chunks : d # wchunk[w] => status'[d] = status[d]
        BY <4>1, <1>wty
      <4>. QED  BY <2>gur, <4>1, <4>2, <4>3, <4>4, <4>5, <2>goal, <2>old
    <3>. QED  BY <3>1, <3>2
  <2>6. CASE FetchError(w) \/ HashMismatch(w)
    BY <2>6, <2>gur DEF FetchError, HashMismatch
  <2>7. CASE Retry(w)
    <3>1. /\ status' = [status EXCEPT ![wchunk[w]] = "IN_PROGRESS"]
          /\ wpc' = [wpc EXCEPT ![w] = AttemptStart] /\ wpc[w] = "backoff"
          /\ UNCHANGED <<queue, wchunk>>
      BY <2>7 DEF Retry
    <3>2. Busy(w)' /\ wchunk'[w] = wchunk[w] /\ WorkerLive'
      BY <3>1, AttemptStarts, <1>wty DEF Busy, WorkerLive
    <3>3. \A v \in Workers : Busy(v) => Busy(v)'
      BY <3>1, AttemptStarts, <1>wty DEF Busy
    <3>4. WorkerFailed => WorkerFailed'
      BY <3>1, AttemptStarts, <2>fld DEF WorkerPCs
    <3>5. \A d \in Chunks : d # wchunk[w] => status'[d] = status[d]
      BY <3>1, <1>wty
    <3>. QED  BY <3>1, <3>2, <3>3, <3>4, <3>5, <2>goal, <2>old
  <2>8. CASE Complete(w)
    <3>1. /\ wpc[w] = "got" /\ UNCHANGED queue
          /\ status' = [status EXCEPT ![wchunk[w]] = "COMPLETE"]
          /\ wchunk' = [wchunk EXCEPT ![w] = 0]
      BY <2>8, CompletingStep
    <3>2. PICK pc \in {"lock", "loop"} : wpc' = [wpc EXCEPT ![w] = pc]
      BY <2>8 DEF Complete
    <3>3. wchunk[w] \in Chunks /\ status'[wchunk[w]] = "COMPLETE" /\ WorkerLive'
      BY <3>1, <3>2, <1>wty DEF Busy, WorkerLive
    <3>4. \A v \in Workers : v # w /\ Busy(v) => Busy(v)' /\ wchunk'[v] = wchunk[v]
      BY <3>1, <3>2, <1>wty DEF Busy
    <3>5. WorkerFailed => WorkerFailed'
      BY <3>1, <3>2, <2>fld DEF WorkerPCs
    <3>6. \A d \in Chunks : d # wchunk[w] => status'[d] = status[d]
      BY <3>1, <1>wty
    <3>7. ASSUME NEW d \in Chunks, ~WorkerFailed, d # wchunk[w]
          PROVE  \/ status'[d] = "COMPLETE"
                 \/ d \in queue'
                 \/ \E v \in Workers : Busy(v)' /\ wchunk'[v] = d
      BY <3>1, <3>4, <3>6, <3>7, <2>old
    <3>. QED  BY <3>3, <3>5, <3>7, <2>goal
  <2>9. CASE NoMirror(w) \/ CallbackRaises(w) \/ RecordRaises(w) \/ CompleteUncounted(w)
             \/ CheckpointRaises(w)
    <3>0. wpc' = [wpc EXCEPT ![w] = "fail"]
      BY <2>9, LeavingStep DEF CompleteUncounted, CheckpointRaises
    <3>1. WorkerFailed'
      BY <3>0, <1>wty DEF WorkerFailed
    <3>. QED  BY <3>1, <2>goal
  <2>. QED  BY <1>4, <2>1, <2>2, <2>3, <2>4, <2>5, <2>6, <2>7, <2>8, <2>9 DEF Worker
<1>same. ASSUME UNCHANGED <<main, shutdown, status, queue, wpc, wchunk>>
         PROVE  NoChunkForgotten' /\ FinalizesOnlyWhole'
  BY <1>same DEF NoChunkForgotten, FinalizesOnlyWhole, Busy, WorkerFailed, WorkerLive
<1>5. CASE CheckpointThread
  BY <1>5, <1>same DEF CheckpointThread, ThreadSync, ThreadReadStatus, ThreadRead,
     ThreadReplace, ThreadRaises, memVars, workerVars
<1>str. ASSUME NEW w \in Workers, StrayWrite(w) PROVE NoChunkForgotten' /\ FinalizesOnlyWhole'
  BY <1>str DEF StrayWrite, memVars, NoChunkForgotten, FinalizesOnlyWhole
<1>6. CASE StopFailed \/ StopShutdown \/ StopCancelled
  BY <1>6 DEF StopFailed, StopShutdown, StopCancelled, StopSession, NoChunkForgotten,
     FinalizesOnlyWhole
<1>7. CASE AllReturned
  <2>1. ~WorkerFailed /\ ~WorkerLive /\ \A w \in Workers : ~Busy(w)
    BY <1>7 DEF AllReturned, WorkerLive, Busy
  <2>2. \A c \in Chunks : status[c] = "COMPLETE"
    BY <1>7, <2>1 DEF AllReturned, NoChunkForgotten
  <2>. QED  BY <1>7, <2>2 DEF AllReturned, NoChunkForgotten, FinalizesOnlyWhole, memVars
<1>8. CASE InterruptSync \/ InterruptSave \/ FinalizeSync \/ FinalizeVerify \/ FinalizeDeliver
           \/ FinalizeDelete \/ RaiseOut
  BY <1>8, <1>qui DEF InterruptSync, InterruptSave, FinalizeSync, FinalizeVerify, FinalizeDeliver,
     FinalizeDelete, RaiseOut, memVars, NoChunkForgotten
<1>9. CASE RequestShutdown
  BY <1>9 DEF RequestShutdown
<1>10. CASE ProcessExit \/ Crash
  BY <1>10 DEF ProcessExit, Crash, Forget, NoChunkForgotten, FinalizesOnlyWhole
<1>11. CASE UNCHANGED vars
  BY <1>11, <1>same DEF vars, memVars, workerVars
<1>. QED
  BY <1>1, <1>2, <1>3, <1>4, <1>5, <1>str, <1>6, <1>7, <1>8, <1>9, <1>10, <1>11 DEF Next, MainLoop

\* _finalize looks at no chunk status; that the queue is empty and every worker
\* has returned is enough, provided that the partition is fixed from the start
\* and nobody asks for a shutdown.  Both provisos are needed: see the runs.
THEOREM FinalizedFilesAreWhole ==
    ASSUME Adaptive = FALSE, Interrupts = FALSE
    PROVE  Spec => []FinalizesOnlyWhole
<1>1. Init => WholeInv
  BY WholeInit
<1>2. WholeInv /\ [Next]_vars => WholeInv'
  BY TypeStep, PartitionStep, NoChunkForgottenStep DEF WholeInv
<1>3. WholeInv => FinalizesOnlyWhole
  BY DEF WholeInv
<1>. QED  BY <1>1, <1>2, <1>3, PTL DEF Spec
-----------------------------------------------------------------------------
(* What is complete stays so, and stays where it is *)

\* No step of a process changes a complete chunk: not even the write of a worker
\* that was cancelled, whose chunk is pending by then.
LEMMA CompleteKept ==
    ASSUME IntegrityInv, [Next]_vars, main # "down", main' # "down",
           NEW c \in Chunks, status[c] = "COMPLETE"
    PROVE  status'[c] = "COMPLETE" /\ hash'[c] = hash[c] /\ page'[c] = page[c]
<1>. USE DEF memVars, workerVars, ckptVars, diskVars, boundVars
<1>ty. /\ wchunk \in [Workers -> 0..NumChunks] /\ status \in [Chunks -> ChunkStatus]
       /\ hash \in [Chunks -> Digests] /\ page \in [Chunks -> Content]
  BY DEF IntegrityInv, TypeOK, MemoryTypeOK, WorkersTypeOK, DiskTypeOK
<1>1. ASSUME NEW w \in Workers, Worker(w)
      PROVE  status'[c] = "COMPLETE" /\ hash'[c] = hash[c] /\ page'[c] = page[c]
  <2>1. CASE TakeChunk(w)
    <3>1. PICK d \in Chunks : d \in queue /\ status' = [status EXCEPT ![d] = "IN_PROGRESS"]
      BY <2>1 DEF TakeChunk, GetNext
    <3>2. status[d] = "PENDING"
      BY <3>1 DEF IntegrityInv, ChunkOwnership
    <3>. QED  BY <2>1, <3>1, <3>2, <1>ty DEF TakeChunk
  <2>2. CASE WriteBlock(w) \/ Receive(w) \/ FetchError(w) \/ HashMismatch(w) \/ Retry(w)
    <3>1. Busy(w)
      BY <2>2 DEF WriteBlock, Receive, FetchError, HashMismatch, Retry, Busy
    <3>2. wchunk[w] # c
      BY <3>1 DEF IntegrityInv, ChunkOwnership
    <3>. QED  BY <2>2, <3>2, <1>ty
              DEF WriteBlock, Receive, FetchError, HashMismatch, GiveUpOrRetry, Retry
  <2>4. CASE Complete(w) \/ CompleteUncounted(w)
    <3>1. wchunk[w] # c
      BY <2>4, CompletingStep DEF IntegrityInv, ChunkOwnership, Busy
    <3>. QED  BY <2>4, <3>1, CompletingStep, <1>ty
  <2>5. CASE NoMirror(w) \/ CallbackRaises(w) \/ RecordRaises(w)
    BY <2>5, LeavingStep
  <2>3. CASE RefillQueue(w) \/ WorkerExit(w) \/ Select(w) \/ SkipCheckpoint(w)
             \/ StartCheckpoint(w) \/ CheckpointDone(w) \/ CheckpointRaises(w)
    BY <2>3 DEF RefillQueue, WorkerExit, Select, SkipCheckpoint, StartCheckpoint,
       CheckpointDone, CheckpointRaises
  <2>. QED  BY <1>1, <2>1, <2>2, <2>3, <2>4, <2>5 DEF Worker
<1>2. ASSUME NEW w \in Workers, StrayWrite(w)
      PROVE  status'[c] = "COMPLETE" /\ hash'[c] = hash[c] /\ page'[c] = page[c]
  <2>1. wchunk[w] # c
    BY <1>2 DEF StrayWrite, IntegrityInv, ChunkOwnership
  <2>. QED  BY <1>2, <2>1, <1>ty DEF StrayWrite
<1>3. CASE StopFailed \/ StopShutdown \/ StopCancelled
  BY <1>3 DEF StopFailed, StopShutdown, StopCancelled, StopSession
<1>4. CASE OpenSession \/ AllReturned \/ InterruptSync \/ InterruptSave \/ FinalizeSync
           \/ FinalizeVerify \/ FinalizeDeliver \/ FinalizeDelete \/ RaiseOut \/ RequestShutdown
  BY <1>4 DEF OpenSession, AllReturned, InterruptSync, InterruptSave, FinalizeSync,
     FinalizeVerify, FinalizeDeliver, FinalizeDelete, RaiseOut, RequestShutdown
<1>5. CASE CheckpointThread
  BY <1>5 DEF CheckpointThread, ThreadSync, ThreadReadStatus, ThreadRead, ThreadReplace,
     ThreadRaises
<1>6. CASE Download \/ Resume \/ ProcessExit \/ Crash
  BY <1>6 DEF Download, Resume, ProcessExit, Crash, Forget
<1>7. CASE UNCHANGED vars
  BY <1>7 DEF vars
<1>. QED  BY <1>1, <1>2, <1>3, <1>4, <1>5, <1>6, <1>7 DEF Next, MainLoop

\* A chunk that a running session counts as complete keeps its status, its digest and
\* its bytes until the session is over, whoever writes beside it.
THEOREM CompleteChunksAreFinal == Spec => CompleteIsFinal
<1>1. IntegrityInv /\ [Next]_vars =>
          [main = "running" /\ main' # "down" =>
              \A c \in Chunks : status[c] = "COMPLETE" =>
                  status'[c] = "COMPLETE" /\ hash'[c] = hash[c] /\ page'[c] = page[c]]_vars
  BY CompleteKept
<1>2. Spec => []IntegrityInv
  BY IntegrityInit, IntegrityStep, PTL DEF Spec
<1>. QED  BY <1>1, <1>2, PTL DEF Spec, CompleteIsFinal

-----------------------------------------------------------------------------
(* Fetched bytes can be resumed from *)

\* The bytes a loss of power may bring back count as well, and the .part file is gone
\* before the state file is.
ResumableInv ==
    /\ part /\ (\E c \in Chunks : page[c] # "hole" \/ durable[c] # "hole") => stateFile # {}
    /\ main = "cleaning" => ~part
    /\ main \notin {"down", "opening", "cleaning", "ended"} => stateFile # {}

LEMMA ResumableStep ==
    ASSUME TypeOK, ResumableInv, [Next]_vars
    PROVE  ResumableInv'
<1>. USE DEF ResumableInv, memVars, workerVars, ckptVars, diskVars, boundVars
<1>ty. page \in [Chunks -> Content] /\ durable \in [Chunks -> Content] /\ part \in BOOLEAN
  BY DEF TypeOK, DiskTypeOK
<1>1. ASSUME NEW w \in Workers, Worker(w) \/ StrayWrite(w) PROVE ResumableInv'
  <2>1. main' = main /\ main \in {"running", "interruptSync"}
    BY <1>1, WorkersRun DEF StrayWrite
  <2>2. UNCHANGED stateFile
    BY <1>1, WorkersRun DEF StrayWrite
  <2>. QED  BY <2>1, <2>2
<1>2. CASE Download \/ Resume
  BY <1>2 DEF Download, Resume
<1>3. CASE OpenSession \/ InterruptSave
  BY <1>3 DEF OpenSession, InitialSave, InterruptSave
<1>4. CASE StopFailed \/ StopShutdown \/ StopCancelled \/ AllReturned \/ RequestShutdown
  BY <1>4 DEF StopFailed, StopShutdown, StopCancelled, StopSession, AllReturned, RequestShutdown
<1>5. CASE InterruptSync \/ FinalizeSync \/ FinalizeVerify
  BY <1>5 DEF InterruptSync, FinalizeSync, FinalizeVerify
<1>6. CASE FinalizeDeliver \/ FinalizeDelete \/ RaiseOut
  BY <1>6 DEF FinalizeDeliver, FinalizeDelete, RaiseOut
<1>7. CASE CheckpointThread
  <2>1. CASE ThreadSync
    BY <2>1 DEF ThreadSync
  <2>2. CASE ThreadReplace
    BY <2>2 DEF ThreadReplace
  <2>3. CASE ThreadReadStatus \/ ThreadRead \/ ThreadRaises
    <3>1. UNCHANGED <<main, part, page, durable, stateFile>>
      BY <2>3 DEF ThreadReadStatus, ThreadRead, ThreadRaises
    <3>. QED  BY <3>1
  <2>. QED  BY <1>7, <2>1, <2>2, <2>3 DEF CheckpointThread
<1>8. CASE ProcessExit
  BY <1>8 DEF ProcessExit, Forget
<1>9. CASE Crash
  <2>1. PICK img \in CrashImages : page' = img /\ durable' = img
    BY <1>9 DEF Crash
  <2>2. \A c \in Chunks : img[c] # "hole" => page[c] # "hole" \/ durable[c] # "hole"
    BY <2>1 DEF CrashImages
  <2>. QED  BY <1>9, <2>1, <2>2 DEF Crash, Forget
<1>10. CASE UNCHANGED vars
  BY <1>10 DEF vars
<1>. QED  BY <1>1, <1>2, <1>3, <1>4, <1>5, <1>6, <1>7, <1>8, <1>9, <1>10 DEF Next, MainLoop

\* Whenever and however a process ends, a .part file with bytes in it has a state file
\* to resume them from.
THEOREM FetchedBytesAreResumable == Spec => []BytesAreResumable
<1>1. Init => ResumableInv
  BY DEF Init, ResumableInv
<1>2. ResumableInv => BytesAreResumable
  BY DEF ResumableInv, BytesAreResumable
<1>. QED  BY <1>1, <1>2, ResumableStep, TypeCorrect, PTL DEF Spec
-----------------------------------------------------------------------------
(* Where the chunks are *)

\* One more element counts at most one more.
LEMMA OneMore ==
    ASSUME NEW S, IsFiniteSet(S), NEW x, NEW T \in SUBSET (S \cup {x})
    PROVE  Cardinality(T) =< Cardinality(S) + 1
<1>1. Cardinality(S) \in Nat
  BY FS_CardinalityType
<1>2. /\ IsFiniteSet(S \cup {x})
      /\ Cardinality(S \cup {x}) = IF x \in S THEN Cardinality(S) ELSE Cardinality(S) + 1
  BY FS_AddElement
<1>3. Cardinality(T) =< Cardinality(S \cup {x})
  BY <1>2, FS_Subset
<1>4. Cardinality(T) \in Nat
  BY <1>2, FS_Subset, FS_CardinalityType
<1>. QED  BY <1>1, <1>2, <1>3, <1>4

\* The workers that raised.
Failed == {w \in Workers : wpc[w] = "fail"}

\* Somebody has c to do, or it is done.
Placed(c) ==
    \/ c \in queue
    \/ status[c] = "COMPLETE"
    \/ \E w \in Workers : Busy(w) /\ wchunk[w] = c

\* A session opens with every chunk placed; while it runs, the workers that raised
\* account for those that are not.
PlacesInv ==
    /\ main = "opening" => \A c \in Planned : Placed(c)
    /\ main = "running" => Cardinality(Stranded) =< Cardinality(Failed)

LEMMA StrandedChunks == Stranded = {c \in Planned : ~Placed(c)}
BY DEF Stranded, Holders, Placed

LEMMA StrandedChunksNext == Stranded' = {c \in Planned' : ~Placed(c)'}
BY DEF Stranded, Holders, Placed

\* Who raised stays raised, and who raises is one more.
LEMMA FailedStep ==
    ASSUME NEW w \in Workers, wpc \in [Workers -> WorkerPCs], wpc[w] # "fail",
           NEW pc, wpc' = [wpc EXCEPT ![w] = pc]
    PROVE  /\ IsFiniteSet(Failed) /\ Cardinality(Failed) \in Nat
           /\ IsFiniteSet(Failed') /\ Cardinality(Failed') \in Nat
           /\ Cardinality(Failed') = IF pc = "fail" THEN Cardinality(Failed) + 1
                                                    ELSE Cardinality(Failed)
<1>1. Failed \in SUBSET Workers /\ w \notin Failed
  BY DEF Failed
<1>2. IsFiniteSet(Failed) /\ Cardinality(Failed) \in Nat
  BY <1>1, EngineAssumption, FS_Subset, FS_CardinalityType
<1>3. Failed' = IF pc = "fail" THEN Failed \cup {w} ELSE Failed
  BY DEF Failed
<1>4. /\ IsFiniteSet(Failed \cup {w})
      /\ Cardinality(Failed \cup {w}) = Cardinality(Failed) + 1
  BY <1>1, <1>2, FS_AddElement
<1>. QED  BY <1>2, <1>3, <1>4

LEMMA PlacesStep ==
    ASSUME IntegrityInv, PlacesInv, [Next]_vars
    PROVE  PlacesInv'
<1>. USE DEF memVars
<1>ty. /\ wpc \in [Workers -> WorkerPCs] /\ wchunk \in [Workers -> 0..NumChunks]
       /\ status \in [Chunks -> ChunkStatus] /\ planned \in 0..NumChunks
       /\ \A w \in Workers : Busy(w) => wchunk[w] \in Chunks
       /\ Planned \subseteq Chunks
  BY EngineAssumption DEF IntegrityInv, TypeOK, MemoryTypeOK, WorkersTypeOK, Planned, Chunks
<1>fin. IsFiniteSet(Stranded) /\ Cardinality(Stranded) \in Nat
  <2>1. IsFiniteSet(Planned)
    BY <1>ty, FS_Interval DEF Planned
  <2>2. Stranded \in SUBSET Planned
    BY DEF Stranded
  <2>. QED  BY <2>1, <2>2, FS_Subset, FS_CardinalityType
<1>quiet. ASSUME main' # "opening", main' # "running" PROVE PlacesInv'
  BY <1>quiet DEF PlacesInv
<1>same. ASSUME UNCHANGED <<main, planned, status, queue, wpc, wchunk>> PROVE PlacesInv'
  <2>1. Stranded' = Stranded /\ Failed' = Failed
    BY <1>same DEF Stranded, Holders, Failed, Planned, Busy
  <2>. QED  BY <1>same, <2>1 DEF PlacesInv, Placed, Planned, Busy
<1>1. CASE Download
  <2>1. Batch(0) = 1..PlanFrom(0)
    BY DEF Batch
  <2>. QED  BY <1>1, <2>1 DEF Download, PlacesInv, Placed, Planned
<1>2. CASE Resume
  <2>1. PICK file \in stateFile : RestoreChunks(file)
    BY <1>2 DEF Resume
  <2>. DEFINE known == DOMAIN file.chunks
              kept  == {c \in known : Survives(file.chunks[c], c)}
  <2>2. /\ status' = [c \in Chunks |-> IF c \in kept THEN "COMPLETE" ELSE "PENDING"]
        /\ queue' = known \ kept
        /\ planned' = Len(file.chunks)
    BY <2>1 DEF RestoreChunks, Remaining
  <2>3. known = Planned' /\ known \subseteq Chunks
    <3>1. file.chunks \in Seq(ChunkRecord) /\ Len(file.chunks) =< NumChunks
      BY DEF IntegrityInv, TypeOK, DiskTypeOK, StateRecord
    <3>. QED  BY <2>2, <3>1, EngineAssumption DEF Planned, Chunks
  <2>. QED  BY <1>2, <2>2, <2>3 DEF Resume, PlacesInv, Placed
<1>3. CASE OpenSession
  <2>1. \A c \in Planned' : Placed(c)'
    <3>1. main = "opening" /\ UNCHANGED <<planned, status, queue>>
      BY <1>3 DEF OpenSession
    <3>2. \A c \in Planned : c \in queue \/ status[c] = "COMPLETE"
      BY <3>1 DEF PlacesInv, Placed, IntegrityInv, ChunkOwnership
    <3>. QED  BY <3>1, <3>2 DEF Placed, Planned
  <2>2. Cardinality(Stranded') = 0
    BY <2>1, StrandedChunksNext, FS_EmptySet
  <2>3. Cardinality(Failed') = 0
    <3>1. Failed' = {}
      BY <1>3 DEF OpenSession, Failed
    <3>. QED  BY <3>1, FS_EmptySet
  <2>. QED  BY <1>3, <2>2, <2>3 DEF OpenSession, PlacesInv
<1>4. ASSUME NEW w \in Workers, Worker(w) PROVE PlacesInv'
  <2>run. main = "running" /\ main' = "running"
    BY <1>4, WorkersRun
  <2>old. Cardinality(Stranded) =< Cardinality(Failed)
    BY <2>run DEF PlacesInv
  \* No chunk loses its place.
  <2>keep. ASSUME \A c \in Planned' : ~Placed(c)' => c \in Planned /\ ~Placed(c),
                  NEW pc, wpc' = [wpc EXCEPT ![w] = pc], wpc[w] # "fail"
           PROVE  PlacesInv'
    <3>1. Stranded' \in SUBSET Stranded
      BY <2>keep, StrandedChunks, StrandedChunksNext
    <3>2. Cardinality(Stranded') =< Cardinality(Stranded) /\ Cardinality(Stranded') \in Nat
      BY <3>1, <1>fin, FS_Subset, FS_CardinalityType
    <3>3. /\ Cardinality(Failed) \in Nat
          /\ Cardinality(Failed') = IF pc = "fail" THEN Cardinality(Failed) + 1
                                                   ELSE Cardinality(Failed)
      BY <2>keep, <1>ty, FailedStep
    <3>4. Cardinality(Failed') \in Nat /\ Cardinality(Failed) =< Cardinality(Failed')
      BY <3>3
    <3>. QED  BY <2>old, <2>run, <3>2, <3>3, <3>4, <1>fin DEF PlacesInv
  \* The worker raises, and its chunk d loses its place.
  <2>lose. ASSUME NEW d, \A c \in Planned' : c # d /\ ~Placed(c)' => c \in Planned /\ ~Placed(c),
                  wpc' = [wpc EXCEPT ![w] = "fail"], wpc[w] # "fail"
           PROVE  PlacesInv'
    <3>1. Stranded' \in SUBSET (Stranded \cup {d})
      BY <2>lose, StrandedChunks, StrandedChunksNext
    <3>2. Cardinality(Stranded') =< Cardinality(Stranded) + 1 /\ Cardinality(Stranded') \in Nat
      <4>1. IsFiniteSet(Stranded \cup {d})
        BY <1>fin, FS_AddElement
      <4>. QED  BY <3>1, <4>1, <1>fin, OneMore, FS_Subset, FS_CardinalityType
    <3>3. Cardinality(Failed) \in Nat /\ Cardinality(Failed') = Cardinality(Failed) + 1
      BY <2>lose, <1>ty, FailedStep
    <3>. QED  BY <2>old, <2>run, <3>2, <3>3, <1>fin DEF PlacesInv
  \* A step of a worker over its own chunk d leaves the others where they are.
  <2>own. ASSUME NEW d, UNCHANGED planned,
                 \A c \in Chunks : c # d => status'[c] = status[c] /\ (c \in queue => c \in queue'),
                 NEW pc, wpc' = [wpc EXCEPT ![w] = pc],
                 \A v \in Workers : v # w => wchunk'[v] = wchunk[v],
                 Busy(w) => wchunk[w] = d
          PROVE  \A c \in Planned' : c # d /\ ~Placed(c)' => c \in Planned /\ ~Placed(c)
    <3>1. ASSUME NEW c \in Planned, c # d, Placed(c) PROVE Placed(c)'
      <4>1. CASE \E v \in Workers : Busy(v) /\ wchunk[v] = c
        <5>1. PICK v \in Workers : Busy(v) /\ wchunk[v] = c
          BY <4>1
        <5>2. v # w
          BY <5>1, <2>own, <3>1
        <5>3. Busy(v)' /\ wchunk'[v] = c
          BY <5>1, <5>2, <2>own, <1>ty DEF Busy
        <5>. QED  BY <5>3 DEF Placed
      <4>2. CASE ~\E v \in Workers : Busy(v) /\ wchunk[v] = c
        BY <2>own, <4>2, <3>1, <1>ty DEF Placed
      <4>. QED  BY <4>1, <4>2
    <3>. QED  BY <3>1, <2>own DEF Planned
  \* A step that changes no chunk and lets none go.
  <2>idle. ASSUME UNCHANGED <<planned, status, queue, wchunk>>, NEW pc,
                  wpc' = [wpc EXCEPT ![w] = pc], wpc[w] # "fail",
                  Busy(w) => pc \in {"select", "fetch", "got", "backoff"}
           PROVE  PlacesInv'
    <3>1. \A v \in Workers : Busy(v) => Busy(v)'
      BY <2>idle, <1>ty DEF Busy
    <3>2. \A c \in Planned' : ~Placed(c)' => c \in Planned /\ ~Placed(c)
      BY <2>idle, <3>1 DEF Placed, Planned
    <3>. QED  BY <2>idle, <3>2, <2>keep
  <2>1. CASE TakeChunk(w)
    <3>1. PICK d \in Chunks : /\ d \in queue /\ queue' = queue \ {d}
                              /\ wchunk' = [wchunk EXCEPT ![w] = d]
                              /\ status' = [status EXCEPT ![d] = "IN_PROGRESS"]
      BY <2>1 DEF TakeChunk, GetNext
    <3>2. /\ wpc' = [wpc EXCEPT ![w] = AttemptStart] /\ wpc[w] = "loop" /\ ~Busy(w)
          /\ UNCHANGED planned
      BY <2>1 DEF TakeChunk, Busy
    <3>3. Placed(d)'
      BY <3>1, <3>2, AttemptStarts, <1>ty DEF Busy, Placed
    <3>4. \A c \in Planned' : c # d /\ ~Placed(c)' => c \in Planned /\ ~Placed(c)
      BY <3>1, <3>2, <2>own, <1>ty
    <3>. QED  BY <3>2, <3>3, <3>4, <2>keep
  <2>2. CASE RefillQueue(w)
    <3>1. /\ planned' = PlanFrom(planned) /\ queue' = Batch(planned) /\ queue = {}
          /\ UNCHANGED <<status, wpc, wchunk>> /\ wpc[w] = "loop"
      BY <2>2 DEF RefillQueue, workerVars
    <3>2. \A c \in Planned' : c \in Planned \/ c \in queue'
      BY <3>1, <1>ty, PlanFromType, EngineAssumption DEF Batch, Planned
    <3>3. \A c \in Planned' : ~Placed(c)' => c \in Planned /\ ~Placed(c)
      BY <3>1, <3>2 DEF Placed, Busy
    <3>4. wpc' = [wpc EXCEPT ![w] = "loop"]
      BY <3>1, <1>ty
    <3>. QED  BY <3>1, <3>3, <3>4, <2>keep
  <2>3. CASE WorkerExit(w) \/ Select(w) \/ Receive(w)
    BY <2>3, <2>idle DEF WorkerExit, Select, Receive, Busy
  <2>4. CASE WriteBlock(w)
    BY <2>4, <1>same DEF WriteBlock, workerVars
  <2>gur. ASSUME NEW retryable \in BOOLEAN, GiveUpOrRetry(w, retryable), wpc[w] = "fetch",
                 UNCHANGED <<queue, planned>>
          PROVE  PlacesInv'
    <3>0. PICK d \in Chunks : d = wchunk[w] /\ Busy(w)
      BY <2>gur, <1>ty DEF Busy
    <3>1. CASE /\ status' = [status EXCEPT ![d] = "ABANDONED"]
               /\ wpc' = [wpc EXCEPT ![w] = "fail"] /\ wchunk' = [wchunk EXCEPT ![w] = 0]
      <4>1. \A c \in Planned' : c # d /\ ~Placed(c)' => c \in Planned /\ ~Placed(c)
        BY <3>0, <3>1, <2>gur, <2>own, <1>ty
      <4>. QED  BY <3>1, <4>1, <2>gur, <2>lose
    <3>2. CASE /\ status' = [status EXCEPT ![d] = "FAILED"]
               /\ wpc' = [wpc EXCEPT ![w] = "backoff"] /\ UNCHANGED wchunk
      <4>1. Placed(d)'
        BY <3>0, <3>2, <1>ty DEF Placed, Busy
      <4>2. \A c \in Planned' : c # d /\ ~Placed(c)' => c \in Planned /\ ~Placed(c)
        BY <3>0, <3>2, <2>gur, <2>own, <1>ty
      <4>. QED  BY <3>2, <4>1, <4>2, <2>gur, <2>keep
    <3>. QED  BY <2>gur, <3>0, <3>1, <3>2 DEF GiveUpOrRetry
  <2>5. CASE FetchError(w) \/ HashMismatch(w)
    BY <2>5, <2>gur DEF FetchError, HashMismatch
  <2>6. CASE Retry(w)
    <3>. PICK d \in Chunks : d = wchunk[w] /\ Busy(w)
      BY <2>6, <1>ty DEF Retry, Busy
    <3>1. /\ status' = [status EXCEPT ![d] = "IN_PROGRESS"]
          /\ wpc' = [wpc EXCEPT ![w] = AttemptStart] /\ wpc[w] = "backoff"
          /\ UNCHANGED <<queue, wchunk, planned>>
      BY <2>6 DEF Retry
    <3>2. Placed(d)'
      BY <3>1, AttemptStarts, <1>ty DEF Placed, Busy
    <3>3. \A c \in Planned' : c # d /\ ~Placed(c)' => c \in Planned /\ ~Placed(c)
      BY <3>1, <2>own, <1>ty
    <3>. QED  BY <3>1, <3>2, <3>3, <2>keep
  <2>7. CASE Complete(w) \/ CompleteUncounted(w)
    <3>. PICK d \in Chunks : d = wchunk[w] /\ Busy(w)
      BY <2>7, CompletingStep, <1>ty DEF Busy
    <3>1. /\ wpc[w] = "got" /\ UNCHANGED <<queue, planned>>
          /\ status' = [status EXCEPT ![d] = "COMPLETE"]
          /\ wchunk' = [wchunk EXCEPT ![w] = 0]
      BY <2>7, CompletingStep
    <3>2. PICK pc \in {"lock", "loop", "fail"} : wpc' = [wpc EXCEPT ![w] = pc]
      BY <2>7, CompletingStep
    <3>3. Placed(d)'
      BY <3>1, <1>ty DEF Placed
    <3>4. \A c \in Planned' : c # d /\ ~Placed(c)' => c \in Planned /\ ~Placed(c)
      BY <3>1, <3>2, <2>own, <1>ty
    <3>. QED  BY <3>1, <3>2, <3>3, <3>4, <2>keep
  <2>8. CASE NoMirror(w) \/ CallbackRaises(w) \/ RecordRaises(w)
    <3>. PICK d \in Chunks : d = wchunk[w] /\ Busy(w)
      BY <2>8, LeavingStep, <1>ty DEF Busy
    <3>1. /\ wpc[w] # "fail" /\ wpc' = [wpc EXCEPT ![w] = "fail"]
          /\ wchunk' = [wchunk EXCEPT ![w] = 0]
          /\ UNCHANGED <<status, queue, planned>>
      BY <2>8, LeavingStep
    <3>2. \A c \in Planned' : c # d /\ ~Placed(c)' => c \in Planned /\ ~Placed(c)
      BY <3>1, <2>own, <1>ty
    <3>. QED  BY <3>1, <3>2, <2>lose
  <2>9. CASE SkipCheckpoint(w) \/ StartCheckpoint(w) \/ CheckpointDone(w) \/ CheckpointRaises(w)
    BY <2>9, <2>idle DEF SkipCheckpoint, StartCheckpoint, CheckpointDone, CheckpointRaises, Busy
  <2>. QED  BY <1>4, <2>1, <2>2, <2>3, <2>4, <2>5, <2>6, <2>7, <2>8, <2>9 DEF Worker
<1>5. CASE CheckpointThread
  BY <1>5, <1>same DEF CheckpointThread, ThreadSync, ThreadReadStatus, ThreadRead,
     ThreadReplace, ThreadRaises, workerVars
<1>6. ASSUME NEW w \in Workers, StrayWrite(w) PROVE PlacesInv'
  BY <1>6, <1>quiet DEF StrayWrite
<1>7. CASE StopFailed \/ StopShutdown \/ StopCancelled \/ AllReturned
  BY <1>7, <1>quiet DEF StopFailed, StopShutdown, StopCancelled, StopSession, AllReturned
<1>8. CASE InterruptSync \/ InterruptSave \/ FinalizeSync \/ FinalizeVerify \/ FinalizeDeliver
           \/ FinalizeDelete \/ RaiseOut
  BY <1>8, <1>quiet DEF InterruptSync, InterruptSave, FinalizeSync, FinalizeVerify,
     FinalizeDeliver, FinalizeDelete, RaiseOut
<1>9. CASE RequestShutdown
  BY <1>9, <1>same DEF RequestShutdown, workerVars
<1>10. CASE ProcessExit \/ Crash
  BY <1>10, <1>quiet DEF ProcessExit, Crash, Forget
<1>11. CASE UNCHANGED vars
  BY <1>11, <1>same DEF vars, workerVars
<1>. QED
  BY <1>1, <1>2, <1>3, <1>4, <1>5, <1>6, <1>7, <1>8, <1>9, <1>10, <1>11 DEF Next, MainLoop

\* The places of a planned chunk exclude each other.
LEMMA OnePlace ==
    ASSUME IntegrityInv, PlacesInv
    PROVE  OnePlacePerChunk
<1>. SUFFICES ASSUME main = "running", NEW c \in Planned
              PROVE  /\ c \in queue => status[c] = "PENDING" /\ Holders(c) = {}
                     /\ status[c] \in {"COMPLETE", "ABANDONED"} => Holders(c) = {}
                     /\ Cardinality(Holders(c)) =< 1
  BY DEF OnePlacePerChunk, PlacesInv, Failed
<1>1. \A w \in Holders(c) : status[c] \in {"IN_PROGRESS", "FAILED"}
  BY DEF Holders, IntegrityInv, ChunkOwnership
<1>2. c \in queue => status[c] = "PENDING"
  BY DEF IntegrityInv, ChunkOwnership
<1>3. Cardinality(Holders(c)) =< 1
  <2>1. CASE Holders(c) = {}
    BY <2>1, FS_EmptySet
  <2>2. ASSUME NEW w \in Holders(c) PROVE Cardinality(Holders(c)) = 1
    <3>1. Holders(c) = {w}
      BY <2>2 DEF Holders, IntegrityInv, ChunkOwnership
    <3>. QED  BY <3>1, FS_Singleton
  <2>. QED  BY <2>1, <2>2
<1>. QED  BY <1>1, <1>2, <1>3

\* While a session runs no chunk is in two places: waiting and held, held twice, or held
\* although it is complete or given up.  And no more chunks are in none than workers have
\* raised: whatever else a worker does, its chunk goes on to the next place.
THEOREM ChunksAreAccountedFor == Spec => []OnePlacePerChunk
<1>1. Init => IntegrityInv /\ PlacesInv
  BY IntegrityInit DEF Init, PlacesInv
<1>. QED  BY <1>1, IntegrityStep, PlacesStep, OnePlace, PTL DEF Spec
-----------------------------------------------------------------------------
(* What a crash can cost *)

\* No worker has raised, and no checkpoint is about to make one raise.
NobodyRaised == thread.pc # "raised" /\ ~WorkerFailed

\* The workers that wait for the checkpoint lock.
Locking == {w \in Workers : wpc[w] = "lock"}

\* The complete chunks that the checkpoint in progress will not record: it has read
\* them before they were complete, or has done reading before they were planned.
Omitted ==
    {c \in Planned : /\ status[c] = "COMPLETE"
                     /\ IF c \in DOMAIN thread.chunks
                        THEN thread.chunks[c].st # "COMPLETE"
                        ELSE thread.pc = "replace"}

\* In a running session a checkpoint runs only for the worker that holds the lock.
LockInv ==
    /\ thread.pc # "off" => main \notin {"down", "opening"}
    /\ thread.pc = "raised" => DiskErrors
    /\ main # "running" => lock = {}
    /\ lock # {} => \E w \in Workers : lock = {w} /\ wpc[w] = "ckpt"
    /\ main = "running" /\ thread.pc # "off" => lock # {}
    /\ main = "running" => \A w \in Workers : wpc[w] = "ckpt" => lock = {w}

\* From a full interval on, every chunk that is counted sends its worker to the lock.
CountInv ==
    /\ sinceCheckpoint >= Interval => sinceCheckpoint < Interval + Cardinality(Locking)
    /\ Cardinality(Workers) = 1 /\ lock # {} => sinceCheckpoint = 0

\* The chunks not on disk are those counted since the last checkpoint began and, while
\* it is in progress, those that it was begun for; and one for every worker that raised,
\* which may have left without counting the chunk it completed.
PendingInv ==
    IF thread.pc = "off"
    THEN Cardinality(Unrecorded) =< sinceCheckpoint + Cardinality(Failed)
    ELSE /\ Cardinality(Omitted) =< sinceCheckpoint + Cardinality(Failed)
         /\ Cardinality(Unrecorded) =<
                Interval + Cardinality(Locking) + sinceCheckpoint + Cardinality(Failed)
         /\ Cardinality(Unrecorded) < 2 * Interval + Cardinality(Locking) + Cardinality(Failed)

LossInv ==
    /\ LockInv
    /\ main = "running" => CountInv
    /\ main = "running" /\ (DiskErrors => NobodyRaised) => PendingInv

LEMMA LockStep ==
    ASSUME TypeOK, LockInv, [Next]_vars
    PROVE  LockInv'
<1>. USE DEF LockInv, memVars, ckptVars, diskVars
<1>ty. /\ wpc \in [Workers -> WorkerPCs]
       /\ thread \in [pc : ThreadPCs, status : SessionStatus, chunks : Seq(ChunkRecord)]
  BY DEF TypeOK, WorkersTypeOK, CheckpointTypeOK
<1>idl. IdleThread.pc = "off" /\ [IdleThread EXCEPT !.pc = "sync"].pc = "sync"
  BY DEF IdleThread
<1>1. ASSUME NEW w \in Workers, Worker(w) PROVE LockInv'
  <2>run. main = "running" /\ main' = "running"
    BY <1>1, WorkersRun
  <2>oth. ASSUME UNCHANGED <<lock, thread>>, NEW pc \in WorkerPCs \ {"ckpt"},
                 wpc' = [wpc EXCEPT ![w] = pc], wpc[w] # "ckpt"
          PROVE  LockInv'
    BY <2>oth, <2>run, <1>ty
  <2>1. CASE TakeChunk(w) \/ WorkerExit(w) \/ Select(w) \/ Receive(w) \/ Retry(w)
             \/ SkipCheckpoint(w)
    BY <2>1, <2>oth, AttemptStarts
       DEF TakeChunk, WorkerExit, Select, Receive, Retry, SkipCheckpoint, WorkerPCs
  <2>2. CASE FetchError(w) \/ HashMismatch(w)
    BY <2>2, <2>oth DEF FetchError, HashMismatch, GiveUpOrRetry, WorkerPCs
  <2>3. CASE Complete(w) \/ CompleteUncounted(w)
    <3>1. PICK pc \in {"lock", "loop", "fail"} : wpc' = [wpc EXCEPT ![w] = pc]
      BY <2>3, CompletingStep
    <3>2. wpc[w] # "ckpt" /\ UNCHANGED <<lock, thread>> /\ pc \in WorkerPCs \ {"ckpt"}
      BY <2>3, <3>1, CompletingStep DEF WorkerPCs
    <3>. QED  BY <3>1, <3>2, <2>oth
  <2>8. CASE NoMirror(w) \/ CallbackRaises(w) \/ RecordRaises(w)
    <3>1. wpc[w] # "ckpt" /\ UNCHANGED <<lock, thread>> /\ wpc' = [wpc EXCEPT ![w] = "fail"]
      BY <2>8, LeavingStep
    <3>. QED  BY <3>1, <2>oth DEF WorkerPCs
  <2>4. CASE RefillQueue(w) \/ WriteBlock(w)
    BY <2>4, <2>run DEF RefillQueue, WriteBlock, workerVars
  <2>5. CASE StartCheckpoint(w)
    BY <2>5, <2>run, <1>ty, <1>idl DEF StartCheckpoint
  <2>6. CASE CheckpointDone(w)
    BY <2>6, <2>run, <1>ty DEF CheckpointDone, ReleaseLock
  <2>7. CASE CheckpointRaises(w)
    BY <2>7, <2>run, <1>ty, <1>idl DEF CheckpointRaises, ReleaseLock
  <2>. QED  BY <1>1, <2>1, <2>2, <2>3, <2>4, <2>5, <2>6, <2>7, <2>8 DEF Worker
<1>2. CASE CheckpointThread
  <2>1. UNCHANGED <<main, lock, wpc>> /\ thread.pc # "off"
    BY <1>2 DEF CheckpointThread, ThreadSync, ThreadReadStatus, ThreadRead, ThreadReplace,
       ThreadRaises, workerVars
  <2>2. CASE ThreadSync \/ ThreadReadStatus \/ ThreadRead \/ ThreadReplace
    <3>1. thread'.pc # "raised"
      <4>1. CASE ThreadSync
        BY <4>1, <1>ty, <1>idl DEF ThreadSync
      <4>2. CASE ThreadReadStatus \/ ThreadReplace
        BY <4>2, <1>ty, <1>idl DEF ThreadReadStatus, ThreadReplace
      <4>3. CASE ThreadRead
        BY <4>3, <1>ty DEF ThreadRead
      <4>. QED  BY <2>2, <4>1, <4>2, <4>3
    <3>. QED  BY <2>1, <3>1
  <2>3. CASE ThreadRaises
    BY <2>1, <2>3 DEF ThreadRaises
  <2>. QED  BY <1>2, <2>2, <2>3 DEF CheckpointThread
<1>3. CASE OpenSession
  BY <1>3, <1>ty DEF OpenSession
<1>4. CASE StopFailed \/ StopShutdown \/ StopCancelled
  BY <1>4, <1>idl DEF StopFailed, StopShutdown, StopCancelled, StopSession
<1>5. CASE AllReturned
  <2>1. \A w \in Workers : wpc[w] # "ckpt"
    BY <1>5 DEF AllReturned, WorkerLive
  <2>. QED  BY <1>5, <2>1 DEF AllReturned, workerVars
<1>6. CASE InterruptSync \/ InterruptSave \/ FinalizeSync \/ FinalizeVerify \/ FinalizeDeliver
           \/ FinalizeDelete \/ RaiseOut
  BY <1>6 DEF InterruptSync, InterruptSave, FinalizeSync, FinalizeVerify, FinalizeDeliver,
     FinalizeDelete, RaiseOut, workerVars
<1>7. ASSUME NEW w \in Workers, StrayWrite(w) PROVE LockInv'
  BY <1>7 DEF StrayWrite
<1>8. CASE Download \/ Resume
  BY <1>8 DEF Download, Resume, workerVars
<1>9. CASE RequestShutdown
  BY <1>9 DEF RequestShutdown, workerVars
<1>10. CASE ProcessExit \/ Crash
  BY <1>10, <1>idl DEF ProcessExit, Crash, Forget
<1>11. CASE UNCHANGED vars
  BY <1>11 DEF vars, workerVars
<1>. QED  BY <1>1, <1>2, <1>3, <1>4, <1>5, <1>6, <1>7, <1>8, <1>9, <1>10, <1>11
          DEF Next, MainLoop

\* The sets that are counted are finite.
LEMMA Countable ==
    TypeOK => /\ IsFiniteSet(Unrecorded) /\ Cardinality(Unrecorded) \in Nat
              /\ IsFiniteSet(Omitted) /\ Cardinality(Omitted) \in Nat
              /\ IsFiniteSet(Locking) /\ Cardinality(Locking) \in Nat
              /\ IsFiniteSet(Failed) /\ Cardinality(Failed) \in Nat
              /\ Cardinality(Workers) \in Nat
<1>. SUFFICES ASSUME TypeOK
              PROVE  /\ IsFiniteSet(Unrecorded) /\ Cardinality(Unrecorded) \in Nat
                     /\ IsFiniteSet(Omitted) /\ Cardinality(Omitted) \in Nat
                     /\ IsFiniteSet(Locking) /\ Cardinality(Locking) \in Nat
                     /\ IsFiniteSet(Failed) /\ Cardinality(Failed) \in Nat
                     /\ Cardinality(Workers) \in Nat
  OBVIOUS
<1>1. IsFiniteSet(Planned)
  BY FS_Interval, EngineAssumption DEF TypeOK, MemoryTypeOK, Planned
<1>2. /\ Unrecorded \in SUBSET Planned /\ Omitted \in SUBSET Planned
      /\ Locking \in SUBSET Workers /\ Failed \in SUBSET Workers
  BY DEF Unrecorded, Omitted, Locking, Failed
<1>. QED  BY <1>1, <1>2, EngineAssumption, FS_Subset, FS_CardinalityType

LEMMA CountableNext ==
    (TypeOK => /\ Cardinality(Unrecorded) \in Nat
               /\ Cardinality(Omitted) \in Nat
               /\ Cardinality(Locking) \in Nat
               /\ IsFiniteSet(Failed) /\ Cardinality(Failed) \in Nat)'
<1>1. TypeOK => /\ Cardinality(Unrecorded) \in Nat
                /\ Cardinality(Omitted) \in Nat
                /\ Cardinality(Locking) \in Nat
                /\ IsFiniteSet(Failed) /\ Cardinality(Failed) \in Nat
  BY Countable
<1>. QED  BY <1>1, PTL

\* d more chunks are missing from the disk, and as many workers have raised.
LEMMA PendingKept ==
    ASSUME NEW d \in Nat, PendingInv, sinceCheckpoint \in Nat, Interval \in Nat,
           sinceCheckpoint' = sinceCheckpoint, thread'.pc = "off" <=> thread.pc = "off",
           Cardinality(Locking) \in Nat, Cardinality(Locking') = Cardinality(Locking),
           Cardinality(Failed) \in Nat, Cardinality(Failed') \in Nat,
           Cardinality(Failed) + d =< Cardinality(Failed'),
           Cardinality(Unrecorded) \in Nat, Cardinality(Unrecorded') \in Nat,
           Cardinality(Unrecorded') =< Cardinality(Unrecorded) + d,
           Cardinality(Omitted) \in Nat, Cardinality(Omitted') \in Nat,
           Cardinality(Omitted') =< Cardinality(Omitted) + d
    PROVE  PendingInv'
<1>1. \A s, f, u, v, g \in Nat : u =< s + f /\ v =< u + d /\ f + d =< g => v =< s + g
  OBVIOUS
<1>2. \A s, f, u, v, g \in Nat : u < s + f /\ v =< u + d /\ f + d =< g => v < s + g
  OBVIOUS
<1>3. CASE thread.pc = "off"
  <2>1. Cardinality(Unrecorded) =< sinceCheckpoint + Cardinality(Failed)
    BY <1>3 DEF PendingInv
  <2>2. Cardinality(Unrecorded') =< sinceCheckpoint' + Cardinality(Failed')
    BY <1>1, <2>1
  <2>. QED  BY <1>3, <2>2 DEF PendingInv
<1>4. CASE thread.pc # "off"
  <2>1. /\ Cardinality(Omitted) =< sinceCheckpoint + Cardinality(Failed)
        /\ Cardinality(Unrecorded) =<
                Interval + Cardinality(Locking) + sinceCheckpoint + Cardinality(Failed)
        /\ Cardinality(Unrecorded) < 2 * Interval + Cardinality(Locking) + Cardinality(Failed)
    BY <1>4 DEF PendingInv
  <2>2. Cardinality(Omitted') =< sinceCheckpoint' + Cardinality(Failed')
    BY <1>1, <2>1
  <2>3. Cardinality(Unrecorded') =<
            Interval + Cardinality(Locking') + sinceCheckpoint' + Cardinality(Failed')
    <3>1. Interval + Cardinality(Locking) + sinceCheckpoint \in Nat
      OBVIOUS
    <3>. QED  BY <1>1, <2>1, <3>1
  <2>4. Cardinality(Unrecorded') < 2 * Interval + Cardinality(Locking') + Cardinality(Failed')
    <3>1. 2 * Interval + Cardinality(Locking) \in Nat
      OBVIOUS
    <3>. QED  BY <1>2, <2>1, <3>1
  <2>. QED  BY <1>4, <2>2, <2>3, <2>4 DEF PendingInv
<1>. QED  BY <1>3, <1>4

LEMMA LossStep ==
    ASSUME IntegrityInv, IntegrityInv', LossInv, LockInv', [Next]_vars, main' = "running"
    PROVE  CountInv' /\ ((DiskErrors => NobodyRaised') => PendingInv')
<1>ty. /\ wpc \in [Workers -> WorkerPCs] /\ wchunk \in [Workers -> 0..NumChunks]
       /\ status \in [Chunks -> ChunkStatus] /\ sinceCheckpoint \in Nat
       /\ thread \in [pc : ThreadPCs, status : SessionStatus, chunks : Seq(ChunkRecord)]
       /\ Planned \subseteq Chunks /\ planned \in 0..NumChunks
       /\ \A w \in Workers : Busy(w) => wchunk[w] \in Chunks
       /\ Interval \in Nat \ {0}
  BY EngineAssumption
     DEF IntegrityInv, TypeOK, MemoryTypeOK, WorkersTypeOK, CheckpointTypeOK, Planned, Chunks
<1>fin. /\ IsFiniteSet(Unrecorded) /\ IsFiniteSet(Omitted) /\ IsFiniteSet(Locking)
        /\ Cardinality(Unrecorded) \in Nat /\ Cardinality(Omitted) \in Nat
        /\ Cardinality(Locking) \in Nat
        /\ Cardinality(Unrecorded') \in Nat /\ Cardinality(Omitted') \in Nat
        /\ Cardinality(Locking') \in Nat /\ sinceCheckpoint' \in Nat
        /\ IsFiniteSet(Failed') /\ Cardinality(Failed) \in Nat /\ Cardinality(Failed') \in Nat
  BY Countable, CountableNext DEF IntegrityInv, TypeOK, CheckpointTypeOK
<1>idl. IdleThread = [pc |-> "off", status |-> "NONE", chunks |-> <<>>] /\ DOMAIN <<>> = {}
  BY DEF IdleThread
\* A worker that raised is never heard of again.
<1>fld. ASSUME Failed \subseteq Failed' PROVE Cardinality(Failed) =< Cardinality(Failed')
  BY <1>fld, <1>fin, FS_Subset
\* Fewer chunks missing from the disk and the same workers at the lock.
<1>few. ASSUME main = "running", UNCHANGED <<sinceCheckpoint, lock>>,
               thread'.pc = "off" <=> thread.pc = "off",
               Unrecorded' \subseteq Unrecorded, Omitted' \subseteq Omitted,
               Locking' = Locking, Failed \subseteq Failed',
               (DiskErrors => NobodyRaised') => (DiskErrors => NobodyRaised)
        PROVE  CountInv' /\ ((DiskErrors => NobodyRaised') => PendingInv')
  <2>1. Cardinality(Unrecorded') =< Cardinality(Unrecorded)
    BY <1>few, <1>fin, FS_Subset
  <2>2. Cardinality(Omitted') =< Cardinality(Omitted)
    BY <1>few, <1>fin, FS_Subset
  <2>3. CountInv'
    BY <1>few DEF CountInv, LossInv
  <2>4. ASSUME DiskErrors => NobodyRaised' PROVE PendingInv'
    <3>1. Cardinality(Failed) =< Cardinality(Failed')
      BY <1>few, <1>fld
    <3>2. /\ PendingInv /\ sinceCheckpoint' = sinceCheckpoint
          /\ Cardinality(Locking') = Cardinality(Locking)
          /\ thread'.pc = "off" <=> thread.pc = "off"
      BY <2>4, <1>few DEF LossInv
    <3>3. /\ Cardinality(Failed) + 0 =< Cardinality(Failed')
          /\ Cardinality(Unrecorded') =< Cardinality(Unrecorded) + 0
          /\ Cardinality(Omitted') =< Cardinality(Omitted) + 0
      BY <2>1, <2>2, <3>1, <1>fin
    <3>4. 0 \in Nat /\ sinceCheckpoint \in Nat /\ Interval \in Nat
      BY <1>ty
    <3>. QED  BY <3>2, <3>3, <3>4, <1>fin, PendingKept
  <2>. QED  BY <2>3, <2>4
<1>1. CASE OpenSession
  <2>1. /\ thread.pc = "off" /\ UNCHANGED <<thread, status, hash, retries, planned>>
        /\ lock' = {} /\ sinceCheckpoint' = 0 /\ stateFile' = {Snapshot("DOWNLOADING")}
    BY <1>1 DEF OpenSession, InitialSave, memVars, LossInv, LockInv
  <2>2. \A c \in Planned : /\ c \in DOMAIN Snapshot("DOWNLOADING").chunks
                           /\ Snapshot("DOWNLOADING").chunks[c].st = status[c]
    BY DEF Snapshot, RecordOf
  <2>3. Unrecorded' = {}
    BY <2>1, <2>2 DEF Unrecorded, Planned
  <2>4. Cardinality(Unrecorded') = 0
    BY <2>3, FS_EmptySet
  <2>5. CountInv'
    BY <2>1, <1>ty DEF CountInv
  <2>6. sinceCheckpoint' = 0 /\ thread'.pc = "off" /\ Cardinality(Unrecorded') = 0
    BY <2>1, <2>4
  <2>7. PendingInv'
    BY <2>6, <1>fin DEF PendingInv
  <2>. QED  BY <2>5, <2>7
<1>2. ASSUME NEW w \in Workers, Worker(w)
      PROVE  CountInv' /\ ((DiskErrors => NobodyRaised') => PendingInv')
  <2>run. main = "running" /\ main' = "running"
    BY <1>2, WorkersRun
  \* No chunk is completed and nobody comes to the lock or leaves it.
  <2>oth. ASSUME UNCHANGED <<sinceCheckpoint, lock, thread, stateFile>>,
                 NEW pc \in WorkerPCs \ {"lock"}, wpc' = [wpc EXCEPT ![w] = pc],
                 wpc[w] \notin {"lock", "fail"},
                 UNCHANGED planned,
                 \A c \in Planned : status'[c] = "COMPLETE" => status[c] = "COMPLETE"
          PROVE  CountInv' /\ ((DiskErrors => NobodyRaised') => PendingInv')
    <3>1. Unrecorded' \subseteq Unrecorded /\ Omitted' \subseteq Omitted
      BY <2>oth DEF Unrecorded, Omitted, Planned
    <3>2. Locking' = Locking
      BY <2>oth, <1>ty DEF Locking
    <3>3. NobodyRaised' => NobodyRaised
      BY <2>oth, <1>ty DEF NobodyRaised, WorkerFailed
    <3>4. Failed \subseteq Failed'
      BY <2>oth, <1>ty DEF Failed
    <3>. QED  BY <3>1, <3>2, <3>3, <3>4, <2>oth, <2>run, <1>few
  <2>1. CASE TakeChunk(w)
    BY <2>1, <2>oth, AttemptStarts, <1>ty DEF TakeChunk, ckptVars, diskVars, WorkerPCs
  <2>2. CASE RefillQueue(w)
    <3>1. /\ planned' = PlanFrom(planned)
          /\ UNCHANGED <<status, wpc, sinceCheckpoint, lock, thread, stateFile>>
      BY <2>2 DEF RefillQueue, workerVars, ckptVars, diskVars
    <3>2. \A c \in Planned' : status[c] = "COMPLETE" => c \in Planned
      <4>1. Planned' \subseteq Chunks
        BY EngineAssumption DEF IntegrityInv, TypeOK, MemoryTypeOK, Planned, Chunks
      <4>. QED  BY <4>1 DEF IntegrityInv, ChunkOwnership
    <3>3. Unrecorded' \subseteq Unrecorded /\ Omitted' \subseteq Omitted
      BY <3>1, <3>2 DEF Unrecorded, Omitted
    <3>4. Locking' = Locking /\ Failed' = Failed /\ (NobodyRaised' => NobodyRaised)
      BY <3>1 DEF Locking, Failed, NobodyRaised, WorkerFailed
    <3>. QED  BY <3>1, <3>3, <3>4, <2>run, <1>few
  <2>3. CASE WorkerExit(w) \/ Select(w) \/ Receive(w)
    BY <2>3, <2>oth DEF WorkerExit, Select, Receive, memVars, ckptVars, diskVars, WorkerPCs
  <2>4. CASE WriteBlock(w)
    <3>1. UNCHANGED <<status, planned, wpc, sinceCheckpoint, lock, thread, stateFile>>
      BY <2>4 DEF WriteBlock, memVars, workerVars, ckptVars
    <3>2. UNCHANGED <<Unrecorded, Omitted, Locking, Failed, NobodyRaised>>
      BY <3>1 DEF Unrecorded, Omitted, Locking, Failed, NobodyRaised, WorkerFailed, Planned
    <3>. QED  BY <3>1, <3>2, <2>run, <1>few
  <2>5. CASE FetchError(w) \/ HashMismatch(w) \/ Retry(w)
    <3>1. PICK st \in {"ABANDONED", "FAILED", "IN_PROGRESS"} :
              status' = [status EXCEPT ![wchunk[w]] = st]
      BY <2>5 DEF FetchError, HashMismatch, GiveUpOrRetry, Retry
    <3>2. \A c \in Planned : status'[c] = "COMPLETE" => status[c] = "COMPLETE"
      BY <3>1, <1>ty
    <3>3. PICK pc \in {"fail", "backoff", "select", "fetch"} : wpc' = [wpc EXCEPT ![w] = pc]
      BY <2>5, AttemptStarts DEF FetchError, HashMismatch, GiveUpOrRetry, Retry
    <3>. QED  BY <2>5, <3>2, <3>3, <2>oth
              DEF FetchError, HashMismatch, Retry, ckptVars, diskVars, WorkerPCs
  <2>6. CASE Complete(w)
    <3>1. /\ wpc[w] = "got" /\ sinceCheckpoint' = sinceCheckpoint + 1
          /\ status' = [status EXCEPT ![wchunk[w]] = "COMPLETE"]
          /\ UNCHANGED <<planned, lock, thread, stateFile>>
      BY <2>6 DEF Complete, MarkComplete, diskVars
    <3>2. PICK pc \in {"lock", "loop"} : /\ wpc' = [wpc EXCEPT ![w] = pc]
                                         /\ sinceCheckpoint' >= Interval => pc = "lock"
      BY <2>6 DEF Complete, CountDue
    <3>3. \A c \in Planned : c # wchunk[w] => status'[c] = status[c]
      BY <3>1, <1>ty
    <3>4. Cardinality(Unrecorded') =< Cardinality(Unrecorded) + 1
      <4>1. Unrecorded' \subseteq Unrecorded \cup {wchunk[w]}
        BY <3>1, <3>3 DEF Unrecorded, Planned
      <4>. QED  BY <4>1, <1>fin, OneMore
    <3>5. Cardinality(Omitted') =< Cardinality(Omitted) + 1
      <4>1. Omitted' \subseteq Omitted \cup {wchunk[w]}
        BY <3>1, <3>3 DEF Omitted, Planned
      <4>. QED  BY <4>1, <1>fin, OneMore
    <3>6. pc = "lock" => Cardinality(Locking') = Cardinality(Locking) + 1
      <4>1. pc = "lock" => Locking' = Locking \cup {w} /\ w \notin Locking
        BY <3>1, <3>2, <1>ty DEF Locking
      <4>. QED  BY <4>1, <1>fin, FS_AddElement
    <3>7. pc = "loop" => Locking' = Locking
      BY <3>1, <3>2, <1>ty DEF Locking
    <3>11. Failed' = Failed
      BY <3>1, <3>2, <1>ty DEF Failed
    <3>8. Cardinality(Workers) = 1 => lock = {}
      <4>1. ASSUME lock # {} PROVE \E v \in Workers : v # w
        BY <3>1, <4>1 DEF LossInv, LockInv
      <4>2. ASSUME Cardinality(Workers) = 1 PROVE \E v : Workers = {v}
        BY <4>2, FS_Singleton, EngineAssumption
      <4>. QED  BY <4>1, <4>2
    <3>9. CountInv'
      <4>1. /\ sinceCheckpoint >= Interval => sinceCheckpoint < Interval + Cardinality(Locking)
            /\ Interval \in Nat /\ sinceCheckpoint \in Nat /\ Cardinality(Locking) \in Nat
            /\ sinceCheckpoint' = sinceCheckpoint + 1
        BY <3>1, <2>run, <1>fin, <1>ty DEF CountInv, LossInv
      <4>2. CASE pc = "lock"
        <5>1. \A i, n, s \in Nat : (s >= i => s < i + n) => s + 1 < i + (n + 1)
          OBVIOUS
        <5>2. sinceCheckpoint' < Interval + Cardinality(Locking')
          BY <3>6, <4>1, <4>2, <5>1
        <5>. QED  BY <3>1, <3>8, <5>2 DEF CountInv
      <4>3. CASE pc = "loop"
        <5>1. ~(sinceCheckpoint' >= Interval)
          BY <3>2, <4>3
        <5>. QED  BY <3>1, <3>8, <5>1 DEF CountInv
      <4>. QED  BY <3>2, <4>2, <4>3
    <3>10. ASSUME DiskErrors => NobodyRaised' PROVE PendingInv'
      <4>1. NobodyRaised' => NobodyRaised
        BY <3>1, <3>2, <1>ty DEF NobodyRaised, WorkerFailed
      <4>2. PendingInv
        BY <3>10, <4>1, <2>run DEF LossInv
      <4>3. CASE thread.pc = "off"
        BY <3>1, <3>4, <3>11, <4>2, <4>3, <1>fin, <1>ty DEF PendingInv
      <4>. DEFINE F == Cardinality(Failed)
      <4>f. F \in Nat /\ Cardinality(Failed') = F
        BY <3>11, <1>fin
      <4>. HIDE DEF F
      <4>4. CASE thread.pc # "off" /\ pc = "lock"
        <5>1. /\ Cardinality(Omitted) =< sinceCheckpoint + F
              /\ Cardinality(Unrecorded) =< Interval + Cardinality(Locking) + sinceCheckpoint + F
              /\ Cardinality(Unrecorded) < 2 * Interval + Cardinality(Locking) + F
          BY <4>2, <4>4 DEF PendingInv, F
        <5>2. /\ Cardinality(Locking') = Cardinality(Locking) + 1
              /\ sinceCheckpoint' = sinceCheckpoint + 1
          BY <3>1, <3>6, <4>4
        <5>3. Cardinality(Omitted') =< sinceCheckpoint' + F
          <6>1. sinceCheckpoint \in Nat
            BY <1>ty
          <6>2. \A s, t, u, v \in Nat : u =< s + t /\ v =< u + 1 => v =< (s + 1) + t
            OBVIOUS
          <6>. QED  BY <3>5, <4>f, <5>1, <5>2, <6>1, <6>2, <1>fin
        <5>5. Cardinality(Unrecorded') =< Interval + Cardinality(Locking') + sinceCheckpoint' + F
          <6>1. Interval \in Nat /\ sinceCheckpoint \in Nat
            BY <1>ty
          <6>2. \A i, n, s, t, u, v \in Nat :
                    u =< i + n + s + t /\ v =< u + 1 => v =< i + (n + 1) + (s + 1) + t
            OBVIOUS
          <6>. QED  BY <3>4, <4>f, <5>1, <5>2, <6>1, <6>2, <1>fin
        <5>4. Cardinality(Unrecorded') < 2 * Interval + Cardinality(Locking') + F
          <6>1. Interval \in Nat
            BY <1>ty
          <6>2. \A i, n, t, u, v \in Nat :
                    u < 2 * i + n + t /\ v =< u + 1 => v < 2 * i + (n + 1) + t
            OBVIOUS
          <6>. QED  BY <3>4, <4>f, <5>1, <5>2, <6>1, <6>2, <1>fin
        <5>. QED  BY <3>1, <4>f, <4>4, <5>3, <5>4, <5>5 DEF PendingInv
      <4>5. CASE thread.pc # "off" /\ pc = "loop"
        <5>1. /\ sinceCheckpoint + 1 < Interval /\ sinceCheckpoint' = sinceCheckpoint + 1
              /\ Interval \in Nat /\ sinceCheckpoint \in Nat /\ thread'.pc # "off"
          BY <3>1, <3>2, <4>5, <1>ty
        <5>2. /\ Cardinality(Omitted) =< sinceCheckpoint + F
              /\ Cardinality(Unrecorded) =< Interval + Cardinality(Locking) + sinceCheckpoint + F
          BY <4>2, <4>5 DEF PendingInv, F
        <5>3. Cardinality(Locking') = Cardinality(Locking)
          BY <3>7, <4>5
        <5>4. Cardinality(Omitted') =< sinceCheckpoint' + F
          <6>1. \A s, t, u, v \in Nat : u =< s + t /\ v =< u + 1 => v =< (s + 1) + t
            OBVIOUS
          <6>. QED  BY <3>5, <4>f, <5>1, <5>2, <6>1, <1>fin
        <5>5. Cardinality(Unrecorded') =< Interval + Cardinality(Locking') + sinceCheckpoint' + F
          <6>1. \A i, n, s, t, u, v \in Nat :
                    u =< i + n + s + t /\ v =< u + 1 => v =< i + n + (s + 1) + t
            OBVIOUS
          <6>. QED  BY <3>4, <4>f, <5>1, <5>2, <5>3, <6>1, <1>fin
        <5>6. Cardinality(Unrecorded') < 2 * Interval + Cardinality(Locking') + F
          <6>1. \A i, n, s, t, v \in Nat :
                    v =< i + n + (s + 1) + t /\ s + 1 < i => v < 2 * i + n + t
            OBVIOUS
          <6>. QED  BY <4>f, <5>1, <5>5, <6>1, <1>fin
        <5>. QED  BY <4>f, <5>1, <5>4, <5>5, <5>6 DEF PendingInv
      <4>. QED  BY <3>2, <4>3, <4>4, <4>5
    <3>. QED  BY <3>9, <3>10
  \* The chunk that is not counted is the one its worker answers for.
  <2>unc. CASE CompleteUncounted(w)
    <3>1. /\ wpc[w] = "got" /\ wpc' = [wpc EXCEPT ![w] = "fail"]
          /\ status' = [status EXCEPT ![wchunk[w]] = "COMPLETE"]
          /\ UNCHANGED <<sinceCheckpoint, planned, lock, thread, stateFile>>
      BY <2>unc DEF CompleteUncounted, MarkComplete, ckptVars, diskVars
    <3>2. \A c \in Planned : c # wchunk[w] => status'[c] = status[c]
      BY <3>1, <1>ty
    <3>3. Cardinality(Unrecorded') =< Cardinality(Unrecorded) + 1
      <4>1. Unrecorded' \subseteq Unrecorded \cup {wchunk[w]}
        BY <3>1, <3>2 DEF Unrecorded, Planned
      <4>. QED  BY <4>1, <1>fin, OneMore
    <3>4. Cardinality(Omitted') =< Cardinality(Omitted) + 1
      <4>1. Omitted' \subseteq Omitted \cup {wchunk[w]}
        BY <3>1, <3>2 DEF Omitted, Planned
      <4>. QED  BY <4>1, <1>fin, OneMore
    <3>5. Locking' = Locking
      BY <3>1, <1>ty DEF Locking
    <3>6. Cardinality(Failed') = Cardinality(Failed) + 1
      BY <3>1, <1>ty, FailedStep
    <3>7. CountInv'
      BY <3>1, <3>5, <2>run DEF CountInv, LossInv
    <3>8. ASSUME DiskErrors => NobodyRaised' PROVE PendingInv'
      <4>1. NobodyRaised' => NobodyRaised
        BY <3>1, <1>ty DEF NobodyRaised, WorkerFailed
      <4>2. PendingInv
        BY <3>8, <4>1, <2>run DEF LossInv
      <4>3. /\ sinceCheckpoint' = sinceCheckpoint /\ thread' = thread
            /\ Cardinality(Locking') = Cardinality(Locking)
        BY <3>1, <3>5
      <4>4. Cardinality(Failed) + 1 =< Cardinality(Failed')
        BY <3>6, <1>fin
      <4>. QED  BY <3>3, <3>4, <4>2, <4>3, <4>4, <1>fin, <1>ty, PendingKept
    <3>. QED  BY <3>7, <3>8
  <2>lea. CASE NoMirror(w) \/ CallbackRaises(w) \/ RecordRaises(w)
    <3>1. /\ wpc[w] \in {"select", "fetch", "got"} /\ wpc' = [wpc EXCEPT ![w] = "fail"]
          /\ UNCHANGED <<sinceCheckpoint, lock, thread, stateFile, status, planned>>
      BY <2>lea, LeavingStep
    <3>. QED  BY <3>1, <2>oth DEF WorkerPCs
  <2>7. CASE SkipCheckpoint(w) \/ StartCheckpoint(w)
    <3>1. /\ lock = {} /\ thread.pc = "off" /\ wpc[w] = "lock"
          /\ UNCHANGED <<status, planned, stateFile>>
      BY <2>7, <2>run DEF SkipCheckpoint, StartCheckpoint, memVars, diskVars, LossInv, LockInv
    <3>2. PICK pc \in {"loop", "ckpt"} : wpc' = [wpc EXCEPT ![w] = pc]
      BY <2>7 DEF SkipCheckpoint, StartCheckpoint
    <3>3. Locking' = Locking \ {w} /\ w \in Locking
      BY <3>1, <3>2, <1>ty DEF Locking
    <3>4. Cardinality(Locking') = Cardinality(Locking) - 1
      BY <3>3, <1>fin, FS_RemoveElement
    <3>5. Unrecorded' = Unrecorded
      BY <3>1 DEF Unrecorded, Planned
    <3>6. (WorkerFailed => WorkerFailed') /\ Failed' = Failed
      BY <3>1, <3>2, <1>ty DEF WorkerFailed, Failed
    <3>7. CASE SkipCheckpoint(w)
      <4>1. sinceCheckpoint = 0 /\ UNCHANGED <<sinceCheckpoint, lock, thread>>
        BY <3>7 DEF SkipCheckpoint, ckptVars
      <4>2. CountInv'
        BY <4>1, <1>ty DEF CountInv
      <4>3. ASSUME DiskErrors => NobodyRaised' PROVE PendingInv'
        BY <3>1, <3>5, <3>6, <4>1, <4>3, <2>run DEF NobodyRaised, LossInv, PendingInv
      <4>. QED  BY <4>2, <4>3
    <3>8. CASE StartCheckpoint(w)
      <4>1. /\ sinceCheckpoint' = 0 /\ thread' = [IdleThread EXCEPT !.pc = "sync"]
        BY <3>8 DEF StartCheckpoint
      <4>2. thread'.pc = "sync" /\ thread'.chunks = <<>>
        BY <4>1, <1>idl
      <4>3. Omitted' = {}
        BY <4>2, <1>idl DEF Omitted
      <4>4. Cardinality(Omitted') = 0
        BY <4>3, FS_EmptySet
      <4>5. CountInv'
        BY <4>1, <1>ty DEF CountInv
      <4>6. ASSUME DiskErrors => NobodyRaised' PROVE PendingInv'
        <5>1. Cardinality(Unrecorded) =< sinceCheckpoint + Cardinality(Failed)
          BY <3>1, <3>6, <4>6, <2>run DEF NobodyRaised, LossInv, PendingInv
        <5>2. sinceCheckpoint >= Interval => sinceCheckpoint < Interval + Cardinality(Locking)
          BY <2>run DEF LossInv, CountInv
        <5>3. Interval \in Nat /\ sinceCheckpoint \in Nat
          BY <1>ty
        <5>. DEFINE F == Cardinality(Failed)
        <5>f. F \in Nat /\ Cardinality(Failed') = F /\ Cardinality(Unrecorded) =< sinceCheckpoint + F
          BY <3>6, <5>1, <1>fin
        <5>. HIDE DEF F
        <5>4. Cardinality(Unrecorded') =< Interval + Cardinality(Locking') + sinceCheckpoint' + F
          <6>1. \A i, n, s, t, u \in Nat :
                    u =< s + t /\ (s >= i => s < i + n) => u =< i + (n - 1) + 0 + t
            OBVIOUS
          <6>. QED  BY <3>4, <3>5, <4>1, <5>f, <5>2, <5>3, <6>1, <1>fin
        <5>5. Cardinality(Unrecorded') < 2 * Interval + Cardinality(Locking') + F
          <6>1. \A i, n, t, u \in Nat : u =< i + n + 0 + t /\ i # 0 => u < 2 * i + n + t
            OBVIOUS
          <6>2. Interval # 0
            BY <1>ty
          <6>. QED  BY <4>1, <5>f, <5>3, <5>4, <6>1, <6>2, <1>fin
        <5>6. Cardinality(Omitted') =< sinceCheckpoint' + F /\ thread'.pc # "off"
          BY <4>1, <4>2, <4>4, <5>f
        <5>. QED  BY <5>f, <5>4, <5>5, <5>6 DEF PendingInv
      <4>. QED  BY <4>5, <4>6
    <3>. QED  BY <2>7, <3>7, <3>8
  <2>8. CASE CheckpointDone(w)
    <3>1. /\ thread.pc = "off" /\ wpc[w] = "ckpt" /\ wpc' = [wpc EXCEPT ![w] = "loop"]
          /\ lock' = {} /\ UNCHANGED <<status, planned, stateFile, thread, sinceCheckpoint>>
      BY <2>8 DEF CheckpointDone, ReleaseLock, memVars, diskVars
    <3>2. Locking' = Locking /\ Unrecorded' = Unrecorded /\ Failed' = Failed
      BY <3>1, <1>ty DEF Locking, Unrecorded, Failed, Planned
    <3>3. NobodyRaised' => NobodyRaised
      BY <3>1, <1>ty DEF NobodyRaised, WorkerFailed
    <3>. QED  BY <3>1, <3>2, <3>3, <2>run DEF LossInv, CountInv, PendingInv
  <2>9. CASE CheckpointRaises(w)
    <3>1. /\ thread.pc = "raised" /\ wpc[w] = "ckpt" /\ wpc' = [wpc EXCEPT ![w] = "fail"]
          /\ lock' = {} /\ UNCHANGED sinceCheckpoint
      BY <2>9 DEF CheckpointRaises, ReleaseLock
    <3>2. DiskErrors /\ WorkerFailed'
      BY <3>1, <1>ty DEF LossInv, LockInv, WorkerFailed
    <3>3. Locking' = Locking
      BY <3>1, <1>ty DEF Locking
    <3>. QED  BY <3>1, <3>2, <3>3, <2>run DEF LossInv, CountInv, NobodyRaised
  <2>. QED  BY <1>2, <2>1, <2>2, <2>3, <2>4, <2>5, <2>6, <2>unc, <2>lea, <2>7, <2>8,
            <2>9 DEF Worker
<1>3. CASE CheckpointThread
  <2>1. /\ main = "running" /\ thread.pc # "off"
        /\ UNCHANGED <<main, status, planned, wpc, wchunk, sinceCheckpoint, lock>>
    BY <1>3 DEF CheckpointThread, ThreadSync, ThreadReadStatus, ThreadRead, ThreadReplace,
       ThreadRaises, memVars, workerVars
  <2>2. Locking' = Locking /\ Failed' = Failed /\ (WorkerFailed' <=> WorkerFailed)
    BY <2>1 DEF Locking, Failed, WorkerFailed
  <2>3. CASE ThreadSync \/ ThreadReadStatus
    <3>1. /\ thread.pc \in {"sync", "status"} /\ thread'.pc \in {"status", "read"}
          /\ thread'.chunks = thread.chunks /\ UNCHANGED stateFile
      BY <2>1, <2>3, <1>ty DEF ThreadSync, ThreadReadStatus, WriterOpen, diskVars
    <3>2. Unrecorded' = Unrecorded /\ Omitted' = Omitted
      BY <2>1, <3>1 DEF Unrecorded, Omitted, Planned
    <3>. QED  BY <2>1, <2>2, <3>1, <3>2, <1>few DEF NobodyRaised
  <2>4. CASE ThreadRead
    <3>1. UNCHANGED stateFile /\ thread.pc = "read"
      BY <2>4 DEF ThreadRead, diskVars
    <3>2. Unrecorded' = Unrecorded
      BY <2>1, <3>1 DEF Unrecorded, Planned
    <3>. DEFINE next == Len(thread.chunks) + 1
    <3>3. CASE next \in Planned
      <4>1. PICK rec \in Readable(next) : thread' = [thread EXCEPT !.chunks = Append(@, rec)]
        BY <2>4, <3>3 DEF ThreadRead
      <4>2. status[next] = "COMPLETE" => rec.st = "COMPLETE"
        <5>1. ASSUME status[next] = "COMPLETE", NEW v \in Workers, wpc[v] = "fetch",
                     wchunk[v] = next
              PROVE  FALSE
          BY <5>1 DEF IntegrityInv, ChunkOwnership, Busy
        <5>. QED  BY <5>1 DEF Readable, RecordOf
      <4>3. /\ thread'.pc = "read" /\ thread'.chunks = Append(thread.chunks, rec)
            /\ thread.chunks \in Seq(ChunkRecord)
        BY <3>1, <4>1, <1>ty
      <4>4. \A c \in DOMAIN thread.chunks : /\ c \in DOMAIN thread'.chunks
                                            /\ thread'.chunks[c] = thread.chunks[c]
        BY <4>3
      <4>5. \A c \in DOMAIN thread'.chunks \ DOMAIN thread.chunks :
                c = next /\ thread'.chunks[c] = rec
        BY <4>3
      <4>6. Omitted' \subseteq Omitted
        BY <2>1, <4>2, <4>3, <4>4, <4>5 DEF Omitted, Planned
      <4>. QED  BY <2>1, <2>2, <3>1, <3>2, <4>3, <4>6, <1>few DEF NobodyRaised
    <3>4. CASE next \notin Planned
      <4>1. thread'.pc = "replace" /\ thread'.chunks = thread.chunks
        BY <2>4, <3>4, <1>ty DEF ThreadRead
      <4>2. Planned \subseteq DOMAIN thread.chunks
        BY <3>4, <1>ty DEF Planned
      <4>3. Omitted' \subseteq Omitted
        BY <2>1, <4>1, <4>2 DEF Omitted, Planned
      <4>. QED  BY <2>1, <2>2, <3>1, <3>2, <4>1, <4>3, <1>few DEF NobodyRaised
    <3>. QED  BY <3>3, <3>4
  <2>5. CASE ThreadReplace
    <3>1. /\ thread.pc = "replace" /\ thread'.pc = "off"
          /\ stateFile' = {[status |-> thread.status, chunks |-> thread.chunks]}
      BY <2>5, <1>idl DEF ThreadReplace
    <3>2. Unrecorded' \subseteq Omitted
      BY <2>1, <3>1 DEF Unrecorded, Omitted, Planned
    <3>3. Cardinality(Unrecorded') =< Cardinality(Omitted)
      BY <3>2, <1>fin, FS_Subset
    <3>4. CountInv'
      BY <2>1, <2>2 DEF LossInv, CountInv
    <3>5. ASSUME DiskErrors => NobodyRaised' PROVE PendingInv'
      BY <2>1, <2>2, <3>1, <3>3, <3>5, <1>fin, <1>ty DEF NobodyRaised, LossInv, PendingInv
    <3>. QED  BY <3>4, <3>5
  <2>6. CASE ThreadRaises
    <3>1. DiskErrors /\ thread'.pc = "raised"
      BY <2>1, <2>6, <1>idl DEF ThreadRaises, LossInv, LockInv
    <3>. QED  BY <2>1, <2>2, <3>1 DEF LossInv, CountInv, NobodyRaised
  <2>. QED  BY <1>3, <2>3, <2>4, <2>5, <2>6 DEF CheckpointThread
<1>same. ASSUME main = "running",
                UNCHANGED <<status, planned, wpc, sinceCheckpoint, lock, thread, stateFile>>
         PROVE  CountInv' /\ ((DiskErrors => NobodyRaised') => PendingInv')
  <2>1. UNCHANGED <<Unrecorded, Omitted, Locking, Failed, NobodyRaised>>
    BY <1>same DEF Unrecorded, Omitted, Locking, Failed, NobodyRaised, WorkerFailed, Planned
  <2>. QED  BY <1>same, <2>1, <1>few
<1>4. CASE RequestShutdown \/ UNCHANGED vars
  <2>1. /\ main = "running"
        /\ UNCHANGED <<status, planned, wpc, sinceCheckpoint, lock, thread, stateFile>>
    BY <1>4 DEF RequestShutdown, vars, memVars, workerVars, ckptVars, diskVars
  <2>. QED  BY <2>1, <1>same
<1>5. ~ \/ Download \/ Resume \/ StopFailed \/ StopShutdown \/ StopCancelled \/ AllReturned
        \/ InterruptSync \/ InterruptSave \/ FinalizeSync \/ FinalizeVerify \/ FinalizeDeliver
        \/ FinalizeDelete \/ RaiseOut \/ ProcessExit \/ Crash
        \/ \E w \in Workers : StrayWrite(w)
  BY DEF Download, Resume, StopFailed, StopShutdown, StopCancelled, StopSession, AllReturned,
     InterruptSync, InterruptSave, FinalizeSync, FinalizeVerify, FinalizeDeliver,
     FinalizeDelete, RaiseOut, ProcessExit, Crash, Forget, StrayWrite
<1>. QED  BY <1>1, <1>2, <1>3, <1>4, <1>5 DEF Next, MainLoop

\* What the invariant says of the state file is the bound that the code promises.
LEMMA LossBound ==
    ASSUME TypeOK, LossInv, DiskErrors => NobodyRaised
    PROVE  LossIsBounded
<1>. SUFFICES ASSUME main = "running"
              PROVE  Cardinality(Unrecorded) =< IF Cardinality(Workers) = 1 THEN Interval
                                                ELSE 2 * Interval + Cardinality(Workers) - 2
  BY DEF LossIsBounded
<1>ty. /\ Interval \in Nat \ {0} /\ sinceCheckpoint \in Nat /\ Cardinality(Workers) # 0
  BY EngineAssumption, FS_EmptySet DEF TypeOK, CheckpointTypeOK
<1>fin. /\ Cardinality(Unrecorded) \in Nat /\ Cardinality(Locking) \in Nat
        /\ Cardinality(Failed) \in Nat /\ Cardinality(Workers) \in Nat
  BY Countable
\* Nobody waits for the lock and has raised as well.
<1>sum. ASSUME NEW S \in SUBSET Workers, Locking \subseteq S, Failed \subseteq S
        PROVE  Cardinality(Locking) + Cardinality(Failed) =< Cardinality(S)
  <2>1. IsFiniteSet(Locking) /\ IsFiniteSet(Failed) /\ IsFiniteSet(S)
    BY Countable, EngineAssumption, FS_Subset
  <2>2. Locking \cap Failed = {}
    BY DEF Locking, Failed
  <2>3. Cardinality(Locking \cup Failed) = Cardinality(Locking) + Cardinality(Failed)
    <3>1. Cardinality(Locking \cap Failed) = 0
      BY <2>2, FS_EmptySet
    <3>2. Cardinality(Locking \cup Failed)
             = Cardinality(Locking) + Cardinality(Failed) - Cardinality(Locking \cap Failed)
      BY <2>1, FS_Union
    <3>. QED  BY <3>1, <3>2, <1>fin
  <2>4. Locking \cup Failed \in SUBSET S
    BY <1>sum
  <2>. QED  BY <2>1, <2>3, <2>4, FS_Subset
<1>inv. CountInv /\ PendingInv
  BY DEF LossInv
<1>1. CASE thread.pc = "off"
  <2>1. Cardinality(Locking) + Cardinality(Failed) =< Cardinality(Workers)
    BY <1>sum DEF Locking, Failed
  <2>. QED  BY <1>1, <2>1, <1>ty, <1>fin, <1>inv DEF CountInv, PendingInv
<1>2. CASE thread.pc # "off"
  <2>1. PICK w \in Workers : lock = {w} /\ wpc[w] = "ckpt"
    BY <1>2 DEF LossInv, LockInv
  <2>2. Cardinality(Locking) + Cardinality(Failed) =< Cardinality(Workers) - 1
    <3>1. Locking \subseteq Workers \ {w} /\ Failed \subseteq Workers \ {w}
      BY <2>1 DEF Locking, Failed
    <3>2. Cardinality(Workers \ {w}) = Cardinality(Workers) - 1
      BY EngineAssumption, FS_RemoveElement
    <3>. QED  BY <3>1, <3>2, <1>sum
  <2>. QED  BY <1>2, <2>1, <2>2, <1>ty, <1>fin, <1>inv DEF CountInv, PendingInv
<1>. QED  BY <1>1, <1>2

LEMMA LossInvariant == Spec => [](IntegrityInv /\ LossInv)
<1>1. Init => IntegrityInv /\ LossInv
  BY IntegrityInit DEF Init, LossInv, LockInv, IdleThread
<1>2. IntegrityInv /\ LossInv /\ [Next]_vars => IntegrityInv' /\ LossInv'
  BY IntegrityStep, LockStep, LossStep DEF LossInv, IntegrityInv
<1>. QED  BY <1>1, <1>2, PTL DEF Spec

\* "The cost of the looser cadence is bounded": with a disk that does not fail, a crash
\* of a running session forgets no more than the chunks of one interval with a single
\* worker and, with more of them, those of two intervals and one more for each worker
\* but two.
THEOREM CrashForgetsLittle ==
    ASSUME DiskErrors = FALSE
    PROVE  Spec => []LossIsBounded
<1>1. IntegrityInv /\ LossInv => LossIsBounded
  BY LossBound DEF IntegrityInv
<1>. QED  BY <1>1, LossInvariant, PTL

\* With one that does, the bound holds until a worker is told of the failure, or raises
\* for another reason.
THEOREM CrashForgetsLittleUntilFailure == Spec => [](NobodyRaised => LossIsBounded)
<1>1. IntegrityInv /\ LossInv => (NobodyRaised => LossIsBounded)
  BY LossBound DEF IntegrityInv
<1>. QED  BY <1>1, LossInvariant, PTL
-----------------------------------------------------------------------------
(* The engine keeps its promise *)

\* The state file calls the chunk of this record complete, and a resume may believe it.
Said(rec) == rec.st = "COMPLETE" /\ rec.h # "none"

\* What a record says of chunk c is so in memory.
Backed(c, rec) == status[c] = "COMPLETE" /\ hash[c] = rec.h

\* The .part file is there until the file is delivered.
PartInv ==
    /\ Active => part
    /\ main = "cleaning" => ~part /\ output # {}

\* A chunk has a digest exactly while it is complete, also after the call returned.
HashInv ==
    \A c \in Chunks :
        /\ status[c] # "COMPLETE" => hash[c] = "none"
        /\ main # "down" /\ status[c] = "COMPLETE" => hash[c] # "none" /\ page[c] = hash[c]

\* What a checkpoint has read so far is true, although the workers went on.
ThreadSaid ==
    thread.pc # "off" => \A c \in DOMAIN thread.chunks :
        Said(thread.chunks[c]) => Backed(c, thread.chunks[c])

\* What the state file of a running session says is true.
FileSaid ==
    /\ \A f, g \in stateFile : f = g
    /\ main \notin {"down", "opening", "ended"} =>
           \A file \in stateFile : \A c \in DOMAIN file.chunks :
               Said(file.chunks[c]) => Backed(c, file.chunks[c])

\* A chunk that the state file calls complete, with a digest that the file bears out
\* now or after a loss of power, is one the process holds.
DiskSaid ==
    part => \A file \in stateFile : \A c \in DOMAIN file.chunks :
        Said(file.chunks[c]) /\ file.chunks[c].h \in {page[c], durable[c]} =>
            page[c] = file.chunks[c].h /\ (main # "down" => status[c] = "COMPLETE")

PromiseInv == PartInv /\ HashInv /\ ThreadSaid /\ FileSaid /\ DiskSaid

\* Only the completion of a chunk makes it complete.
LEMMA OnlyCompletionCompletes ==
    ASSUME IntegrityInv, [Next]_vars, main # "down", main' # "down",
           NEW c \in Chunks, status[c] # "COMPLETE"
    PROVE  \/ status'[c] # "COMPLETE" /\ hash'[c] = hash[c]
           \/ \E w \in Workers : (Complete(w) \/ CompleteUncounted(w)) /\ wchunk[w] = c
<1>. USE DEF memVars, workerVars, ckptVars, diskVars, boundVars
<1>ty. /\ wchunk \in [Workers -> 0..NumChunks] /\ status \in [Chunks -> ChunkStatus]
       /\ hash \in [Chunks -> Digests]
  BY DEF IntegrityInv, TypeOK, MemoryTypeOK, WorkersTypeOK
<1>1. ASSUME NEW w \in Workers, Worker(w),
             ~((Complete(w) \/ CompleteUncounted(w)) /\ wchunk[w] = c)
      PROVE  status'[c] # "COMPLETE" /\ hash'[c] = hash[c]
  <2>1. CASE TakeChunk(w) \/ FetchError(w) \/ HashMismatch(w) \/ Retry(w)
    <3>1. PICK d \in 0..NumChunks, st \in {"IN_PROGRESS", "FAILED", "ABANDONED"} :
              status' = [status EXCEPT ![d] = st]
      BY <2>1, <1>ty, EngineAssumption
         DEF TakeChunk, FetchError, HashMismatch, GiveUpOrRetry, Retry, Chunks
    <3>2. UNCHANGED hash
      BY <2>1 DEF TakeChunk, FetchError, HashMismatch, Retry
    <3>. QED  BY <3>1, <3>2, <1>ty
  <2>2. CASE Complete(w) \/ CompleteUncounted(w)
    BY <1>1, <2>2, CompletingStep, <1>ty
  <2>4. CASE NoMirror(w) \/ CallbackRaises(w) \/ RecordRaises(w)
    BY <1>1, <2>4, LeavingStep
  <2>3. CASE RefillQueue(w) \/ WorkerExit(w) \/ Select(w) \/ WriteBlock(w) \/ Receive(w)
             \/ SkipCheckpoint(w) \/ StartCheckpoint(w) \/ CheckpointDone(w)
             \/ CheckpointRaises(w)
    BY <1>1, <2>3 DEF RefillQueue, WorkerExit, Select, WriteBlock, Receive, SkipCheckpoint,
       StartCheckpoint, CheckpointDone, CheckpointRaises
  <2>. QED  BY <1>1, <2>1, <2>2, <2>3, <2>4 DEF Worker
<1>2. ASSUME NEW w \in Workers, StrayWrite(w)
      PROVE  status'[c] # "COMPLETE" /\ hash'[c] = hash[c]
  BY <1>2 DEF StrayWrite
<1>3. CASE StopFailed \/ StopShutdown \/ StopCancelled
  BY <1>3 DEF StopFailed, StopShutdown, StopCancelled, StopSession
<1>4. CASE OpenSession \/ AllReturned \/ InterruptSync \/ InterruptSave \/ FinalizeSync
           \/ FinalizeVerify \/ FinalizeDeliver \/ FinalizeDelete \/ RaiseOut \/ RequestShutdown
  BY <1>4 DEF OpenSession, AllReturned, InterruptSync, InterruptSave, FinalizeSync,
     FinalizeVerify, FinalizeDeliver, FinalizeDelete, RaiseOut, RequestShutdown
<1>5. CASE CheckpointThread
  BY <1>5 DEF CheckpointThread, ThreadSync, ThreadReadStatus, ThreadRead, ThreadReplace,
     ThreadRaises
<1>6. CASE Download \/ Resume \/ ProcessExit \/ Crash
  BY <1>6 DEF Download, Resume, ProcessExit, Crash, Forget
<1>7. CASE UNCHANGED vars
  BY <1>7 DEF vars
<1>. QED  BY <1>1, <1>2, <1>3, <1>4, <1>5, <1>6, <1>7 DEF Next, MainLoop

\* While no process runs only a new session can begin; the memory goes with the process.
LEMMA DownSteps ==
    ASSUME LockInv, [Next]_vars
    PROVE  /\ main = "down" => Download \/ Resume \/ UNCHANGED vars
           /\ main' = "down" => ProcessExit \/ Crash \/ UNCHANGED vars
           /\ main' = "opening" => \/ Download \/ Resume
                                   \/ UNCHANGED <<main, memVars, thread, diskVars>>
<1>1. CheckpointThread => thread.pc # "off" /\ UNCHANGED main
  BY DEF CheckpointThread, ThreadSync, ThreadReadStatus, ThreadRead, ThreadReplace, ThreadRaises
<1>2. CheckpointThread => main \notin {"down", "opening"} /\ main' \notin {"down", "opening"}
  BY <1>1 DEF LockInv
<1>3. \A w \in Workers : Worker(w) \/ StrayWrite(w) =>
          main \in {"running", "interruptSync"} /\ main' = main
  BY WorkersRun DEF StrayWrite
<1>4. OpenSession \/ StopFailed \/ StopShutdown \/ StopCancelled \/ AllReturned \/ InterruptSync
      \/ InterruptSave \/ FinalizeSync \/ FinalizeVerify \/ FinalizeDeliver \/ FinalizeDelete
      \/ RaiseOut => main # "down" /\ main' \notin {"down", "opening"}
  BY DEF OpenSession, StopFailed, StopShutdown, StopCancelled, StopSession, AllReturned,
     InterruptSync, InterruptSave, FinalizeSync, FinalizeVerify, FinalizeDeliver,
     FinalizeDelete, RaiseOut
<1>5. /\ RequestShutdown => main' = main /\ main # "down"
                            /\ UNCHANGED <<main, memVars, thread, diskVars>>
      /\ Download \/ Resume => main' = "opening"
      /\ ProcessExit \/ Crash => main # "down" /\ main' = "down"
      /\ UNCHANGED vars => UNCHANGED <<main, memVars, thread, diskVars>>
  BY DEF RequestShutdown, Active, ckptVars, Download, Resume, ProcessExit, Crash, Forget, vars
<1>6. \/ Download \/ Resume \/ CheckpointThread \/ RequestShutdown \/ ProcessExit \/ Crash
      \/ UNCHANGED vars
      \/ \E w \in Workers : Worker(w) \/ StrayWrite(w)
      \/ \/ OpenSession \/ StopFailed \/ StopShutdown \/ StopCancelled \/ AllReturned \/ InterruptSync
         \/ InterruptSave \/ FinalizeSync \/ FinalizeVerify \/ FinalizeDeliver \/ FinalizeDelete
         \/ RaiseOut
  BY DEF Next, MainLoop
<1>. QED  BY <1>2, <1>3, <1>4, <1>5, <1>6

LEMMA PartStep ==
    ASSUME TypeOK, PartInv, [Next]_vars
    PROVE  PartInv'
<1>. USE DEF PartInv, Active
<1>1. CASE Download \/ Resume
  BY <1>1 DEF Download, Resume
<1>2. CASE FinalizeDeliver
  BY <1>2 DEF FinalizeDeliver
<1>3. CASE ProcessExit \/ Crash
  BY <1>3 DEF ProcessExit, Crash, Forget
<1>4. ASSUME NEW w \in Workers, Worker(w) \/ StrayWrite(w) PROVE UNCHANGED <<main, part, output>>
  BY <1>4, WorkersRun DEF StrayWrite
<1>5. CASE CheckpointThread \/ RequestShutdown \/ UNCHANGED vars
  <2>1. UNCHANGED <<main, part, output>>
    BY <1>5 DEF CheckpointThread, ThreadSync, ThreadReadStatus, ThreadRead, ThreadReplace,
       ThreadRaises, RequestShutdown, vars, diskVars
  <2>. QED  BY <2>1
<1>6. CASE OpenSession \/ StopFailed \/ StopShutdown \/ StopCancelled \/ AllReturned
           \/ InterruptSync \/ InterruptSave \/ FinalizeSync \/ FinalizeVerify
           \/ FinalizeDelete \/ RaiseOut
  BY <1>6 DEF OpenSession, StopFailed, StopShutdown, StopCancelled, StopSession, AllReturned,
     InterruptSync, InterruptSave, FinalizeSync, FinalizeVerify, FinalizeDelete, RaiseOut, diskVars
<1>. QED  BY <1>1, <1>2, <1>3, <1>4, <1>5, <1>6 DEF Next, MainLoop

LEMMA HashStep ==
    ASSUME IntegrityInv, IntegrityInv', LockInv, HashInv, [Next]_vars
    PROVE  HashInv'
<1>ty. hash \in [Chunks -> Digests] /\ wdigest \in [Workers -> Digests]
  BY DEF IntegrityInv, TypeOK, MemoryTypeOK, WorkersTypeOK
<1>1. CASE main' = "down"
  <2>1. CASE ProcessExit \/ Crash
    BY <1>1, <2>1 DEF ProcessExit, Crash, Forget, HashInv
  <2>2. CASE UNCHANGED vars
    BY <1>1, <2>2 DEF vars, memVars, HashInv
  <2>. QED  BY <1>1, <2>1, <2>2, DownSteps
<1>2. CASE main = "down" /\ main' # "down"
  <2>1. \A c \in Chunks : status'[c] # "COMPLETE" => hash'[c] = "none"
    BY <1>2, DownSteps DEF Download, Resume, RestoreChunks, vars
  <2>2. Active'
    BY <1>2, DownSteps DEF Download, Resume, vars, Active
  <2>. QED  BY <2>1, <2>2 DEF HashInv, IntegrityInv, CompleteIsOnDisk
<1>3. CASE main # "down" /\ main' # "down"
  <2>1. ASSUME NEW c \in Chunks, status[c] = "COMPLETE"
        PROVE  status'[c] = "COMPLETE" /\ hash'[c] # "none" /\ page'[c] = hash'[c]
    BY <1>3, <2>1, CompleteKept DEF HashInv
  <2>2. ASSUME NEW c \in Chunks, status[c] # "COMPLETE"
        PROVE  /\ status'[c] # "COMPLETE" => hash'[c] = "none"
               /\ status'[c] = "COMPLETE" => hash'[c] # "none" /\ page'[c] = hash'[c]
    <3>1. CASE status'[c] # "COMPLETE" /\ hash'[c] = hash[c]
      BY <2>2, <3>1 DEF HashInv
    <3>2. ASSUME NEW w \in Workers, Complete(w) \/ CompleteUncounted(w), wchunk[w] = c
          PROVE  status'[c] = "COMPLETE" /\ hash'[c] # "none" /\ page'[c] = hash'[c]
      <4>1. hash' = [hash EXCEPT ![c] = wdigest[w]] /\ page' = page /\ wpc[w] = "got"
            /\ status' = [status EXCEPT ![c] = "COMPLETE"]
        BY <3>2, CompletingStep
      <4>2. wdigest[w] \in {"good", "bad"} /\ page[c] = wdigest[w]
        BY <3>2, <4>1 DEF IntegrityInv, ChunkOwnership
      <4>. QED  BY <4>1, <4>2, <1>ty DEF IntegrityInv, TypeOK, MemoryTypeOK
    <3>. QED  BY <1>3, <2>2, <3>1, <3>2, OnlyCompletionCompletes
  <2>. QED  BY <2>1, <2>2 DEF HashInv
<1>. QED  BY <1>1, <1>2, <1>3

\* The chunks of a state file, and of a checkpoint in progress, are those of the download.
LEMMA RecordsOfChunks ==
    ASSUME TypeOK
    PROVE  /\ \A file \in stateFile : \A c \in DOMAIN file.chunks :
                  c \in Chunks /\ file.chunks[c] \in ChunkRecord
           /\ \A c \in DOMAIN thread.chunks : c \in Chunks /\ thread.chunks[c] \in ChunkRecord
<1>1. ASSUME NEW s \in Seq(ChunkRecord), Len(s) =< NumChunks, NEW c \in DOMAIN s
      PROVE  c \in Chunks /\ s[c] \in ChunkRecord
  BY <1>1, EngineAssumption DEF Chunks
<1>. QED  BY <1>1 DEF TypeOK, DiskTypeOK, CheckpointTypeOK, StateRecord

LEMMA ThreadSaidStep ==
    ASSUME IntegrityInv, LockInv, LockInv', HashInv, ThreadSaid, [Next]_vars
    PROVE  ThreadSaid'
<1>ty. thread \in [pc : ThreadPCs, status : SessionStatus, chunks : Seq(ChunkRecord)]
  BY DEF IntegrityInv, TypeOK, CheckpointTypeOK
<1>idl. /\ IdleThread.pc = "off" /\ IdleThread.chunks = <<>> /\ DOMAIN <<>> = {}
        /\ \A p : [IdleThread EXCEPT !.pc = p].chunks = <<>>
  BY DEF IdleThread
<1>kept. ASSUME main # "down", main' # "down", NEW c \in DOMAIN thread.chunks,
                Said(thread.chunks[c]), thread.pc # "off"
         PROVE  status'[c] = "COMPLETE" /\ hash'[c] = thread.chunks[c].h
  BY <1>kept, CompleteKept, RecordsOfChunks DEF ThreadSaid, Backed, IntegrityInv
<1>1. CASE thread'.pc = "off" \/ thread'.chunks = <<>>
  BY <1>1, <1>idl DEF ThreadSaid
<1>2. CASE thread'.pc # "off" /\ thread.pc # "off" /\ thread'.chunks = thread.chunks
  <2>1. main # "down" /\ main' # "down"
    BY <1>2 DEF LockInv
  <2>. QED  BY <1>2, <2>1, <1>kept DEF ThreadSaid, Backed
<1>3. CASE ThreadRead
  <2>0. thread.pc = "read" /\ UNCHANGED <<status, hash, main>>
    BY <1>3 DEF ThreadRead, memVars
  <2>. DEFINE next == Len(thread.chunks) + 1
  <2>1. CASE next \in Planned
    <3>1. PICK rec \in Readable(next) : thread' = [thread EXCEPT !.chunks = Append(@, rec)]
      BY <1>3, <2>1 DEF ThreadRead
    <3>2. next \in Chunks
      BY <2>1, EngineAssumption DEF IntegrityInv, TypeOK, MemoryTypeOK, Planned, Chunks
    <3>3. Said(rec) => status[next] = "COMPLETE" /\ hash[next] = rec.h
      <4>1. CASE rec = RecordOf(next)
        BY <4>1 DEF Said, RecordOf
      <4>2. CASE rec # RecordOf(next)
        <5>1. PICK st \in {"COMPLETE", "FAILED"} :
                  /\ rec = [RecordOf(next) EXCEPT !.st = st]
                  /\ \E v \in Workers : wpc[v] \in {"got", "fetch"} /\ wchunk[v] = next
          BY <4>2 DEF Readable
        <5>2. status[next] # "COMPLETE"
          BY <5>1 DEF IntegrityInv, ChunkOwnership, Busy
        <5>3. rec.h = "none"
          BY <3>2, <5>1, <5>2 DEF HashInv, RecordOf
        <5>. QED  BY <5>3 DEF Said
      <4>. QED  BY <4>1, <4>2
    <3>4. thread'.chunks = Append(thread.chunks, rec) /\ thread.chunks \in Seq(ChunkRecord)
      BY <3>1, <1>ty
    <3>5. ASSUME NEW c \in DOMAIN thread'.chunks, Said(thread'.chunks[c])
          PROVE  status[c] = "COMPLETE" /\ hash[c] = thread'.chunks[c].h
      <4>1. CASE c \in DOMAIN thread.chunks
        <5>1. thread'.chunks[c] = thread.chunks[c]
          BY <3>4, <4>1
        <5>. QED  BY <2>0, <3>5, <4>1, <5>1 DEF ThreadSaid, Backed
      <4>2. CASE c \notin DOMAIN thread.chunks
        <5>1. c = next /\ thread'.chunks[c] = rec
          BY <3>4, <4>2
        <5>. QED  BY <3>3, <3>5, <5>1
      <4>. QED  BY <4>1, <4>2
    <3>. QED  BY <2>0, <3>5 DEF ThreadSaid, Backed
  <2>2. CASE next \notin Planned
    <3>1. thread'.chunks = thread.chunks
      BY <1>3, <2>2, <1>ty DEF ThreadRead
    <3>. QED  BY <2>0, <3>1 DEF ThreadSaid, Backed
  <2>. QED  BY <2>1, <2>2
<1>4. CASE ~ThreadRead
  <2>1. ASSUME NEW w \in Workers, Worker(w) \/ StrayWrite(w)
        PROVE  thread' = thread \/ thread'.chunks = <<>>
    <3>1. CASE StartCheckpoint(w) \/ CheckpointRaises(w)
      BY <3>1, <1>idl DEF StartCheckpoint, CheckpointRaises
    <3>2. CASE \/ NoMirror(w) \/ CallbackRaises(w) \/ RecordRaises(w)
               \/ Complete(w) \/ CompleteUncounted(w)
      BY <3>2, LeavingStep, CompletingStep
    <3>3. CASE TakeChunk(w) \/ RefillQueue(w) \/ WorkerExit(w) \/ Select(w) \/ WriteBlock(w)
               \/ Receive(w) \/ FetchError(w) \/ HashMismatch(w) \/ Retry(w) \/ SkipCheckpoint(w)
               \/ CheckpointDone(w) \/ StrayWrite(w)
      BY <3>3 DEF TakeChunk, RefillQueue, WorkerExit, Select, WriteBlock, Receive, FetchError,
         HashMismatch, Retry, SkipCheckpoint, CheckpointDone, StrayWrite, ckptVars
    <3>. QED  BY <2>1, <3>1, <3>2, <3>3 DEF Worker
  <2>2. CASE CheckpointThread
    <3>1. CASE ThreadSync \/ ThreadReadStatus
      <4>1. thread.pc # "off" /\ (thread'.chunks = <<>> \/ thread'.chunks = thread.chunks)
        BY <3>1, <1>ty, <1>idl DEF ThreadSync, ThreadReadStatus
      <4>. QED  BY <4>1, <1>1, <1>2
    <3>2. CASE ThreadReplace \/ ThreadRaises
      BY <3>2, <1>1, <1>idl DEF ThreadReplace, ThreadRaises
    <3>. QED  BY <1>4, <2>2, <3>1, <3>2 DEF CheckpointThread
  <2>3. CASE StopFailed \/ StopShutdown \/ StopCancelled
    <3>1. thread' = thread \/ thread'.chunks = <<>>
      BY <2>3, <1>idl DEF StopFailed, StopShutdown, StopCancelled, StopSession
    <3>. QED  BY <3>1, <1>1, <1>2
  <2>4. CASE ProcessExit \/ Crash
    BY <2>4, <1>1, <1>idl DEF ProcessExit, Crash, Forget
  <2>5. CASE Download \/ Resume \/ OpenSession \/ AllReturned \/ InterruptSync \/ InterruptSave
             \/ FinalizeSync \/ FinalizeVerify \/ FinalizeDeliver \/ FinalizeDelete \/ RaiseOut
             \/ RequestShutdown \/ UNCHANGED vars
    <3>1. thread' = thread
      BY <2>5 DEF Download, Resume, OpenSession, AllReturned, InterruptSync, InterruptSave,
         FinalizeSync, FinalizeVerify, FinalizeDeliver, FinalizeDelete, RaiseOut,
         RequestShutdown, vars, ckptVars
    <3>. QED  BY <3>1, <1>1, <1>2
  <2>6. ASSUME NEW w \in Workers, Worker(w) \/ StrayWrite(w) PROVE ThreadSaid'
    BY <2>1, <2>6, <1>1, <1>2
  <2>. QED  BY <2>2, <2>3, <2>4, <2>5, <2>6 DEF Next, MainLoop
<1>. QED  BY <1>3, <1>4

\* What the whole state says of its chunks when it is saved between two steps.
LEMMA SnapshotSaid ==
    ASSUME TypeOK, NEW st, NEW c \in DOMAIN Snapshot(st).chunks, Said(Snapshot(st).chunks[c])
    PROVE  c \in Chunks /\ Backed(c, Snapshot(st).chunks[c])
<1>1. Planned \subseteq Chunks
  BY EngineAssumption DEF TypeOK, MemoryTypeOK, Planned, Chunks
<1>. QED  BY <1>1 DEF Snapshot, RecordOf, Said, Backed

\* The steps that write the state file, and what they write.
LEMMA Saves ==
    ASSUME [Next]_vars
    PROVE  \/ UNCHANGED stateFile
           \/ stateFile' = {}
           \/ /\ \E st \in {"DOWNLOADING", "FAILED", sessionStatus} : stateFile' = {Snapshot(st)}
              /\ main \notin {"down", "ended"} /\ main' \notin {"down", "opening"}
              /\ UNCHANGED <<status, hash>>
           \/ /\ stateFile' = {[status |-> thread.status, chunks |-> thread.chunks]}
              /\ thread.pc # "off" /\ UNCHANGED <<main, status, hash, page, durable, part>>
<1>. USE DEF diskVars, memVars
<1>1. ASSUME NEW w \in Workers, Worker(w) \/ StrayWrite(w) PROVE UNCHANGED stateFile
  BY <1>1, WorkersRun DEF StrayWrite
<1>2. CASE OpenSession \/ InterruptSave \/ FinalizeVerify
  BY <1>2 DEF OpenSession, InitialSave, InterruptSave, FinalizeVerify
<1>3. CASE FinalizeDelete
  BY <1>3 DEF FinalizeDelete
<1>4. CASE CheckpointThread
  BY <1>4 DEF CheckpointThread, ThreadSync, ThreadReadStatus, ThreadRead, ThreadReplace,
     ThreadRaises
<1>5. CASE Download \/ Resume \/ StopFailed \/ StopShutdown \/ StopCancelled \/ AllReturned
           \/ InterruptSync \/ FinalizeSync \/ FinalizeDeliver \/ RaiseOut \/ RequestShutdown
           \/ ProcessExit \/ Crash \/ UNCHANGED vars
  BY <1>5 DEF Download, Resume, StopFailed, StopShutdown, StopCancelled, StopSession,
     AllReturned, InterruptSync, FinalizeSync, FinalizeDeliver, RaiseOut, RequestShutdown,
     ProcessExit, Crash, vars
<1>. QED  BY <1>1, <1>2, <1>3, <1>4, <1>5 DEF Next, MainLoop

\* The processes that are neither down, opening nor ended after a step were not before it
\* either, but for the first save.
LEMMA StaysAtWork ==
    ASSUME LockInv, [Next]_vars, main' \notin {"down", "opening", "ended"}
    PROVE  main \notin {"down", "opening", "ended"} \/ OpenSession
<1>1. CASE CheckpointThread
  BY <1>1 DEF CheckpointThread, ThreadSync, ThreadReadStatus, ThreadRead, ThreadReplace,
     ThreadRaises
<1>2. ASSUME NEW w \in Workers, Worker(w) \/ StrayWrite(w) PROVE main \in {"running", "interruptSync"}
  BY <1>2, WorkersRun DEF StrayWrite
<1>3. CASE StopFailed \/ StopShutdown \/ StopCancelled \/ AllReturned \/ InterruptSync
           \/ InterruptSave \/ FinalizeSync \/ FinalizeVerify \/ FinalizeDeliver \/ FinalizeDelete
           \/ RaiseOut
  BY <1>3 DEF StopFailed, StopShutdown, StopCancelled, StopSession, AllReturned, InterruptSync,
     InterruptSave, FinalizeSync, FinalizeVerify, FinalizeDeliver, FinalizeDelete, RaiseOut
<1>4. Download \/ Resume \/ ProcessExit \/ Crash => main' \in {"down", "opening"}
  BY DEF Download, Resume, ProcessExit, Crash, Forget
<1>5. RequestShutdown \/ UNCHANGED vars => main' = main
  BY DEF RequestShutdown, vars
<1>. QED  BY <1>1, <1>2, <1>3, <1>4, <1>5 DEF Next, MainLoop

LEMMA FileSaidStep ==
    ASSUME IntegrityInv, LockInv, FileSaid, ThreadSaid, [Next]_vars
    PROVE  FileSaid'
<1>1. \A f, g \in stateFile' : f = g
  BY Saves DEF FileSaid
<1>2. ASSUME main' \notin {"down", "opening", "ended"}, NEW file \in stateFile',
             NEW c \in DOMAIN file.chunks, Said(file.chunks[c])
      PROVE  status'[c] = "COMPLETE" /\ hash'[c] = file.chunks[c].h
  <2>1. CASE UNCHANGED stateFile /\ ~OpenSession
    <3>1. main \notin {"down", "opening", "ended"}
      BY <1>2, <2>1, StaysAtWork
    <3>2. status[c] = "COMPLETE" /\ hash[c] = file.chunks[c].h
      BY <1>2, <2>1, <3>1 DEF FileSaid, Backed
    <3>3. c \in Chunks
      BY <1>2, <2>1, RecordsOfChunks DEF IntegrityInv
    <3>. QED  BY <1>2, <3>1, <3>2, <3>3, CompleteKept
  <2>2. ASSUME NEW st \in {"DOWNLOADING", "FAILED", sessionStatus}, stateFile' = {Snapshot(st)},
               UNCHANGED <<status, hash>>
        PROVE  status'[c] = "COMPLETE" /\ hash'[c] = file.chunks[c].h
    BY <1>2, <2>2, SnapshotSaid DEF Backed, IntegrityInv
  <2>3. CASE /\ stateFile' = {[status |-> thread.status, chunks |-> thread.chunks]}
             /\ thread.pc # "off" /\ UNCHANGED <<main, status, hash>>
    BY <1>2, <2>3 DEF ThreadSaid, Backed
  <2>4. CASE OpenSession
    BY <2>2, <2>4 DEF OpenSession, InitialSave, memVars
  <2>. QED  BY <1>2, <2>1, <2>2, <2>3, <2>4, Saves
<1>. QED  BY <1>1, <1>2 DEF FileSaid, Backed

\* The chunks that the state file names after a step.
LEMMA SavedChunksNext ==
    (TypeOK => \A file \in stateFile : \A c \in DOMAIN file.chunks : c \in Chunks)'
<1>1. TypeOK => \A file \in stateFile : \A c \in DOMAIN file.chunks : c \in Chunks
  BY RecordsOfChunks
<1>. QED  BY <1>1, PTL

LEMMA DiskSaidStep ==
    ASSUME IntegrityInv, IntegrityInv', LockInv, LockInv', PromiseInv, [Next]_vars,
           HashInv', FileSaid'
    PROVE  DiskSaid'
<1>. USE DEF PromiseInv
<1>1. CASE main' \notin {"down", "opening", "ended"}
  <2>1. \A file \in stateFile' : \A c \in DOMAIN file.chunks : c \in Chunks
    <3>1. (TypeOK => \A file \in stateFile : \A c \in DOMAIN file.chunks : c \in Chunks)'
      BY SavedChunksNext
    <3>. QED  BY <3>1 DEF IntegrityInv
  <2>. QED  BY <1>1, <2>1 DEF DiskSaid, FileSaid, Backed, HashInv
<1>2. CASE main' = "opening"
  <2>1. CASE Download
    BY <2>1, RecordsOfChunks DEF Download, DiskSaid, Said, ChunkRecord, Digests, IntegrityInv
  <2>2. CASE Resume
    <3>1. PICK file \in stateFile : RestoreChunks(file)
      BY <2>2 DEF Resume
    <3>2. stateFile' = {file}
      BY <2>2 DEF Resume, FileSaid
    <3>. DEFINE kept == {c \in DOMAIN file.chunks : Survives(file.chunks[c], c)}
    <3>3. \A c \in kept : c \in Chunks => status'[c] = "COMPLETE"
      BY <3>1 DEF RestoreChunks
    <3>4. ASSUME part, NEW c \in DOMAIN file.chunks, Said(file.chunks[c]),
                 file.chunks[c].h \in {page[c], durable[c]}
          PROVE  page[c] = file.chunks[c].h /\ status'[c] = "COMPLETE"
      <4>1. page[c] = file.chunks[c].h
        BY <3>4 DEF DiskSaid
      <4>2. c \in kept
        BY <3>4, <4>1 DEF Survives, Said
      <4>. QED  BY <3>3, <4>1, <4>2, RecordsOfChunks DEF IntegrityInv
    <3>5. CASE part
      BY <2>2, <3>2, <3>4, <3>5 DEF Resume, DiskSaid
    <3>6. CASE ~part
      BY <2>2, <3>2, <3>6, RecordsOfChunks
         DEF Resume, DiskSaid, Said, ChunkRecord, Digests, IntegrityInv
    <3>. QED  BY <3>5, <3>6
  <2>3. CASE UNCHANGED <<main, memVars, thread, diskVars>>
    BY <2>3 DEF memVars, diskVars, DiskSaid
  <2>. QED  BY <1>2, <2>1, <2>2, <2>3, DownSteps
<1>3. CASE main' = "down"
  <2>1. CASE ProcessExit \/ UNCHANGED vars
    <3>1. UNCHANGED <<page, durable, part, stateFile>>
      BY <2>1 DEF ProcessExit, vars, diskVars
    <3>. QED  BY <1>3, <3>1 DEF DiskSaid
  <2>2. CASE Crash
    BY <1>3, <2>2 DEF Crash, DiskSaid
  <2>. QED  BY <1>3, <2>1, <2>2, DownSteps
<1>4. CASE main' = "ended"
  <2>1. \A file \in stateFile' : \A c \in DOMAIN file.chunks : c \in Chunks
    <3>1. (TypeOK => \A file \in stateFile : \A c \in DOMAIN file.chunks : c \in Chunks)'
      BY SavedChunksNext
    <3>. QED  BY <3>1 DEF IntegrityInv
  \* A state file that tells the truth about the memory.
  <2>tru. ASSUME \A file \in stateFile' : \A c \in DOMAIN file.chunks :
                     Said(file.chunks[c]) => status'[c] = "COMPLETE" /\ hash'[c] = file.chunks[c].h
          PROVE  DiskSaid'
    BY <1>4, <2>1, <2>tru DEF DiskSaid, HashInv
  <2>2. ASSUME NEW st \in {"DOWNLOADING", "FAILED", sessionStatus}, stateFile' = {Snapshot(st)},
               UNCHANGED <<status, hash>>
        PROVE  DiskSaid'
    BY <2>2, <2>tru, SnapshotSaid DEF Backed, IntegrityInv
  <2>3. CASE /\ stateFile' = {[status |-> thread.status, chunks |-> thread.chunks]}
             /\ thread.pc # "off" /\ UNCHANGED <<main, status, hash>>
    BY <2>3, <2>tru DEF ThreadSaid, Backed
  <2>4. CASE stateFile' = {}
    BY <2>4, <2>tru
  <2>5. CASE UNCHANGED stateFile
    <3>1. UNCHANGED <<page, durable, part, status>> /\ main # "down"
      <4>1. CASE CheckpointThread
        BY <1>4, <4>1 DEF CheckpointThread, ThreadSync, ThreadReadStatus, ThreadRead,
           ThreadReplace, ThreadRaises, WriterOpen, LockInv, memVars, diskVars
      <4>3. ASSUME NEW w \in Workers PROVE ~Worker(w)
        BY <1>4, WorkersRun
      <4>2. CASE ~CheckpointThread
        BY <1>4, <4>2, <4>3 DEF Next, MainLoop, StrayWrite, Download, Resume, OpenSession,
           StopFailed, StopShutdown, StopCancelled, StopSession, AllReturned, InterruptSync,
           InterruptSave, FinalizeSync, FinalizeVerify, FinalizeDeliver, FinalizeDelete,
           RaiseOut, RequestShutdown, ProcessExit, Crash, Forget, vars, memVars, diskVars
      <4>. QED  BY <4>1, <4>2
    <3>. QED  BY <1>4, <2>5, <3>1 DEF DiskSaid
  <2>. QED  BY <2>2, <2>3, <2>4, <2>5, Saves
<1>. QED  BY <1>1, <1>2, <1>3, <1>4

\* What the engine can rely on is no more than what it had, whenever a process ends.
LEMMA KeptIsHad ==
    ASSUME PromiseInv, IntegrityInv, main # "down", NEW c \in Chunks, NEW file \in stateFile,
           part, c \in DOMAIN file.chunks, Said(file.chunks[c]),
           file.chunks[c].h \in {page[c], durable[c]}
    PROVE  status[c] = "COMPLETE"
BY DEF PromiseInv, DiskSaid

LEMMA PhaseValue ==
    /\ Active => Phase = "active"
    /\ ~Active => Phase = IF ~part /\ output # {} THEN "delivered" ELSE "idle"
BY DEF Phase

LEMMA PhaseValueNext ==
    (/\ Active => Phase = "active"
     /\ ~Active => Phase = IF ~part /\ output # {} THEN "delivered" ELSE "idle")'
BY PhaseValue, PTL

LEMMA PromiseStep ==
    ASSUME IntegrityInv, IntegrityInv', LockInv, PromiseInv, PromiseInv', FinalizesOnlyWhole,
           [Next]_vars
    PROVE  [Promise!Next]_<<Phase, Have>>
<1>. USE DEF Promise!Next
<1>. DEFINE Done == {c \in Chunks : status[c] = "COMPLETE"}
<1>had. main # "down" => Have = Done
  BY DEF Have
<1>ph. /\ Active => Phase = "active"
       /\ ~Active => Phase = IF ~part /\ output # {} THEN "delivered" ELSE "idle"
  BY PhaseValue
<1>ph2. /\ Active' => Phase' = "active"
        /\ ~Active' => Phase' = IF ~part' /\ output' # {} THEN "delivered" ELSE "idle"
  BY PhaseValueNext
<1>prt. (Active => part) /\ (main = "cleaning" => ~part /\ output # {})
  BY DEF PromiseInv, PartInv
\* The call is still in progress, or still over, and no chunk was completed.
<1>same. ASSUME main # "down", main' # "down", Active' <=> Active, Done' = Done,
                UNCHANGED <<part, output>>
         PROVE  UNCHANGED <<Phase, Have>>
  <2>1. Have' = Done'
    BY <1>same DEF Have
  <2>. QED  BY <1>same, <1>had, <2>1, <1>ph, <1>ph2
\* The call returns without the file.
<1>stop. ASSUME Active, main' = "ended", UNCHANGED <<part, status>>
         PROVE  Promise!Stop
  <2>1. Have' = Done' /\ Done' = Done
    BY <1>stop DEF Have
  <2>2. ~Active' /\ part'
    BY <1>stop, <1>prt DEF Active
  <2>. QED  BY <1>stop, <1>had, <2>1, <2>2, <1>ph, <1>ph2 DEF Promise!Stop, Active
<1>1. CASE Download
  <2>1. Have' = {} /\ ~Active /\ Active'
    BY <1>1 DEF Download, Have, Active
  <2>. QED  BY <2>1, <1>ph, <1>ph2 DEF Promise!Begin
<1>2. CASE Resume
  <2>1. PICK file \in stateFile : RestoreChunks(file)
    BY <1>2 DEF Resume
  <2>2. Have' \subseteq Have
    BY <1>2, <2>1 DEF Resume, RestoreChunks, Have, Kept
  <2>3. ~Active /\ Active'
    BY <1>2 DEF Resume, Active
  <2>. QED  BY <2>2, <2>3, <1>ph, <1>ph2 DEF Promise!Begin
<1>3. ASSUME NEW w \in Workers, Worker(w)
      PROVE  Promise!Gain \/ UNCHANGED <<Phase, Have>>
  <2>run. main = "running" /\ main' = "running" /\ UNCHANGED <<part, output>>
    BY <1>3, WorkersRun
  <2>act. Active /\ Active'
    BY <2>run DEF Active
  <2>kep. Done \subseteq Done'
    BY <2>run, CompleteKept
  <2>1. CASE Complete(w) \/ CompleteUncounted(w)
    <3>1. wpc[w] = "got" /\ status' = [status EXCEPT ![wchunk[w]] = "COMPLETE"]
      BY <2>1, CompletingStep
    <3>2. wchunk[w] \in Chunks /\ status[wchunk[w]] # "COMPLETE"
      BY <3>1 DEF IntegrityInv, ChunkOwnership, TypeOK, WorkersTypeOK, Busy
    <3>3. Done' = Done \cup {wchunk[w]} /\ wchunk[w] \in Chunks \ Done
      BY <3>1, <3>2 DEF IntegrityInv, TypeOK, MemoryTypeOK
    <3>4. Have' = Have \cup {wchunk[w]} /\ wchunk[w] \in Chunks \ Have
      BY <3>3, <1>had, <2>run DEF Have
    <3>. QED  BY <3>4, <2>act, <1>ph, <1>ph2 DEF Promise!Gain
  <2>3. CASE ~(Complete(w) \/ CompleteUncounted(w))
    <3>1. \A c \in Chunks : c \notin Done => c \notin Done'
      <4>1. CASE NoMirror(w) \/ CallbackRaises(w) \/ RecordRaises(w)
        BY <4>1, LeavingStep
      <4>2. CASE ~(NoMirror(w) \/ CallbackRaises(w) \/ RecordRaises(w))
        BY <1>3, <2>3, <4>2 DEF Worker, TakeChunk, RefillQueue, WorkerExit, Select, WriteBlock,
           Receive, FetchError, HashMismatch, GiveUpOrRetry, Retry, SkipCheckpoint,
           StartCheckpoint, CheckpointDone, CheckpointRaises, memVars, IntegrityInv, TypeOK,
           MemoryTypeOK
      <4>. QED  BY <4>1, <4>2
    <3>2. Done' = Done
      BY <3>1, <2>kep
    <3>. QED  BY <3>2, <2>act, <2>run, <1>same
  <2>. QED  BY <2>1, <2>3
<1>4. CASE \/ OpenSession \/ AllReturned \/ InterruptSync \/ FinalizeSync \/ FinalizeDelete
           \/ RequestShutdown \/ CheckpointThread \/ \E w \in Workers : StrayWrite(w)
  <2>1. UNCHANGED <<part, output, status>>
    BY <1>4 DEF OpenSession, AllReturned, InterruptSync, FinalizeSync, FinalizeDelete,
       RequestShutdown, CheckpointThread, ThreadSync, ThreadReadStatus, ThreadRead,
       ThreadReplace, ThreadRaises, StrayWrite, memVars, diskVars
  <2>2. main # "down" /\ main' # "down" /\ (Active' <=> Active)
    BY <1>4 DEF OpenSession, AllReturned, InterruptSync, FinalizeSync, FinalizeDelete,
       RequestShutdown, CheckpointThread, ThreadSync, ThreadReadStatus, ThreadRead,
       ThreadReplace, ThreadRaises, StrayWrite, Active, LockInv
  <2>. QED  BY <2>1, <2>2, <1>same
<1>5. CASE StopFailed \/ StopShutdown \/ StopCancelled
  <2>1. main = "running" /\ main' = "interruptSync" /\ UNCHANGED <<part, output>>
    BY <1>5 DEF StopFailed, StopShutdown, StopCancelled, StopSession, diskVars
  <2>2. Done' = Done
    BY <1>5 DEF StopFailed, StopShutdown, StopCancelled, StopSession
  <2>. QED  BY <2>1, <2>2, <1>same DEF Active
<1>6. CASE InterruptSave \/ RaiseOut
  BY <1>6, <1>stop DEF InterruptSave, RaiseOut, Active, memVars, diskVars
<1>7. CASE FinalizeVerify
  <2>1. CASE FileMatches
    <3>1. main = "verifying" /\ main' = "delivering" /\ UNCHANGED <<part, output, status>>
      BY <1>7, <2>1 DEF FinalizeVerify, memVars
    <3>. QED  BY <3>1, <1>same DEF Active
  <2>2. CASE ~FileMatches
    BY <1>7, <2>2, <1>stop DEF FinalizeVerify, Active, memVars
  <2>. QED  BY <2>1, <2>2
<1>8. CASE FinalizeDeliver
  <2>1. /\ main = "delivering" /\ main' = "cleaning" /\ ~part' /\ output' = {page}
        /\ UNCHANGED status
    BY <1>8 DEF FinalizeDeliver, memVars
  <2>2. Done = Chunks /\ Done' = Done
    BY <2>1 DEF FinalizesOnlyWhole
  <2>3. Have = Chunks /\ Have' = Have
    BY <2>1, <2>2, <1>had DEF Have
  <2>4. Phase = "active" /\ Phase' = "delivered"
    BY <2>1, <1>ph, <1>ph2 DEF Active
  <2>. QED  BY <2>3, <2>4 DEF Promise!Deliver
<1>9. CASE ProcessExit
  <2>1. main = "ended" /\ main' = "down" /\ UNCHANGED <<page, part, stateFile, output>>
    BY <1>9 DEF ProcessExit, Forget, diskVars
  <2>2. Have' \subseteq Have
    <3>1. ASSUME NEW c \in Chunks, NEW file \in stateFile, c \in DOMAIN file.chunks,
                 Survives(file.chunks[c], c)
          PROVE  c \in Done
      BY <2>1, <3>1, KeptIsHad DEF Survives, Said
    <3>2. Have' = Kept' /\ Have = Done
      BY <2>1, <1>had DEF Have
    <3>. QED  BY <2>1, <3>1, <3>2 DEF Kept, Survives
  <2>3. Phase' = Phase /\ Phase # "active"
    BY <2>1, <1>ph, <1>ph2 DEF Active
  <2>. QED  BY <2>2, <2>3 DEF Promise!Lose
<1>10. CASE Crash
  <2>1. PICK img \in CrashImages : page' = img
    BY <1>10 DEF Crash
  <2>2. main # "down" /\ main' = "down" /\ UNCHANGED <<part, stateFile, output>>
    BY <1>10 DEF Crash, Forget
  <2>3. Have' \subseteq Have
    <3>1. ASSUME NEW c \in Chunks, NEW file \in stateFile, c \in DOMAIN file.chunks, part,
                 Said(file.chunks[c]), img[c] = file.chunks[c].h
          PROVE  c \in Done
      <4>1. img[c] # "torn"
        BY <3>1, RecordsOfChunks DEF IntegrityInv, ChunkRecord, Digests
      <4>2. img[c] \in {page[c], durable[c]}
        BY <4>1 DEF CrashImages
      <4>. QED  BY <2>2, <3>1, <4>2, KeptIsHad
    <3>2. Have' = Kept' /\ Have = Done
      BY <2>2, <1>had DEF Have
    <3>. QED  BY <2>1, <2>2, <3>1, <3>2 DEF Kept, Survives, Said
  <2>4. CASE Active
    BY <2>2, <2>3, <2>4, <1>prt, <1>ph, <1>ph2 DEF Promise!Stop, Active
  <2>5. CASE ~Active
    <3>1. Phase' = Phase /\ Phase # "active"
      BY <2>2, <2>5, <1>ph, <1>ph2 DEF Active
    <3>. QED  BY <2>3, <3>1 DEF Promise!Lose
  <2>. QED  BY <2>4, <2>5
<1>11. CASE UNCHANGED vars
  BY <1>11 DEF vars, memVars, diskVars, Phase, Have, Kept, Survives, Active
<1>. QED
  BY <1>1, <1>2, <1>3, <1>4, <1>5, <1>6, <1>7, <1>8, <1>9, <1>10, <1>11 DEF Next, MainLoop

LEMMA PromiseInvariant == Spec => [](IntegrityInv /\ LockInv /\ PromiseInv)
<1>1. Init => IntegrityInv /\ LockInv /\ PromiseInv
  BY IntegrityInit
     DEF Init, LockInv, PromiseInv, PartInv, HashInv, ThreadSaid, FileSaid, DiskSaid, Active,
         IdleThread
<1>2. IntegrityInv /\ LockInv /\ PromiseInv /\ [Next]_vars
          => IntegrityInv' /\ LockInv' /\ PromiseInv'
  <2>. SUFFICES ASSUME IntegrityInv, LockInv, PromiseInv, [Next]_vars
                PROVE  IntegrityInv' /\ LockInv' /\ PromiseInv'
    OBVIOUS
  <2>1. IntegrityInv' /\ LockInv'
    BY IntegrityStep, LockStep DEF IntegrityInv
  <2>2. PartInv' /\ HashInv' /\ ThreadSaid' /\ FileSaid'
    BY <2>1, PartStep, HashStep, ThreadSaidStep, FileSaidStep DEF PromiseInv, IntegrityInv
  <2>3. DiskSaid'
    BY <2>1, <2>2, DiskSaidStep
  <2>. QED  BY <2>1, <2>2, <2>3 DEF PromiseInv
<1>. QED  BY <1>1, <1>2, PTL DEF Spec

\* Over all sessions, crashes and resumes the engine is a transfer that only gains parts
\* while it is active, starts again from no more than it held, and delivers when it holds
\* everything.  The provisos are those of FinalizedFilesAreWhole.
THEOREM EngineKeepsItsPromise ==
    ASSUME Adaptive = FALSE, Interrupts = FALSE
    PROVE  Spec => ImplementsPromise
<1>1. Init => Promise!Init
  BY DEF Init, Promise!Init, Phase, Have, Kept, Active
<1>2. /\ IntegrityInv /\ LockInv /\ PromiseInv /\ FinalizesOnlyWhole
      /\ IntegrityInv' /\ LockInv' /\ PromiseInv' /\ [Next]_vars
      => [Promise!Next]_<<Phase, Have>>
  BY PromiseStep
<1>. QED
  BY <1>1, <1>2, PromiseInvariant, FinalizedFilesAreWhole, PTL
     DEF Spec, ImplementsPromise, Promise!Spec
=============================================================================
