------------------------------ MODULE SparseFile ------------------------------
(***************************************************************************)
(* SparseFileWriter: the file is given its size in advance, and threads    *)
(* write disjoint ranges of it with pwrite, which may write less than it   *)
(* was asked to.  Neither the writes nor the check that the writer is open *)
(* hold the lock that close takes, and a descriptor number that was closed *)
(* may be handed to another file.  verify_hash digests the file range by   *)
(* range, whatever the threads do meanwhile.                               *)
(***************************************************************************)
EXTENDS Integers, Sequences, FiniteSets

CONSTANTS
    Writers,      \* threads that write
    TotalSize     \* total_size, in units

ASSUME SparseAssumption ==
    /\ IsFiniteSet(Writers) /\ Writers \cap {"old", "zero", "foreign"} = {}
    /\ TotalSize \in Nat \ {0}

VARIABLES
    fileSize,     \* st_size of the target
    cell,         \* unit -> who wrote it last: a writer, "old" or "zero"
    writer,       \* "new", "allocating", "open", "closing", "closed" or "unusable"
    strategy,     \* "fallocate", "auto" or "sparse" ("truncate" is the same)
    fdIs,         \* what the descriptor's number names: "file", "other" or "nothing"
    writerPc,     \* "idle", "writing", "called", "returned" or "raised"
    offset, size, \* the range of the thread's write_at
    written,      \* bytes_written of it
    raced,        \* threads whose write was under way when close began
    verifyPc,     \* "idle", "reading", "digested" or "raised": verify_hash
    digested,     \* the units it read, in order
    disturbed     \* somebody wrote or closed the file since it began (history)

ioVars == <<writerPc, offset, size, written, raced>>
verifyVars == <<verifyPc, digested, disturbed>>
sparseVars == <<fileSize, cell, writer, strategy, fdIs, ioVars, verifyVars>>

Cells == 0..TotalSize
RangeOf(t) == offset[t]..(offset[t] + size[t] - 1)
Busy(t) == writerPc[t] \in {"writing", "called"}

\* The file is not there or empty, or is shorter or longer than it will be.
SparseInit ==
    /\ fileSize \in {0, TotalSize - 1, TotalSize + 1}
    /\ cell = [u \in Cells |-> IF u < fileSize THEN "old" ELSE "zero"]
    /\ writer = "new"
    /\ strategy \in {"fallocate", "auto", "sparse"}
    /\ fdIs = "nothing"
    /\ writerPc = [t \in Writers |-> "idle"]
    /\ offset = [t \in Writers |-> 0]
    /\ size = [t \in Writers |-> 0]
    /\ written = [t \in Writers |-> 0]
    /\ raced = {}
    /\ verifyPc = "idle" /\ digested = <<>> /\ disturbed = FALSE

\* The space check may reject; opening creates the file and keeps its bytes.
Open ==
    /\ writer = "new"
    /\ \/ writer' = "allocating" /\ fdIs' = "file"
       \/ writer' = "unusable" /\ fdIs' = fdIs
    /\ UNCHANGED <<fileSize, cell, strategy, ioVars, verifyVars>>

\* _allocate_fallocate: blocks up to the size; a longer file stays longer.
Fallocate ==
    /\ writer = "allocating" /\ strategy \in {"fallocate", "auto"}
    /\ \/ /\ fileSize' = IF fileSize < TotalSize THEN TotalSize ELSE fileSize
          /\ writer' = "open"
          /\ UNCHANGED strategy
       \/ \* not supported: auto falls back
          /\ IF strategy = "auto" THEN strategy' = "sparse" /\ UNCHANGED writer
             ELSE writer' = "unusable" /\ UNCHANGED strategy
          /\ UNCHANGED fileSize
       \/ \* no space, which auto does not take for lack of support
          /\ writer' = "unusable" /\ UNCHANGED <<strategy, fileSize>>
    /\ UNCHANGED <<cell, fdIs, ioVars, verifyVars>>

\* _allocate_sparse: ftruncate to the size, cutting off what is beyond it.
Truncate ==
    /\ writer = "allocating" /\ strategy = "sparse"
    /\ \/ /\ fileSize' = TotalSize
          /\ cell' = [u \in Cells |-> IF u < TotalSize THEN cell[u] ELSE "zero"]
          /\ writer' = "open"
       \/ writer' = "unusable" /\ UNCHANGED <<fileSize, cell>>
    /\ UNCHANGED <<strategy, fdIs, ioVars, verifyVars>>

\* write_at begins: the writer is open and the range within the file; ranges
\* of different threads are disjoint, as the engine's chunks are.
WriteAt(t) ==
    /\ writer = "open" /\ writerPc[t] = "idle"
    /\ \E first \in 0..(TotalSize - 1), n \in 1..TotalSize :
           /\ first + n =< TotalSize
           /\ \A other \in Writers : (first..(first + n - 1)) \cap RangeOf(other) = {}
           /\ offset' = [offset EXCEPT ![t] = first]
           /\ size' = [size EXCEPT ![t] = n]
    /\ writerPc' = [writerPc EXCEPT ![t] = "writing"]
    /\ UNCHANGED <<fileSize, cell, writer, strategy, fdIs, written, raced, verifyVars>>

\* The argument self._fd is evaluated for the next pwrite; after close it is
\* None, which pwrite does not take.
TakeDescriptor(t) ==
    /\ writerPc[t] = "writing" /\ written[t] < size[t]
    /\ writerPc' = [writerPc EXCEPT ![t] = IF writer = "closed" THEN "raised" ELSE "called"]
    /\ UNCHANGED <<fileSize, cell, writer, strategy, fdIs, offset, size, written, raced, verifyVars>>

\* Every retry at the offset of the whole.
PwriteAtStart(t) ==
    /\ writerPc[t] = "called"
    /\ \E n \in 1..(size[t] - written[t]) :
           /\ cell' = IF fdIs # "file" THEN cell
                      ELSE [u \in Cells |->
                                IF u \in offset[t]..(offset[t] + n - 1) THEN t ELSE cell[u]]
           /\ written' = [written EXCEPT ![t] = @ + n]
    /\ writerPc' = [writerPc EXCEPT ![t] = "writing"]
    /\ disturbed' = (verifyPc # "idle")
    /\ UNCHANGED <<fileSize, writer, strategy, fdIs, offset, size, raced, verifyPc, digested>>

\* pwrite writes some of the rest, to whatever file the number names now, or
\* fails (no space, nothing written, bad descriptor).
Pwrite(t) ==
    /\ writerPc[t] = "called"
    /\ \/ /\ fdIs # "nothing"
          /\ \E n \in 1..(size[t] - written[t]) :
                 LET first == offset[t] + written[t] IN
                 /\ cell' = IF fdIs # "file" THEN cell
                            ELSE [u \in Cells |->
                                      IF u \in first..(first + n - 1) THEN t ELSE cell[u]]
                 /\ written' = [written EXCEPT ![t] = @ + n]
          /\ writerPc' = [writerPc EXCEPT ![t] = "writing"]
       \/ /\ writerPc' = [writerPc EXCEPT ![t] = "raised"]
          /\ UNCHANGED <<cell, written>>
    /\ disturbed' = (verifyPc # "idle")
    /\ UNCHANGED <<fileSize, writer, strategy, fdIs, offset, size, raced, verifyPc, digested>>

\* All of it is written: write_at returns its length.
Return(t) ==
    /\ writerPc[t] = "writing" /\ written[t] = size[t]
    /\ writerPc' = [writerPc EXCEPT ![t] = "returned"]
    /\ UNCHANGED <<fileSize, cell, writer, strategy, fdIs, offset, size, written, raced, verifyVars>>

\* close: fsync and os.close under the lock, then _fd becomes None.
Close ==
    /\ writer = "open"
    /\ writer' = "closing" /\ fdIs' = "nothing"
    /\ raced' = {t \in Writers : Busy(t)}
    /\ disturbed' = (verifyPc # "idle")
    /\ UNCHANGED <<fileSize, cell, strategy, writerPc, offset, size, written, verifyPc, digested>>

Closed ==
    /\ writer = "closing"
    /\ writer' = "closed"
    /\ UNCHANGED <<fileSize, cell, strategy, fdIs, ioVars, verifyVars>>

\* Another file is opened, and gets the number.
Reuse ==
    /\ writer \in {"closing", "closed"} /\ fdIs = "nothing"
    /\ fdIs' = "other"
    /\ UNCHANGED <<fileSize, cell, writer, strategy, ioVars, verifyVars>>

\* verify_hash: the writer is open and its fsync succeeds, or it raises.
BeginVerify ==
    /\ writer = "open" /\ verifyPc = "idle"
    /\ verifyPc' \in {"reading", "raised"}
    /\ UNCHANGED <<fileSize, cell, writer, strategy, fdIs, ioVars, digested, disturbed>>

\* read_at: what the descriptor names is read, fewer units than asked for if
\* need be; a closed one raises.
ReadAt ==
    /\ verifyPc = "reading" /\ Len(digested) < TotalSize
    /\ \/ /\ writer # "closed" /\ fdIs # "nothing"
          /\ \E n \in 1..(TotalSize - Len(digested)) :
                 digested' = digested \o [i \in 1..n |->
                     IF fdIs = "file" THEN cell[Len(digested) + i - 1] ELSE "foreign"]
          /\ UNCHANGED verifyPc
       \/ /\ verifyPc' = "raised"
          /\ UNCHANGED digested
    /\ UNCHANGED <<fileSize, cell, writer, strategy, fdIs, ioVars, disturbed>>

\* The digest is compared with the expected one.
EndVerify ==
    /\ verifyPc = "reading" /\ Len(digested) = TotalSize
    /\ verifyPc' = "digested"
    /\ UNCHANGED <<fileSize, cell, writer, strategy, fdIs, ioVars, digested, disturbed>>

SparseNext ==
    \/ Open \/ Fallocate \/ Truncate \/ Close \/ Closed \/ Reuse
    \/ BeginVerify \/ ReadAt \/ EndVerify
    \/ \E t \in Writers : WriteAt(t) \/ TakeDescriptor(t) \/ Pwrite(t) \/ Return(t)

SparseSpec == SparseInit /\ [][SparseNext]_sparseVars

-----------------------------------------------------------------------------
(* Properties *)

SparseTypeOK ==
    /\ fileSize \in 0..(TotalSize + 1)
    /\ cell \in [Cells -> Writers \cup {"old", "zero"}]
    /\ writer \in {"new", "allocating", "open", "closing", "closed", "unusable"}
    /\ strategy \in {"fallocate", "auto", "sparse"}
    /\ fdIs \in {"file", "other", "nothing"}
    /\ writerPc \in [Writers -> {"idle", "writing", "called", "returned", "raised"}]
    /\ offset \in [Writers -> 0..TotalSize] /\ size \in [Writers -> 0..TotalSize]
    /\ \A t \in Writers : written[t] \in 0..size[t]
    /\ raced \subseteq Writers
    /\ verifyPc \in {"idle", "reading", "digested", "raised"}
    /\ Len(digested) =< TotalSize /\ disturbed \in BOOLEAN

(***************************************************************************)
(* A write_at that returned wrote its range and nothing else, however      *)
(* short the single writes were and whoever wrote beside it; only a write  *)
(* that close overtook may have gone to another file that got the number.  *)
(* No write reaches the cells of another thread, and the file is never     *)
(* shorter than its size.  A verification that nobody disturbs digests the *)
(* file, unit by unit, in its order.                                       *)
(***************************************************************************)
WritesLandWhole ==
    /\ \A t \in Writers :
           /\ writerPc[t] = "returned" /\ t \notin raced => \A u \in RangeOf(t) : cell[u] = t
           /\ \A u \in Cells : cell[u] = t => u \in RangeOf(t)
    /\ writer \in {"open", "closing", "closed"} => fileSize >= TotalSize
    /\ ~disturbed => \A i \in DOMAIN digested : digested[i] = cell[i - 1]
=============================================================================
