----------------------------- MODULE FileAssembly -----------------------------
(***************************************************************************)
(* FileAssembler.assemble: staged chunk files are concatenated into a      *)
(* temporary file of the process, which replaces the destination once its  *)
(* hash is right; only then are the chunk files removed.  Processes may    *)
(* assemble the same state at the same time, fail at any operation, and    *)
(* die between any two.                                                    *)
(***************************************************************************)
EXTENDS Integers, Sequences, FiniteSets

CONSTANTS
    Assemblers,    \* processes, each with a temporary file of its own
    StagedChunks,  \* number of chunks
    MaxDeaths      \* bound: processes that die

ASSUME AssemblyAssumption ==
    /\ IsFiniteSet(Assemblers)
    /\ StagedChunks \in Nat \ {0}
    /\ MaxDeaths \in Nat

VARIABLES
    expects,       \* an expected whole-file hash is known and verified
    cleanup,       \* cleanup_chunks
    staged,        \* the chunk files as they were staged (history)
    files,         \* chunk_<index>.part: "absent", "short", "good" or "bad"
    output,        \* dest_path: <<>> when absent, else its contents
    asmPc,         \* "idle", "copying", "hashed", "cleaning", "done" or "failed"
    temp,          \* <dest>.assembling.<pid>, what was copied so far
    cleaned,       \* chunk files the process is past removing
    deaths

asmVars == <<expects, cleanup, staged, files, output, asmPc, temp, cleaned, deaths>>

Staged == 1..StagedChunks
Whole(s) == Len(s) = StagedChunks
AllGood(s) == \A i \in 1..Len(s) : s[i] = "good"

AsmInit ==
    /\ expects \in BOOLEAN /\ cleanup \in BOOLEAN
    /\ staged \in [Staged -> {"absent", "short", "good", "bad"}]
    /\ files = staged
    /\ output = <<>>
    /\ asmPc = [p \in Assemblers |-> "idle"]
    /\ temp = [p \in Assemblers |-> <<>>]
    /\ cleaned = [p \in Assemblers |-> 0]
    /\ deaths = 0

\* Every chunk has a file, or the assembly fails before it writes anything.
Begin(p) ==
    /\ asmPc[p] = "idle"
    /\ asmPc' = [asmPc EXCEPT ![p] =
                     IF \E c \in Staged : files[c] = "absent" THEN "failed" ELSE "copying"]
    /\ UNCHANGED <<expects, cleanup, staged, files, output, temp, cleaned, deaths>>

\* An error on the way removes the temporary file.
Failed(p) ==
    /\ asmPc' = [asmPc EXCEPT ![p] = "failed"]
    /\ temp' = [temp EXCEPT ![p] = <<>>]

\* The next chunk is copied, unless it is gone by now or not of its size.
Copy(p) ==
    LET c == Len(temp[p]) + 1 IN
    /\ asmPc[p] = "copying" /\ ~Whole(temp[p])
    /\ \/ /\ files[c] \in {"good", "bad"}
          /\ temp' = [temp EXCEPT ![p] = Append(@, files[c])]
          /\ UNCHANGED asmPc
       \/ /\ files[c] \in {"absent", "short"}
          /\ Failed(p)
    /\ UNCHANGED <<expects, cleanup, staged, files, output, cleaned, deaths>>

\* Any operation on the files may fail until the destination is replaced.
StorageFails(p) ==
    /\ asmPc[p] \in {"copying", "hashed"}
    /\ Failed(p)
    /\ UNCHANGED <<expects, cleanup, staged, files, output, cleaned, deaths>>

\* A hash that is computed and not compared.
VerifyNothing(p) ==
    /\ asmPc[p] = "copying" /\ Whole(temp[p])
    /\ asmPc' = [asmPc EXCEPT ![p] = "hashed"]
    /\ UNCHANGED <<expects, cleanup, staged, files, output, temp, cleaned, deaths>>

\* The file is flushed, and its hash is the expected one.
Verify(p) ==
    /\ asmPc[p] = "copying" /\ Whole(temp[p])
    /\ \/ /\ expects => AllGood(temp[p])
          /\ asmPc' = [asmPc EXCEPT ![p] = "hashed"]
          /\ UNCHANGED temp
       \/ /\ expects /\ ~AllGood(temp[p])
          /\ Failed(p)
    /\ UNCHANGED <<expects, cleanup, staged, files, output, cleaned, deaths>>

\* os.replace.
Replace(p) ==
    /\ asmPc[p] = "hashed"
    /\ output' = temp[p]
    /\ temp' = [temp EXCEPT ![p] = <<>>]
    /\ asmPc' = [asmPc EXCEPT ![p] = IF cleanup THEN "cleaning" ELSE "done"]
    /\ UNCHANGED <<expects, cleanup, staged, files, cleaned, deaths>>

\* A chunk file is removed, or left where that fails.
Clean(p) ==
    /\ asmPc[p] = "cleaning" /\ cleaned[p] < StagedChunks
    /\ cleaned' = [cleaned EXCEPT ![p] = @ + 1]
    /\ \/ files' = [files EXCEPT ![cleaned[p] + 1] = "absent"]
       \/ files' = files
    /\ UNCHANGED <<expects, cleanup, staged, output, asmPc, temp, deaths>>

Cleaned(p) ==
    /\ asmPc[p] = "cleaning" /\ cleaned[p] = StagedChunks
    /\ asmPc' = [asmPc EXCEPT ![p] = "done"]
    /\ UNCHANGED <<expects, cleanup, staged, files, output, temp, cleaned, deaths>>

\* The process dies; a process of another pid assembles again, and the
\* temporary file of the dead one stays where nobody looks at it.
Die(p) ==
    /\ asmPc[p] \in {"copying", "hashed", "cleaning"}
    /\ deaths < MaxDeaths
    /\ deaths' = deaths + 1
    /\ asmPc' = [asmPc EXCEPT ![p] = "idle"]
    /\ temp' = [temp EXCEPT ![p] = <<>>]
    /\ cleaned' = [cleaned EXCEPT ![p] = 0]
    /\ UNCHANGED <<expects, cleanup, staged, files, output>>

AsmNext ==
    \E p \in Assemblers :
        \/ Begin(p) \/ Copy(p) \/ StorageFails(p) \/ Verify(p) \/ Replace(p)
        \/ Clean(p) \/ Cleaned(p) \/ Die(p)

AsmSpec == AsmInit /\ [][AsmNext]_asmVars

-----------------------------------------------------------------------------
(* Properties *)

AsmTypeOK ==
    /\ expects \in BOOLEAN /\ cleanup \in BOOLEAN
    /\ staged \in [Staged -> {"absent", "short", "good", "bad"}]
    /\ files \in [Staged -> {"absent", "short", "good", "bad"}]
    /\ output \in Seq({"good", "bad"}) /\ Len(output) =< StagedChunks
    /\ asmPc \in [Assemblers -> {"idle", "copying", "hashed", "cleaning", "done", "failed"}]
    /\ temp \in [Assemblers -> Seq({"good", "bad"})]
    /\ \A p \in Assemblers : Len(temp[p]) =< StagedChunks
    /\ cleaned \in [Assemblers -> 0..StagedChunks]
    /\ deaths \in 0..MaxDeaths

(***************************************************************************)
(* Whoever assembles, fails or dies: the destination is absent or the      *)
(* whole file, the expected one if a hash is known; and every chunk that   *)
(* was staged is still in its file or in the destination.                  *)
(***************************************************************************)
AssemblyIsAtomic ==
    /\ output # <<>> => Whole(output) /\ (expects => AllGood(output))
    /\ \A c \in Staged : files[c] = staged[c] \/ (output # <<>> /\ output[c] = staged[c])
=============================================================================
