---------------------------- MODULE MCTransferParts ----------------------------
(***************************************************************************)
(* The parts of a transfer that share no state in the code, checked in one *)
(* run: the part that runs is chosen at the start and the others stand     *)
(* still, so the states of the run are the sum of theirs.  One part is the *)
(* state store on a file system where a file may be impossible to replace. *)
(***************************************************************************)
EXTENDS ChaseLevDeque, WorkStealing, RateLimiter, ChunkFetch, MerkleTree,
        FileAssembly, SparseFile, Telemetry, ProxyTunnel, NetworkMetrics

VARIABLES
    part,
    \* of the state store
    primary, durable, backup, durableBak, pc, version, copy, serial, faults, acked, older, dead

storeVars == <<primary, durable, backup, durableBak, pc, version, copy, serial, faults,
               acked, older, dead>>

\* One saver whose state file is written in place where os.replace fails.
InPlaceStore == INSTANCE StateStore WITH
    Savers <- {"saver"}, MaxSaves <- 4, MaxFaults <- 2, BackupEnabled <- TRUE,
    ReplaceFails <- TRUE, DirSyncFails <- TRUE, DiskErrors <- TRUE, PowerLoss <- FALSE

\* Parts that stand still do so in one state.
AtRest ==
    /\ part # "stealing" => range = [w \in Pool |->
           [start |-> 0, next |-> 0, end |-> IF w = CHOOSE v \in Pool : TRUE THEN FileSize ELSE 0]]
    /\ part # "fetch" => manifest = "none"
    /\ part # "merkle" => chunks = CHOOSE list \in Lists : TRUE
    /\ part # "assembly" => expects = TRUE /\ cleanup = TRUE
                            /\ staged = [c \in Staged |-> "good"]
    /\ part # "sparse" => fileSize = 0 /\ strategy = "auto"
    /\ part # "tunnel" => proxyType = "http" /\ credentials = FALSE

Init ==
    /\ part \in {"deque", "stealing", "rate", "fetch", "merkle", "assembly", "sparse",
                 "telemetry", "tunnel", "network", "store"}
    /\ AtRest
    /\ DequeInit /\ StealInit /\ RateInit /\ FetchInit /\ MerkleInit /\ AsmInit
    /\ SparseInit /\ TelemetryInit /\ TunnelInit /\ NetworkInit
    /\ InPlaceStore!Init

Next ==
    /\ UNCHANGED part
    /\ \/ part = "deque" /\ DequeNext
       \/ part # "deque" /\ UNCHANGED dequeVars
    /\ \/ part = "stealing" /\ StealNext
       \/ part # "stealing" /\ UNCHANGED stealVars
    /\ \/ part = "rate" /\ RateNext
       \/ part # "rate" /\ UNCHANGED rateVars
    /\ \/ part = "fetch" /\ FetchNext
       \/ part # "fetch" /\ UNCHANGED fetchVars
    /\ \/ part = "merkle" /\ MerkleNext
       \/ part # "merkle" /\ UNCHANGED merkleVars
    /\ \/ part = "assembly" /\ AsmNext
       \/ part # "assembly" /\ UNCHANGED asmVars
    /\ \/ part = "sparse" /\ SparseNext
       \/ part # "sparse" /\ UNCHANGED sparseVars
    /\ \/ part = "telemetry" /\ TelemetryNext
       \/ part # "telemetry" /\ UNCHANGED telemetryVars
    /\ \/ part = "tunnel" /\ TunnelNext
       \/ part # "tunnel" /\ UNCHANGED tunnelVars
    /\ \/ part = "network" /\ NetworkNext
       \/ part # "network" /\ UNCHANGED networkVars
    /\ \/ part = "store" /\ InPlaceStore!Next
       \/ part # "store" /\ UNCHANGED storeVars

Spec == Init /\ [][Next]_<<part, dequeVars, stealVars, rateVars, fetchVars, merkleVars,
                           asmVars, sparseVars, telemetryVars, tunnelVars, networkVars,
                           storeVars>>

\* Every part's variables have their types.
PartsTypeOK ==
    /\ DequeTypeOK /\ StealTypeOK /\ RateTypeOK /\ FetchTypeOK
    /\ AsmTypeOK /\ SparseTypeOK

(***************************************************************************)
(* Where files cannot be replaced and save() overwrites the primary, the   *)
(* backup made just before carries a process killed at any point of a      *)
(* save, once: load() finds some version that was saved.                   *)
(***************************************************************************)
ResumableInPlace == InPlaceStore!ResumableInPlace
=============================================================================
