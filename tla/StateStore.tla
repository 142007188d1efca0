----------------------------- MODULE StateStore -----------------------------
(***************************************************************************)
(* The state file of one download (state_manager.py), as the threads of    *)
(* the engine save it, load it and delete it, on a disk that can fail and  *)
(* in a process that can be killed or lose its power between two steps.    *)
(*                                                                         *)
(* save() is one action per system call that changes what a crash leaves.  *)
(* What is saved is a version number: the n-th DownloadState serialized.   *)
(* Temporary files have unique names and no one reads them back, so they   *)
(* appear only as the version their writer holds.                          *)
(***************************************************************************)
EXTENDS Integers

CONSTANTS
    Savers,         \* threads that call save(): the event loop, a pool thread
    MaxSaves,       \* bound: versions of the state ever serialized
    MaxFaults,      \* bound: crashes and failed writes
    BackupEnabled,  \* StateManager(backup_enabled=...)
    ReplaceFails,   \* os.replace may raise OSError: another device, a file held open
    DirSyncFails,   \* fsync of a directory may fail: unsupported on Windows
    DiskErrors,     \* writes may fail: a full disk
    PowerLoss       \* crashes may lose what was not fsynced, not only kill the process

\* Writing in place is modelled for one saver only: two would interleave bytes.
ASSUME StoreAssumption ==
    /\ MaxSaves \in Nat
    /\ MaxFaults \in Nat
    /\ {BackupEnabled, ReplaceFails, DirSyncFails, DiskErrors, PowerLoss} \subseteq BOOLEAN
    /\ ReplaceFails => \A s, t \in Savers : s = t

Absent == 0                       \* no such file
Torn == -1                        \* a file that is empty or does not parse
Versions == 1..MaxSaves
Contents == Versions \union {Absent, Torn}

VARIABLES
    primary,     \* the .state file
    durable,     \* what it may hold after a loss of power
    backup,      \* the .state.bak file
    durableBak,  \* what that may hold after a loss of power
    pc,          \* what each saver's save() does next
    version,     \* the version each saver holds as json_data
    copy,        \* what a saver in shutil.copy2 has read of the primary
    serial,      \* versions serialized so far
    faults,      \* crashes and failed writes so far
    \* History, for the properties only.
    acked,       \* versions whose save() returned since the last delete()
    older,       \* for each saver, acked when its save() began
    dead         \* versions older than a save() that returned

fileVars == <<primary, durable, backup, durableBak>>
history == <<acked, older, dead>>
vars == <<fileVars, pc, version, copy, serial, faults, history>>

PCs == {"idle", "serialized", "written", "copying", "copied", "inplace",
        "replaced", "deleting"}

AllIdle == \A s \in Savers : pc[s] = "idle"

Step(s, from, to) ==
    /\ pc[s] = from
    /\ pc' = [pc EXCEPT ![s] = to]

Fault == faults < MaxFaults /\ faults' = faults + 1
DiskError == DiskErrors /\ Fault

Init ==
    /\ primary = Absent
    /\ durable = {Absent}
    /\ backup = Absent
    /\ durableBak = {Absent}
    /\ pc = [s \in Savers |-> "idle"]
    /\ version = [s \in Savers |-> Absent]
    /\ copy = [s \in Savers |-> Absent]
    /\ serial = 0
    /\ faults = 0
    /\ acked = {}
    /\ older = [s \in Savers |-> {}]
    /\ dead = {}

-----------------------------------------------------------------------------
(* save() *)

\* save() begins: the caller's state becomes JSON.
Serialize(s) ==
    /\ Step(s, "idle", "serialized")
    /\ \A t \in Savers : pc[t] # "deleting"
    /\ serial < MaxSaves
    /\ serial' = serial + 1
    /\ version' = [version EXCEPT ![s] = serial + 1]
    /\ older' = [older EXCEPT ![s] = acked]
    /\ UNCHANGED <<fileVars, copy, faults, acked, dead>>

\* The temporary file is written and fsynced.
WriteTemp(s) ==
    /\ Step(s, "serialized", "written")
    /\ UNCHANGED <<fileVars, version, copy, serial, faults, history>>

\* The backup is made whether or not there is a primary.
BackupAnyway == BackupEnabled

\* The test for a primary is inverted, so that no backup of one is ever made.
BackupInverted == BackupEnabled /\ primary = Absent

BackupWanted == BackupEnabled /\ primary # Absent

\* There is nothing to copy, or the backup cannot be opened.
SkipCopy(s) ==
    /\ Step(s, "written", "copied")
    /\ \/ ~BackupWanted /\ UNCHANGED faults
       \/ DiskError
    /\ UNCHANGED <<fileVars, version, copy, serial, history>>

\* copy2 opens the primary and truncates the backup.
StartCopy(s) ==
    /\ Step(s, "written", "copying")
    /\ BackupWanted
    /\ copy' = [copy EXCEPT ![s] = primary]
    /\ backup' = Torn
    /\ durableBak' = durableBak \union {Torn}
    /\ UNCHANGED <<primary, durable, version, serial, faults, history>>

Copying(s) == {t \in Savers \ {s} : pc[t] = "copying"}

\* copy2 ends, or fails with part of the backup written: save() goes on. Another
\* copy2 into the same file that is still going on tears what this one wrote, and
\* may be torn by it in turn.
EndCopy(s) ==
    /\ Step(s, "copying", "copied")
    /\ \/ backup' = copy[s] /\ UNCHANGED faults
       \/ backup' = Torn /\ Copying(s) # {} /\ UNCHANGED faults
       \/ backup' = Torn /\ DiskError
    /\ copy' \in {copy, [t \in Savers |-> IF t \in Copying(s) THEN Torn ELSE copy[t]]}
    /\ durableBak' = durableBak \union {backup'}
    /\ UNCHANGED <<primary, durable, version, serial, history>>

\* The primary is removed before the rename, and a loss of power may find neither.
ReplaceByRemoving(s) ==
    /\ Step(s, "copied", "replaced")
    /\ primary' = version[s]
    /\ durable' = durable \union {version[s], Absent}
    /\ UNCHANGED <<backup, durableBak, version, copy, serial, faults, history>>

\* The temporary file is named after the process, so that threads share it.
ReplaceBySharedTemp(s) ==
    /\ Step(s, "copied", "replaced")
    /\ primary' \in {version[t] : t \in {u \in Savers : pc[u] # "idle"}}
    /\ durable' = durable \union {primary'}
    /\ UNCHANGED <<backup, durableBak, version, copy, serial, faults, history>>

\* The temporary file is not fsynced before it is renamed.
ReplaceUnsynced(s) ==
    /\ Step(s, "copied", "replaced")
    /\ primary' = version[s]
    /\ durable' = durable \union {version[s], Torn}
    /\ UNCHANGED <<backup, durableBak, version, copy, serial, faults, history>>

\* os.replace: the temporary file, which is on disk, takes the primary's name.
Replace(s) ==
    /\ Step(s, "copied", "replaced")
    /\ primary' = version[s]
    /\ durable' = durable \union {version[s]}
    /\ UNCHANGED <<backup, durableBak, version, copy, serial, faults, history>>

\* os.replace raises: the primary is opened for writing, which truncates it.
ReplaceRefused(s) ==
    /\ ReplaceFails
    /\ Step(s, "copied", "inplace")
    /\ primary' = Torn
    /\ durable' = durable \union {Torn}
    /\ UNCHANGED <<backup, durableBak, version, copy, serial, faults, history>>

WriteInPlace(s) ==
    /\ Step(s, "inplace", "replaced")
    /\ primary' = version[s]
    /\ durable' = (durable \ {Torn}) \union {version[s]}
    /\ UNCHANGED <<backup, durableBak, version, copy, serial, faults, history>>

\* save() returns without the fsync of the directory.
SyncNothing(s) ==
    /\ Step(s, "replaced", "idle")
    /\ acked' = acked \union {version[s]}
    /\ dead' = dead \union older[s]
    /\ UNCHANGED <<fileVars, version, copy, serial, faults, older>>

\* The directory is fsynced, or cannot be and that is logged: save() returns.
SyncDir(s) ==
    /\ Step(s, "replaced", "idle")
    /\ \/ durable' = {primary}
       \/ DirSyncFails /\ UNCHANGED durable
    /\ acked' = acked \union {version[s]}
    /\ dead' = dead \union older[s]
    /\ UNCHANGED <<primary, backup, durableBak, version, copy, serial, faults, older>>

\* save() raises StorageError: the temporary file, or the primary in place, could
\* not be written. The primary stays as it is.
Abort(s) ==
    /\ DiskError
    /\ \/ Step(s, "serialized", "idle")
       \/ Step(s, "inplace", "idle")
       \/ ReplaceFails /\ Step(s, "copied", "idle")
    /\ UNCHANGED <<fileVars, version, copy, serial, history>>

-----------------------------------------------------------------------------
(* load() and delete() *)

\* What load() returns: a version, Absent for StateNotFoundError, Torn for
\* StateCorruptedError.
LoadResult ==
    IF primary \in Versions THEN primary
    ELSE IF backup \in Versions THEN backup
    ELSE primary

\* load() restores a corrupt primary from the backup with a save() of its own.
Recover(s) ==
    /\ AllIdle
    /\ primary = Torn
    /\ backup \in Versions
    /\ Step(s, "idle", "serialized")
    /\ version' = [version EXCEPT ![s] = backup]
    /\ older' = [older EXCEPT ![s] = {}]
    /\ UNCHANGED <<fileVars, copy, serial, faults, acked, dead>>

\* delete(), called when the download is complete: first the primary, which an
\* error leaves in place, then the backup.
DeletePrimary(s) ==
    /\ AllIdle
    /\ Step(s, "idle", "deleting")
    /\ acked' = {}
    /\ \/ primary' = Absent /\ durable' = durable \union {Absent} /\ UNCHANGED faults
       \/ DiskError /\ UNCHANGED <<primary, durable>>
    /\ UNCHANGED <<backup, durableBak, version, copy, serial, older, dead>>

DeleteBackup(s) ==
    /\ Step(s, "deleting", "idle")
    /\ \/ backup' = Absent /\ durableBak' = durableBak \union {Absent} /\ UNCHANGED faults
       \/ DiskError /\ UNCHANGED <<backup, durableBak>>
    /\ UNCHANGED <<primary, durable, version, copy, serial, history>>

-----------------------------------------------------------------------------
(* Crashes *)

Restart ==
    /\ Fault
    /\ pc' = [s \in Savers |-> "idle"]
    /\ UNCHANGED <<version, copy, serial, history>>

\* The process is killed: what it wrote is in the page cache.
Kill ==
    /\ Restart
    /\ UNCHANGED fileVars

\* The power fails: each file is one that the disk may hold. The backup is never
\* fsynced, so that may be any it was since the last loss.
LosePower ==
    /\ PowerLoss
    /\ Restart
    /\ primary' \in durable
    /\ durable' = {primary'}
    /\ backup' \in durableBak
    /\ durableBak' = {backup'}

Next ==
    \/ \E s \in Savers :
        \/ Serialize(s) \/ WriteTemp(s) \/ SkipCopy(s) \/ StartCopy(s) \/ EndCopy(s)
        \/ Replace(s) \/ SyncDir(s) \/ Abort(s) \/ DeletePrimary(s) \/ DeleteBackup(s)
    \* Only a file that is written in place is ever found torn.
    \/ \E s \in {t \in Savers : ReplaceFails} :
        \/ ReplaceRefused(s) \/ WriteInPlace(s) \/ Recover(s)
    \/ Kill
    \/ LosePower

Spec == Init /\ [][Next]_vars

-----------------------------------------------------------------------------
(* Properties *)

TypeOK ==
    /\ {primary, backup} \subseteq Contents
    /\ durable \subseteq Contents
    /\ durableBak \subseteq Contents
    /\ pc \in [Savers -> PCs]
    /\ version \in [Savers -> Versions \union {Absent}]
    /\ copy \in [Savers -> Contents]
    /\ \A s \in Savers :
        /\ pc[s] \notin {"idle", "deleting"} => version[s] \in Versions
        /\ pc[s] = "copying" => copy[s] # Absent
    /\ serial \in 0..MaxSaves
    /\ faults \in 0..MaxFaults
    /\ acked \subseteq Versions
    /\ older \in [Savers -> SUBSET Versions]
    /\ dead \subseteq Versions

\* ARCHITECTURE.md: the state file is always the old complete version or the new
\* complete version, whenever the process is stopped, and whoever else is saving.
NeverTorn == primary # Torn

\* Once save() has returned, no crash brings back a version that an earlier save()
\* had returned before it began: two threads that save at once may finish in either
\* order, but nothing is rolled back past both.
NotRolledBack == primary \notin dead

\* From the first save() that returns until delete(), a load() between two saves, as
\* after any crash, finds a state, in the primary or in the backup: an interrupted
\* download can be resumed.
AlwaysResumable == AllIdle /\ acked # {} => LoadResult \in Versions

\* Where files cannot be replaced, save() overwrites the primary, and the backup made
\* just before carries one failure or kill at any point of a save: load() finds some
\* version that was saved.
ResumableInPlace == faults =< 1 => AlwaysResumable

\* The save() of s has not changed the primary yet.
Saving(s) == pc[s] \in {"serialized", "written", "copying", "copied", "inplace"}

Phase == [s \in Savers |-> IF Saving(s) THEN "saving"
                           ELSE IF pc[s] = "replaced" THEN "saved" ELSE "idle"]

\* A save() of several system calls is one write of a register that survives
\* crashes: what DownloadEngine assumes when it saves the state in one step.
Register == INSTANCE DurableRegister WITH value <- primary, phase <- Phase
ImplementsRegister == Register!Spec
=============================================================================
