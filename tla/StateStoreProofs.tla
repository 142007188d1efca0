-------------------------- MODULE StateStoreProofs --------------------------
(***************************************************************************)
(* Theorems about StateStore for every number of savers, versions and      *)
(* faults. All but type correctness are about a file system that replaces  *)
(* files and fsyncs directories, which StateStore does not assume.         *)
(***************************************************************************)
EXTENDS StateStore, TLAPS

-----------------------------------------------------------------------------
(* The inductive invariant *)

\* Nothing is ever torn but a backup.
FilesWhole ==
    /\ Torn \notin durable
    /\ primary \in durable
    /\ \A s \in Savers : pc[s] # "inplace"

\* From the first save() that returned on, there is a version to load.
FilesKept ==
    /\ \A s \in Savers : pc[s] = "replaced" => primary \in Versions
    /\ acked # {} => durable \subseteq Versions

Active(s) == Saving(s) \/ pc[s] = "replaced"

\* Savers hold versions of their own, and one that is not saved yet is newer than
\* all that returned before any save() in progress.
VersionsFresh ==
    /\ acked \union dead \subseteq 1..serial
    /\ \A s \in Savers : Active(s) => version[s] \in 1..serial /\ older[s] \subseteq 1..serial
    /\ \A s, t \in Savers : s # t /\ Active(s) /\ Active(t) => version[s] # version[t]
    /\ \A s \in Savers : Saving(s) => version[s] \notin acked \union dead
    /\ \A s, t \in Savers : Saving(s) /\ Active(t) => version[s] \notin older[t]

\* What may come back is not older than a save() that returned, nor will be when
\* one that has changed the primary returns.
NothingDeadComesBack ==
    /\ durable \intersect dead = {}
    /\ \A s \in Savers : pc[s] = "replaced" => primary \notin older[s]

IInv == FilesWhole /\ FilesKept /\ VersionsFresh /\ NothingDeadComesBack

-----------------------------------------------------------------------------
(* Types *)

LEMMA TypeInit == Init => TypeOK
BY StoreAssumption DEF Init, TypeOK, Contents, Versions, PCs, Absent, Torn

\* The state of a saver changes only within its type.
LEMMA StepType ==
    ASSUME NEW s \in Savers, NEW from, NEW to \in PCs,
           pc \in [Savers -> PCs], Step(s, from, to)
    PROVE  pc' \in [Savers -> PCs] /\ pc[s] = from /\ pc'[s] = to
           /\ \A t \in Savers \ {s} : pc'[t] = pc[t]
BY DEF Step

LEMMA TypeStep == TypeOK /\ [Next]_vars => TypeOK'
<1>. SUFFICES ASSUME TypeOK, [Next]_vars PROVE TypeOK'
  OBVIOUS
<1>. USE StoreAssumption DEF TypeOK, fileVars, history
<1>t. Absent \in Contents /\ Torn \in Contents /\ Versions \subseteq Contents /\ Absent # Torn
  BY DEF Contents, Absent, Torn
<1>p. {"idle", "serialized", "written", "copying", "copied", "inplace", "replaced", "deleting"} = PCs
  BY DEF PCs
<1>f. ASSUME Fault PROVE faults' \in 0..MaxFaults
  BY <1>f DEF Fault
<1>1. ASSUME NEW s \in Savers, Serialize(s) PROVE TypeOK'
  <2>1. pc' \in [Savers -> PCs] /\ pc'[s] = "serialized" /\ \A t \in Savers \ {s} : pc'[t] = pc[t]
    BY <1>1, <1>p, StepType DEF Serialize
  <2>2. serial + 1 \in Versions /\ serial' \in 0..MaxSaves
    BY <1>1 DEF Serialize, Versions
  <2>3. version' \in [Savers -> Versions \union {Absent}] /\ version'[s] \in Versions
        /\ \A t \in Savers \ {s} : version'[t] = version[t]
    BY <1>1, <2>2 DEF Serialize
  <2>4. older' \in [Savers -> SUBSET Versions]
    BY <1>1 DEF Serialize
  <2>. QED  BY <1>1, <2>1, <2>2, <2>3, <2>4 DEF Serialize
<1>2. ASSUME NEW s \in Savers, WriteTemp(s) PROVE TypeOK'
  <2>1. pc' \in [Savers -> PCs] /\ pc[s] = "serialized" /\ pc'[s] = "written"
        /\ \A t \in Savers \ {s} : pc'[t] = pc[t]
    BY <1>2, <1>p, StepType DEF WriteTemp
  <2>. QED  BY <1>2, <2>1 DEF WriteTemp
<1>3. ASSUME NEW s \in Savers, SkipCopy(s) PROVE TypeOK'
  <2>1. pc' \in [Savers -> PCs] /\ pc[s] = "written" /\ pc'[s] = "copied"
        /\ \A t \in Savers \ {s} : pc'[t] = pc[t]
    BY <1>3, <1>p, StepType DEF SkipCopy
  <2>2. faults' \in 0..MaxFaults
    BY <1>3, <1>f DEF SkipCopy, DiskError
  <2>. QED  BY <1>3, <2>1, <2>2 DEF SkipCopy
<1>4. ASSUME NEW s \in Savers, StartCopy(s) PROVE TypeOK'
  <2>1. pc' \in [Savers -> PCs] /\ pc[s] = "written" /\ pc'[s] = "copying"
        /\ \A t \in Savers \ {s} : pc'[t] = pc[t]
    BY <1>4, <1>p, StepType DEF StartCopy
  <2>2. copy' \in [Savers -> Contents] /\ copy'[s] # Absent /\ \A t \in Savers \ {s} : copy'[t] = copy[t]
    BY <1>4 DEF StartCopy, BackupWanted
  <2>3. backup' \in Contents /\ durableBak' \subseteq Contents
    BY <1>4, <1>t DEF StartCopy
  <2>. QED  BY <1>4, <2>1, <2>2, <2>3 DEF StartCopy
<1>5. ASSUME NEW s \in Savers, EndCopy(s) PROVE TypeOK'
  <2>1. pc' \in [Savers -> PCs] /\ pc[s] = "copying" /\ pc'[s] = "copied"
        /\ \A t \in Savers \ {s} : pc'[t] = pc[t]
    BY <1>5, <1>p, StepType DEF EndCopy
  <2>2. copy' \in [Savers -> Contents] /\ \A t \in Savers : copy'[t] \in {copy[t], Torn}
    BY <1>5, <1>t DEF EndCopy
  <2>3. backup' \in Contents
    BY <1>5, <1>t DEF EndCopy
  <2>4. durableBak' \subseteq Contents
    BY <1>5, <2>3 DEF EndCopy
  <2>5. faults' \in 0..MaxFaults
    BY <1>5, <1>f DEF EndCopy, DiskError
  <2>. QED  BY <1>5, <1>t, <2>1, <2>2, <2>3, <2>4, <2>5 DEF EndCopy
<1>6. ASSUME NEW s \in Savers, Replace(s) PROVE TypeOK'
  <2>1. pc' \in [Savers -> PCs] /\ pc[s] = "copied" /\ pc'[s] = "replaced"
        /\ \A t \in Savers \ {s} : pc'[t] = pc[t]
    BY <1>6, <1>p, StepType DEF Replace
  <2>2. primary' \in Contents /\ durable' \subseteq Contents
    BY <1>6, <1>t DEF Replace
  <2>. QED  BY <1>6, <2>1, <2>2 DEF Replace
<1>7. ASSUME NEW s \in Savers, ReplaceRefused(s) PROVE TypeOK'
  <2>1. pc' \in [Savers -> PCs] /\ pc[s] = "copied" /\ pc'[s] = "inplace"
        /\ \A t \in Savers \ {s} : pc'[t] = pc[t]
    BY <1>7, <1>p, StepType DEF ReplaceRefused
  <2>2. primary' \in Contents /\ durable' \subseteq Contents
    BY <1>7, <1>t DEF ReplaceRefused
  <2>. QED  BY <1>7, <2>1, <2>2 DEF ReplaceRefused
<1>8. ASSUME NEW s \in Savers, WriteInPlace(s) PROVE TypeOK'
  <2>1. pc' \in [Savers -> PCs] /\ pc[s] = "inplace" /\ pc'[s] = "replaced"
        /\ \A t \in Savers \ {s} : pc'[t] = pc[t]
    BY <1>8, <1>p, StepType DEF WriteInPlace
  <2>2. primary' \in Contents /\ durable' \subseteq Contents
    BY <1>8, <1>t DEF WriteInPlace
  <2>. QED  BY <1>8, <2>1, <2>2 DEF WriteInPlace
<1>9. ASSUME NEW s \in Savers, SyncDir(s) PROVE TypeOK'
  <2>1. pc' \in [Savers -> PCs] /\ pc[s] = "replaced" /\ pc'[s] = "idle"
        /\ \A t \in Savers \ {s} : pc'[t] = pc[t]
    BY <1>9, <1>p, StepType DEF SyncDir
  <2>2. durable' \subseteq Contents /\ acked' \subseteq Versions /\ dead' \subseteq Versions
    BY <1>9, <2>1 DEF SyncDir
  <2>. QED  BY <1>9, <2>1, <2>2 DEF SyncDir
<1>10. ASSUME NEW s \in Savers, Abort(s) PROVE TypeOK'
  <2>1. pc' \in [Savers -> PCs] /\ pc'[s] = "idle" /\ \A t \in Savers \ {s} : pc'[t] = pc[t]
    BY <1>10, <1>p, StepType DEF Abort
  <2>2. faults' \in 0..MaxFaults
    BY <1>10, <1>f DEF Abort, DiskError
  <2>. QED  BY <1>10, <2>1, <2>2 DEF Abort
<1>11. ASSUME NEW s \in Savers, Recover(s) PROVE TypeOK'
  <2>1. pc' \in [Savers -> PCs] /\ pc'[s] = "serialized" /\ \A t \in Savers \ {s} : pc'[t] = pc[t]
    BY <1>11, <1>p, StepType DEF Recover
  <2>2. version' \in [Savers -> Versions \union {Absent}] /\ version'[s] \in Versions
        /\ \A t \in Savers \ {s} : version'[t] = version[t]
    BY <1>11 DEF Recover
  <2>3. older' \in [Savers -> SUBSET Versions]
    BY <1>11 DEF Recover
  <2>. QED  BY <1>11, <2>1, <2>2, <2>3 DEF Recover
<1>12. ASSUME NEW s \in Savers, DeletePrimary(s) PROVE TypeOK'
  <2>1. pc' \in [Savers -> PCs] /\ pc'[s] = "deleting" /\ \A t \in Savers \ {s} : pc'[t] = pc[t]
    BY <1>12, <1>p, StepType DEF DeletePrimary
  <2>2. primary' \in Contents /\ durable' \subseteq Contents /\ faults' \in 0..MaxFaults
    BY <1>12, <1>t, <1>f DEF DeletePrimary, DiskError
  <2>. QED  BY <1>12, <2>1, <2>2 DEF DeletePrimary
<1>13. ASSUME NEW s \in Savers, DeleteBackup(s) PROVE TypeOK'
  <2>1. pc' \in [Savers -> PCs] /\ pc'[s] = "idle" /\ \A t \in Savers \ {s} : pc'[t] = pc[t]
    BY <1>13, <1>p, StepType DEF DeleteBackup
  <2>2. backup' \in Contents /\ durableBak' \subseteq Contents /\ faults' \in 0..MaxFaults
    BY <1>13, <1>t, <1>f DEF DeleteBackup, DiskError
  <2>. QED  BY <1>13, <2>1, <2>2 DEF DeleteBackup
<1>14. ASSUME Restart,
              primary' \in Contents, durable' \subseteq Contents,
              backup' \in Contents, durableBak' \subseteq Contents
       PROVE  TypeOK'
  <2>1. faults' \in 0..MaxFaults
    BY <1>14, <1>f DEF Restart
  <2>2. pc' \in [Savers -> PCs] /\ \A s \in Savers : pc'[s] = "idle"
    BY <1>14, <1>p DEF Restart
  <2>3. UNCHANGED <<version, copy, serial, acked, older, dead>>
    BY <1>14 DEF Restart
  <2>. QED  BY <1>14, <2>1, <2>2, <2>3
<1>15. CASE Kill
  <2>1. Restart /\ UNCHANGED <<primary, durable, backup, durableBak>>
    BY <1>15 DEF Kill
  <2>. QED  BY <1>14, <2>1
<1>16. CASE LosePower
  <2>1. primary' \in Contents /\ durable' \subseteq Contents
    BY <1>16 DEF LosePower
  <2>2. backup' \in Contents /\ durableBak' \subseteq Contents
    BY <1>16 DEF LosePower
  <2>. QED  BY <1>14, <1>16, <2>1, <2>2 DEF LosePower
<1>17. CASE UNCHANGED vars
  BY <1>17 DEF vars
<1>. QED
  BY <1>1, <1>2, <1>3, <1>4, <1>5, <1>6, <1>7, <1>8, <1>9, <1>10, <1>11, <1>12, <1>13,
     <1>15, <1>16, <1>17 DEF Next

\* Every variable keeps its type, whatever fails.
THEOREM TypeCorrect == Spec => []TypeOK
BY TypeInit, TypeStep, PTL DEF Spec

-----------------------------------------------------------------------------
(* A file system that replaces files and fsyncs directories *)

Atomic == ~ReplaceFails /\ ~DirSyncFails

LEMMA InvInit == Init => IInv
<1>. SUFFICES ASSUME Init PROVE IInv
  OBVIOUS
<1>. USE DEF Init
<1>1. FilesWhole
  BY DEF FilesWhole, Absent, Torn
<1>2. FilesKept
  BY DEF FilesKept
<1>3. VersionsFresh
  BY DEF VersionsFresh, Active, Saving
<1>4. NothingDeadComesBack
  BY DEF NothingDeadComesBack
<1>. QED  BY <1>1, <1>2, <1>3, <1>4 DEF IInv

\* Steps of a save() before it changes the primary, and the failures that end it
\* there, change no file but the backup.
LEMMA QuietStep ==
    ASSUME TypeOK, IInv, NEW s \in Savers,
           Saving(s), pc'[s] \in {"written", "copying", "copied", "idle"},
           \A t \in Savers \ {s} : pc'[t] = pc[t],
           UNCHANGED <<primary, durable, version, serial, history>>
    PROVE  IInv'
<1>. UNCHANGED <<acked, older, dead>>
  BY DEF history
<1>1. \A t \in Savers : /\ Saving(t)' => Saving(t)
                        /\ Active(t)' => Active(t)
                        /\ pc'[t] = "replaced" => pc[t] = "replaced"
                        /\ pc'[t] = "inplace" => pc[t] = "inplace"
  BY DEF Saving, Active
<1>2. FilesWhole'
  BY <1>1 DEF IInv, FilesWhole
<1>3. FilesKept'
  BY <1>1 DEF IInv, FilesKept
<1>4. VersionsFresh'
  BY <1>1 DEF IInv, VersionsFresh
<1>5. NothingDeadComesBack'
  BY <1>1 DEF IInv, NothingDeadComesBack
<1>. QED  BY <1>2, <1>3, <1>4, <1>5 DEF IInv

\* A delete() and a crash leave no save() in progress.
LEMMA QuietEnd ==
    ASSUME TypeOK, IInv,
           \A s \in Savers : pc'[s] \in {"idle", "deleting"},
           primary' \in durable', durable' \subseteq durable \union {Absent},
           acked' \subseteq acked, acked' # {} => durable' \subseteq durable,
           UNCHANGED <<serial, dead>>
    PROVE  IInv'
<1>1. \A s \in Savers : ~Active(s)' /\ ~Saving(s)' /\ pc'[s] \notin {"replaced", "inplace"}
  BY DEF Saving, Active
<1>2. FilesWhole'
  BY <1>1 DEF IInv, FilesWhole, Absent, Torn
<1>3. FilesKept'
  BY <1>1 DEF IInv, FilesKept
<1>4. VersionsFresh'
  BY <1>1 DEF IInv, VersionsFresh
<1>5. NothingDeadComesBack'
  BY <1>1 DEF IInv, NothingDeadComesBack, TypeOK, Versions, Absent
<1>. QED  BY <1>2, <1>3, <1>4, <1>5 DEF IInv

LEMMA InvStep ==
    ASSUME Atomic, TypeOK, IInv, [Next]_vars
    PROVE  IInv'
<1>. USE DEF Atomic, TypeOK, fileVars, history
<1>1. ASSUME NEW s \in Savers, Serialize(s) PROVE IInv'
  <2>. USE <1>1 DEF Serialize
  <2>1. pc[s] = "idle" /\ pc'[s] = "serialized" /\ \A t \in Savers \ {s} : pc'[t] = pc[t]
    BY DEF Step
  <2>2. /\ version'[s] = serial + 1 /\ serial' = serial + 1
        /\ older'[s] = acked
        /\ \A t \in Savers \ {s} : version'[t] = version[t] /\ older'[t] = older[t]
    OBVIOUS
  <2>3. \A t \in Savers \ {s} : (Saving(t)' <=> Saving(t)) /\ (Active(t)' <=> Active(t))
    BY <2>1 DEF Saving, Active
  <2>4. FilesWhole'
    BY <2>1 DEF IInv, FilesWhole
  <2>5. FilesKept'
    BY <2>1 DEF IInv, FilesKept
  <2>6. VersionsFresh'
    <3>1. (acked \union dead)' \subseteq 1..serial'
      BY DEF IInv, VersionsFresh
    <3>2. \A t \in Savers : Active(t)' => version'[t] \in 1..serial' /\ older'[t] \subseteq 1..serial'
      BY <2>2, <2>3 DEF IInv, VersionsFresh
    <3>3. \A t, u \in Savers : t # u /\ Active(t)' /\ Active(u)' => version'[t] # version'[u]
      BY <2>2, <2>3 DEF IInv, VersionsFresh
    <3>4. \A t \in Savers : Saving(t)' => version'[t] \notin (acked \union dead)'
      BY <2>2, <2>3 DEF IInv, VersionsFresh
    <3>5. \A t, u \in Savers : Saving(t)' /\ Active(u)' => version'[t] \notin older'[u]
      BY <2>2, <2>3 DEF IInv, VersionsFresh
    <3>. QED  BY <3>1, <3>2, <3>3, <3>4, <3>5 DEF VersionsFresh
  <2>7. NothingDeadComesBack'
    BY <2>1, <2>2 DEF IInv, NothingDeadComesBack
  <2>. QED  BY <2>4, <2>5, <2>6, <2>7 DEF IInv
<1>2. ASSUME NEW s \in Savers, WriteTemp(s) \/ SkipCopy(s) \/ StartCopy(s) \/ EndCopy(s)
      PROVE  IInv'
  <2>1. Saving(s) /\ pc'[s] \in {"written", "copying", "copied"}
        /\ \A t \in Savers \ {s} : pc'[t] = pc[t]
    BY <1>2 DEF WriteTemp, SkipCopy, StartCopy, EndCopy, Step, Saving
  <2>2. UNCHANGED <<primary, durable, version, serial, history>>
    BY <1>2 DEF WriteTemp, SkipCopy, StartCopy, EndCopy
  <2>. QED  BY <2>1, <2>2, QuietStep
<1>3. ASSUME NEW s \in Savers, Replace(s) PROVE IInv'
  <2>. USE <1>3 DEF Replace
  <2>1. pc[s] = "copied" /\ pc'[s] = "replaced" /\ \A t \in Savers \ {s} : pc'[t] = pc[t]
    BY DEF Step
  <2>2. Saving(s) /\ Active(s) /\ version[s] \in Versions
    BY <2>1 DEF Saving, Active
  <2>3. \A t \in Savers : (Active(t)' <=> Active(t)) /\ (Saving(t)' => Saving(t))
    BY <2>1 DEF Saving, Active
  <2>4. FilesWhole'
    BY <2>1, <2>2 DEF IInv, FilesWhole, Versions, Torn
  <2>5. FilesKept'
    BY <2>2 DEF IInv, FilesKept
  <2>6. VersionsFresh'
    BY <2>3 DEF IInv, VersionsFresh
  <2>7. NothingDeadComesBack'
    <3>1. version[s] \notin dead
      BY <2>2 DEF IInv, VersionsFresh
    <3>2. \A t \in Savers : pc'[t] = "replaced" => version[s] \notin older[t]
      BY <2>2, <2>3 DEF IInv, VersionsFresh, Active
    <3>. QED  BY <3>1, <3>2 DEF IInv, NothingDeadComesBack
  <2>. QED  BY <2>4, <2>5, <2>6, <2>7 DEF IInv
<1>4. ASSUME NEW s \in Savers, SyncDir(s) PROVE IInv'
  <2>. USE <1>4 DEF SyncDir
  <2>1. pc[s] = "replaced" /\ pc'[s] = "idle" /\ \A t \in Savers \ {s} : pc'[t] = pc[t]
    BY DEF Step
  <2>2. /\ durable' = {primary} /\ primary \in durable /\ primary \in Versions
        /\ primary' = primary
        /\ acked' = acked \union {version[s]} /\ dead' = dead \union older[s]
    BY <2>1 DEF IInv, FilesWhole, FilesKept
  <2>3. /\ Active(s)
        /\ \A t \in Savers : /\ Active(t)' => t # s /\ Active(t)
                            /\ Saving(t)' => t # s /\ Saving(t) /\ Active(t)
    BY <2>1 DEF Saving, Active
  <2>4. FilesWhole'
    BY <2>1, <2>2 DEF IInv, FilesWhole
  <2>5. FilesKept'
    BY <2>1, <2>2 DEF IInv, FilesKept
  <2>6. VersionsFresh'
    <3>1. (acked \union dead)' \subseteq 1..serial'
      BY <2>2, <2>3 DEF IInv, VersionsFresh
    <3>2. ASSUME NEW t \in Savers, Saving(t)'
          PROVE  version'[t] \notin (acked \union dead)'
      <4>1. t # s /\ Saving(t) /\ Active(t) /\ Active(s)
        BY <2>1, <3>2 DEF Saving, Active
      <4>2. version[t] \notin acked \union dead
        BY <4>1 DEF IInv, VersionsFresh
      <4>3. version[t] # version[s] /\ version[t] \notin older[s]
        BY <4>1 DEF IInv, VersionsFresh
      <4>. QED  BY <2>2, <4>2, <4>3
    <3>3. UNCHANGED <<version, older, serial>>
      OBVIOUS
    <3>4. \A t \in Savers : Active(t)' => version'[t] \in 1..serial' /\ older'[t] \subseteq 1..serial'
      BY <2>1, <3>3 DEF IInv, VersionsFresh, Saving, Active
    <3>5. \A t, u \in Savers : t # u /\ Active(t)' /\ Active(u)' => version'[t] # version'[u]
      BY <2>1, <3>3 DEF IInv, VersionsFresh, Saving, Active
    <3>6. \A t, u \in Savers : Saving(t)' /\ Active(u)' => version'[t] \notin older'[u]
      BY <2>1, <3>3 DEF IInv, VersionsFresh, Saving, Active
    <3>. QED  BY <3>1, <3>2, <3>4, <3>5, <3>6 DEF VersionsFresh
  <2>7. NothingDeadComesBack'
    BY <2>1, <2>2 DEF IInv, NothingDeadComesBack
  <2>. QED  BY <2>4, <2>5, <2>6, <2>7 DEF IInv
<1>5. ASSUME NEW s \in Savers, Abort(s) PROVE IInv'
  <2>1. Saving(s) /\ pc'[s] = "idle" /\ \A t \in Savers \ {s} : pc'[t] = pc[t]
    BY <1>5 DEF Abort, Step, Saving
  <2>2. UNCHANGED <<primary, durable, version, serial, history>>
    BY <1>5 DEF Abort
  <2>. QED  BY <2>1, <2>2, QuietStep
<1>6. ASSUME NEW s \in Savers PROVE ~ReplaceRefused(s) /\ ~WriteInPlace(s) /\ ~Recover(s)
  BY DEF ReplaceRefused, WriteInPlace, Recover, Step, IInv, FilesWhole
<1>7. ASSUME NEW s \in Savers, DeletePrimary(s) PROVE IInv'
  <2>1. \A t \in Savers : pc'[t] \in {"idle", "deleting"}
    BY <1>7 DEF DeletePrimary, AllIdle, Step
  <2>2. /\ primary' \in durable' /\ durable' \subseteq durable \union {Absent}
        /\ acked' = {} /\ UNCHANGED <<serial, dead>>
    BY <1>7 DEF DeletePrimary, IInv, FilesWhole
  <2>. QED  BY <2>1, <2>2, QuietEnd
<1>8. ASSUME NEW s \in Savers, DeleteBackup(s) PROVE IInv'
  <2>1. pc[s] = "deleting" /\ pc'[s] = "idle" /\ \A t \in Savers \ {s} : pc'[t] = pc[t]
    BY <1>8 DEF DeleteBackup, Step
  <2>2. UNCHANGED <<primary, durable, version, serial, acked, older, dead>>
    BY <1>8 DEF DeleteBackup
  <2>3. \A t \in Savers : /\ Saving(t)' => Saving(t)
                          /\ Active(t)' => Active(t)
                          /\ pc'[t] = "replaced" => pc[t] = "replaced"
                          /\ pc'[t] = "inplace" => pc[t] = "inplace"
    BY <2>1 DEF Saving, Active
  <2>4. FilesWhole' /\ FilesKept'
    BY <2>2, <2>3 DEF IInv, FilesWhole, FilesKept
  <2>5. VersionsFresh'
    BY <2>2, <2>3 DEF IInv, VersionsFresh
  <2>6. NothingDeadComesBack'
    BY <2>2, <2>3 DEF IInv, NothingDeadComesBack
  <2>. QED  BY <2>4, <2>5, <2>6 DEF IInv
<1>9. CASE Kill \/ LosePower
  <2>1. \A t \in Savers : pc'[t] = "idle"
    BY <1>9 DEF Kill, LosePower, Restart
  <2>2. primary' \in durable' /\ durable' \subseteq durable
    BY <1>9 DEF Kill, LosePower, IInv, FilesWhole
  <2>3. UNCHANGED <<serial, acked, dead>>
    BY <1>9 DEF Kill, LosePower, Restart
  <2>. QED  BY <2>1, <2>2, <2>3, QuietEnd
<1>10. CASE UNCHANGED vars
  <2>. UNCHANGED <<primary, durable, pc, version, serial, acked, older, dead>>
    BY <1>10 DEF vars
  <2>1. FilesWhole' /\ FilesKept' /\ NothingDeadComesBack'
    BY DEF IInv, FilesWhole, FilesKept, NothingDeadComesBack
  <2>2. VersionsFresh'
    BY DEF IInv, VersionsFresh, Active, Saving
  <2>. QED  BY <2>1, <2>2 DEF IInv
<1>. QED
  BY <1>1, <1>2, <1>3, <1>4, <1>5, <1>6, <1>7, <1>8, <1>9, <1>10 DEF Next

LEMMA InvAlways == Atomic => (Spec => []IInv)
<1>. SUFFICES ASSUME Atomic PROVE Spec => []IInv
  OBVIOUS
<1>1. Init => IInv
  BY InvInit
<1>2. TypeOK /\ IInv /\ [Next]_vars => IInv'
  BY InvStep
<1>. QED  BY <1>1, <1>2, TypeCorrect, PTL DEF Spec

\* Wherever files can be replaced and directories fsynced, the state file is at
\* every instant whole: what a reader, or the next process, finds is a state that
\* was saved.
THEOREM StateNeverTorn == Atomic => (Spec => []NeverTorn)
<1>1. IInv => NeverTorn
  BY DEF IInv, FilesWhole, NeverTorn
<1>. QED  BY <1>1, InvAlways, PTL

\* There too, no crash brings back a state older than one whose save() returned
\* before a later one began.
THEOREM SavesNotRolledBack == Atomic => (Spec => []NotRolledBack)
<1>1. IInv => NotRolledBack
  BY DEF IInv, FilesWhole, NothingDeadComesBack, NotRolledBack
<1>. QED  BY <1>1, InvAlways, PTL

\* There too, from the first save() that returns until delete(), load() succeeds.
THEOREM DownloadsResumable == Atomic => (Spec => []AlwaysResumable)
<1>1. IInv => AlwaysResumable
  BY DEF IInv, FilesWhole, FilesKept, AlwaysResumable, LoadResult
<1>. QED  BY <1>1, InvAlways, PTL

-----------------------------------------------------------------------------
(* Implementation of the register *)

\* Which step of the register a step of the store is, from how one saver moves.
LEMMA PhaseStep ==
    ASSUME pc \in [Savers -> PCs], NEW s \in Savers, NEW to, pc' = [pc EXCEPT ![s] = to]
    PROVE  /\ to \in {"serialized", "written", "copying", "copied", "inplace"}
                => Phase' = [Phase EXCEPT ![s] = "saving"]
           /\ to = "replaced" => Phase' = [Phase EXCEPT ![s] = "saved"]
           /\ to \in {"idle", "deleting"} => Phase' = [Phase EXCEPT ![s] = "idle"]
           /\ Saving(s) => Phase[s] = "saving"
           /\ pc[s] = "replaced" => Phase[s] = "saved"
           /\ pc[s] \in {"idle", "deleting"} => Phase[s] = "idle"
BY DEF Phase, Saving

LEMMA SamePhase ==
    ASSUME NEW s \in Savers, NEW p, Phase[s] = p, Phase' = [Phase EXCEPT ![s] = p]
    PROVE  Phase' = Phase
BY DEF Phase

LEMMA RegisterInit == Init => Register!Init
BY DEF Init, Register!Init, Phase, Saving, Absent, Register!Absent

LEMMA RegisterStep ==
    ASSUME Atomic, TypeOK, IInv, [Next]_vars
    PROVE  [Register!Next]_(Register!vars)
<1>. USE DEF Atomic, fileVars, history
<1>p. pc \in [Savers -> PCs]
  BY DEF TypeOK
<1>1. ASSUME NEW s \in Savers, Serialize(s) PROVE Register!Begin(s)
  <2>1. pc[s] = "idle" /\ pc' = [pc EXCEPT ![s] = "serialized"]
    BY <1>1 DEF Serialize, Step
  <2>2. Phase[s] = "idle" /\ Phase' = [Phase EXCEPT ![s] = "saving"]
    BY <1>p, <2>1, PhaseStep
  <2>. QED  BY <1>1, <2>2 DEF Serialize, Register!Begin
<1>2. ASSUME NEW s \in Savers, WriteTemp(s) \/ SkipCopy(s) \/ StartCopy(s) \/ EndCopy(s)
      PROVE  UNCHANGED Register!vars
  <2>1. PICK to \in {"written", "copying", "copied"} : Saving(s) /\ pc' = [pc EXCEPT ![s] = to]
    BY <1>2 DEF WriteTemp, SkipCopy, StartCopy, EndCopy, Step, Saving
  <2>2. Phase[s] = "saving" /\ Phase' = [Phase EXCEPT ![s] = "saving"]
    BY <1>p, <2>1, PhaseStep
  <2>3. UNCHANGED Phase
    BY <2>2, SamePhase
  <2>. QED  BY <1>2, <2>3 DEF WriteTemp, SkipCopy, StartCopy, EndCopy, Register!vars
<1>3. ASSUME NEW s \in Savers, Replace(s) PROVE Register!Take(s)
  <2>1. Saving(s) /\ pc' = [pc EXCEPT ![s] = "replaced"]
    BY <1>3 DEF Replace, Step, Saving
  <2>2. Phase[s] = "saving" /\ Phase' = [Phase EXCEPT ![s] = "saved"]
    BY <1>p, <2>1, PhaseStep
  <2>. QED  BY <1>3, <2>2 DEF Replace, Register!Take
<1>4. ASSUME NEW s \in Savers, SyncDir(s) PROVE Register!End(s)
  <2>1. pc[s] = "replaced" /\ pc' = [pc EXCEPT ![s] = "idle"]
    BY <1>4 DEF SyncDir, Step
  <2>2. Phase[s] = "saved" /\ Phase' = [Phase EXCEPT ![s] = "idle"]
    BY <1>p, <2>1, PhaseStep
  <2>. QED  BY <1>4, <2>2 DEF SyncDir, Register!End
<1>5. ASSUME NEW s \in Savers, Abort(s) PROVE Register!Fail(s)
  <2>1. Saving(s) /\ pc' = [pc EXCEPT ![s] = "idle"]
    BY <1>5 DEF Abort, Step, Saving
  <2>2. Phase[s] = "saving" /\ Phase' = [Phase EXCEPT ![s] = "idle"]
    BY <1>p, <2>1, PhaseStep
  <2>. QED  BY <1>5, <2>2 DEF Abort, Register!Fail
<1>6. ASSUME NEW s \in Savers PROVE ~ReplaceRefused(s) /\ ~WriteInPlace(s) /\ ~Recover(s)
  BY DEF ReplaceRefused, WriteInPlace, Recover, Step, IInv, FilesWhole
<1>7. ASSUME NEW s \in Savers, DeletePrimary(s) PROVE Register!Erase \/ UNCHANGED Register!vars
  <2>1. AllIdle /\ pc' = [pc EXCEPT ![s] = "deleting"]
    BY <1>7 DEF DeletePrimary, Step
  <2>2. \A t \in Savers : Phase[t] = "idle"
    BY <2>1 DEF AllIdle, Phase, Saving
  <2>3. Phase' = [Phase EXCEPT ![s] = "idle"]
    BY <1>p, <2>1, PhaseStep
  <2>4. UNCHANGED Phase
    BY <2>2, <2>3, SamePhase
  <2>. QED  BY <1>7, <2>2, <2>4
           DEF DeletePrimary, Register!Erase, Register!vars, Absent, Register!Absent
<1>8. ASSUME NEW s \in Savers, DeleteBackup(s) PROVE UNCHANGED Register!vars
  <2>1. pc[s] = "deleting" /\ pc' = [pc EXCEPT ![s] = "idle"]
    BY <1>8 DEF DeleteBackup, Step
  <2>2. Phase[s] = "idle" /\ Phase' = [Phase EXCEPT ![s] = "idle"]
    BY <1>p, <2>1, PhaseStep
  <2>3. UNCHANGED Phase
    BY <2>2, SamePhase
  <2>. QED  BY <1>8, <2>3 DEF DeleteBackup, Register!vars
<1>9. CASE Kill \/ LosePower
  <2>1. Phase' = [s \in Savers |-> "idle"]
    BY <1>9 DEF Kill, LosePower, Restart, Phase, Saving
  <2>2. Register!Crash
    BY <1>9, <2>1 DEF Kill, LosePower, Restart, Register!Crash
  <2>. QED  BY <2>2 DEF Register!Next
<1>10. CASE UNCHANGED vars
  BY <1>10 DEF vars, Register!vars, Phase, Saving
<1>. QED
  BY <1>1, <1>2, <1>3, <1>4, <1>5, <1>6, <1>7, <1>8, <1>9, <1>10 DEF Next, Register!Next

\* There too, save(), delete() and the crashes between their system calls are the
\* writes, the erasure and the crashes of a durable register: DownloadEngine may
\* take a save for one step.
THEOREM SaveIsOneWrite == Atomic => (Spec => ImplementsRegister)
<1>. SUFFICES ASSUME Atomic PROVE Spec => ImplementsRegister
  OBVIOUS
<1>1. Init => Register!Init
  BY RegisterInit
<1>2. TypeOK /\ IInv /\ [Next]_vars => [Register!Next]_(Register!vars)
  BY RegisterStep
<1>3. Spec => []IInv
  BY InvAlways
<1>. QED  BY <1>1, <1>2, <1>3, TypeCorrect, PTL DEF Spec, ImplementsRegister, Register!Spec

-----------------------------------------------------------------------------
(* A file system that may refuse to replace files *)

\* One saver that may have to write in place, with a backup of what it overwrites,
\* in a process that may be killed.
InPlace == BackupEnabled /\ ReplaceFails /\ ~PowerLoss

\* As long as nothing has failed, a state that was saved is in the primary or, while
\* that is written in place, in the backup made just before.
CopyKept ==
    faults = 0 /\ acked # {} =>
        \A s \in Savers :
            /\ pc[s] # "inplace" => primary \in Versions
            /\ pc[s] = "copying" => copy[s] \in Versions
            /\ pc[s] \in {"copied", "inplace"} => backup \in Versions

InPlaceInv ==
    /\ CopyKept
    /\ ResumableInPlace
    /\ \A s \in Savers : /\ pc[s] = "replaced" => primary \in Versions
                         /\ pc[s] = "deleting" => acked = {}

LEMMA InPlaceInit == Init => InPlaceInv
BY DEF Init, InPlaceInv, CopyKept, ResumableInPlace, AlwaysResumable

LEMMA InPlaceStep ==
    ASSUME InPlace, TypeOK, InPlaceInv, [Next]_vars
    PROVE  InPlaceInv'
<1>. USE StoreAssumption DEF InPlace, fileVars, history
<1>one. \A s, t \in Savers : s = t
  OBVIOUS
<1>ty. faults \in Nat /\ pc \in [Savers -> PCs]
  BY DEF TypeOK
\* What the saver's step leaves to show, by where it leads.
<1>to. ASSUME NEW s \in Savers, NEW from, NEW to, Step(s, from, to),
              faults' >= faults, acked' # {} => acked # {} \/ to = "idle",
              faults' = 0 /\ acked' # {} /\ to # "inplace" => primary' \in Versions,
              faults' = 0 /\ acked' # {} /\ to = "copying" => copy'[s] \in Versions,
              faults' = 0 /\ acked' # {} /\ to \in {"copied", "inplace"} => backup' \in Versions,
              faults' =< 1 /\ acked' # {} /\ to = "idle" => LoadResult' \in Versions,
              to = "replaced" => primary' \in Versions,
              to = "deleting" => acked' = {}
       PROVE  InPlaceInv'
  <2>1. pc'[s] = to /\ \A t \in Savers : t = s
    BY <1>one, <1>ty, <1>to DEF Step
  <2>. QED  BY <1>to, <2>1 DEF InPlaceInv, CopyKept, ResumableInPlace, AlwaysResumable, AllIdle
<1>v. Absent \notin Versions /\ Torn \notin Versions /\ faults \in Nat
  BY <1>ty DEF Absent, Torn, Versions
<1>d. DiskError => faults' = faults + 1
  BY DEF DiskError, Fault
<1>1. ASSUME NEW s \in Savers, Serialize(s) PROVE InPlaceInv'
  <2>1. Step(s, "idle", "serialized") /\ UNCHANGED <<primary, faults, acked>>
    BY <1>1 DEF Serialize
  <2>2. faults = 0 /\ acked # {} => primary \in Versions
    BY <2>1 DEF InPlaceInv, CopyKept, Step
  <2>. QED  BY <2>1, <2>2, <1>ty, <1>to
<1>2. ASSUME NEW s \in Savers, WriteTemp(s) PROVE InPlaceInv'
  <2>1. Step(s, "serialized", "written") /\ UNCHANGED <<primary, faults, acked>>
    BY <1>2 DEF WriteTemp
  <2>2. faults = 0 /\ acked # {} => primary \in Versions
    BY <2>1 DEF InPlaceInv, CopyKept, Step
  <2>. QED  BY <2>1, <2>2, <1>ty, <1>to
<1>3. ASSUME NEW s \in Savers, SkipCopy(s) PROVE InPlaceInv'
  <2>1. /\ Step(s, "written", "copied") /\ UNCHANGED <<primary, acked>>
        /\ (faults' = faults /\ primary = Absent) \/ faults' = faults + 1
    BY <1>3, <1>d DEF SkipCopy, BackupWanted
  <2>2. faults = 0 /\ acked # {} => primary \in Versions
    BY <2>1 DEF InPlaceInv, CopyKept, Step
  <2>. QED  BY <2>1, <2>2, <1>v, <1>to
<1>4. ASSUME NEW s \in Savers, StartCopy(s) PROVE InPlaceInv'
  <2>1. /\ Step(s, "written", "copying") /\ UNCHANGED <<primary, faults, acked>>
        /\ copy'[s] = primary
    BY <1>4 DEF StartCopy, TypeOK
  <2>2. faults = 0 /\ acked # {} => primary \in Versions
    BY <2>1 DEF InPlaceInv, CopyKept, Step
  <2>. QED  BY <2>1, <2>2, <1>ty, <1>to
<1>5. ASSUME NEW s \in Savers, EndCopy(s) PROVE InPlaceInv'
  <2>1. Copying(s) = {}
    BY <1>one DEF Copying
  <2>2. /\ Step(s, "copying", "copied") /\ UNCHANGED <<primary, acked>>
        /\ (faults' = faults /\ backup' = copy[s]) \/ faults' = faults + 1
    BY <1>5, <1>d, <2>1 DEF EndCopy
  <2>3. faults = 0 /\ acked # {} => primary \in Versions /\ copy[s] \in Versions
    BY <2>2 DEF InPlaceInv, CopyKept, Step
  <2>. QED  BY <2>2, <2>3, <1>v, <1>to
<1>6. ASSUME NEW s \in Savers, Replace(s) \/ WriteInPlace(s) PROVE InPlaceInv'
  <2>1. PICK from \in {"copied", "inplace"} :
            Step(s, from, "replaced") /\ primary' = version[s] /\ UNCHANGED <<faults, acked>>
    BY <1>6 DEF Replace, WriteInPlace
  <2>2. version[s] \in Versions
    BY <2>1 DEF TypeOK, Step
  <2>. QED  BY <2>1, <2>2, <1>ty, <1>to
<1>7. ASSUME NEW s \in Savers, ReplaceRefused(s) PROVE InPlaceInv'
  <2>1. Step(s, "copied", "inplace") /\ UNCHANGED <<backup, faults, acked>>
    BY <1>7 DEF ReplaceRefused
  <2>2. faults = 0 /\ acked # {} => backup \in Versions
    BY <2>1 DEF InPlaceInv, CopyKept, Step
  <2>. QED  BY <2>1, <2>2, <1>ty, <1>to
<1>8. ASSUME NEW s \in Savers, SyncDir(s) PROVE InPlaceInv'
  <2>1. Step(s, "replaced", "idle") /\ UNCHANGED <<primary, backup, faults>>
    BY <1>8 DEF SyncDir
  <2>2. primary \in Versions
    BY <2>1 DEF InPlaceInv, Step
  <2>3. LoadResult' \in Versions
    BY <2>1, <2>2 DEF LoadResult
  <2>. QED  BY <2>1, <2>2, <2>3, <1>ty, <1>to
<1>9. ASSUME NEW s \in Savers, Abort(s) PROVE InPlaceInv'
  <2>1. PICK from \in {"serialized", "inplace", "copied"} : Step(s, from, "idle")
    BY <1>9 DEF Abort
  <2>2. UNCHANGED <<primary, backup, acked>> /\ faults' = faults + 1
    BY <1>9, <1>d DEF Abort
  <2>3. faults = 0 /\ acked # {} => primary \in Versions \/ backup \in Versions
    BY <2>1 DEF InPlaceInv, CopyKept, Step
  <2>4. faults' =< 1 /\ acked' # {} => LoadResult' \in Versions
    BY <2>2, <2>3, <1>v DEF LoadResult
  <2>. QED  BY <2>1, <2>2, <2>4, <1>v, <1>to
<1>10. ASSUME NEW s \in Savers, Recover(s) PROVE InPlaceInv'
  <2>1. Step(s, "idle", "serialized") /\ UNCHANGED <<primary, faults, acked>>
    BY <1>10 DEF Recover
  <2>2. faults = 0 /\ acked # {} => primary \in Versions
    BY <2>1 DEF InPlaceInv, CopyKept, Step
  <2>. QED  BY <2>1, <2>2, <1>ty, <1>to
<1>11. ASSUME NEW s \in Savers, DeletePrimary(s) PROVE InPlaceInv'
  <2>1. Step(s, "idle", "deleting") /\ acked' = {} /\ faults' >= faults
    BY <1>11, <1>d, <1>v DEF DeletePrimary
  <2>. QED  BY <2>1, <1>to
<1>12. ASSUME NEW s \in Savers, DeleteBackup(s) PROVE InPlaceInv'
  <2>1. Step(s, "deleting", "idle") /\ UNCHANGED acked /\ faults' >= faults
    BY <1>12, <1>d, <1>v DEF DeleteBackup
  <2>2. acked = {}
    BY <2>1 DEF InPlaceInv, Step
  <2>. QED  BY <2>1, <2>2, <1>to
<1>13. CASE Kill
  <2>1. /\ \A s \in Savers : pc'[s] = "idle"
        /\ UNCHANGED <<primary, backup, acked>> /\ faults' = faults + 1
    BY <1>13 DEF Kill, Restart, Fault
  <2>2. ASSUME faults' =< 1, acked # {} PROVE primary \in Versions \/ backup \in Versions
    <3>1. faults = 0
      BY <1>v, <2>1, <2>2
    <3>2. CASE Savers = {}
      <4>1. LoadResult \in Versions
        BY <2>2, <3>1, <3>2 DEF InPlaceInv, ResumableInPlace, AlwaysResumable, AllIdle
      <4>. QED  BY <4>1 DEF LoadResult
    <3>3. CASE Savers # {}
      BY <2>2, <3>1, <3>3 DEF InPlaceInv, CopyKept
    <3>. QED  BY <3>2, <3>3
  <2>3. faults' =< 1 /\ acked # {} => LoadResult' \in Versions
    BY <2>1, <2>2 DEF LoadResult
  <2>. QED  BY <1>v, <2>1, <2>3 DEF InPlaceInv, CopyKept, ResumableInPlace, AlwaysResumable
<1>14. ~LosePower
  BY DEF LosePower
<1>15. CASE UNCHANGED vars
  BY <1>15 DEF vars, InPlaceInv, CopyKept, ResumableInPlace, AlwaysResumable, AllIdle, LoadResult
<1>. QED
  BY <1>1, <1>2, <1>3, <1>4, <1>5, <1>6, <1>7, <1>8, <1>9, <1>10, <1>11, <1>12, <1>13,
     <1>14, <1>15 DEF Next

\* Where os.replace may be refused and save() overwrites the primary, the backup
\* carries one failure or kill at any point of a save: load() succeeds. It does not
\* carry two, as the run store_recovery shows.
THEOREM ResumableAfterOneFault == InPlace => (Spec => []ResumableInPlace)
<1>. SUFFICES ASSUME InPlace PROVE Spec => []ResumableInPlace
  OBVIOUS
<1>1. Init => InPlaceInv
  BY InPlaceInit
<1>2. TypeOK /\ InPlaceInv /\ [Next]_vars => InPlaceInv'
  BY InPlaceStep
<1>3. InPlaceInv => ResumableInPlace
  BY DEF InPlaceInv
<1>. QED  BY <1>1, <1>2, <1>3, TypeCorrect, PTL DEF Spec
=============================================================================
