-------------------------- MODULE DurableRegister --------------------------
(***************************************************************************)
(* What a state file promises to the download engine: a register that      *)
(* several threads write, each write taking effect in one step between its *)
(* start and its end, and that keeps through a loss of power the value of  *)
(* the last write that ended, or of one that was still going on.           *)
(***************************************************************************)
EXTENDS Naturals

CONSTANT Savers  \* the threads that save

Absent == 0      \* nothing has been written; the n-th write is of version n

VARIABLES
    value,       \* what the file holds
    durable,     \* what it may hold after a loss of power
    phase,       \* where each saver is
    version,     \* the version each saver is writing
    serial       \* versions so far

vars == <<value, durable, phase, version, serial>>

Init ==
    /\ value = Absent
    /\ durable = {Absent}
    /\ phase = [s \in Savers |-> "idle"]
    /\ version = [s \in Savers |-> Absent]
    /\ serial = 0

Begin(s) ==
    /\ phase[s] = "idle"
    /\ serial' = serial + 1
    /\ phase' = [phase EXCEPT ![s] = "saving"]
    /\ version' = [version EXCEPT ![s] = serial + 1]
    /\ UNCHANGED <<value, durable>>

\* The write takes effect.
Take(s) ==
    /\ phase[s] = "saving"
    /\ value' = version[s]
    /\ durable' = durable \union {version[s]}
    /\ phase' = [phase EXCEPT ![s] = "saved"]
    /\ UNCHANGED <<version, serial>>

\* The write ends: nothing older survives it.
End(s) ==
    /\ phase[s] = "saved"
    /\ durable' = {value}
    /\ phase' = [phase EXCEPT ![s] = "idle"]
    /\ UNCHANGED <<value, version, serial>>

\* The write fails, and changes nothing.
Fail(s) ==
    /\ phase[s] = "saving"
    /\ phase' = [phase EXCEPT ![s] = "idle"]
    /\ UNCHANGED <<value, durable, version, serial>>

Erase ==
    /\ \A s \in Savers : phase[s] = "idle"
    /\ value' = Absent
    /\ durable' = durable \union {Absent}
    /\ UNCHANGED <<phase, version, serial>>

\* The process ends with its writes where they are; if the power is lost, so
\* may be what had not ended.
Crash ==
    /\ phase' = [s \in Savers |-> "idle"]
    /\ \/ UNCHANGED <<value, durable>>
       \/ /\ value' \in durable
          /\ durable' = {value'}
    /\ UNCHANGED <<version, serial>>

Next ==
    \/ \E s \in Savers : Begin(s) \/ Take(s) \/ End(s) \/ Fail(s)
    \/ Erase
    \/ Crash

Spec == Init /\ [][Next]_vars
=============================================================================
