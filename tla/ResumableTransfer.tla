------------------------- MODULE ResumableTransfer -------------------------
(***************************************************************************)
(* What the download engine promises its caller, with nothing of how.      *)
(*                                                                         *)
(* A transfer collects the parts of a file over any number of sessions.    *)
(* Within a session parts are only ever gained.  Between sessions some may *)
(* be lost again (a crash, a state file older than the bytes), but none is *)
(* invented: a session starts with at most what the one before it held.    *)
(* The file is delivered from a session that holds every part.             *)
(***************************************************************************)
CONSTANT Parts

VARIABLES
    phase,   \* "idle", "active" or "delivered"
    have     \* the parts the transfer can rely on

Init == phase = "idle" /\ have = {}

\* A session starts, fresh or from what is left of an earlier one.
Begin ==
    /\ phase # "active"
    /\ phase' = "active"
    /\ have' \subseteq have

\* A part has been fetched.
Gain ==
    /\ phase = "active"
    /\ \E p \in Parts \ have : have' = have \cup {p}
    /\ UNCHANGED phase

\* The session ends early: stopped, failed, or crashed.
Stop ==
    /\ phase = "active"
    /\ phase' = "idle"
    /\ have' \subseteq have

\* The session ends with the whole file.
Deliver ==
    /\ phase = "active"
    /\ have = Parts
    /\ phase' = "delivered"
    /\ UNCHANGED have

\* What is kept between sessions is lost, or is no longer needed.
Lose ==
    /\ phase # "active"
    /\ have' \subseteq have
    /\ UNCHANGED phase

Next == Begin \/ Gain \/ Stop \/ Deliver \/ Lose

Spec == Init /\ [][Next]_<<phase, have>>
=============================================================================
