------------------------------ MODULE WorkQueue ------------------------------
(***************************************************************************)
(* What a work-stealing deque promises: a sequence of tasks whose owner    *)
(* appends and takes at one end, and from which thieves take at the other, *)
(* every operation at one instant.  Each task is delivered once.           *)
(***************************************************************************)
EXTENDS Naturals, Sequences

CONSTANT Tasks   \* the tasks that may be pushed

VARIABLES
    queued,   \* the tasks in the deque, oldest first
    popped,   \* what the owner got, in order
    stolen    \* what the thieves got, in order

vars == <<queued, popped, stolen>>

Init == queued = <<>> /\ popped = <<>> /\ stolen = <<>>

Push(t) ==
    /\ queued' = Append(queued, t)
    /\ UNCHANGED <<popped, stolen>>

\* The newest task goes to the owner.
Pop ==
    /\ queued # <<>>
    /\ popped' = Append(popped, queued[Len(queued)])
    /\ queued' = SubSeq(queued, 1, Len(queued) - 1)
    /\ UNCHANGED stolen

\* The oldest task goes to a thief.
Steal ==
    /\ queued # <<>>
    /\ stolen' = Append(stolen, Head(queued))
    /\ queued' = Tail(queued)
    /\ UNCHANGED popped

Next == (\E t \in Tasks : Push(t)) \/ Pop \/ Steal

Spec == Init /\ [][Next]_vars
=============================================================================
