-------------------------------- MODULE Channel --------------------------------
(****************************************************************************)
(* What queues of messages promise their readers, one to a queue, whatever  *)
(* runs the two sides.  The messages of a queue are numbered as they are    *)
(* sent; its reader takes 1, 2, 3, ..., unless it returns the last one;     *)
(* while it waits nothing is pending, and the next message is for it.       *)
(****************************************************************************)
EXTENDS Naturals, Sequences

CONSTANT Queues

VARIABLES
    pending,    \* the messages sent and not taken
    taken,      \* the number of the last message taken
    awaited     \* whether the reader waits

channelVars == <<pending, taken, awaited>>

Init ==
    /\ pending = [q \in Queues |-> <<>>]
    /\ taken = [q \in Queues |-> 0]
    /\ awaited = [q \in Queues |-> FALSE]

Send(q) ==
    /\ ~awaited[q]
    /\ pending'[q] = Append(pending[q], taken[q] + Len(pending[q]) + 1)
    /\ taken'[q] = taken[q]
    /\ awaited'[q] = FALSE

HandOver(q) ==
    /\ awaited[q]
    /\ pending'[q] = pending[q]
    /\ taken'[q] = taken[q] + 1
    /\ awaited'[q] = FALSE

Take(q) ==
    /\ ~awaited[q]
    /\ pending[q] # <<>>
    /\ Head(pending[q]) = taken[q] + 1
    /\ pending'[q] = Tail(pending[q])
    /\ taken'[q] = taken[q] + 1
    /\ awaited'[q] = FALSE

Return(q) ==
    /\ ~awaited[q]
    /\ taken[q] > 0
    /\ pending'[q] = <<taken[q]>> \o pending[q]
    /\ taken'[q] = taken[q] - 1
    /\ awaited'[q] = FALSE

Await(q) ==
    /\ ~awaited[q]
    /\ pending[q] = <<>>
    /\ pending'[q] = <<>>
    /\ taken'[q] = taken[q]
    /\ awaited'[q] = TRUE

\* The reader is woken by something else, or killed.
GiveUp(q) ==
    /\ awaited[q]
    /\ pending'[q] = pending[q]
    /\ taken'[q] = taken[q]
    /\ awaited'[q] = FALSE

Rest(q) ==
    /\ pending'[q] = pending[q]
    /\ taken'[q] = taken[q]
    /\ awaited'[q] = awaited[q]

Step(q) ==
    \/ Send(q) \/ HandOver(q) \/ Take(q) \/ Return(q) \/ Await(q) \/ GiveUp(q)
    \/ Rest(q)

\* A thread that waits for several queues changes them all in one step.
Next == \A q \in Queues : Step(q)

Spec == Init /\ [][Next]_channelVars
=============================================================================
