------------------------------- MODULE Inbox -------------------------------
(***************************************************************************)
(* What an agent sees of its transport: a bounded first-in first-out queue  *)
(* into which messages come one or several at a time, in their order, and   *)
(* which may drop some that it has no room for.                             *)
(***************************************************************************)
EXTENDS Naturals, Sequences

CONSTANTS Messages, Capacity

VARIABLE fifo

Init == fifo = <<>>

Arrive(n) == /\ Len(fifo) + n <= Capacity
             /\ Len(fifo') = Len(fifo) + n
             /\ \A i \in 1..Len(fifo) : fifo'[i] = fifo[i]
             /\ \A i \in 1..n : fifo'[Len(fifo) + i] \in Messages

Take == /\ fifo # <<>>
        /\ fifo' = Tail(fifo)

Next == (\E n \in 1..Capacity : Arrive(n)) \/ Take

Spec == Init /\ [][Next]_fifo
=============================================================================
