-------------------------------- MODULE Ring --------------------------------
(***************************************************************************)
(* The array that the architect's program catalog and the emissary's        *)
(* results are kept in: it grows to its capacity, and then every new entry  *)
(* overwrites the slot after the one written last.                          *)
(*                                                                         *)
(* The code keeps a counter and reduces it modulo the capacity at each use; *)
(* next is the reduced counter, as an index from 1.                         *)
(***************************************************************************)
EXTENDS Naturals, Sequences

CONSTANT Capacity

ASSUME RingAssumption == Capacity \in Nat \ {0}

EmptyRing == [entries |-> <<>>, next |-> 1]

IsFullRing(ring) == Len(ring.entries) = Capacity

SlotAfter(i) == IF i = Capacity THEN 1 ELSE i + 1

SlotBefore(i) == IF i = 1 THEN Capacity ELSE i - 1

\* A ring that is full and appends: nothing is ever overwritten.
BugRingGrows(ring, e) == [ring EXCEPT !.entries = Append(@, e)]

RingAdd(ring, e) ==
  IF IsFullRing(ring)
  THEN [entries |-> [ring.entries EXCEPT ![ring.next] = e],
        next |-> SlotAfter(ring.next)]
  ELSE [ring EXCEPT !.entries = Append(@, e)]

\* The entry written last, as the code looks for it.
Newest(ring) == IF IsFullRing(ring) THEN ring.entries[SlotBefore(ring.next)]
                ELSE ring.entries[Len(ring.entries)]

\* The entries from the oldest to the newest: the i-th of n slots from k on.
Around(k, n, i) == IF k + i - 1 <= n THEN k + i - 1 ELSE k + i - 1 - n

SlotOfAge(ring, i) == Around(ring.next, Len(ring.entries), i)

InOrder(ring) == [i \in 1..Len(ring.entries) |->
                    ring.entries[SlotOfAge(ring, i)]]

\* The last Capacity of some entries and one more.
Latest(entries, e) == IF Len(entries) < Capacity THEN Append(entries, e)
                      ELSE Append(Tail(entries), e)

Rings(Elements) ==
  {ring \in [entries : Seq(Elements), next : 1..Capacity] :
     /\ Len(ring.entries) <= Capacity
     /\ ~IsFullRing(ring) => ring.next = 1}
=============================================================================
