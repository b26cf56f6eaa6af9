------------------------------- MODULE Recent -------------------------------
(***************************************************************************)
(* What a bounded record of the past promises: the last Capacity entries,   *)
(* oldest first, and nothing else.                                          *)
(***************************************************************************)
EXTENDS Naturals, Sequences

CONSTANTS Elements, Capacity

VARIABLE recent

Latest(entries, e) == IF Len(entries) < Capacity THEN Append(entries, e)
                      ELSE Append(Tail(entries), e)

Init == recent = <<>>

Add(e) == recent' = Latest(recent, e)

Next == \E e \in Elements : Add(e)

Spec == Init /\ [][Next]_recent
=============================================================================
