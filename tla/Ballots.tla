------------------------------ MODULE Ballots ------------------------------
(***************************************************************************)
(* The abstract specification of the vote table: a ballot box per program.  *)
(***************************************************************************)
EXTENDS Tally

VARIABLES box, now

vars == <<box, now>>

Init == box = NoBallots /\ now = 0

Cast(p, a, x) == /\ Counts(box, p, a)
                 /\ box' = Counted(box, p, a, x, now)
                 /\ UNCHANGED now

\* One iteration of vote_expire() that drops a session.
Forget(p) == /\ IsOld(box[p], now)
             /\ box' = [box EXCEPT ![p] = Closed]
             /\ UNCHANGED now

Tick == now' = now + 1 /\ UNCHANGED box

Next == \/ \E p \in Programs : \/ \E a \in Agents, x \in Scores : Cast(p, a, x)
                               \/ Forget(p)
        \/ Tick

Spec == Init /\ [][Next]_vars
=============================================================================
