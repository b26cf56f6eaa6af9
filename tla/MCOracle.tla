------------------------------ MODULE MCOracle ------------------------------
(***************************************************************************)
(* Three programs for two sessions.  On the first, one voter's score is no   *)
(* number or infinite, and another's so low that it may cancel an infinite   *)
(* one; on the second one score may differ from the rest; the third, with    *)
(* one voter, only takes a session.                                          *)
(***************************************************************************)
EXTENDS Oracle

CONSTANTS poisoned, steady, wavering, broken, second, third

MCVoters == {poisoned, steady, wavering}
MCPrograms == {broken, second, third}

MCMayScore == [v \in MCVoters |-> [p \in MCPrograms |->
  CASE p = third /\ v # steady -> {}
    [] p = broken /\ v = poisoned -> {NaN, PlusInf}
    [] p = broken /\ v = wavering -> {-3}
    [] p = broken /\ v = steady -> {}
    [] p = second /\ v = wavering -> {0, 1}
    [] OTHER -> {0}]]
=============================================================================
