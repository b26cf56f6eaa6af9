---------------------------- MODULE MCVoteTable ----------------------------
(***************************************************************************)
(* Three programs for two sessions and three agents for a quorum of two: a  *)
(* full table, a late voter and a late duplicate all occur.  The clock runs *)
(* past MaxAge, so a session is expired and opened again.                   *)
(***************************************************************************)
EXTENDS VoteTable, TLC

Symmetry == Permutations(Agents) \cup Permutations(Programs)
=============================================================================
