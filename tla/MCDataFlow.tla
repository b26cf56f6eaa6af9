----------------------------- MODULE MCDataFlow -----------------------------
(***************************************************************************)
(* Two hashes and two names, room for one name of data less than there are, *)
(* and a worker that may find the sentient.  Runs end when the disk is full. *)
(***************************************************************************)
EXTENDS DataFlow, TLC

MCFinds == BOOLEAN
Symmetry == Permutations(Hashes)
Bounded == ~unlogged
=============================================================================
