---------------------------- MODULE MCPeerTable ----------------------------
(***************************************************************************)
(* Two names, three slots: a name that is swept and comes back twice fills  *)
(* the table, which is the interesting case.                                *)
(***************************************************************************)
EXTENDS PeerTable, TLC

Symmetry == Permutations(Names)
=============================================================================
