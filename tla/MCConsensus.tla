---------------------------- MODULE MCConsensus ----------------------------
(***************************************************************************)
(* The scope of the run.  Heartbeats and enforcements change the peer       *)
(* tables only, which nothing else reads to any effect; they are explored   *)
(* as long as nothing was executed, and the rounds without them.            *)
(***************************************************************************)
EXTENDS Consensus

NoEnforcement == \A x \in Agents : /\ peers[x] = <<>>
                                   /\ \A m \in pending[x] : m.kind # "ENFORCE"

Failures == restarts + Cardinality(cut)

InScope == /\ now + Failures <= 1
           /\ \/ NoEnforcement
              \/ executed = {} /\ now + Failures = 0
=============================================================================
