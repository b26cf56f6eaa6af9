---------------------------- MODULE MCCustodian ----------------------------
(***************************************************************************)
(* One single object, and a manifest of two shards, of which one may also   *)
(* come in as a single object; three slots, so that the pool fills up.      *)
(***************************************************************************)
EXTENDS Custodian

CONSTANTS anObject, aManifest, aShard, aSharedShard

MCSingles == {anObject, aSharedShard}
MCShards == {aShard, aSharedShard}
MCManifests == {aManifest}
MCParts == [x \in MCManifests |-> <<aShard, aSharedShard>>]
=============================================================================
