SPECIFICATION CustodianSpec
CONSTANTS
  anObject = anObject
  aManifest = aManifest
  aShard = aShard
  aSharedShard = aSharedShard
  Singles <- MCSingles
  Shards <- MCShards
  Manifests <- MCManifests
  Parts <- MCParts
  Slots = 3
  MaxLog = 3
  MaxCrashes = 1
CHECK_DEADLOCK FALSE

INVARIANTS
  RegistryOnDisk
  OnRecord
  ApprovedOnce
