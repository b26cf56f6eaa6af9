SPECIFICATION Spec
CONSTANTS
  Entries = {join, submit, approve}
  Join = join
  Hashes <- MCHashes
  NoHash <- MCNoHash
  Digest <- MCDigest
  Torn = torn
  MaxRecords = 5
CHECK_DEADLOCK FALSE

INVARIANTS
  ChainInv
  AckedAreKept
  RewriteIsFound

PROPERTIES
  DamageIsPermanent
