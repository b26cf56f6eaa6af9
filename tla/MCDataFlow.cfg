SPECIFICATION Spec
CONSTANTS
  Names = {n1, n2}
  Hashes = {h1, h2}
  DataName = n1
  Finds <- MCFinds
  NoHash = NoHash
  MaxQuarantine = 3
  MaxDataNames = 1
  MaxRecords = 5
  MaxMail = 1
SYMMETRY Symmetry
CONSTRAINT Bounded
INVARIANTS
  PoolOnRecord
  ComputedWasApproved
PROPERTIES
  RejectedIsNotUsed
CHECK_DEADLOCK FALSE
