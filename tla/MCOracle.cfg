SPECIFICATION OracleSpec
CONSTANTS
  poisoned = poisoned
  steady = steady
  wavering = wavering
  broken = broken
  second = second
  third = third
  Voters <- MCVoters
  Programs <- MCPrograms
  MayScore <- MCMayScore
  NaN = NaN
  PlusInf = PlusInf
  MinusInf = MinusInf
  Number = Number
  Exact = 2
  Quorum = 2
  TwiceZSquared = 3
  Cooldown = 1
  SpecInterval = 2
  MaxSessions = 2
  MaxVotes = 3
  MaxStats = 3
  MaxTime = 2
CHECK_DEADLOCK FALSE

INVARIANTS
  SessionsAreSound
  NaNStaysInItsSession

PROPERTIES
  OldestEvicted
  CooldownHolds
