SPECIFICATION Spec
CONSTANTS
  Agents = {a1, a2, a3}
  Programs = {p1, p2, p3}
  Scores = {0, 1}
  Quorum = 2
  MaxSessions = 2
  MaxVoters = 3
  MaxAge = 1
  MaxTime = 3
SYMMETRY Symmetry

INVARIANTS
  VotesSound
  RepliesHold

PROPERTIES
  ImplementsBallots
