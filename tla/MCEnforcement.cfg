SPECIFICATION FairSpec
CONSTANTS
  Enforcers = {e1, e2}
  Operated = {e1}
  Targets = {n, s}
  Protected = {s}
  Durations = {0, 1}
  Duration = 1
  MaxThreats = 1
  Approved = {n}
  Announcers = {n}
  MaxPeers = 1
  StaleAfter = 0
  Redelivery = TRUE
  QueueSize = 1
  MaxTime = 1
  MaxFailures = 1

INVARIANTS
  GossipIsSound

PROPERTIES
  QuarantineSpreads
  QuarantineEnds
