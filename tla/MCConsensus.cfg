SPECIFICATION FairSpec

CONSTANTS
  Workers = {w1, w2}
  Sentients = {sentient1}
  Clients = {arch}
  NamedSentients = {sentient1}
  Programs = {p}
  Scores = {s, t}
  HasKey = TRUE
  RequireSigned = TRUE
  Announcers = {w1}
  Targets = {w1}
  Quorum = 2
  MaxSessions = 1
  MaxVoters = 3
  MaxAge = 0
  MaxPeers = 1
  StaleAfter = 0
  Redelivery = TRUE
  QueueSize = 2
  MaxTime = 1
  MaxFailures = 1

CONSTRAINT InScope

INVARIANTS
  BackedInv

PROPERTIES
  SessionCommitsOnce
  EnoughIsCommitted
