SPECIFICATION DetectionSpec
CONSTANTS
  Agents = {"worker", "sentient", "enforcer2"}
  Machines = {"m1", "m2", "m3"}
  Protected = {"sentient"}
  Fellows = {"enforcer2"}
  RATE_RING_SZ = 2
  RATE_MAX_MSGS = 1
  RATE_WINDOW_SEC = 0
  MAX_EVIDENCE = 3
  EvidenceWindow = 1
  QUARANTINE_THRESHOLD = 2
  OutlierThreshold = 2
  SCORE_MIN_SAMPLES = 2
  ZNum = 3
  ZDen = 2
  MAX_THREAT_ENTRIES = 1
  MAX_IDENTITY_BINDINGS = 2
  Scores = {0, 1, 3}
  MaxSamples = 4
  MaxBurst = 2
INVARIANTS
  BindingsOneToOne
CONSTRAINT OneAtATime
PROPERTIES
  QuarantinesAreBacked
  OffendersAreCaught
CHECK_DEADLOCK FALSE
