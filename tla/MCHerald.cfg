SPECIFICATION FairSpec
CONSTANTS
  worker = worker
  oracle = oracle
  longName = longName
  longerName = longerName
  Names = {worker, oracle, longName, longerName}
  Prefix <- MCPrefix
  MaxCreds = 2
  TTL = 1
  RestartDelay = 1
  MaxRestarts = 2
CHECK_DEADLOCK FALSE

INVARIANTS
  CredentialsAgree

PROPERTIES
  ExpiredIsRevoked
  BrokerComesBack
