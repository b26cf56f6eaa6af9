SPECIFICATION TransportFairSpec
CONSTANTS
  Memory = 7
  Header = 1
  Pids = 8
  ResponseTimeout = 0
  KeepAlive = 0
  Slots = 2
  Sizes = {2}
  Budgets = {1, 7}
  Garbage = {3}
  Offers <- FourOffers
  MaxPublishes = 3
  MaxOnTheWay = 2
CONSTRAINT Bounded
CHECK_DEADLOCK FALSE

INVARIANTS
  BufferIsSound
  NothingIsForgotten
  PromptIsClean

PROPERTIES
  ImplementsInbox
  NothingIsStuck
