SPECIFICATION PeerSpec
CONSTANTS
  Names = {alice, bob}
  MaxPeers = 3
  StaleAfter = 1
  MaxClock = 4
SYMMETRY Symmetry

INVARIANTS
  TableInv

PROPERTIES
  FreshPeersStay
