SPECIFICATION FairSpec
CONSTANTS
  Bridge = {b1, b2, b3}
  NoBridge = NoBridge
  Applying = {b1, b2}
  MaxAttempts = 2
  MaxFaults = 2
CHECK_DEADLOCK FALSE
INVARIANTS
  OnePairingAtATime
  PeerIsLatest
PROPERTY PairingEnds
