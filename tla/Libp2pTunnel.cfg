SPECIFICATION FairSpec
CONSTANTS
  Shims = {s1, s2}
  Bridges = {b1}
  Handler = {h1, h2}
  MaxStarts = 2
  MaxStops = 1
  MaxOpen = 1
CHECK_DEADLOCK FALSE
INVARIANTS
  ShutdownLeavesNoTunnel
  ServingHasTunnel
PROPERTY EverythingEnds
