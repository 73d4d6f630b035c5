SPECIFICATION Spec
CONSTANTS
  Bridge = {b1}
  NoBridge = NoBridge
  Applying = {}
  MaxAttempts = 2
  MaxFaults = 0
CHECK_DEADLOCK FALSE
INVARIANT FailsOnlyByFault
