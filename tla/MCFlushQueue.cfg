SPECIFICATION FairSpec
CONSTANTS
  Job = {j1, j2, j3}
  MaxRetries = 2
  NoFlush = NoFlush
INVARIANTS
  InOrder
  NothingStranded
  AttemptsCounted
PROPERTIES
  DrainedMeansSettled
  EveryJobSettles
  ImplementsSerialQueue
