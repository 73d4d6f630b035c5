SPECIFICATION FairSpec
CONSTANTS
  Job <- ThreeJobs
  MaxRetries = 1
  Settings <- BothSettings
  MaxRestarts = 1
  NoFlush = NoFlush
  NoCid = NoCid
  NoFile = NoFile
  Truncated = Truncated
INVARIANTS
  RegistryTellsTruth
  CapturedOnce
  CompletedMeansRecorded
  ChainIsRecorded
PROPERTIES
  CarRemovedOnlyWhenRecorded
  OnlyPruningForgets
  EveryBatchSettles
