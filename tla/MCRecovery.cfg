SPECIFICATION Spec
CONSTANTS
  Job <- ThreeJobs
  MaxRetries = 0
  Settings <- OneBatch
  MaxRestarts = 1
  NoFlush = NoFlush
  NoCid = NoCid
  NoFile = NoFile
  Truncated = Truncated
INVARIANT RecoveryRecords
