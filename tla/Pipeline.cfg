SPECIFICATION FairSpec
CONSTANTS
  Request = {r1, r2, s1}
  Streams = {s1}
  Options = {"gzip", "taco-encrypt", "upload", "libp2p"}
  Handler = {h1, h2}
  BatchSize = 2
  MaxChunks = 1
CHECK_DEADLOCK FALSE
INVARIANTS
  AnsweredIsCaptured
  WithheldOnlyByShutdown
  ExitKeepsBatches
  RepliesWellFormed
PROPERTY EveryPredictionAnswered
