SPECIFICATION Spec
CONSTANTS
  Request = {r1, r2}
  Streams = {}
  Options = {"gzip", "taco-encrypt", "upload", "libp2p"}
  Handler = {h1}
  BatchSize = 2
  MaxChunks = 1
CHECK_DEADLOCK FALSE
INVARIANT StepsFeedNext
