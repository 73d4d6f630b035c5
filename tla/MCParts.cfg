SPECIFICATION Spec
CONSTANTS
  Failed = Failed
  NotYet = NotYet
  GivenUp = GivenUp
  a1 = a1
  a2 = a2
  a3 = a3
  c1 = c1
  c2 = c2
  c3 = c3
  altered = altered
  Retries = 3
  MaxRuns = 2
  MaxFaults = 1
  Garbage = Garbage
  NoFile = NoFile
  Truncated = Truncated
  direct = direct
  inline = inline
  linked = linked
  locked = locked
  forged = forged
  Gateways = 2
  Noise = Noise
  Request = {r1, r2, r3}
  Nobody = Nobody
  Call = {k1, k2}
  Signer = {s1}
  NoSigner = NoSigner
  Null = Null
  Empty = ""
  NotData = {"http"}
  Garbled = Garbled
  rightKey = rightKey
  otherKey = otherKey
  iv = iv
  Server = {q1, q2}
  Client = {q3, q4}
CHECK_DEADLOCK FALSE
INVARIANTS
  RecoveredIsOnDisk
  FirstAnswerWins
  InitializedIsUsable
  NothingIsLost
PROPERTIES
  ReadersKeepPromise
  DownloadsDestroyNothing
  EveryPartEnds
