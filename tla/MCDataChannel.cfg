SPECIFICATION FairSpec
CONSTANTS
  Request = {r1, r2, r3}
  Programs = {"bridge", "qr"}
  ClientProtocol <- V1to2
  ServerProtocol <- V1to3
  NoVersion = NoVersion
  MaxLosses = 1
  MaxDisconnects = 2
CHECK_DEADLOCK FALSE
INVARIANTS
  PendingIsOpen
  RefusedOnlyAfterLoss
  NothingWaitsOnDeadChannel
PROPERTIES
  EveryRequestSettles
  ImplementsRemoteCalls
