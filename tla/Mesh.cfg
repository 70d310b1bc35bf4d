SPECIFICATION MeshSpec
CONSTANTS
  Node = {n1}
  BadKey = {}
  BadCommit = {}
  Round = {1, 2}
  RoundMod = 16
  Threshold = 2
  GcWindow = 0
  Goroutine = {g1, g2}
  Nil = Nil
  MaxRequests = 3
  MaxCommits = 1
  Subscriber = {m1}
  Stream = {s1, s2}
  Caller = {agg1, agg2, fin}
  Locked = {agg1, agg2}
  Cap = 1
  MaxMessages = 3
SYMMETRY Symmetry
INVARIANTS
  NoStrandedRound
  CommitteeOfItsRound
  RegisteredOpen
  LockedSendSafe
  DeliveryOrder
CHECK_DEADLOCK FALSE
