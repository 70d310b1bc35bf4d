SPECIFICATION MeshLiveSpec
CONSTANTS
  Subscriber = {n1}
  Stream = {1, 2}
  Caller = {agg, fin}
  Locked = {agg}
  Cap = 1
  Nil = Nil
  MaxMessages = 2
  Node = {m1, m2}
  BadKey = {m2}
  BadCommit = {m1}
  Round = {1}
  RoundMod = 16
  Threshold = 2
  GcWindow = 0
  Goroutine = {1, 2}
  MaxRequests = 2
  MaxCommits = 2
PROPERTIES
  RoundCleared
  BufferedIsDelivered
  LockReleased
  ExitCompletes
CHECK_DEADLOCK FALSE
