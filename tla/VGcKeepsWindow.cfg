SPECIFICATION Spec
CONSTANTS
  Node = {n1}
  BadKey = {}
  BadCommit = {}
  Round = {1, 15}
  RoundMod = 16
  Threshold = 2
  GcWindow = 1
  Goroutine = {g1, g2}
  Nil = Nil
  MaxRequests = 3
  MaxCommits = 1
PROPERTY
  GcKeepsWindow
CHECK_DEADLOCK FALSE
