SPECIFICATION Spec
CONSTANTS
  Node = {n1}
  BadKey = {}
  BadCommit = {}
  Round = {1, 2}
  RoundMod = 16
  Threshold = 2
  GcWindow = 0
  Goroutine = {g1, g2}
  Nil = Nil
  MaxRequests = 3
  MaxCommits = 1
SYMMETRY Symmetry
INVARIANT
  CommitteeHasMembers
CHECK_DEADLOCK FALSE
