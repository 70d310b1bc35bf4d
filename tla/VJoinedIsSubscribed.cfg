SPECIFICATION SubsSpec
CONSTANTS
  Subscriber = {n1}
  Stream = {s1, s2}
  Caller = {agg, fin}
  Locked = {agg}
  Cap = 1
  Nil = Nil
  MaxMessages = 2
SYMMETRY Symmetry
INVARIANT
  JoinedIsSubscribed
CHECK_DEADLOCK FALSE
