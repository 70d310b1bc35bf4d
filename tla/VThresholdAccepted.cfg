SPECIFICATION SignSpec
CONSTANTS
  N = 2
  MaskArgs <- Suffixes
  Limits = {1}
  Switched = {1}
  Message = {m1}
  None = None
  MaxNonce = 2
INVARIANT ThresholdAccepted
