SPECIFICATION CosigningSpec
CONSTANTS
  N = 2
  MaskArgs <- Suffixes
  Limits = {1}
  Switched = {1}
  ObjN = 10
  ObjMasks <- EdgeMasks
  ObjLimits = {0, 9}
  Message = {m1, m2}
  None = None
  MaxNonce = 3
SYMMETRY Symmetry
INVARIANTS
  LongMasksAreRight
  AggrIsEnabledSum
  OneMessagePerCommit
  CheckedIsAccepted
  VerifyIsStateless
