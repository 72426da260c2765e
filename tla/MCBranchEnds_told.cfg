SPECIFICATION Spec
CONSTANTS
  b1 = b1
  b2 = b2
  inB2 = inB2
  nowhere = nowhere
  outside = outside
  garbled = garbled
  UnknownBranch = UnknownBranch
  None = None
  Outside = Outside
  Malformed = Malformed
  Places = {inB2, nowhere, outside, garbled}
  SupportArea <- MCSupportArea
  Branches = {b1, b2}
  Requests = {r1}
  Inputs <- AreaInputs
INVARIANTS
  RefusedEndIsTold
CHECK_DEADLOCK FALSE
