SPECIFICATION MCSpec
CONSTANTS
  b1 = b1
  b2 = b2
  inB2 = inB2
  nowhere = nowhere
  outside = outside
  garbled = garbled
  ref1 = ref1
  r1 = r1
  r2 = r2
  UnknownBranch = UnknownBranch
  None = None
  Outside = Outside
  Malformed = Malformed
  Places = {inB2, nowhere, outside, garbled}
  SupportArea <- MCSupportArea
  Conditions <- MCConditions
  AgentIds = {2323, 2324}
  Refs = {ref1}
  Branches = {b1, b2}
  Requests = {r1, r2}
  Inputs <- AllInputs
  OtherOrders = 1
INVARIANTS
  TypeOK
  RefusalIsJustified
  RefusedCreateLeavesNoOrder
  ConfirmedReplyNamesItsOrder
  OrdersJoinServedBranches
  OneOrderPerRequest
PROPERTIES
  CreateContractIsKept
  OnlyOpenCallsHoldCreates
CHECK_DEADLOCK FALSE
