SPECIFICATION MCSpec
CONSTANTS
  o1 = o1
  a1 = a1
  a2 = a2
  p1 = p1
  p2 = p2
  r1 = r1
  r2 = r2
  Orders = {o1}
  Unknown = Unknown
  Agents = {a1, a2}
  NoAgent = NoAgent
  Owner <- MCOwner
  Luggage = Luggage
  Requests = {r1, r2}
  Inputs <- AllInputs
  Pictures = {p1, p2}
  InitialRows <- MCRows
INVARIANTS
  TypeOK
  RefusedUpdateLeavesNothing
  SuccessfulUpdateIsStored
  OnlyPicturesFailed
  CancelledForGood
  LockedOrderKeepsLuggage
PROPERTIES
  RefundOnlyInTime
  ChargeOnlyWhenLate
  TrackingOnlyLostInWindow
  ContractIsKept
  OnlyOpenCallsHoldRequests
CHECK_DEADLOCK FALSE
