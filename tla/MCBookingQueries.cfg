SPECIFICATION MCSpec
CONSTANTS
  o1 = o1
  o2 = o2
  o3 = o3
  a1 = a1
  a2 = a2
  x1 = x1
  x2 = x2
  x3 = x3
  shared = shared
  missing = missing
  p1 = p1
  p2 = p2
  Orders = {o1, o2, o3}
  Numbers = {x1, x2, x3, shared, missing}
  NumberOf <- MCNumberOf
  RefOf <- MCRefOf
  Owner <- MCOwner
  Agents = {a1, a2}
  NoAgent = NoAgent
  Pictures = {p1, p2}
  Requests = {r1}
  Inputs <- AllQueries
INVARIANTS
  TypeOK
  ShownToTheirAgent
  TotalFitsThePage
  ShownWithTheirPictures
  LostAnswersFailLists
PROPERTIES
  OnlyOpenCallsHoldQueries
CHECK_DEADLOCK FALSE
