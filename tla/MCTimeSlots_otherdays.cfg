SPECIFICATION Spec
CONSTANTS
  Branches <- MCBranches
  BranchType <- MCBranchType
  Unknown = 0
  Pairs <- AllPairs
  Days <- OtherDays
  Clock <- FewTimes
INVARIANTS
  TypeOK
  DeliveryFollowsPickup
CHECK_DEADLOCK FALSE
