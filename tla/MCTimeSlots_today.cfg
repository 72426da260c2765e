SPECIFICATION Spec
CONSTANTS
  Branches <- MCBranches
  BranchType <- MCBranchType
  Unknown = 0
  Pairs <- RulePairs
  Days <- Today
  Clock <- Bounds
INVARIANTS
  PickupIsAhead
  DeliveryFollowsPickup
PROPERTIES
  OffersOnlyShrink
CHECK_DEADLOCK FALSE
