SPECIFICATION Spec
CONSTANTS
  Branches <- MCBranches
  Listed <- MCListed
  Size = 2
INVARIANTS
  TypeOK
  MissedOnlyAfterSwitch
  ShownTwiceOnlyAfterSwitchOn
  QuietListIsReadWhole
CHECK_DEADLOCK FALSE
