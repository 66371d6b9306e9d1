SPECIFICATION HistorySpec
CONSTANTS
  Admins = {a1, a2}
  None = None
  MaxVersion = 4
  MaxOrgs = 2
  MaxNodes = 2
SYMMETRY Symmetry
INVARIANT TypeOK
INVARIANT OneCommunity
INVARIANT AppliedIsWhole
INVARIANT RejectedLeavesNoNode
PROPERTY OthersKept
CHECK_DEADLOCK FALSE
