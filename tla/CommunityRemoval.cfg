SPECIFICATION HistorySpec
CONSTANTS
  Admins = {a1, a2}
  None = None
  MaxVersion = 4
  MaxOrgs = 2
  MaxNodes = 2
PROPERTY RemovalOnlyWhenFailed
CHECK_DEADLOCK FALSE
