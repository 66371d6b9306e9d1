SPECIFICATION HistorySpec
CONSTANTS
  Admins = {a1}
  None = None
  MaxVersion = 4
  MaxOrgs = 2
  MaxNodes = 2
PROPERTY RejectionReleasesOrg
CHECK_DEADLOCK FALSE
