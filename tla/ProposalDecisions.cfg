SPECIFICATION Spec
CONSTANTS
  Account <- OneEach
  Admins = {a1, a2}
  Applicants = {p1}
  Accounts = {p1}
  Keys = {}
  Orgs = {}
  Steps = {}
  Resources = {r1}
  None = None
  Policy = "rejected-or-removed"
  SameActor = FALSE
  Timeout = 2
  MaxStamp = 6
  MaxAudit = 0
SYMMETRY Symmetry
INVARIANT TypeOK
INVARIANT StatusesCohere
INVARIANT AuditExplainsRow
PROPERTY ImplementsReview
PROPERTY AppliedResourceKept
