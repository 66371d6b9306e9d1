SPECIFICATION Spec
CONSTANTS
  Admins = {a1}
  Applicants = {p1, p2, p3}
  Accounts = {p1, p2}
  Account <- FirstTwice
  Keys = {k1}
  Orgs = {o1}
  Steps = {}
  Resources = {}
  None = None
  Policy = "rejected-only"
  SameActor = TRUE
  Timeout = 1
  MaxStamp = 3
  MaxAudit = 0
INVARIANT KeySubmittedOnce
PROPERTY ApplicationStaysWithOwner
