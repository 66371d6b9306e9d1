SPECIFICATION FairSpec
CONSTANTS
  Account <- OneEach
  Admins = {a1}
  Applicants = {p1}
  Accounts = {p1}
  Keys = {}
  Orgs = {}
  Steps = {publication}
  Resources = {r1}
  None = None
  Policy = "rejected-only"
  SameActor = TRUE
  Timeout = 2
  MaxStamp = 4
  MaxAudit = 4
PROPERTY StallSurfaces
