SPECIFICATION MembersSpec
CONSTANTS
    MaxCodes = 3
    Events = {e}
    Organizers = {o1, o2}
    Limit = 2
    MaxSyncs = 2
    MaxJoins = 2
    MaxLoad = 5
    MaxEdits = 1
    Sweep = Sweep
    Users = {r, a}
    Reviewers = {a}
    Requesters = {r}
    Handlers = {h1, h2}
    PageSize = 2
    MaxRequests = 2
    MaxChanges = 1
    NULL = NULL
SYMMETRY Symmetry
INVARIANT MembersTypeOK
INVARIANT CheckpointIsBacked
INVARIANT SyncedIsComplete
INVARIANT OneReports
INVARIANT ApprovedIsAdded
INVARIANT LeaverHasLeft
PROPERTY RecordIsKept
PROPERTY ImplementsRequests
CHECK_DEADLOCK FALSE
