SPECIFICATION StakingSpec
CONSTANTS
    Nodes = {n1, n2, n3}
    Slugs = {s, t}
    Editors = {e1, e2}
    NoNode = NoNode
    Rows = {r1, r2, r3}
    Clients = {c1, c2}
    NoRow = NoRow
    Submissions = {x}
    Stake = 1
    Period = 0
    PageIds = 1
    MaxIds = 2
    Earlier = 1
    MaxProposals = 3
    MaxClock = 1
INVARIANT StakingTypeOK
INVARIANT NodesFormForest
INVARIANT SlugsResolve
INVARIANT ListedResolves
INVARIANT OneFlagged
INVARIANT OpenIsSeen
INVARIANT AskIsCovered
PROPERTY ActsAtOnce
PROPERTY RequestEnds
CHECK_DEADLOCK FALSE
