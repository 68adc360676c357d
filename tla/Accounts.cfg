CONSTANTS
    NoReq = NoReq
    NoRow = NoRow
    Users = {u1, u2}
    Requests = {r1, r2}
    Issuers <- MCNone
    Referred <- MCNone
    MaxFailed = 2
    CodeCount = 1
    MaxRevokes = 2
    MaxEnrols = 1
    MaxOrders = 3
    MaxRequests = 5
SPECIFICATION Spec
SYMMETRY Symmetry
INVARIANTS TypeOK RevokedForGood CodesWorkOnce TrustEnds SomeoneAdministers LocksAreEarned
CHECK_DEADLOCK FALSE
