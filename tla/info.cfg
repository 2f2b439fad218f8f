\* One look at an account through which two calls move coins.
SPECIFICATION Spec
CONSTANTS
    u1 = u1
    u2 = u2
    mug = mug
    Users = {u1, u2}
    Goods = {mug}
    Reqs = {r1, r2}
    Infos = {i1}
    PoolSize = 3
    Price <- MCPrice
    Username <- MCUsername
    Calls <- MCCalls
    Caller <- MCCaller
    StartBalance = 2
    MaxInt = 4
    NoRow = NoRow
    Nobody = Nobody
SYMMETRY MCSymmetry
CHECK_DEADLOCK FALSE
INVARIANTS
    TypeOK
    HistoryIsCurrent
    ConnectionsAreReturned
