\* Two looks and a money operation on a pool of two connections.
SPECIFICATION FairSpec
CONSTANTS
    u1 = u1
    u2 = u2
    mug = mug
    Users = {u1, u2}
    Goods = {}
    Reqs = {r1}
    Infos = {i1, i2}
    PoolSize = 2
    Price <- MCPrice
    Username <- MCUsername
    Calls <- PoolCalls
    Caller <- MCCaller
    StartBalance = 2
    MaxInt = 4
    NoRow = NoRow
    Nobody = Nobody
CHECK_DEADLOCK FALSE
PROPERTY
    EveryInfoCallReturns
