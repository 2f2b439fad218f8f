\* A result set that breaks off is taken for a whole one.
SPECIFICATION Spec
CONSTANTS
    u1 = u1
    u2 = u2
    mug = mug
    Users = {u1, u2}
    Goods = {mug}
    Reqs = {r1, r2}
    Infos = {i1}
    PoolSize = 2
    Price <- MCPrice
    Username <- MCUsername
    Calls <- MCCalls
    Caller <- MCCaller
    StartBalance = 2
    MaxInt = 4
    NoRow = NoRow
    Nobody = Nobody
CHECK_DEADLOCK FALSE
INVARIANT
    InventoryIsComplete
