\* Transfers in a ring and a purchase: every call returns, every lock is released.
SPECIFICATION FairSpec
CONSTANTS
    u1 = u1
    u2 = u2
    u3 = u3
    mug = mug
    nobody = nobody
    Users = {u1, u2, u3}
    Goods = {mug}
    Reqs = {r1, r2}
    Price <- MCPrice
    Calls <- RingCalls
    StartBalance = 2
    MaxInt = 3
    NoRow = NoRow
    Nobody = Nobody
CHECK_DEADLOCK FALSE
PROPERTIES
    EveryCallReturns
    LocksAreReleased
