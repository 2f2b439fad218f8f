\* A payment in two attempts of a client that tries until it reads 200; the store need not answer.
SPECIFICATION FairSpec
CONSTANTS
    u1 = u1
    u2 = u2
    mug = mug
    Users = {u1, u2}
    Goods = {mug}
    Reqs = {r1, r2}
    Attempts = {r1, r2}
    Price <- MCPrice
    Calls <- MCCalls
    Requests <- MCRequests
    MaxTime = 1
    StartBalance = 2
    MaxInt = 4
    NoRow = NoRow
    Nobody = Nobody
CHECK_DEADLOCK FALSE
INVARIANTS
    TypeOK
    StatusesAreHonest
    RetriesAreBounded
    StrangersMoveNothing
PROPERTY
    EveryRequestIsAnswered
