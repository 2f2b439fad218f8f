\* Three concurrent calls: safety and refinement.
SPECIFICATION Spec
CONSTANTS
    u1 = u1
    u2 = u2
    u3 = u3
    mug = mug
    nobody = nobody
    Users = {u1, u2, u3}
    Goods = {mug}
    Reqs = {r1, r2, r3}
    Price <- MCPrice
    Calls <- MixedCalls
    StartBalance = 2
    MaxInt = 3
    NoRow = NoRow
    Nobody = Nobody
SYMMETRY ReqSymmetry
CHECK_DEADLOCK FALSE
INVARIANTS
    TypeOK
    AccountsBalance
    DebitIsCovered
    NoLostUpdate
    AnswersAreHonest
    TxInv
PROPERTY
    ImplementsLedger
