\* Two clients, two logins, two payments and a look, over both databases.
SPECIFICATION Spec
CONSTANTS
    alice = alice
    bob = bob
    Names = {alice, bob}
    Storable = {alice, bob}
    Passwords = {p1, p2}
    Logins = {l1, l2}
    MaxId = 2
    Goods = {"mug"}
    Price <- MCPrice
    StartBalance = 1
    MaxInt = 3
    NoRow = NoRow
    Nobody = Nobody
    Requests = {r1, r2}
    Asks <- MCAsks
    Looks = {i1}
    Bearers <- MCBearers
SYMMETRY MCSymmetry
CHECK_DEADLOCK FALSE
INVARIANTS
    TypeOK
    NoOrphans
    OnlyOwnersPay
    LoginStatusesAreHonest
    HistoryHasNames
PROPERTY
    ImplementsNamedLedger
