\* Three logins, two of the names storable, two passwords, two ids.
SPECIFICATION Spec
CONSTANTS
    Names = {alice, bob, long}
    Storable = {alice, bob}
    Passwords = {p1, p2}
    Logins = {l1, l2, l3}
    MaxId = 2
    NoRow = NoRow
SYMMETRY AuthSymmetry
CHECK_DEADLOCK FALSE
INVARIANTS
    TypeOK
    TokensAreTrue
    RefusalsAreTrue
    NamesRoundTrip
PROPERTY
    RowsAreForever
    ImplementsAccounts
