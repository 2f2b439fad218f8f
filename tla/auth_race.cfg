\* Two first logins of one user at the same time: one of them is turned away.
SPECIFICATION CalmSpec
CONSTANTS
    Names = {alice, bob}
    Storable = {alice, bob}
    Passwords = {p1, p2}
    Logins = {l1, l2, l3}
    MaxId = 3
    NoRow = NoRow
CHECK_DEADLOCK FALSE
INVARIANT
    LoginsRegister
