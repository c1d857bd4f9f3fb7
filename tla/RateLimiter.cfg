\* Four keys in a table of two, limits 2 and 0, two windows; one set-back or restart.
SPECIFICATION Spec
CONSTANTS
    c1 = c1
    c2 = c2
    admin = admin
    other = other
    Client = {c1, c2}
    Prefix = {admin, other}
    LimitOf <- MCLimitOf
    MaxKeys = 2
    MaxWindow = 1
    MaxResets = 1
SYMMETRY Clients
INVARIANTS
    TypeOK
    LimitPerWindow
    RefusalIsEarned
    OnlyOneWindowOutgrows
CHECK_DEADLOCK FALSE
