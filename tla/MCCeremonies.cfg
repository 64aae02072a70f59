CONSTANTS
    Ids = {1}
    Names = {1, 2}
    Allowed = {9}
    Strangers = {8, 9}
    Creds = {c1, c2}
    Requests = {r1, r2}
    MaxPending = 2
    CleanupPeriod = 2
    OidcLife = 2
    PasskeyLife = 1
    MaxKeys = 3
    MaxTime = 3
    MaxToggles = 1
SPECIFICATION Spec
INVARIANTS
    PendingBounded
    DeletedPasskeyRefused
PROPERTIES
    RefusedOnlyWhenBusy
    CeremoniesSingleUse
CHECK_DEADLOCK FALSE
