\* Three keys for two entries, two requests at a time.
CONSTANTS
    Keys = {k1, k2, k3}
    Nobody = nobody
    Handlers = {h1, h2}
    Window = 2
    LockTime = 2
    CleanupPeriod = 1
    MaxFailures = 2
    MaxEntries = 2
    MaxTime = 7
SPECIFICATION Spec
INVARIANTS
    TypeOK
    BoundedEntries
    BoundedGuesses
    AdmitsAgain
