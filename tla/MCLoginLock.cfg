\* One key and two requests: a lock must hold until it ends.
CONSTANTS
    Keys = {k1}
    Nobody = nobody
    Handlers = {h1, h2}
    Window = 2
    LockTime = 2
    CleanupPeriod = 1
    MaxFailures = 2
    MaxEntries = 2
    MaxTime = 7
SPECIFICATION Spec
PROPERTY
    LockHolds
