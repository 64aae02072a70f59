\* A poll among saves of the configuration.
CONSTANTS
    Savers = {s1}
    Depleters = {}
    Endpoint = {}
    MaxTime = 6
    MaxWrites = 3
    Warm = TRUE
    Overlap = TRUE
SPECIFICATION Spec
INVARIANTS
    NoMissedUpdate
CHECK_DEADLOCK FALSE
