\* Polls among writes of every kind; only endpoint saves overlap a poll.
CONSTANTS
    Savers = {s1, e1}
    Depleters = {d1}
    Endpoint = {e1}
    MaxTime = 6
    MaxWrites = 3
    Warm = FALSE
    Overlap = FALSE
SPECIFICATION Spec
INVARIANTS
    NoMissedUpdate
CHECK_DEADLOCK FALSE
