\* A change of the password overlaps the use of a recovery code.
CONSTANTS
    Ids = {1}
    Names = {1, 2}
    Passwords = {p}
    Requests = {r1, r2}
    Alone = {}
    BatchSize = 1
    Window = 1
    MaxBatches = 0
    MaxTokens = 0
    MaxBegun = 3
    MaxTime = 1
SPECIFICATION Spec
INVARIANT EachCodeOnce
CHECK_DEADLOCK FALSE
