\* A token is deleted and the cache is not reloaded.
CONSTANTS
    Ids = {1}
    Names = {1}
    Passwords = {p}
    Requests = {r1}
    Alone = {}
    BatchSize = 1
    Window = 1
    MaxBatches = 1
    MaxTokens = 1
    MaxBegun = 2
    MaxTime = 1
SPECIFICATION Spec
INVARIANT
    DeletedTokenRefused
CHECK_DEADLOCK FALSE
