\* Two requests at a time; those that save a whole row run alone.
CONSTANTS
    Ids = {1}
    Names = {1, 2}
    Passwords = {p}
    Requests = {r1, r2}
    Alone = {"changePass", "cli"}
    BatchSize = 1
    Window = 1
    MaxBatches = 1
    MaxTokens = 2
    MaxBegun = 3
    MaxTime = 2
SPECIFICATION Spec
INVARIANTS
    CacheFollowsTokens
    CodeLockReleased
PROPERTIES
    CodesAreVouchers
SYMMETRY Symmetry
CHECK_DEADLOCK FALSE
