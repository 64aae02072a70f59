\* The restarting main goroutine and a saving request, in any interleaving.
CONSTANTS
    Checkers = {}
    Restarters = {}
    Main = main
    Saver = saver
    HotObjects = {}
    ColdObjects = {base}
    Versions = {v1}
    Absent = absent
    Boxes = {b1, b2}
    NoBox = nobox
    ApplyFlags = {TRUE, FALSE}
    Overlap = TRUE
    Kills = FALSE
SPECIFICATION FairSpec

INVARIANTS
    TypeOK
    StartExclusive
PROPERTIES
    FlagReleased
