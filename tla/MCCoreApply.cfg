\* A restartSb request while a configuration is applied and committed.
CONSTANTS
    Checkers = {}
    Restarters = {api}
    Main = main
    Saver = saver
    HotObjects = {}
    ColdObjects = {base}
    Versions = {v1}
    Absent = absent
    Boxes = {b1, b2}
    NoBox = nobox
    ApplyFlags = {TRUE}
    Overlap = TRUE
    Kills = FALSE
SPECIFICATION Spec

INVARIANT
    AppliedIsServed
