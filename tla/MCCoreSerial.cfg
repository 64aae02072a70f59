\* One operation at a time, every step of which may fail; process kills.
CONSTANTS
    Checkers = {cron}
    Restarters = {api}
    Main = main
    Saver = saver
    HotObjects = {in1, in2}
    ColdObjects = {base}
    Versions = {v1, v2}
    Absent = absent
    Boxes = {b1, b2}
    NoBox = nobox
    ApplyFlags = {TRUE, FALSE}
    Overlap = FALSE
    Kills = TRUE
SPECIFICATION WatchdogSpec
INVARIANTS
    RuntimeFollowsDb
    NoOrphans
PROPERTIES
    CoreComesBack
