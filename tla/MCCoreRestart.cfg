\* A restart of the panel (SIGHUP) and the check job of the cron, nothing else.
CONSTANTS
    Checkers = {cron}
    Restarters = {}
    Main = main
    Saver = saver
    HotObjects = {}
    ColdObjects = {}
    Versions = {v1}
    Absent = absent
    Boxes = {b1, b2}
    NoBox = nobox
    ApplyFlags = {TRUE}
    Overlap = FALSE
    Kills = FALSE
SPECIFICATION WatchdogSpec
PROPERTY
    RestartComesBack
