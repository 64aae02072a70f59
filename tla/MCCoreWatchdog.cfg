\* Two check jobs of the cron, and nothing else but the start of the panel.
CONSTANTS
    Checkers = {cron1, cron2}
    Restarters = {}
    Main = main
    Saver = saver
    HotObjects = {}
    ColdObjects = {}
    Versions = {v1}
    Absent = absent
    Boxes = {b1, b2}
    NoBox = nobox
    ApplyFlags = {TRUE, FALSE}
    Overlap = TRUE
    Kills = FALSE
SPECIFICATION Spec

INVARIANT
    WatchdogCoversCore
