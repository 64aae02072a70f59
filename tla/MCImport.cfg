\* Imports one step of which may fail, commits of another request, kills.
CONSTANTS
    MaxImports = 3
    MaxCommits = 2
    MaxFaults = 1
    MaxKills = 2
SPECIFICATION Spec
INVARIANTS
    OkOrRestored
    OneImportKeepsData
CHECK_DEADLOCK FALSE
