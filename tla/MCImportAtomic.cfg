\* One import, killed once.
CONSTANTS
    MaxImports = 1
    MaxCommits = 1
    MaxFaults = 1
    MaxKills = 1
SPECIFICATION Spec
INVARIANTS
    ReplacedAtomically
CHECK_DEADLOCK FALSE
