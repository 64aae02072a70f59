\* One operation at a time: who is served.
CONSTANTS
    Clients = {c1}
    StatsJobs = {s1}
    DepleteJobs = {d1}
    InitRows <- QuotaRows
    Volumes = {1}
    Period = 1
    MaxSent = 2
    MaxTime = 3
    Forms = TRUE
    Overlap = FALSE
    Faults = FALSE
SPECIFICATION FairSpec
INVARIANTS
    EnabledIsServed
    NoLeftConnections
PROPERTIES
    QuotaEnforced
