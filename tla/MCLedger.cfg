\* Runs of the jobs that overlap, edits of old forms, stores that fail.
CONSTANTS
    Clients = {c1}
    StatsJobs = {s1, s2}
    DepleteJobs = {d1}
    InitRows <- LedgerRows
    Volumes = {1}
    Period = 1
    MaxSent = 2
    MaxTime = 2
    Forms = TRUE
    Overlap = TRUE
    Faults = TRUE
SPECIFICATION Spec
SYMMETRY JobSymmetry
INVARIANTS
    TypeOK
    NeverOvercharged
    Conserved
