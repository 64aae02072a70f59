\* A page with two workers, a detail, and two starts of the core.
CONSTANTS
    h1 = h1
    ip1 = ip1
    ip2 = ip2
    Hosts = {h1}
    Ips = {ip1, ip2}
    Pages = {page}
    Details = {detail}
    Asks = {ip1, ip2}
    Lists <- SomeLists
    Workers = {w1, w2}
    Limit = 2
    MaxEntries = 1
    PageTime = 1
    DetailTime = 2
    DomainTTL = 1
    FoundTTL = 1
    MissTTL = 1
    MaxBegun = 2
    MaxStarts = 2
    MaxTime = 1
SPECIFICATION Spec
SYMMETRY Symmetry
INVARIANTS
    LookedUpOnce
    CachesHold
CHECK_DEADLOCK FALSE
