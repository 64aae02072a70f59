\* One page with a name and an address it may stand for.
CONSTANTS
    h1 = h1
    ip1 = ip1
    ip2 = ip2
    Hosts = {h1}
    Ips = {ip1, ip2}
    Pages = {page}
    Details = {}
    Asks = {ip1, ip2}
    Lists <- SomeLists
    Workers = {w1, w2}
    Limit = 3
    MaxEntries = 1
    PageTime = 1
    DetailTime = 2
    DomainTTL = 1
    FoundTTL = 1
    MissTTL = 1
    MaxBegun = 1
    MaxStarts = 1
    MaxTime = 1
SPECIFICATION Spec
INVARIANT
    AddressAskedOnce
CHECK_DEADLOCK FALSE
