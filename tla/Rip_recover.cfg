\* A line of three routers; the longest way, c to a, takes all of the TTL.
CONSTANTS
    a = a
    b = b
    c = c
    p = p
    Routers <- MCRouters
    Prefixes <- MCPrefixes
    Local <- MCLocal
    RipNeighbors <- LineNeighbors
    Hops <- LineHops
    INFINITY = 4
    TTL = 3
    QueueSize = 1
    MaxFaults = 0
    MaxDowns = 1
    MaxRestarts = 1
SPECIFICATION FairSpec
INVARIANTS TypeOK MetricSound LocalKept
PROPERTIES Delivers Purges
