CONSTANTS
    a = a
    b = b
    c = c
    p = p
    Routers <- MCRouters
    Prefixes <- MCPrefixes
    Local <- MCLocal
    RipNeighbors <- LineNeighbors
    Hops <- LineHops
    INFINITY = 4
    TTL = 3
    QueueSize = 1
    MaxFaults = 0
    MaxDowns = 0
    MaxRestarts = 0
SPECIFICATION FairSpec
PROPERTIES Refreshed
