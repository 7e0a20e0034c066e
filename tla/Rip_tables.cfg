CONSTANTS
    a = a
    b = b
    c = c
    p = p
    Routers <- MCRouters
    Prefixes <- MCPrefixes
    Local <- MCLocal
    RipNeighbors <- RingNeighbors
    Hops <- RingHops
    INFINITY = 4
    TTL = 3
    QueueSize = 2
    MaxFaults = 1
    MaxDowns = 0
    MaxRestarts = 0
SPECIFICATION Spec
SYMMETRY RingSymmetry
INVARIANTS OneRoute
 
