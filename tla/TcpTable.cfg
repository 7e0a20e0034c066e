\* A listener with one connection, and one that the node opens.
CONSTANTS
    Passive = {in}
    Active = {out}
    Listener = Listener
    AcceptQueueSize = 1
SPECIFICATION Spec
INVARIANT TimeWaitOver
CHECK_DEADLOCK FALSE
