\* A server that does not answer.
CONSTANTS
    Client = Client
    Server = Server
    BUFFER_SIZE = 1
    MAX_TCP_PAYLOAD = 1
    RTO_MAX_RETRIES = 1
    ZWP_RETRIES = 1
    SeqMod = 16
    WndMod = 4
    ISNs <- SmallISN
    WriteSizes <- NoSizes
    MaxBytes <- NoBytes
    ReadSizes <- NoSizes
    Closers = {}
    Resetters = {}
    MaxFaults = 4
SPECIFICATION Spec
INVARIANTS NoPanic
CHECK_DEADLOCK FALSE
