\* Two segments, each of them late or lost; the real RTO_MAX_RETRIES.
CONSTANTS
    Client = Client
    Server = Server
    BUFFER_SIZE = 3
    MAX_TCP_PAYLOAD = 1
    RTO_MAX_RETRIES = 3
    ZWP_RETRIES = 2
    SeqMod = 16
    WndMod = 4
    ISNs <- SmallISN
    WriteSizes <- ClientWrites2
    MaxBytes <- ClientBytes2
    ReadSizes <- NoSizes
    Closers = {}
    Resetters = {}
    MaxFaults = 2
SPECIFICATION Spec
INVARIANTS UnackedTracked
CHECK_DEADLOCK FALSE
