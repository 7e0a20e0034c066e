\* The client reads byte by byte from a full buffer; nothing is lost.
CONSTANTS
    Client = Client
    Server = Server
    BUFFER_SIZE = 2
    MAX_TCP_PAYLOAD = 2
    RTO_MAX_RETRIES = 0
    ZWP_RETRIES = 2
    SeqMod = 16
    WndMod = 4
    ISNs <- SmallISN
    WriteSizes <- ServerWrites1
    MaxBytes <- ServerBytes3
    ReadSizes <- ClientReads1
    Closers = {}
    Resetters = {}
    MaxFaults = 0
SPECIFICATION Spec
PROPERTIES ProbeSent
CHECK_DEADLOCK FALSE
