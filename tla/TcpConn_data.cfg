\* The server sends more than the client's buffer holds; one segment is lost or late.
CONSTANTS
    Client = Client
    Server = Server
    BUFFER_SIZE = 2
    MAX_TCP_PAYLOAD = 2
    RTO_MAX_RETRIES = 0
    ZWP_RETRIES = 2
    SeqMod = 16
    WndMod = 4
    ISNs <- ISN
    WriteSizes <- ServerWrites12
    MaxBytes <- ServerBytes3
    ReadSizes <- ClientReads2
    Closers = {}
    Resetters = {}
    MaxFaults = 1
SPECIFICATION Spec
INVARIANTS TypeOK StreamPrefix AckSound 
PROPERTIES ByteStreamSpec NoRetreat
CHECK_DEADLOCK FALSE
