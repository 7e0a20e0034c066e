\* One byte, one lost segment; either side may close, the client may reset, at any time.
CONSTANTS
    Client = Client
    Server = Server
    BUFFER_SIZE = 1
    MAX_TCP_PAYLOAD = 1
    RTO_MAX_RETRIES = 0
    ZWP_RETRIES = 1
    SeqMod = 16
    WndMod = 4
    ISNs <- ISN
    WriteSizes <- ClientWrites1
    MaxBytes <- ClientBytes1
    ReadSizes <- NoSizes
    Closers = {Client, Server}
    Resetters = {Client}
    MaxFaults = 1
SPECIFICATION Spec
INVARIANTS HandshakeAgreement AcceptOnce TimeWaitMeansBothClosed RetryBound
 
CHECK_DEADLOCK FALSE
