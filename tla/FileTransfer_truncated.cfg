\* A file of one segment over a network without faults.
CONSTANTS
    Client = Client
    Server = Server
    BUFFER_SIZE = 2
    MAX_TCP_PAYLOAD = 2
    RTO_MAX_RETRIES = 1
    ZWP_RETRIES = 2
    SeqMod = 16
    WndMod = 4
    ISNs <- FileISN
    WriteSizes <- Chunks
    MaxBytes <- TwoBytes
    ReadSizes <- WholeBuffer
    Closers = {Client, Server}
    Resetters = {}
    MaxFaults = 0
SPECIFICATION FileSpec
INVARIANTS FileComplete
CHECK_DEADLOCK FALSE
