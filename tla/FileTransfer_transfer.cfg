\* A file of one segment; one segment is lost, repeated or late, or the server resets.
CONSTANTS
    Client = Client
    Server = Server
    BUFFER_SIZE = 2
    MAX_TCP_PAYLOAD = 2
    RTO_MAX_RETRIES = 1
    ZWP_RETRIES = 2
    SeqMod = 16
    WndMod = 4
    ISNs <- FileISN
    WriteSizes <- Chunks
    MaxBytes <- TwoBytes
    ReadSizes <- WholeBuffer
    Closers = {Client, Server}
    Resetters = {Server}
    MaxFaults = 1
SPECIFICATION FileSpec
 
PROPERTIES ReceiveFileEnds  TimersEnd
CHECK_DEADLOCK FALSE
