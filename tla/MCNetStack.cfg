SPECIFICATION NetFairSpec
CONSTANTS
    Leases <- TwoLeases
    Hello = 2
    Flight = 2
    Finished = 1
    TxCap = 1
    MaxEvents = 4
    None = None
    DhcpSocket = DhcpSocket
INVARIANTS
    HandlesMatchSockets
    BytesConserved
    ProbesOnce
PROPERTIES
    TlsCompletes
