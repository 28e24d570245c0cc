CONSTANTS
    GroupBits = 2
    WordBits = 5
    MaxVlqLength = 8
    MaxBodySize = 2
    Eip37Min = 4
    PortBits = 4
    Random = 15
    Now = 9
    Initiators <- MCInitiators
    Responders <- MCResponders
    Frames <- MCFrames
    MaxFrames = 2
    BufSize = 60
SPECIFICATION ExchangeSpec
INVARIANTS
    AcceptedIsComplete
    StreamIntact
    NetworksNeverMix
PROPERTIES
    HandshakeEnds
    ProxiesPart
CHECK_DEADLOCK FALSE
