CONSTANTS
    None = None
    Slot = {1, 2, 3, 4}
    Listener = {ipv4, ipv6}
    InboundMax = 1
    MaxInbound <- MCMaxInbound
    MinPeers = 1
    MaxPeers = 2
    SeedCount = 2
SPECIFICATION Spec
INVARIANT
    ConnectionsTypeOK
PROPERTY
    EverySeedDialled
