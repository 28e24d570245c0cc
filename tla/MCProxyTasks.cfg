CONSTANTS
    None = None
    PeerId = {1, 2}
    OutboundId = {2}
    ModifierId = {}
    ModifierType = {header}
    Profile <- MCProfile
    Incoming <- Broadcast
    EventCap = 2
    WriteCap = 1
    Stallable = {}
SPECIFICATION FairProxySpec
INVARIANTS
    ProxyTypeOK
    EventsOfRegistered
    RegistryFollowsTasks
    DisconnectionIsLast
PROPERTIES
    LostPeerIsUnregistered
    MainLoopReturns
    FollowsLifecycle
