CONSTANTS
    None = None
    PeerId = {1, 2}
    OutboundId = {2}
    ModifierId = {}
    ModifierType = {header}
    Profile <- MCProfile
    Incoming <- Broadcast
    EventCap = 1
    WriteCap = 1
    Stallable = {1}
SPECIFICATION FairProxySpec
PROPERTY
    LostPeerIsUnregistered
CHECK_DEADLOCK FALSE
