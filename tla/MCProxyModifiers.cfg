CONSTANTS
    None = None
    PeerId = {1, 2}
    OutboundId = {2}
    ModifierId = {m1}
    ModifierType = {header}
    Profile <- MCProfile
    Incoming <- ModifierExchange
    EventCap = 1
    WriteCap = 1
    Stallable = {1}
SPECIFICATION ProxySpec
INVARIANT
    ModifierTrafficAfterSetup
CHECK_DEADLOCK FALSE
