CONSTANTS
    None = None
    PeerId = {p1, p2, p3}
    ModifierId = {m1}
    ModifierType = {header}
SPECIFICATION RouterSpec
PROPERTY
    PairedSyncForwarded
