CONSTANTS
    None = None
    PeerId = {p1, p2, p3}
    ModifierId = {m1}
    ModifierType = {header}
    Kinds = {"Inv", "ModifierRequest", "ModifierResponse"}
    MaxAge = 1
    MaxSamples = 2
    Scale = 10
SPECIFICATION LatencySpec
SYMMETRY Symmetry
INVARIANTS
    StatsOfConnected
    AverageWithinSamples
    SampledWasAsked
