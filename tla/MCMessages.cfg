CONSTANTS
    GroupBits = 2
    WordBits = 5
    MaxVlqLength = 7
    MaxBodySize = 7
    BodyUnits = 5
    BodyUnit = {0, 1, 2, 4, 5}
    Magic = 1
    FromRemote <- MCFromRemote
SPECIFICATION Spec
INVARIANTS
    WrittenIsReadable
    NumberReadBack
PROPERTIES
    MeaningKept
CHECK_DEADLOCK FALSE
