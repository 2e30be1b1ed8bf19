SPECIFICATION Spec
CONSTANTS
    Connections = {c1, c2, c3}
    MaxConnections = 2
    SequenceNumbers = 3
    Managed = TRUE
INVARIANTS
    RunTypeOK
    SlotsAccounted
    NoErrorOnlyIfAsked
    SequencesIncrease
PROPERTIES
    ReturnsWhenCancelled
    ReturnsWhenServerFails
CHECK_DEADLOCK FALSE
