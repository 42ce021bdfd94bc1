SPECIFICATION Spec
CONSTANTS
    Ups = {u1, u2}
    Brokers = {b1, b2, b3}
    Openers = {wslview, xdgopen}
    None = None
    Garbled = Garbled
    MaxFaults = 1
SYMMETRY MCSymmetry
INVARIANTS
    TypeOK
    NoBrokerIsLost
PROPERTIES
    ReturnsRecordedBroker
    CleanupIsOwn
