SPECIFICATION Spec
CONSTANTS
    Ups = {u1}
    Brokers = {b1, b2, b3}
    Openers = {xdgopen}
    None = None
    Garbled = Garbled
    MaxFaults = 2
PROPERTIES
    ReturnsRunningBroker
