SPECIFICATION Spec
CONSTANTS
    a = a
    b = b
    Device = {a, b}
    Opens <- SharedSecond
    Dials <- CrossedDials
    MaxAdvertiseStores = 2
INVARIANTS TypeOK OneRequestPerStatus NobodyGivesUp StreamsHaveTwoEnds OneStreamPerDirection PeersRunTheStore
PROPERTY SyncsUnlessHandshakeLoses
CHECK_DEADLOCK FALSE
