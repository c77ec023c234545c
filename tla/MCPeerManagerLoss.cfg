SPECIFICATION Spec
CONSTANTS
    a = a
    b = b
    Device = {a, b}
    Opens <- OneStore
    Dials <- OneDial
    MaxAdvertiseStores = 1
PROPERTY SyncsWithConnectedPeers
CHECK_DEADLOCK FALSE
