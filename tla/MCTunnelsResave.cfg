CONSTANTS
    Width = 2
    MinBits = 1
    MaxBits = 1
    Devices = {"d1", "d2"}
    Licenses = {"plus"}
    MaxPeers = 2
    Worlds <- MCWorlds
SPECIFICATION Spec
INVARIANT ExistingPeersSaveAgain
CHECK_DEADLOCK FALSE
