CONSTANTS
    Width = 2
    MinBits = 1
    MaxBits = 1
    Devices = {"d1", "d2"}
    Licenses = {"plus"}
    MaxPeers = 2
    Worlds <- MCWorlds
SPECIFICATION Spec
INVARIANTS
    OneNamespace
    RoutesFollowTunnels
    OnePeerPerAddress
    DefaultRouteByPreset
    OwnSecretsRestored
    ResaveChangesNothing
    WarpCredentialsHold
CHECK_DEADLOCK FALSE
