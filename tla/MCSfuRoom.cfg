CONSTANTS
    Peers = {p1, p2, p3}
    MaxOver = 1
    Window = 1
SPECIFICATION Spec
SYMMETRY Symmetry
INVARIANTS
    TypeOK
    MembershipInv
    OneKnowsTheOther
    KnownPeersCanDecrypt
    GhostsComeFromPeerList
    LeftoversAreUnannounced
    RoomAgrees
    KeyAfterPeerJoined
CHECK_DEADLOCK FALSE
