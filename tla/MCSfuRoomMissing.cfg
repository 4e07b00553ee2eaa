CONSTANTS
    Peers = {p1, p2}
    MaxOver = 0
    Window = 2
SPECIFICATION Spec
SYMMETRY Symmetry
INVARIANTS
    NewPeerCanDecrypt
CHECK_DEADLOCK FALSE
