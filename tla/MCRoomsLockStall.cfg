CONSTANTS
    c1 = c1
    c2 = c2
    c3 = c3
    f1 = f1
    Conns = {c1, c2}
    Forwarders = {f1}
    Owner <- OneSender
    MaxClosed = 1
    MaxBuffered = 1
SPECIFICATION FairSpec
PROPERTY
    DepartureIsAnnounced
CHECK_DEADLOCK FALSE
