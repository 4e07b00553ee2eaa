CONSTANTS
    Conns = {c1, c2, c3}
    Forwarders = {}
    Owner <- NoForwarder
    MaxClosed = 1
    MaxBuffered = 0
    Window = 1
    MaxReports = 1
SPECIFICATION FlowSpec
SYMMETRY Symmetry
CONSTRAINT OneDisturbance
INVARIANTS
    FlowTypeOK
    StuckForTwoReasonsOnly
CHECK_DEADLOCK FALSE
