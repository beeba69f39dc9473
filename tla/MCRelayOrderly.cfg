CONSTANTS
    t1 = t1
    t2 = t2
    a = a
    w = w
    s = s
    c1 = c1
    c2 = c2
    c3 = c3
    NoTunnel = NoTunnel
    NoConn = NoConn
    NoSlot = NoSlot
    Slot <- MCSlot
    Parent <- MCParent
    Port <- MCPort
    Tunnel = {t1, t2}
    Conn = {c1, c2, c3}
    Quic = {c1, c2}
    Custom = {w}
    Endpoints <- Apart
    Overlap = FALSE
SPECIFICATION FairSpec
INVARIANTS TypeOK Reachable
PROPERTY HandlersEnd
CHECK_DEADLOCK FALSE
