CONSTANTS
    a1 = a1
    a2 = a2
    x = x
    y = y
    c1 = c1
    c2 = c2
    c3 = c3
    r1 = r1
    NoAddress = NoAddress
    NoConn = NoConn
    NoAgent = NoAgent
    Agent = {a1, a2}
    Address = {x, y}
    Client = {r1}
    Wants <- MCWants
    Conn = {c1, c2, c3}
    Quic = {c1, c2}
    Parts = {"registry", "stream", "client", "agent"}
    Pieces = 1
    MaxAttempts = 7
    Spaces <- MCSpaces
    AllowedCidrs = {"lan"}
    AllowedPorts <- MCPorts
SPECIFICATION MCSpec
INVARIANTS AgentsRight ForwardsToTarget ReverseIntact
PROPERTIES ReverseEnds LossIsNoticed
CHECK_DEADLOCK FALSE
