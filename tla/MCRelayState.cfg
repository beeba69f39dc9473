CONSTANTS
    d1 = d1
    w1 = w1
    c1 = c1
    c2 = c2
    c3 = c3
    r1 = r1
    r2 = r2
    r3 = r3
    i1 = i1
    i2 = i2
    NoDomain = NoDomain
    Domain = {d1, w1}
    Parent <- MCParent
    Call = {c1, c2, c3}
    Ops <- MCOps
    MaxOrders = 2
    MaxIssues = 2
    User = {"u", "v"}
    Request = {r1, r2, r3}
    MaxTokens = 3
    Id = {i1, i2}
    MaxRows = 3
    MaxClock = 3
    Minute = 2
    PageLimit = {1, 2}
    MaxStarts = 2
    MaxServers = 2
    Letter = {"a", "b"}
    Name <- MCName
    Pattern <- MCPattern
    Owner = {"t1", "t2"}
    MaxLength = 6
    t1 = t1
    t2 = t2
    Tunnel <- MCTunnel
    Hash <- MCHash
    RangeStart = 10
    RangeEnd = 11
    NearbySpan = 1
    MaxHandlers = 2
    Ttl = 1
    MaxTime = 3
SPECIFICATION Spec
INVARIANTS CertOfDomain  TokensHonoured ViewsTrue StartedWhole RoutesRight NoMisdelivery
PROPERTY Served
CHECK_DEADLOCK FALSE
