CONSTANTS
    t1 = t1
    t2 = t2
    Tunnel <- MCTunnel
    Hash <- MCHash
    RangeStart = 10
    RangeEnd = 12
    NearbySpan = 1
    Ttl = 1
    MaxTime = 3
SPECIFICATION Spec
INVARIANTS TypeOK PortsExclusive
PROPERTIES ReservationHonoured NoPortVanishes ReservationEnds LeasePromise
