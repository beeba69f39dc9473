---------------------------- MODULE PortAllocator ----------------------------
(***************************************************************************)
(* The TCP port pool of the relay (crates/localup-exit-node/src/main.rs,   *)
(* struct PortAllocator; the CLI's relay carries the same code).           *)
(*                                                                         *)
(* A tunnel that asks for a TCP endpoint gets a port of a fixed range: the *)
(* one it holds already, the one it asked for, the one its id hashes to, a *)
(* nearby one, or any other.  A tunnel that leaves keeps its port reserved *)
(* for Ttl; a periodic task returns expired reservations to the pool.      *)
(*                                                                         *)
(* Both maps are locked for the whole of every operation, so an operation  *)
(* is one action.  What can move underneath it is the operating system:    *)
(* is_port_available binds a probe socket, and another process may bind or *)
(* release a port between two probes of the same call.                     *)
(***************************************************************************)
EXTENDS Integers, FiniteSets

CONSTANTS
    Tunnel,        \* the ids a client can present (localup_id)
    RangeStart,    \* first and last port of the relay's TCP range
    RangeEnd,
    Hash,          \* the 64-bit hash of an id
    NearbySpan,    \* how far from the preferred port to look first (10)
    Ttl,           \* how long the port of a departed tunnel stays reserved
    MaxTime        \* bound on the clock

Port == RangeStart .. RangeEnd

\* hash_to_port computes the size of the range in 16 bits, where the full
\* range 0..65535 wraps to 0 and the remainder panics: that range is excluded.
ASSUME PortAssumption ==
    /\ RangeStart \in Nat /\ RangeEnd \in Nat
    /\ RangeStart <= RangeEnd /\ RangeEnd < 65536
    /\ RangeEnd - RangeStart + 1 < 65536
    /\ Hash \in [Tunnel -> Nat]
    /\ NearbySpan \in Nat /\ Ttl \in Nat /\ MaxTime \in Nat

VARIABLES
    available,     \* ports in the pool
    allocated,     \* id -> its allocation, or NoAllocation
    bound,         \* ports some socket of the machine listens on
    now            \* the clock

vars == <<available, allocated, bound, now>>

NoAllocation == [port |-> -1, state |-> "none", until |-> 0]

Allocation ==
    [port : Port, state : {"Active"}, until : {0}]
        \cup [port : Port, state : {"Reserved"}, until : 0 .. MaxTime + Ttl]

Active(p) == [port |-> p, state |-> "Active", until |-> 0]
Reserved(p, time) == [port |-> p, state |-> "Reserved", until |-> time]

Held(t) == allocated[t] # NoAllocation

\* No request at all, which is also how the handler passes on port 0.
NoPort == -1

Init ==
    /\ available = Port
    /\ allocated = [t \in Tunnel |-> NoAllocation]
    /\ bound \in SUBSET Port
    /\ now = 0

-----------------------------------------------------------------------------
(***************************************************************************)
(* allocate.  It returns Ok(port) or an error and may drop ports that a    *)
(* probe found bound.  The outcomes of one call are the records            *)
(* [port, pool]: the port granted (NoPort for an error) and the pool left. *)
(* `first' is what the first probe of the preferred or requested port      *)
(* sees, `later' what the other probes of the same call see.               *)
(***************************************************************************)
Granted(p, pool) == [port |-> p, pool |-> pool \ {p}]
Refused(pool) == [port |-> NoPort, pool |-> pool]

hash_to_port(t) == RangeStart + (Hash[t] % (RangeEnd - RangeStart + 1))

\* The order in which the ports around the preferred one are tried: +1, -1,
\* +2, -2, ...
Rank(pref, p) == IF p > pref THEN 2 * (p - pref) - 1 ELSE 2 * (pref - p)

\* Fault: the pool is not consulted, only the operating system.
RequestedOutcome_NoPool(p, first, later) ==
    IF p \notin first THEN Granted(p, available) ELSE Refused(available)

\* Fault: the operating system is not asked whether the port is free.
RequestedOutcome_NoProbe(p, first, later) ==
    IF p \in available THEN Granted(p, available) ELSE Refused(available)

RequestedOutcome(p, first, later) ==
    IF p \notin available THEN Refused(available)
    ELSE IF p \notin first THEN Granted(p, available)
    ELSE IF p \in later THEN Refused(available \ {p})
    ELSE Refused(available)      \* bound at the first probe, free at the second

\* The outcomes of trying every remaining port, in the unspecified order in
\* which the hash set is iterated: bound ports met on the way are dropped.
FallbackGrants(p, pool, later) ==
    {Granted(p, pool \ dropped) : dropped \in SUBSET (pool \cap later)}

FallbackOutcomes(pool, later) ==
    IF pool \subseteq later
    THEN {Refused({})}
    ELSE UNION {FallbackGrants(p, pool, later) : p \in pool \ later}

\* The pool once the preferred port has been probed (twice, if bound at first).
AfterPreferred(pref, first, later) ==
    IF pref \in first \cap later THEN available \ {pref} ELSE available

Nearby(pref, pool) == {p \in pool \ {pref} : p - pref \in -NearbySpan .. NearbySpan}

\* The closest of the free nearby ports; bound ones tried before it are dropped.
NearbyOutcomes(pref, pool, later) ==
    {Granted(p, pool \ {q \in later : q \in Nearby(pref, pool) /\ Rank(pref, q) < Rank(pref, p)}) :
        p \in {r \in Nearby(pref, pool) \ later :
                 \A q \in Nearby(pref, pool) \ later : Rank(pref, r) <= Rank(pref, q)}}

PreferredOutcomes(pref, first, later) ==
    LET pool == AfterPreferred(pref, first, later)
    IN  IF pref \in available \ first
        THEN {Granted(pref, available)}
        ELSE IF Nearby(pref, pool) \ later # {}
        THEN NearbyOutcomes(pref, pool, later)
        ELSE FallbackOutcomes(pool \ Nearby(pref, pool), later)

\* Fault: a returning tunnel is treated as a new one.
AllocateOutcomes_Forgetful(t, request, first, later) ==
    IF request # NoPort THEN {RequestedOutcome(request, first, later)}
    ELSE PreferredOutcomes(hash_to_port(t), first, later)

AllocateOutcomes(t, request, first, later) ==
    IF Held(t) THEN {[port |-> allocated[t].port, pool |-> available]}
    ELSE IF request # NoPort THEN {RequestedOutcome(request, first, later)}
    ELSE PreferredOutcomes(hash_to_port(t), first, later)

\* `later' is the state other processes leave the machine's ports in.
allocate(t, request, later) ==
    \E o \in AllocateOutcomes(t, request, bound, later) :
        /\ available' = o.pool
        /\ allocated' = IF o.port = NoPort THEN allocated
                        ELSE [allocated EXCEPT ![t] = Active(o.port)]
        /\ bound' = later
        /\ UNCHANGED now

\* Fault: the port is freed at once.
deallocate_AtOnce(t) ==
    /\ allocated' = [allocated EXCEPT ![t] = NoAllocation]
    /\ available' = available \cup ({allocated[t].port} \cap Port)
    /\ UNCHANGED <<bound, now>>

\* A departed tunnel's port is reserved, not freed.
deallocate(t) ==
    /\ allocated' = IF allocated[t].state = "Active"
                    THEN [allocated EXCEPT ![t] = Reserved(allocated[t].port, now + Ttl)]
                    ELSE allocated
    /\ UNCHANGED <<available, bound, now>>

\* Fault: the state is not examined.
Expired_AnyState(t) == allocated[t].until < now
\* Fault: only the port of a tunnel that is served expires.
Expired_Active(t) == allocated[t].state = "Active" /\ allocated[t].until < now

Expired(t) == allocated[t].state = "Reserved" /\ allocated[t].until < now

\* Fault: the reservation is dropped and its port is not returned.
cleanup_expired_NoReturn ==
    /\ allocated' = [t \in Tunnel |-> IF Expired(t) THEN NoAllocation ELSE allocated[t]]
    /\ UNCHANGED <<available, bound, now>>

cleanup_expired ==
    /\ available' = available \cup {allocated[t].port : t \in {u \in Tunnel : Expired(u)}}
    /\ allocated' = [t \in Tunnel |-> IF Expired(t) THEN NoAllocation ELSE allocated[t]]
    /\ UNCHANGED <<bound, now>>

\* Other processes bind and release ports; time passes.
OtherProcesses == bound' \in SUBSET Port /\ UNCHANGED <<available, allocated, now>>

Tick == now < MaxTime /\ now' = now + 1 /\ UNCHANGED <<available, allocated, bound>>

\* Bound: the clock must be able to outlive the reservations it starts.
ClockLeft == now + Ttl < MaxTime

Next ==
    \/ \E t \in Tunnel, request \in Port \cup {NoPort}, later \in SUBSET Port :
          allocate(t, request, later)
    \/ \E t \in Tunnel : ClockLeft /\ deallocate(t)
    \/ cleanup_expired
    \/ OtherProcesses
    \/ Tick

Fairness == WF_vars(Tick) /\ WF_vars(cleanup_expired)

Spec == Init /\ [][Next]_vars /\ Fairness
-----------------------------------------------------------------------------
HeldPorts == {allocated[t].port : t \in {u \in Tunnel : Held(u)}}

\* The pool and the allocations range over the relay's ports.
TypeOK ==
    /\ available \subseteq Port
    /\ allocated \in [Tunnel -> Allocation \cup {NoAllocation}]
    /\ bound \subseteq Port
    /\ now \in 0 .. MaxTime

\* A port is granted to one tunnel at a time, whether that tunnel is connected
\* or its port is only reserved for its return, and a port that is granted is
\* not also on offer in the pool.
PortsExclusive ==
    /\ available \cap HeldPorts = {}
    /\ \A t, u \in Tunnel : Held(t) /\ Held(u) /\ allocated[t].port = allocated[u].port => t = u

\* allocate and deallocate never take a tunnel's port away or change it; only
\* cleanup_expired does, and not before the reservation has run out.
ReservationHonoured ==
    [][\A t \in Tunnel : Held(t) =>
          \/ allocated'[t].port = allocated[t].port
          \/ /\ allocated[t].state = "Reserved" /\ allocated[t].until < now
             /\ allocated'[t] = NoAllocation]_vars

\* A port that the allocator accounts for (in the pool or granted) stops being
\* accounted for only when a probe found it bound by some process.
NoPortVanishes ==
    [][(available \cup HeldPorts) \ bound' \subseteq available' \cup HeldPorts']_vars

\* A reservation does not last for ever: the tunnel returns or the port goes
\* back to the pool.
ReservationEnds ==
    \A t \in Tunnel : (allocated[t].state = "Reserved") ~> (allocated[t].state # "Reserved")

\* The allocator is the port lease its users rely on.
leaseBar == [t \in Tunnel |-> [port |-> allocated[t].port, state |-> allocated[t].state]]

Promise == INSTANCE PortLease WITH lease <- leaseBar

\* Every operation of the allocator is, to its users, a grant of a port nobody
\* holds, a renewal, a release, or the lapse of reservations.
LeasePromise == Promise!LeaseSpec
=============================================================================
