------------------------------ MODULE PortLease ------------------------------
(***************************************************************************)
(* What the relay's port pool promises its users (the PortAllocator trait  *)
(* of crates/localup-control/src/handler.rs): a tunnel leases at most one  *)
(* port, no two leases share one, a release keeps the port for the         *)
(* tunnel's return, and only a released lease can lapse.  Pools, hashing,  *)
(* probing and clocks are left to the implementation, module               *)
(* PortAllocator, of which the program has two copies: that of the exit    *)
(* node and that of `localup relay' (crates/localup-cli/src/main.rs).      *)
(***************************************************************************)
EXTENDS Integers

CONSTANTS Tunnel, Port

VARIABLE lease     \* tunnel -> [port, state]

NoLease == [port |-> -1, state |-> "none"]

LeaseOf(p, s) == [port |-> p, state |-> s]

Lease == [port : Port, state : {"Active", "Reserved"}]

LeaseInit == lease = [t \in Tunnel |-> NoLease]

Leased(p) == \E t \in Tunnel : lease[t] # NoLease /\ lease[t].port = p

\* A new lease, of a port nobody else has.
GrantPort(t, p) == ~Leased(p) /\ lease' = [lease EXCEPT ![t] = LeaseOf(p, "Active")]

Grant(t) == lease[t] = NoLease /\ \E p \in Port : GrantPort(t, p)

\* A tunnel that returns, or asks again, keeps the port it has.
Renew(t) ==
    /\ lease[t] # NoLease
    /\ lease' = [lease EXCEPT ![t] = LeaseOf(@.port, "Active")]

Release(t) ==
    lease' = IF lease[t].state = "Active"
             THEN [lease EXCEPT ![t] = LeaseOf(@.port, "Reserved")] ELSE lease

\* Some of the released leases lapse.
Lapse(ts) ==
    /\ \A t \in ts : lease[t].state = "Reserved"
    /\ lease' = [t \in Tunnel |-> IF t \in ts THEN NoLease ELSE lease[t]]

LeaseNext ==
    \/ \E t \in Tunnel : Grant(t) \/ Renew(t) \/ Release(t)
    \/ \E ts \in SUBSET Tunnel : Lapse(ts)

LeaseSpec == LeaseInit /\ [][LeaseNext]_lease
=============================================================================
