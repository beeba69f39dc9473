------------------------ MODULE PortAllocatorProofs ------------------------
(***************************************************************************)
(* Proofs about the port pool, for every range, every set of tunnels and   *)
(* every hash function.                                                    *)
(***************************************************************************)
EXTENDS PortAllocator, TLAPS

USE PortAssumption

\* The port an id hashes to lies in the range.
LEMMA HashInRange ==
    ASSUME NEW t \in Tunnel
    PROVE  hash_to_port(t) \in Port
<1>1. Hash[t] \in Nat /\ RangeEnd - RangeStart + 1 \in Nat \ {0}
  OBVIOUS
<1>2. Hash[t] % (RangeEnd - RangeStart + 1) \in 0 .. RangeEnd - RangeStart
  BY <1>1
<1> QED
  BY <1>2 DEF hash_to_port, Port

\* The fallback of allocate grants a port of the pool or fails, and drops from
\* the pool only ports that are bound.
LEMMA FallbackFacts ==
    ASSUME NEW pool, NEW later, NEW o \in FallbackOutcomes(pool, later)
    PROVE  /\ o.port = NoPort \/ (o.port \in pool /\ o.port \notin o.pool)
           /\ o.pool \subseteq pool
           /\ pool \ o.pool \subseteq later \cup {o.port}
<1>1. CASE pool \subseteq later
  BY <1>1 DEF FallbackOutcomes, Refused
<1>2. CASE ~(pool \subseteq later)
  <2>1. o \in UNION {FallbackGrants(p, pool, later) : p \in pool \ later}
    BY <1>2 DEF FallbackOutcomes
  <2>2. PICK p \in pool \ later : o \in FallbackGrants(p, pool, later)
    BY <2>1
  <2>3. PICK dropped \in SUBSET (pool \cap later) : o = Granted(p, pool \ dropped)
    BY <2>2 DEF FallbackGrants
  <2> QED
    BY <2>3 DEF Granted
<1> QED
  BY <1>1, <1>2

\* What one call of allocate may return, whatever the probes of the operating
\* system see: a tunnel that holds a port gets that port and the pool is left
\* alone; another one gets a port of the pool, or an error; and the pool loses
\* nothing but that port and ports that a probe found bound.
LEMMA AllocateOutcomesFacts ==
    ASSUME TypeOK, NEW t \in Tunnel, NEW request \in Port \cup {NoPort},
           NEW later \in SUBSET Port,
           NEW o \in AllocateOutcomes(t, request, bound, later)
    PROVE  /\ Held(t) => o.port = allocated[t].port /\ o.pool = available
           /\ ~Held(t) => \/ o.port = NoPort
                          \/ o.port \in available /\ o.port \notin o.pool
           /\ o.pool \subseteq available
           /\ available \ o.pool \subseteq later \cup {o.port}
<1>1. CASE Held(t)
  BY <1>1 DEF AllocateOutcomes
<1>2. CASE ~Held(t) /\ request # NoPort
  <2>1. o = RequestedOutcome(request, bound, later)
    BY <1>2 DEF AllocateOutcomes
  <2> QED
    BY <1>2, <2>1 DEF RequestedOutcome, Granted, Refused, NoPort
<1>3. CASE ~Held(t) /\ request = NoPort
  <2> DEFINE pref == hash_to_port(t)
             pool == AfterPreferred(pref, bound, later)
             near == Nearby(pref, pool)
  <2>1. o \in PreferredOutcomes(pref, bound, later)
    BY <1>3 DEF AllocateOutcomes
  <2>2. pool \subseteq available /\ available \ pool \subseteq later /\ near \subseteq pool
    BY DEF AfterPreferred, Nearby
  <2>3. CASE pref \in available \ bound
    <3>1. o = Granted(pref, available)
      BY <2>1, <2>3 DEF PreferredOutcomes
    <3> QED
      BY <1>3, <2>3, <3>1 DEF Granted
  <2>4. CASE pref \notin available \ bound /\ near \ later # {}
    <3>1. o \in NearbyOutcomes(pref, pool, later)
      BY <2>1, <2>4 DEF PreferredOutcomes
    <3> HIDE DEF pool, near, pref
    <3>2. PICK p \in Nearby(pref, pool) \ later :
             o = Granted(p, pool \ {q \in later : q \in Nearby(pref, pool) /\ Rank(pref, q) < Rank(pref, p)})
      BY <3>1 DEF NearbyOutcomes
    <3>3. p \in available
      BY <2>2, <3>2 DEF near
    <3> QED
      BY <1>3, <2>2, <3>2, <3>3 DEF Granted
  <2>5. CASE pref \notin available \ bound /\ near \ later = {}
    <3>1. o \in FallbackOutcomes(pool \ near, later)
      BY <2>1, <2>5 DEF PreferredOutcomes
    <3> HIDE DEF pool, near, pref
    <3>2. near \subseteq later
      BY <2>5
    <3> QED
      BY <1>3, <2>2, <3>1, <3>2, FallbackFacts
  <2> QED
    BY <2>3, <2>4, <2>5
<1> QED
  BY <1>1, <1>2, <1>3

\* A port newly granted was free at one of the two moments at which the call
\* looked: it is not both bound when the call starts and bound when it ends.
LEMMA NewPortFree ==
    ASSUME NEW t, NEW request, NEW later, ~Held(t),
           NEW o \in AllocateOutcomes(t, request, bound, later), o.port # NoPort
    PROVE  o.port \notin bound \cap later
<1>1. CASE request # NoPort
  <2>1. o = RequestedOutcome(request, bound, later)
    BY <1>1 DEF AllocateOutcomes
  <2> QED
    BY <2>1 DEF RequestedOutcome, Granted, Refused
<1>2. CASE request = NoPort
  <2> DEFINE pref == hash_to_port(t)
             pool == AfterPreferred(pref, bound, later)
             rest == pool \ Nearby(pref, pool)
  <2>1. o \in PreferredOutcomes(pref, bound, later)
    BY <1>2 DEF AllocateOutcomes
  <2>2. \/ o = Granted(pref, available) /\ pref \notin bound
        \/ o \in NearbyOutcomes(pref, pool, later)
        \/ o \in FallbackOutcomes(rest, later)
    BY <2>1 DEF PreferredOutcomes
  <2> HIDE DEF pool, pref, rest
  <2>3. ASSUME o \in NearbyOutcomes(pref, pool, later)
        PROVE  o.port \notin later
    BY <2>3 DEF NearbyOutcomes, Granted
  <2>4. ASSUME o \in FallbackOutcomes(rest, later)
        PROVE  o.port \notin later
    <3>1. CASE rest \subseteq later
      BY <2>4, <3>1 DEF FallbackOutcomes, Refused
    <3>2. CASE ~(rest \subseteq later)
      <4>1. o \in UNION {FallbackGrants(p, rest, later) : p \in rest \ later}
        BY <2>4, <3>2 DEF FallbackOutcomes
      <4>2. PICK p \in rest \ later : o \in FallbackGrants(p, rest, later)
        BY <4>1
      <4> QED
        BY <4>2 DEF FallbackGrants, Granted
    <3> QED
      BY <3>1, <3>2
  <2> QED
    BY <2>2, <2>3, <2>4 DEF Granted
<1> QED
  BY <1>1, <1>2
-----------------------------------------------------------------------------
\* Every operation keeps the pool and the allocations within the range.
LEMMA TypeStep == TypeOK /\ [Next]_vars => TypeOK'
<1> SUFFICES ASSUME TypeOK, [Next]_vars PROVE TypeOK'
  OBVIOUS
<1>1. ASSUME NEW t \in Tunnel, NEW request \in Port \cup {NoPort},
             NEW later \in SUBSET Port, allocate(t, request, later)
      PROVE  TypeOK'
  <2>1. PICK o \in AllocateOutcomes(t, request, bound, later) :
           /\ available' = o.pool
           /\ allocated' = IF o.port = NoPort THEN allocated
                           ELSE [allocated EXCEPT ![t] = Active(o.port)]
           /\ bound' = later
           /\ UNCHANGED now
    BY <1>1 DEF allocate
  <2>2. o.pool \subseteq Port /\ (o.port = NoPort \/ o.port \in Port)
    <3>1. CASE Held(t)
      BY <3>1, AllocateOutcomesFacts DEF Held, Allocation, NoAllocation, TypeOK
    <3>2. CASE ~Held(t)
      BY <3>2, AllocateOutcomesFacts DEF TypeOK
    <3> QED
      BY <3>1, <3>2
  <2>3. o.port \in Port => Active(o.port) \in Allocation
    BY DEF Active, Allocation
  <2> QED
    BY <2>1, <2>2, <2>3 DEF TypeOK
<1>2. ASSUME NEW t \in Tunnel, ClockLeft, deallocate(t)
      PROVE  TypeOK'
  <2>1. now + Ttl \in 0 .. MaxTime + Ttl
    BY <1>2 DEF ClockLeft, TypeOK
  <2>2. CASE allocated[t].state = "Active"
    <3>1. allocated[t].port \in Port
      BY <2>2 DEF TypeOK, Allocation, NoAllocation
    <3>2. Reserved(allocated[t].port, now + Ttl) \in Allocation
      BY <2>1, <3>1 DEF Allocation, Reserved
    <3> QED
      BY <1>2, <2>2, <3>2 DEF deallocate, TypeOK
  <2> QED
    BY <1>2, <2>2 DEF deallocate, TypeOK
<1>3. CASE cleanup_expired
  <2>1. \A t \in Tunnel : Expired(t) => allocated[t].port \in Port
    BY DEF Expired, Allocation, NoAllocation, TypeOK
  <2> QED
    BY <1>3, <2>1 DEF cleanup_expired, TypeOK
<1>4. CASE OtherProcesses
  BY <1>4 DEF OtherProcesses, TypeOK
<1>5. CASE Tick
  BY <1>5 DEF Tick, TypeOK
<1>6. CASE UNCHANGED vars
  BY <1>6 DEF vars, TypeOK
<1> QED
  BY <1>1, <1>2, <1>3, <1>4, <1>5, <1>6 DEF Next

\* The pool and the allocations stay within the relay's range.
THEOREM TypeCorrect == Spec => []TypeOK
<1>1. Init => TypeOK
  BY DEF Init, TypeOK
<1> QED
  BY <1>1, TypeStep, PTL DEF Spec
-----------------------------------------------------------------------------
\* Every operation keeps the ports exclusive.
LEMMA ExclusiveStep == TypeOK /\ PortsExclusive /\ [Next]_vars => PortsExclusive'
<1> SUFFICES ASSUME TypeOK, PortsExclusive, [Next]_vars PROVE PortsExclusive'
  OBVIOUS
<1>1. ASSUME NEW t \in Tunnel, NEW request \in Port \cup {NoPort},
             NEW later \in SUBSET Port, allocate(t, request, later)
      PROVE  PortsExclusive'
  <2>1. PICK o \in AllocateOutcomes(t, request, bound, later) :
           /\ available' = o.pool
           /\ allocated' = IF o.port = NoPort THEN allocated
                           ELSE [allocated EXCEPT ![t] = Active(o.port)]
    BY <1>1 DEF allocate
  <2>2. Held(t)' => Held(t) \/ o.port # NoPort
    BY <2>1 DEF Held
  <2>3. \A u \in Tunnel \ {t} : allocated'[u] = allocated[u]
    BY <2>1 DEF TypeOK
  <2>4. o.port # NoPort => allocated'[t].port = o.port
    BY <2>1 DEF TypeOK, Active
  <2>5. CASE Held(t)
    <3>1. available' = available /\ o.port = allocated[t].port
      BY <2>1, <2>5, AllocateOutcomesFacts
    <3>2. \A u \in Tunnel : allocated'[u].port = allocated[u].port
      BY <2>1, <2>3, <2>4, <3>1
    <3>3. \A u \in Tunnel : Held(u)' => Held(u)
      BY <2>3, <2>5 DEF Held
    <3> QED
      BY <3>1, <3>2, <3>3 DEF PortsExclusive, HeldPorts
  <2>6. CASE ~Held(t) /\ o.port = NoPort
    <3>1. allocated' = allocated /\ available' \subseteq available
      BY <2>1, <2>6, AllocateOutcomesFacts
    <3> QED
      BY <3>1 DEF Held, PortsExclusive, HeldPorts
  <2>7. CASE ~Held(t) /\ o.port # NoPort
    <3>1. o.port \in available /\ o.port \notin available' /\ available' \subseteq available
      BY <2>1, <2>7, AllocateOutcomesFacts
    <3>2. \A u \in Tunnel \ {t} : (Held(u)' <=> Held(u)) /\ allocated'[u].port = allocated[u].port
      BY <2>3 DEF Held
    <3>3. \A u \in Tunnel \ {t} : Held(u) => allocated[u].port # o.port
      BY <3>1 DEF PortsExclusive, HeldPorts
    <3>4. available' \cap HeldPorts' = {}
      BY <2>4, <2>7, <3>1, <3>2 DEF PortsExclusive, HeldPorts
    <3>5. \A u, w \in Tunnel : Held(u)' /\ Held(w)' /\ allocated'[u].port = allocated'[w].port => u = w
      BY <2>4, <2>7, <3>2, <3>3 DEF PortsExclusive
    <3> QED
      BY <3>4, <3>5 DEF PortsExclusive
  <2> QED
    BY <2>5, <2>6, <2>7
<1>2. ASSUME NEW t \in Tunnel, ClockLeft, deallocate(t)
      PROVE  PortsExclusive'
  <2>1. \A u \in Tunnel : allocated'[u].port = allocated[u].port /\ (Held(u)' => Held(u))
    BY <1>2 DEF deallocate, Reserved, Held, NoAllocation, TypeOK
  <2> QED
    BY <1>2, <2>1 DEF deallocate, PortsExclusive, HeldPorts
<1>3. CASE cleanup_expired
  <2>1. \A u \in Tunnel : Held(u)' => Held(u) /\ ~Expired(u) /\ allocated'[u] = allocated[u]
    BY <1>3 DEF cleanup_expired, Held
  <2>2. \A u \in Tunnel : Expired(u) => Held(u)
    BY DEF Expired, Held, NoAllocation
  <2>3. \A p \in available' : p \in available \/ \E u \in Tunnel : Expired(u) /\ p = allocated[u].port
    BY <1>3 DEF cleanup_expired
  <2>4. \A u \in Tunnel : Held(u)' => allocated'[u].port \notin available'
    BY <2>1, <2>2, <2>3 DEF PortsExclusive, HeldPorts
  <2> QED
    BY <2>1, <2>4 DEF PortsExclusive, HeldPorts
<1>4. CASE OtherProcesses \/ Tick \/ UNCHANGED vars
  BY <1>4 DEF OtherProcesses, Tick, vars, Held, PortsExclusive, HeldPorts
<1> QED
  BY <1>1, <1>2, <1>3, <1>4 DEF Next

\* A port is granted to one tunnel at a time and is not in the pool meanwhile.
\* TypeOK is all the strengthening the invariant needs: a call of allocate that
\* grants a new port takes it out of the pool, where no granted port is.
THEOREM Exclusive == Spec => []PortsExclusive
<1>1. Init => PortsExclusive
  BY DEF Init, Held, PortsExclusive, HeldPorts
<1> QED
  BY <1>1, ExclusiveStep, TypeCorrect, PTL DEF Spec

\* No operation takes a tunnel's port away, or swaps it for another, before its
\* reservation has run out.
THEOREM Honoured == Spec => ReservationHonoured
<1>1. TypeOK /\ [Next]_vars =>
        [\A t \in Tunnel : Held(t) =>
            \/ allocated'[t].port = allocated[t].port
            \/ /\ allocated[t].state = "Reserved" /\ allocated[t].until < now
               /\ allocated'[t] = NoAllocation]_vars
  <2> SUFFICES ASSUME TypeOK, Next, NEW u \in Tunnel, Held(u)
               PROVE  \/ allocated'[u].port = allocated[u].port
                      \/ /\ allocated[u].state = "Reserved" /\ allocated[u].until < now
                         /\ allocated'[u] = NoAllocation
    BY DEF vars
  <2> DEFINE Kept == \/ allocated'[u].port = allocated[u].port
                     \/ /\ allocated[u].state = "Reserved" /\ allocated[u].until < now
                        /\ allocated'[u] = NoAllocation
  <2>1. ASSUME NEW t \in Tunnel, NEW request \in Port \cup {NoPort},
               NEW later \in SUBSET Port, allocate(t, request, later)
        PROVE  Kept
    <3>1. PICK o \in AllocateOutcomes(t, request, bound, later) :
             allocated' = IF o.port = NoPort THEN allocated
                          ELSE [allocated EXCEPT ![t] = Active(o.port)]
      BY <2>1 DEF allocate
    <3>2. CASE t = u
      BY <3>1, <3>2, AllocateOutcomesFacts DEF Active, TypeOK
    <3>3. CASE t # u
      BY <3>1, <3>3 DEF TypeOK
    <3> QED
      BY <3>2, <3>3
  <2>2. ASSUME NEW t \in Tunnel, ClockLeft, deallocate(t)
        PROVE  Kept
    BY <2>2 DEF deallocate, Reserved, TypeOK
  <2>3. ASSUME cleanup_expired PROVE Kept
    BY <2>3 DEF cleanup_expired, Expired
  <2>4. ASSUME OtherProcesses \/ Tick PROVE Kept
    BY <2>4 DEF OtherProcesses, Tick
  <2>5. Kept
    <3> HIDE DEF Kept
    <3> QED
      BY <2>1, <2>2, <2>3, <2>4 DEF Next
  <2> QED
    BY <2>5
<1> QED
  BY <1>1, TypeCorrect, PTL DEF Spec, ReservationHonoured

\* The allocator loses track of a port only when a probe finds it bound: the
\* ports on offer and the ports granted are conserved by every operation.
THEOREM Conserved == Spec => NoPortVanishes
<1>1. TypeOK /\ [Next]_vars =>
        [(available \cup HeldPorts) \ bound' \subseteq available' \cup HeldPorts']_vars
  <2> SUFFICES ASSUME TypeOK, Next, NEW p \in available \cup HeldPorts, p \notin bound'
               PROVE  p \in available' \cup HeldPorts'
    BY DEF vars
  <2> DEFINE Kept == p \in available' \cup HeldPorts'
  <2>1. ASSUME NEW t \in Tunnel, NEW request \in Port \cup {NoPort},
               NEW later \in SUBSET Port, allocate(t, request, later)
        PROVE  Kept
    <3>1. PICK o \in AllocateOutcomes(t, request, bound, later) :
             /\ available' = o.pool
             /\ allocated' = IF o.port = NoPort THEN allocated
                             ELSE [allocated EXCEPT ![t] = Active(o.port)]
             /\ bound' = later
      BY <2>1 DEF allocate
    <3>2. available \ available' \subseteq later \cup {o.port}
      BY <3>1, AllocateOutcomesFacts
    <3>3. Held(t) => o.port = allocated[t].port
      BY AllocateOutcomesFacts
    <3>4. \A u \in Tunnel : Held(u) => Held(u)' /\ allocated'[u].port = allocated[u].port
      BY <3>1, <3>3 DEF Held, Active, NoAllocation, TypeOK
    <3>5. o.port # NoPort => o.port \in HeldPorts'
      <4>1. o.port # NoPort => Held(t)' /\ allocated'[t].port = o.port
        BY <3>1 DEF Held, Active, NoAllocation, TypeOK
      <4> QED
        BY <4>1 DEF HeldPorts
    <3>6. CASE p \in HeldPorts
      BY <3>4, <3>6 DEF HeldPorts
    <3>7. CASE p \in available
      <4>1. p # NoPort
        BY <3>7 DEF TypeOK, Port, NoPort
      <4> QED
        BY <3>1, <3>2, <3>5, <3>7, <4>1
    <3> QED
      BY <3>6, <3>7
  <2>2. ASSUME NEW t \in Tunnel, ClockLeft, deallocate(t)
        PROVE  Kept
    <3>1. \A u \in Tunnel : Held(u) => Held(u)' /\ allocated'[u].port = allocated[u].port
      BY <2>2 DEF deallocate, Reserved, Held, NoAllocation, TypeOK
    <3> QED
      BY <2>2, <3>1 DEF deallocate, HeldPorts
  <2>3. ASSUME cleanup_expired PROVE Kept
    <3>1. \A u \in Tunnel : Held(u) /\ ~Expired(u) => Held(u)' /\ allocated'[u] = allocated[u]
      BY <2>3 DEF cleanup_expired, Held
    <3>2. \A u \in Tunnel : Expired(u) => allocated[u].port \in available'
      BY <2>3 DEF cleanup_expired
    <3>3. available \subseteq available'
      BY <2>3 DEF cleanup_expired
    <3> QED
      BY <3>1, <3>2, <3>3 DEF HeldPorts
  <2>4. ASSUME OtherProcesses \/ Tick PROVE Kept
    BY <2>4 DEF OtherProcesses, Tick, HeldPorts, Held
  <2>5. Kept
    <3> HIDE DEF Kept
    <3> QED
      BY <2>1, <2>2, <2>3, <2>4 DEF Next
  <2> QED
    BY <2>5
<1> QED
  BY <1>1, TypeCorrect, PTL DEF Spec, NoPortVanishes

-----------------------------------------------------------------------------
\* A function that differs from f at one point only.
LEMMA ChangedAt ==
    ASSUME NEW S, NEW f, NEW g, NEW x \in S, NEW v,
           f = [y \in S |-> f[y]], g = [y \in S |-> g[y]],
           g[x] = v, \A y \in S \ {x} : g[y] = f[y]
    PROVE  g = [f EXCEPT ![x] = v]
  OBVIOUS

\* The allocator implements the lease its users rely on: seen through leaseBar,
\* every operation is a grant of a port nobody holds, a renewal, a release, the
\* lapse of released leases, or no change.
THEOREM Implements == Spec => LeasePromise
<1>1. Init => Promise!LeaseInit
  BY DEF Init, leaseBar, NoAllocation, Promise!LeaseInit, Promise!NoLease
<1>2. TypeOK /\ PortsExclusive /\ [Next]_vars => [Promise!LeaseNext]_leaseBar
  <2> SUFFICES ASSUME TypeOK, PortsExclusive, [Next]_vars
               PROVE  Promise!LeaseNext \/ leaseBar' = leaseBar
    OBVIOUS
  <2> DEFINE Step == Promise!LeaseNext \/ leaseBar' = leaseBar
  <2>0. leaseBar = [u \in Tunnel |-> leaseBar[u]] /\ leaseBar' = [u \in Tunnel |-> leaseBar'[u]]
    BY DEF leaseBar
  <2>1. ASSUME NEW t \in Tunnel, NEW request \in Port \cup {NoPort},
               NEW later \in SUBSET Port, allocate(t, request, later)
        PROVE  Step
    <3>1. PICK o \in AllocateOutcomes(t, request, bound, later) :
             allocated' = IF o.port = NoPort THEN allocated
                          ELSE [allocated EXCEPT ![t] = Active(o.port)]
      BY <2>1 DEF allocate
    <3>2. CASE o.port = NoPort
      BY <3>1, <3>2 DEF leaseBar
    <3>3. CASE o.port # NoPort /\ Held(t)
      <4>1. o.port = allocated[t].port
        BY <3>3, AllocateOutcomesFacts
      <4>2. allocated'[t] = Active(leaseBar[t].port) /\ \A u \in Tunnel \ {t} : allocated'[u] = allocated[u]
        BY <3>1, <3>3, <4>1 DEF leaseBar, TypeOK
      <4>3. leaseBar' = [leaseBar EXCEPT ![t] = Promise!LeaseOf(leaseBar[t].port, "Active")]
        <5>1. leaseBar'[t] = Promise!LeaseOf(leaseBar[t].port, "Active")
          BY <4>2 DEF leaseBar, Active, Promise!LeaseOf
        <5>2. \A u \in Tunnel \ {t} : leaseBar'[u] = leaseBar[u]
          BY <4>2 DEF leaseBar
        <5> QED
          BY <2>0, <5>1, <5>2, ChangedAt
      <4>4. leaseBar[t] # Promise!NoLease
        BY <3>3 DEF leaseBar, Held, Allocation, NoAllocation, TypeOK, Promise!NoLease
      <4>5. Promise!Renew(t)
        BY <4>3, <4>4 DEF Promise!Renew
      <4> QED
        BY <4>5 DEF Promise!LeaseNext
    <3>4. CASE o.port # NoPort /\ ~Held(t)
      <4>1. o.port \in available
        BY <3>4, AllocateOutcomesFacts
      <4>2. allocated'[t] = Active(o.port) /\ \A u \in Tunnel \ {t} : allocated'[u] = allocated[u]
        BY <3>1, <3>4 DEF TypeOK
      <4>3. leaseBar' = [leaseBar EXCEPT ![t] = Promise!LeaseOf(o.port, "Active")]
        <5>1. leaseBar'[t] = Promise!LeaseOf(o.port, "Active")
          BY <4>2 DEF leaseBar, Active, Promise!LeaseOf
        <5>2. \A u \in Tunnel \ {t} : leaseBar'[u] = leaseBar[u]
          BY <4>2 DEF leaseBar
        <5> QED
          BY <2>0, <5>1, <5>2, ChangedAt
      <4>4. leaseBar[t] = Promise!NoLease
        BY <3>4 DEF leaseBar, Held, NoAllocation, Promise!NoLease
      <4>5. \A u \in Tunnel : leaseBar[u] # Promise!NoLease => Held(u) /\ leaseBar[u].port = allocated[u].port
        BY DEF leaseBar, Held, NoAllocation, Promise!NoLease
      <4>6. ~Promise!Leased(o.port)
        BY <4>1, <4>5 DEF Promise!Leased, PortsExclusive, HeldPorts
      <4>7. o.port \in Port
        BY <4>1 DEF TypeOK
      <4>8. Promise!Grant(t)
        <5>1. Promise!GrantPort(t, o.port)
          BY <4>3, <4>6 DEF Promise!GrantPort
        <5> QED
          BY <4>4, <4>7, <5>1 DEF Promise!Grant
      <4> QED
        BY <4>8 DEF Promise!LeaseNext
    <3> QED
      BY <3>2, <3>3, <3>4
  <2>2. ASSUME NEW t \in Tunnel, ClockLeft, deallocate(t)
        PROVE  Step
    <3>1. CASE allocated[t].state = "Active"
      <4>1. allocated' = [allocated EXCEPT ![t] = Reserved(allocated[t].port, now + Ttl)]
        BY <2>2, <3>1 DEF deallocate
      <4>2. /\ allocated'[t] = Reserved(leaseBar[t].port, now + Ttl)
            /\ \A u \in Tunnel \ {t} : allocated'[u] = allocated[u]
        BY <4>1 DEF leaseBar, TypeOK
      <4>3. leaseBar' = [leaseBar EXCEPT ![t] = Promise!LeaseOf(leaseBar[t].port, "Reserved")]
        <5>1. leaseBar'[t] = Promise!LeaseOf(leaseBar[t].port, "Reserved")
          BY <4>2 DEF leaseBar, Reserved, Promise!LeaseOf
        <5>2. \A u \in Tunnel \ {t} : leaseBar'[u] = leaseBar[u]
          BY <4>2 DEF leaseBar
        <5> QED
          BY <2>0, <5>1, <5>2, ChangedAt
      <4>4. leaseBar[t].state = "Active"
        BY <3>1 DEF leaseBar
      <4>5. Promise!Release(t)
        BY <4>3, <4>4 DEF Promise!Release
      <4> QED
        BY <4>5 DEF Promise!LeaseNext
    <3>2. CASE allocated[t].state # "Active"
      BY <2>2, <3>2 DEF deallocate, leaseBar
    <3> QED
      BY <3>1, <3>2
  <2>3. ASSUME cleanup_expired PROVE Step
    <3> DEFINE ts == {u \in Tunnel : Expired(u)}
    <3>1. \A u \in ts : leaseBar[u].state = "Reserved"
      BY DEF leaseBar, Expired
    <3>2. leaseBar' = [u \in Tunnel |-> IF u \in ts THEN Promise!NoLease ELSE leaseBar[u]]
      BY <2>3 DEF cleanup_expired, leaseBar, NoAllocation, Promise!NoLease
    <3>3. ts \in SUBSET Tunnel
      OBVIOUS
    <3> HIDE DEF ts
    <3> QED
      BY <3>1, <3>2, <3>3 DEF Promise!Lapse, Promise!LeaseNext
  <2>4. ASSUME OtherProcesses \/ Tick \/ UNCHANGED vars PROVE Step
    BY <2>4 DEF OtherProcesses, Tick, vars, leaseBar
  <2>5. Step
    <3> HIDE DEF Step
    <3> QED
      BY <2>1, <2>2, <2>3, <2>4 DEF Next
  <2> QED
    BY <2>5
<1> QED
  BY <1>1, <1>2, TypeCorrect, Exclusive, PTL DEF Spec, LeasePromise, Promise!LeaseSpec
=============================================================================
