--------------------------- MODULE TcpProxyProofs ---------------------------
(***************************************************************************)
(* Proofs about the TCP endpoints of the relay: whatever the interleaving  *)
(* of handlers, outer tasks, proxy servers and other processes, the pool   *)
(* stays exclusive, a connection reaches the tunnel its port is leased to, *)
(* and a proxy that fails to bind leaves its tunnel served.  And about the *)
(* routes of host names: whatever is registered and withdrawn, a visitor   *)
(* reaches the tunnel that registered the name or the pattern above it.    *)
(***************************************************************************)
EXTENDS TcpProxy, RouteRegistry, SequenceTheorems, TLAPS

\* The facts already proved about the pool, instantiated as TcpProxy does.
Facts == INSTANCE PortAllocatorProofs

\* The pool's assumption holds for the pool of this component.
LEMMA PoolAssumption == Facts!PortAssumption
  BY TcpAssumption DEF Pool!PortAssumption, Facts!PortAssumption

\* The two instances of the pool speak of the same state and of the same
\* outcomes of allocate.
LEMMA SameState ==
    /\ Port = Facts!Port /\ Pool!Port = Facts!Port /\ Pool!NoPort = Facts!NoPort
    /\ Pool!NoAllocation = Facts!NoAllocation
    /\ \A t : Pool!Held(t) <=> Facts!Held(t)
    /\ \A p : Pool!Active(p) = Facts!Active(p)
  BY DEF Port, Pool!Active, Facts!Active, Pool!Port, Facts!Port, Pool!NoPort, Facts!NoPort,
         Pool!NoAllocation, Facts!NoAllocation, Pool!Held, Facts!Held

\* Allocate has the same outcomes in both instances.
LEMMA SameOutcomes ==
    ASSUME NEW t, NEW request, NEW later
    PROVE  Pool!AllocateOutcomes(t, request, bound, later)
             = Facts!AllocateOutcomes(t, request, bound, later)
  BY DEF Pool!AllocateOutcomes, Facts!AllocateOutcomes, Pool!Held,
         Facts!Held, Pool!NoAllocation, Facts!NoAllocation, Pool!NoPort,
         Facts!NoPort, Pool!RequestedOutcome, Facts!RequestedOutcome,
         Pool!PreferredOutcomes, Facts!PreferredOutcomes,
         Pool!hash_to_port, Facts!hash_to_port, Pool!Granted,
         Facts!Granted, Pool!Refused, Facts!Refused, Pool!AfterPreferred,
         Facts!AfterPreferred, Pool!Nearby, Facts!Nearby,
         Pool!NearbyOutcomes, Facts!NearbyOutcomes, Pool!Rank, Facts!Rank,
         Pool!FallbackOutcomes, Facts!FallbackOutcomes,
         Pool!FallbackGrants, Facts!FallbackGrants

\* The invariants of the pool are the same in both instances,
LEMMA SameInvariants ==
    /\ Pool!TypeOK <=> Facts!TypeOK
    /\ Pool!PortsExclusive <=> Facts!PortsExclusive
  BY DEF Pool!TypeOK, Facts!TypeOK, Pool!PortsExclusive,
         Facts!PortsExclusive, Pool!HeldPorts, Facts!HeldPorts, Pool!Held,
         Facts!Held, Pool!Port, Facts!Port, Pool!Allocation,
         Facts!Allocation, Pool!NoAllocation, Facts!NoAllocation

\* in the next state as well,
LEMMA SameInvariantsNext ==
    /\ Pool!TypeOK' <=> Facts!TypeOK'
    /\ Pool!PortsExclusive' <=> Facts!PortsExclusive'
  BY DEF Pool!TypeOK, Facts!TypeOK, Pool!PortsExclusive,
         Facts!PortsExclusive, Pool!HeldPorts, Facts!HeldPorts, Pool!Held,
         Facts!Held, Pool!Port, Facts!Port, Pool!Allocation,
         Facts!Allocation, Pool!NoAllocation, Facts!NoAllocation

\* and a step of the one is a step of the other.
LEMMA SameNext == [Pool!Next]_poolVars => [Facts!Next]_Facts!vars
<1> SUFFICES ASSUME [Pool!Next]_poolVars PROVE [Facts!Next]_Facts!vars
  OBVIOUS
<1>1. ASSUME NEW t \in Tunnel, NEW request \in Pool!Port \cup {Pool!NoPort},
             NEW later \in SUBSET Pool!Port, Pool!allocate(t, request, later)
      PROVE  Facts!Next
  <2>1. Facts!allocate(t, request, later)
    BY <1>1, SameOutcomes, SameState DEF Pool!allocate, Facts!allocate
  <2> QED
    BY <2>1, SameState DEF Facts!Next
<1>2. ASSUME NEW t \in Tunnel, Pool!ClockLeft, Pool!deallocate(t)
      PROVE  Facts!Next
  BY <1>2 DEF Facts!Next, Pool!ClockLeft, Facts!ClockLeft, Pool!deallocate,
         Facts!deallocate, Pool!Reserved, Facts!Reserved
<1>3. Pool!cleanup_expired => Facts!Next
  BY DEF Facts!Next, Pool!cleanup_expired, Facts!cleanup_expired, Pool!Expired,
         Facts!Expired, Pool!NoAllocation, Facts!NoAllocation
<1>4. Pool!OtherProcesses => Facts!Next
  BY DEF Facts!Next, Pool!OtherProcesses, Facts!OtherProcesses, Pool!Port, Facts!Port
<1>5. Pool!Tick => Facts!Next
  BY DEF Facts!Next, Pool!Tick, Facts!Tick
<1>6. UNCHANGED poolVars => UNCHANGED Facts!vars
  BY DEF poolVars, Facts!vars
<1> QED
  BY <1>1, <1>2, <1>3, <1>4, <1>5, <1>6 DEF Pool!Next

\* The pool's invariants, as this component names them.
LEMMA PoolStep ==
    Pool!TypeOK /\ Pool!PortsExclusive /\ [Pool!Next]_poolVars
        => Pool!TypeOK' /\ Pool!PortsExclusive'
  BY PoolAssumption, SameInvariants, SameInvariantsNext, SameNext,
     Facts!TypeStep, Facts!ExclusiveStep

\* What a registration gets from the pool: an error, its own port again, or a
\* port of the pool that is not bound throughout the call.
LEMMA PoolAllocate ==
    ASSUME Pool!TypeOK, NEW t \in Tunnel, NEW request \in Port \cup {Pool!NoPort},
           NEW later \in SUBSET Port, Pool!allocate(t, request, later)
    PROVE  /\ bound' = later /\ now' = now
           /\ \/ allocated' = allocated /\ ~Pool!Held(t)
              \/ \E p \in Port : /\ allocated' = [allocated EXCEPT ![t] = Pool!Active(p)]
                                 /\ Pool!Held(t) => p = allocated[t].port
                                 /\ ~Pool!Held(t) => p \in available /\ p \notin bound \cap later
<1>1. PICK o \in Pool!AllocateOutcomes(t, request, bound, later) :
         /\ allocated' = IF o.port = Pool!NoPort THEN allocated
                         ELSE [allocated EXCEPT ![t] = Pool!Active(o.port)]
         /\ bound' = later
         /\ now' = now
  BY DEF Pool!allocate
<1>2. o \in Facts!AllocateOutcomes(t, request, bound, later)
  BY SameOutcomes
<1>3. Facts!TypeOK /\ request \in Facts!Port \cup {Facts!NoPort} /\ later \in SUBSET Facts!Port
  BY SameState, SameInvariants
<1>4. /\ Facts!Held(t) => o.port = allocated[t].port
      /\ ~Facts!Held(t) => o.port = Facts!NoPort \/ o.port \in available
  BY <1>2, <1>3, PoolAssumption, Facts!AllocateOutcomesFacts
<1>5. ~Facts!Held(t) /\ o.port # Facts!NoPort => o.port \notin bound \cap later
  BY <1>2, PoolAssumption, Facts!NewPortFree
<1>6. Pool!Held(t) => allocated[t].port \in Port /\ allocated[t].port # Pool!NoPort
  BY TcpAssumption DEF Pool!PortAssumption, Pool!TypeOK, Pool!Held, Pool!Allocation, Pool!NoAllocation, Pool!NoPort,
     Pool!Port, Port
<1>7. available \subseteq Port
  BY DEF Pool!TypeOK, Pool!Port, Port
<1> HIDE DEF Port
<1> QED
  BY <1>1, <1>4, <1>5, <1>6, <1>7, SameState
-----------------------------------------------------------------------------
Task == [tunnel : Tunnel, port : Port, state : {"binding", "listening"}]

TasksOK ==
    /\ tracked \in [Tunnel -> {"none", "spawned", "finished"}]
    /\ proxies \subseteq Task

\* The lease of a tunnel with a task still on its way to the port cannot be
\* the next to expire: it is active, or reserved at least until now.
Kept(t) == Pool!Held(t) /\ (allocated[t].state = "Active" \/ allocated[t].until >= now)
PendingKept == \A t \in Tunnel : Pending(t) => Kept(t)

\* A proxy about to bind aims at the port its tunnel holds.
AimsRight == \A x \in proxies : x.state = "binding" => x.port = allocated[x.tunnel].port

\* The inductive invariant: what the relay listens on is bound, which is why
\* the probe of allocate keeps it from being leased to someone else.
TcpInv ==
    /\ Pool!TypeOK /\ Pool!PortsExclusive /\ TasksOK
    /\ Own \subseteq bound
    /\ PendingKept /\ AimsRight /\ NoMisdelivery

\* Every step of the endpoints is a step of the pool, or none: the listeners are
\* to the pool what any other process of the machine is.
LEMMA TcpIsPool == Pool!TypeOK /\ TasksOK /\ [TcpNext]_tcpVars => [Pool!Next]_poolVars
<1> SUFFICES ASSUME Pool!TypeOK, TasksOK, [TcpNext]_tcpVars
             PROVE  Pool!Next \/ UNCHANGED poolVars
  OBVIOUS
<1> DEFINE Good == Pool!Next \/ UNCHANGED poolVars
<1>0. Port = Pool!Port
  BY SameState
<1>1. ASSUME NEW t \in Tunnel, NEW request \in Port \cup {Pool!NoPort}, NEW later \in SUBSET Port,
             RegisterTcp(t, request, later)
      PROVE  Good
  BY <1>0, <1>1 DEF RegisterTcp, Pool!Next
<1>2. ASSUME NEW t \in Tunnel, OuterTask(t) \/ AbortTask(t)
      PROVE  Good
  BY <1>2 DEF OuterTask, AbortTask
<1>3. ASSUME NEW t \in Tunnel, Deallocate(t)
      PROVE  Good
  BY <1>3 DEF Deallocate, Pool!Next
<1>4. ASSUME NEW x \in proxies, Bind(x)
      PROVE  Good
  <2>1. x.port \in Port
    BY DEF TasksOK, Task
  <2>2. bound' \in SUBSET Port /\ UNCHANGED <<available, allocated, now>>
    BY <1>0, <1>4, <2>1 DEF Bind, Pool!TypeOK
  <2> QED
    BY <1>0, <2>2 DEF Pool!OtherProcesses, Pool!Next
<1>5. ASSUME CleanupExpired \/ Tick
      PROVE  Good
  BY <1>5 DEF CleanupExpired, Tick, Pool!Next
<1>6. ASSUME OtherProcesses
      PROVE  Good
  <2>1. Own \subseteq Port
    BY DEF Own, TasksOK, Task
  <2>2. bound' \in SUBSET Port /\ UNCHANGED <<available, allocated, now>>
    BY <1>6, <2>1 DEF OtherProcesses
  <2> QED
    BY <1>0, <2>2 DEF Pool!OtherProcesses, Pool!Next
<1>7. ASSUME UNCHANGED tcpVars
      PROVE  Good
  BY <1>7 DEF tcpVars, poolVars
<1>8. Good
  <2> HIDE DEF Good
  <2> QED
    BY <1>1, <1>2, <1>3, <1>4, <1>5, <1>6, <1>7 DEF TcpNext
<1> QED
  BY <1>8
\* A lease seen from its fields.
LEMMA HeldFacts ==
    ASSUME Pool!TypeOK, NEW t \in Tunnel
    PROVE  /\ Pool!Held(t) => allocated[t].port \in Port /\ allocated[t].state \in {"Active", "Reserved"}
           /\ allocated[t].state \in {"Active", "Reserved"} => Pool!Held(t)
           /\ allocated[t].until \in Nat /\ now \in Nat
  BY TcpAssumption DEF Pool!PortAssumption, Pool!TypeOK, Pool!Held, Pool!Allocation, Pool!NoAllocation, Pool!Port, Port

\* The registration of an endpoint: the port is new, and then no listener has
\* it, or the one the tunnel holds, and then its listeners are the tunnel's.
LEMMA RegisterKeeps ==
    ASSUME TcpInv, NEW t \in Tunnel, NEW request \in Port \cup {Pool!NoPort},
           NEW later \in SUBSET Port, RegisterTcp(t, request, later)
    PROVE  TasksOK' /\ (Own \subseteq bound)' /\ PendingKept' /\ AimsRight' /\ NoMisdelivery'
<1> USE DEF TcpInv
<1>1. bound' = later /\ now' = now /\ proxies' = proxies /\ Own \subseteq later
  BY PoolAllocate DEF RegisterTcp
<1>2. Own' = Own
  BY <1>1 DEF Own
<1>3. CASE allocated' = allocated /\ ~Pool!Held(t)
  <2>1. tracked' = tracked
    BY <1>3 DEF RegisterTcp, Pool!Held
  <2>2. TasksOK' /\ AimsRight' /\ NoMisdelivery'
    BY <1>1, <1>3, <2>1 DEF TasksOK, AimsRight, NoMisdelivery, Pool!Held
  <2>3. PendingKept'
    BY <1>1, <1>3, <2>1 DEF PendingKept, Pending, Kept, Pool!Held
  <2> QED
    BY <1>1, <1>2, <2>2, <2>3
<1>4. ASSUME NEW p \in Port, allocated' = [allocated EXCEPT ![t] = Pool!Active(p)],
             Pool!Held(t) => p = allocated[t].port,
             ~Pool!Held(t) => p \in available /\ p \notin bound \cap later
      PROVE  TasksOK' /\ AimsRight' /\ NoMisdelivery' /\ PendingKept'
  <2>1. /\ allocated'[t] = Pool!Active(p)
        /\ \A u \in Tunnel \ {t} : allocated'[u] = allocated[u]
    BY <1>4 DEF Pool!TypeOK
  <2>2. allocated'[t].port = p /\ allocated'[t].state = "Active" /\ allocated'[t] # Pool!NoAllocation
    BY <2>1 DEF Pool!Active, Pool!NoAllocation
  <2>3. TasksOK'
    BY <1>1, <2>2 DEF TasksOK, RegisterTcp
  <2>4. \A u \in Tunnel \ {t} : tracked'[u] = tracked[u]
    BY DEF TasksOK, RegisterTcp
  <2>5. PendingKept'
    <3> SUFFICES ASSUME NEW u \in Tunnel, Pending(u)' PROVE Kept(u)'
      BY DEF PendingKept
    <3>1. CASE u = t
      BY <2>2, <3>1 DEF Kept, Pool!Held
    <3>2. CASE u # t
      <4>1. Pending(u)
        BY <1>1, <2>4, <3>2 DEF Pending
      <4> QED
        BY <1>1, <2>1, <3>2, <4>1 DEF PendingKept, Kept, Pool!Held
    <3> QED
      BY <3>1, <3>2
  <2>6. AimsRight'
    <3> SUFFICES ASSUME NEW x \in proxies, x.state = "binding"
                 PROVE  x.port = allocated'[x.tunnel].port
      BY <1>1 DEF AimsRight
    <3>1. x.tunnel \in Tunnel /\ Pending(x.tunnel)
      BY DEF TasksOK, Task, Pending
    <3>2. Pool!Held(x.tunnel)
      BY <3>1 DEF PendingKept, Kept
    <3> QED
      BY <1>4, <2>1, <2>2, <3>1, <3>2 DEF AimsRight
  <2>7. NoMisdelivery'
    <3> SUFFICES ASSUME NEW x \in proxies, NEW u \in Tunnel, x.state = "listening",
                        Pool!Held(u)', allocated'[u].port = x.port
                 PROVE  x.tunnel = u
      BY <1>1 DEF NoMisdelivery
    <3>1. x.port \in Own
      BY DEF Own
    <3>2. CASE u # t
      BY <2>1, <3>2 DEF NoMisdelivery, Pool!Held
    <3>3. CASE u = t /\ Pool!Held(t)
      BY <1>4, <2>2, <3>3 DEF NoMisdelivery
    <3>4. CASE u = t /\ ~Pool!Held(t)
      BY <1>1, <1>4, <2>2, <3>1, <3>4
    <3> QED
      BY <3>2, <3>3, <3>4
  <2> QED
    BY <2>3, <2>5, <2>6, <2>7
<1> QED
  BY <1>1, <1>2, <1>3, <1>4, PoolAllocate DEF RegisterTcp

\* The steps that leave the leases alone and start or drop a task.
LEMMA TasksKeep ==
    ASSUME TcpInv, NEW t \in Tunnel, OuterTask(t) \/ AbortTask(t)
    PROVE  TasksOK' /\ (Own \subseteq bound)' /\ PendingKept' /\ AimsRight' /\ NoMisdelivery'
<1> USE DEF TcpInv
<1>1. CASE OuterTask(t)
  <2> DEFINE new == Inner(t, allocated[t].port, "binding")
  <2>1. Pending(t) /\ Kept(t)
    BY <1>1 DEF OuterTask, Pending, PendingKept
  <2>2. new \in Task
    BY <2>1, HeldFacts DEF Kept, Task, Inner
  <2>3. /\ proxies' = proxies \cup {new}
        /\ tracked' = [tracked EXCEPT ![t] = "finished"]
        /\ allocated' = allocated /\ bound' = bound /\ now' = now
    BY <1>1 DEF OuterTask, poolVars
  <2>4. new.tunnel = t /\ new.port = allocated[t].port /\ new.state = "binding"
    BY DEF Inner
  <2> HIDE DEF new
  <2>5. TasksOK'
    BY <2>2, <2>3 DEF TasksOK
  <2>6. (Own \subseteq bound)'
    BY <2>3, <2>4 DEF Own
  <2>7. PendingKept'
    <3> SUFFICES ASSUME NEW u \in Tunnel, Pending(u)' PROVE Kept(u)'
      BY DEF PendingKept
    <3>1. Pending(u) \/ u = t
      BY <2>3, <2>4 DEF Pending, TasksOK
    <3> QED
      BY <2>1, <2>3, <3>1 DEF PendingKept, Kept, Pool!Held
  <2>8. AimsRight'
    BY <2>3, <2>4 DEF AimsRight
  <2>9. NoMisdelivery'
    BY <2>3, <2>4 DEF NoMisdelivery, Pool!Held
  <2> QED
    BY <2>5, <2>6, <2>7, <2>8, <2>9
<1>2. CASE AbortTask(t)
  <2>1. /\ proxies' = proxies /\ tracked' = [tracked EXCEPT ![t] = "none"]
        /\ allocated' = allocated /\ bound' = bound /\ now' = now
    BY <1>2 DEF AbortTask, poolVars
  <2>2. TasksOK' /\ (Own \subseteq bound)' /\ AimsRight' /\ NoMisdelivery'
    BY <2>1 DEF TasksOK, Own, AimsRight, NoMisdelivery, Pool!Held
  <2>3. \A u \in Tunnel : Pending(u)' => Pending(u)
    BY <2>1 DEF Pending, TasksOK
  <2>4. PendingKept'
    BY <2>1, <2>3 DEF PendingKept, Kept, Pool!Held
  <2> QED
    BY <2>2, <2>4
<1> QED
  BY <1>1, <1>2
\* A bind: the listener gets the port its tunnel holds, which nobody else does.
LEMMA BindKeeps ==
    ASSUME TcpInv, NEW x \in proxies, Bind(x)
    PROVE  TasksOK' /\ (Own \subseteq bound)' /\ PendingKept' /\ AimsRight' /\ NoMisdelivery'
<1> USE DEF TcpInv
<1> DEFINE new == Inner(x.tunnel, x.port, "listening")
<1>1. /\ x \in Task /\ x.tunnel \in Tunnel /\ x.port \in Port
      /\ new \in Task /\ new.tunnel = x.tunnel /\ new.port = x.port /\ new.state = "listening"
  BY DEF TasksOK, Task, Inner
<1>2. /\ x.state = "binding" /\ tracked' = tracked /\ allocated' = allocated /\ now' = now
      /\ \/ proxies' = proxies \ {x} /\ bound' = bound
         \/ proxies' = (proxies \ {x}) \cup {new} /\ bound' = bound \cup {x.port}
  BY DEF Bind
<1> HIDE DEF new
<1>3. Pool!Held(x.tunnel) /\ x.port = allocated[x.tunnel].port
  BY <1>1, <1>2 DEF PendingKept, Pending, Kept, AimsRight
<1>4. TasksOK'
  BY <1>1, <1>2 DEF TasksOK
<1>5. (Own \subseteq bound)'
  BY <1>1, <1>2 DEF Own
<1>6. PendingKept'
  <2>1. \A u \in Tunnel : Pending(u)' => Pending(u)
    BY <1>1, <1>2 DEF Pending
  <2> QED
    BY <1>2, <2>1 DEF PendingKept, Kept, Pool!Held
<1>7. AimsRight'
  BY <1>1, <1>2 DEF AimsRight
<1>8. NoMisdelivery'
  <2> SUFFICES ASSUME NEW y \in proxies', NEW u \in Tunnel, y.state = "listening",
                      Pool!Held(u), allocated[u].port = y.port
               PROVE  y.tunnel = u
    BY <1>2 DEF NoMisdelivery, Pool!Held
  <2>1. CASE y \in proxies
    BY <2>1 DEF NoMisdelivery
  <2>2. CASE y = new
    BY <1>1, <1>3, <2>2 DEF Pool!PortsExclusive
  <2> QED
    BY <1>2, <2>1, <2>2
<1> QED
  BY <1>4, <1>5, <1>6, <1>7, <1>8

\* A release reserves the port for Ttl from now; whoever is pending keeps it.
LEMMA DeallocateKeeps ==
    ASSUME TcpInv, NEW t \in Tunnel, Deallocate(t)
    PROVE  TasksOK' /\ (Own \subseteq bound)' /\ PendingKept' /\ AimsRight' /\ NoMisdelivery'
<1> USE DEF TcpInv
<1>1. proxies' = proxies /\ tracked' = tracked /\ bound' = bound /\ now' = now
  BY DEF Deallocate, Pool!deallocate
<1>2. \A u \in Tunnel : /\ allocated'[u].port = allocated[u].port
                        /\ Pool!Held(u)' <=> Pool!Held(u)
                        /\ Kept(u) => Kept(u)'
  <2>1. CASE allocated[t].state = "Active"
    <3>1. now + Ttl >= now /\ now + Ttl \in Nat
      BY HeldFacts, TcpAssumption DEF Pool!PortAssumption
    <3>2. allocated' = [allocated EXCEPT ![t] = Pool!Reserved(allocated[t].port, now + Ttl)]
      BY <2>1 DEF Deallocate, Pool!deallocate
    <3>3. /\ allocated'[t] = Pool!Reserved(allocated[t].port, now + Ttl)
          /\ \A u \in Tunnel \ {t} : allocated'[u] = allocated[u]
      BY <3>2 DEF Pool!TypeOK
    <3>4. /\ allocated'[t].port = allocated[t].port /\ allocated'[t].until = now + Ttl
          /\ allocated'[t] # Pool!NoAllocation
      BY <3>3 DEF Pool!Reserved, Pool!NoAllocation
    <3>5. Pool!Held(t)
      BY <2>1, HeldFacts
    <3> QED
      BY <1>1, <3>1, <3>3, <3>4, <3>5 DEF Pool!Held, Kept
  <2>2. CASE allocated[t].state # "Active"
    <3>1. allocated' = allocated
      BY <2>2 DEF Deallocate, Pool!deallocate
    <3> QED
      BY <1>1, <3>1 DEF Pool!Held, Kept
  <2> QED
    BY <2>1, <2>2
<1>3. \A u \in Tunnel : Pending(u)' => Pending(u)
  BY <1>1 DEF Pending
<1>4. TasksOK' /\ (Own \subseteq bound)'
  BY <1>1 DEF TasksOK, Own
<1>5. PendingKept'
  BY <1>2, <1>3 DEF PendingKept
<1>6. AimsRight'
  BY <1>1, <1>2 DEF AimsRight, TasksOK, Task
<1>7. NoMisdelivery'
  BY <1>1, <1>2 DEF NoMisdelivery
<1> QED
  BY <1>4, <1>5, <1>6, <1>7

\* The periodic clean-up takes no lease that a task is on its way to.
LEMMA CleanupKeeps ==
    ASSUME TcpInv, CleanupExpired
    PROVE  TasksOK' /\ (Own \subseteq bound)' /\ PendingKept' /\ AimsRight' /\ NoMisdelivery'
<1> USE DEF TcpInv
<1>1. proxies' = proxies /\ tracked' = tracked /\ bound' = bound /\ now' = now
  BY DEF CleanupExpired, Pool!cleanup_expired
<1>2. allocated' = [t \in Tunnel |-> IF Pool!Expired(t) THEN Pool!NoAllocation ELSE allocated[t]]
  BY DEF CleanupExpired, Pool!cleanup_expired
<1>3. \A u \in Tunnel : Kept(u) => ~Pool!Expired(u)
  BY HeldFacts DEF Kept, Pool!Expired
<1>4. \A u \in Tunnel : Pool!Held(u)' => allocated'[u] = allocated[u] /\ Pool!Held(u)
  BY <1>2 DEF Pool!Held
<1>5. \A u \in Tunnel : Kept(u) => allocated'[u] = allocated[u] /\ Kept(u)'
  BY <1>1, <1>2, <1>3 DEF Kept, Pool!Held
<1>6. \A u \in Tunnel : Pending(u)' => Pending(u)
  BY <1>1 DEF Pending
<1>7. TasksOK' /\ (Own \subseteq bound)'
  BY <1>1 DEF TasksOK, Own
<1>8. PendingKept'
  BY <1>5, <1>6 DEF PendingKept
<1>9. AimsRight'
  <2> SUFFICES ASSUME NEW x \in proxies, x.state = "binding"
               PROVE  x.port = allocated'[x.tunnel].port
    BY <1>1 DEF AimsRight
  <2>1. x.tunnel \in Tunnel /\ Kept(x.tunnel)
    BY DEF TasksOK, Task, Pending, PendingKept
  <2> QED
    BY <1>5, <2>1 DEF AimsRight
<1>10. NoMisdelivery'
  BY <1>1, <1>4 DEF NoMisdelivery
<1> QED
  BY <1>7, <1>8, <1>9, <1>10

\* Other processes leave the relay's own ports bound; time passes only while no
\* task is pending.
LEMMA WorldKeeps ==
    ASSUME TcpInv, OtherProcesses \/ Tick \/ UNCHANGED tcpVars
    PROVE  TasksOK' /\ (Own \subseteq bound)' /\ PendingKept' /\ AimsRight' /\ NoMisdelivery'
<1> USE DEF TcpInv
<1>1. proxies' = proxies /\ tracked' = tracked /\ allocated' = allocated
  BY DEF OtherProcesses, Tick, Pool!Tick, tcpVars
<1>2. Own \subseteq bound'
  BY DEF OtherProcesses, Tick, Pool!Tick, tcpVars
<1>3. \A u \in Tunnel : Pending(u)' => Pending(u) /\ now' = now
  BY <1>1 DEF OtherProcesses, Tick, tcpVars, Pending
<1>4. TasksOK' /\ AimsRight' /\ NoMisdelivery'
  BY <1>1 DEF TasksOK, AimsRight, NoMisdelivery, Pool!Held
<1>5. (Own \subseteq bound)'
  BY <1>1, <1>2 DEF Own
<1>6. PendingKept'
  BY <1>1, <1>3 DEF PendingKept, Kept, Pool!Held
<1> QED
  BY <1>4, <1>5, <1>6

\* The invariant of the proxy tasks and their pool holds throughout.
LEMMA TcpInductive == TcpSpec => []TcpInv
<1>1. TcpInit => TcpInv
  <2> SUFFICES ASSUME TcpInit PROVE TcpInv
    OBVIOUS
  <2>1. Pool!TypeOK /\ Pool!PortsExclusive
    BY TcpAssumption DEF TcpInit, Pool!Init, Pool!TypeOK, Pool!PortsExclusive, Pool!HeldPorts, Pool!Held,
       Pool!PortAssumption
  <2>2. TasksOK /\ Own \subseteq bound /\ PendingKept /\ AimsRight /\ NoMisdelivery
    BY DEF TcpInit, TasksOK, Own, PendingKept, Pending, AimsRight, NoMisdelivery
  <2> QED
    BY <2>1, <2>2 DEF TcpInv
<1>2. TcpInv /\ [TcpNext]_tcpVars => TcpInv'
  <2> SUFFICES ASSUME TcpInv, [TcpNext]_tcpVars PROVE TcpInv'
    OBVIOUS
  <2>1. Pool!TypeOK' /\ Pool!PortsExclusive'
    BY TcpIsPool, PoolStep DEF TcpInv
  <2>2. TasksOK' /\ (Own \subseteq bound)' /\ PendingKept' /\ AimsRight' /\ NoMisdelivery'
    BY RegisterKeeps, TasksKeep, BindKeeps, DeallocateKeeps, CleanupKeeps, WorldKeeps DEF TcpNext
  <2> QED
    BY <2>1, <2>2 DEF TcpInv
<1> QED
  BY <1>1, <1>2, PTL DEF TcpSpec

\* No connection is delivered to a tunnel that the port is not leased to, for
\* every range, every set of tunnels and any number of handlers at once.
THEOREM Delivered == TcpSpec => []NoMisdelivery
<1>1. TcpInv => NoMisdelivery
  BY DEF TcpInv
<1> QED
  BY <1>1, TcpInductive, PTL

\* The pool's exclusiveness survives the tasks around it: listeners that outlive
\* their leases are to the pool ports that another process has bound.
THEOREM PoolExclusive == TcpSpec => []Pool!PortsExclusive
<1>1. TcpInv => Pool!PortsExclusive
  BY DEF TcpInv
<1> QED
  BY <1>1, TcpInductive, PTL

\* A proxy goes away only where its tunnel is served on the same port already, or
\* where a process outside the relay has the port.
THEOREM StaysServed == TcpSpec => Served
<1>1. TcpInv /\ [TcpNext]_tcpVars =>
        [\A x \in proxies \ proxies' :
           \/ Inner(x.tunnel, x.port, "listening") \in proxies'
           \/ x.port \in bound \ Own]_tcpVars
  <2> SUFFICES ASSUME TcpInv, TcpNext, NEW x \in proxies, x \notin proxies'
               PROVE  Inner(x.tunnel, x.port, "listening") \in proxies' \/ x.port \in bound \ Own
    BY DEF tcpVars
  <2>1. Bind(x)
    BY DEF TcpNext, RegisterTcp, OuterTask, AbortTask, Deallocate, CleanupExpired, OtherProcesses, Tick, Bind
  <2>2. CASE x.port \notin bound
    BY <2>1, <2>2 DEF Bind
  <2>3. CASE x.port \in bound
    <3>1. x.state = "binding" /\ proxies' = proxies \ {x}
      BY <2>1, <2>3 DEF Bind
    <3>2. x.tunnel \in Tunnel /\ Pool!Held(x.tunnel) /\ allocated[x.tunnel].port = x.port
      BY <3>1 DEF TcpInv, TasksOK, Task, PendingKept, Pending, Kept, AimsRight
    <3>3. CASE x.port \in Own
      <4>1. PICK y \in proxies : y.state = "listening" /\ y.port = x.port
        BY <3>3 DEF Own
      <4>2. y.tunnel = x.tunnel
        BY <3>2, <4>1 DEF TcpInv, NoMisdelivery
      <4>3. y = Inner(x.tunnel, x.port, "listening")
        BY <4>1, <4>2 DEF TcpInv, TasksOK, Task, Inner
      <4> QED
        BY <3>1, <4>1, <4>3
    <3> QED
      BY <2>3, <3>3
  <2> QED
    BY <2>2, <2>3
<1> QED
  BY <1>1, TcpInductive, PTL DEF TcpSpec, Served

-----------------------------------------------------------------------------
(***************************************************************************)
(* Routes of host names.  The matching works on text, so the lemmas say    *)
(* what each operator on sequences computes: which symbol stands where.    *)
(* They give two facts about names: parse accepts a text exactly when it   *)
(* is an asterisk label over a domain name, and a pattern that covers a    *)
(* name is the one that lookup_wildcard builds from it.                    *)
(***************************************************************************)
Symbol == Letter \cup {".", "*"}
Text == Seq(Symbol)

\* A part of a text, as its length and its symbols.
LEMMA FromText ==
    ASSUME NEW t \in Text, NEW i \in 1 .. Len(t) + 1
    PROVE  /\ From(t, i) \in Text
           /\ Len(From(t, i)) = Len(t) - i + 1
           /\ \A j \in 1 .. Len(t) - i + 1 : From(t, i)[j] = t[i + j - 1]
  BY DEF From, Text

LEMMA UptoText ==
    ASSUME NEW t \in Text, NEW n \in 0 .. Len(t)
    PROVE  /\ SubSeq(t, 1, n) \in Text
           /\ Len(SubSeq(t, 1, n)) = n
           /\ \A j \in 1 .. n : SubSeq(t, 1, n)[j] = t[j]
  BY DEF Text

\* The asterisk label and a base domain, put together.
LEMMA StarText ==
    ASSUME NEW b \in Text
    PROVE  /\ <<"*", ".">> \o b \in Text
           /\ Len(<<"*", ".">> \o b) = Len(b) + 2
           /\ (<<"*", ".">> \o b)[1] = "*"
           /\ (<<"*", ".">> \o b)[2] = "."
           /\ \A j \in 1 .. Len(b) : (<<"*", ".">> \o b)[j + 2] = b[j]
  BY DEF Text, Symbol

\* Two neighbouring symbols of a text.
LEMMA PairText ==
    ASSUME NEW t \in Text, NEW k \in 1 .. Len(t) - 1
    PROVE  SubSeq(t, k, k + 1) = <<t[k], t[k + 1]>>
<1> DEFINE s == SubSeq(t, k, k + 1)
           q == <<t[k], t[k + 1]>>
<1>1. Len(t) \in Nat /\ k \in 1 .. Len(t) /\ k + 1 \in 1 .. Len(t)
  BY DEF Text
<1>2. q \in Seq(Symbol) /\ Len(q) = 2 /\ q[1] = t[k] /\ q[2] = t[k + 1]
  BY <1>1 DEF Text
<1>3. s \in Seq(Symbol) /\ Len(s) = 2 /\ s[1] = t[k] /\ s[2] = t[k + 1]
  <2>1. k \in 1 .. Len(t) + 1 /\ k + 1 \in k - 1 .. Len(t) /\ k <= k + 1
    BY <1>1
  <2>2. /\ s \in Seq(Symbol) /\ Len(s) = (k + 1) - k + 1
        /\ \A j \in 1 .. (k + 1) - k + 1 : s[j] = t[k + j - 1]
    BY <2>1, SubSeqProperties DEF Text
  <2>3. (k + 1) - k + 1 = 2 /\ k + 1 - 1 = k /\ k + 2 - 1 = k + 1
    BY <1>1
  <2> HIDE DEF s
  <2> QED
    BY <2>2, <2>3
<1> HIDE DEF s, q
<1>4. \A j \in 1 .. 2 : s[j] = q[j]
  <2> TAKE j \in 1 .. 2
  <2>1. j = 1 \/ j = 2
    OBVIOUS
  <2> QED
    BY <1>2, <1>3, <2>1
<1>5. s = q
  BY <1>2, <1>3, <1>4, SeqEqual
<1> QED
  BY <1>5 DEF s, q

\* A text that starts with "*." is that and its base domain.
LEMMA StarOf ==
    ASSUME NEW t \in Text
    PROVE  is_wildcard_pattern(t)
             <=> /\ Len(t) >= 2 /\ base_domain(t) \in Text
                 /\ t = <<"*", ".">> \o base_domain(t)
<1> DEFINE b == base_domain(t)
           s == <<"*", ".">> \o b
<1>1. ASSUME Len(t) >= 2
      PROVE  b \in Text /\ Len(b) = Len(t) - 2 /\ \A j \in 1 .. Len(t) - 2 : b[j] = t[j + 2]
  <2>1. 3 \in 1 .. Len(t) + 1
    BY <1>1 DEF Text
  <2> QED
    BY <2>1, <1>1, FromText DEF base_domain, Text
<1>2. is_wildcard_pattern(t) <=> Len(t) >= 2 /\ t[1] = "*" /\ t[2] = "."
  <2>1. Len(<<"*", ".">>) = 2 /\ SubSeq(<<"*", ".">>, 1, 2) = <<"*", ".">>
    <3>1. <<"*", ".">> \in Text /\ Len(<<"*", ".">>) = 2
      BY DEF Text, Symbol
    <3>2. 1 \in 1 .. Len(<<"*", ".">>) - 1 /\ 1 + 1 = 2
      BY <3>1
    <3>3. SubSeq(<<"*", ".">>, 1, 2) = <<<<"*", ".">>[1], <<"*", ".">>[2]>>
      BY <3>1, <3>2, PairText
    <3> QED
      BY <3>1, <3>3
  <2>2. ASSUME Len(t) >= 2 PROVE SubSeq(t, 1, 2) = <<t[1], t[2]>>
    <3>1. 1 \in 1 .. Len(t) - 1 /\ 1 + 1 = 2
      BY <2>2 DEF Text
    <3> QED
      BY <3>1, PairText
  <2> QED
    BY <2>1, <2>2 DEF is_wildcard_pattern, IsPrefix, Text
<1>3. ASSUME Len(t) >= 2, t[1] = "*", t[2] = "."
      PROVE  t = s
  <2> HIDE DEF b
  <2>1. /\ s \in Text /\ Len(s) = Len(t) /\ s[1] = "*" /\ s[2] = "."
        /\ \A j \in 1 .. Len(t) - 2 : s[j + 2] = t[j + 2]
    <3> HIDE DEF s
    <3>1. s = <<"*", ".">> \o b
      BY DEF s
    <3> QED
    BY <1>1, <1>3, <3>1, StarText DEF Text
  <2> HIDE DEF s
  <2>2. ASSUME NEW j \in 1 .. Len(t) PROVE s[j] = t[j]
    <3>1. CASE j <= 2
      BY <3>1, <2>1, <1>3
    <3>2. CASE j > 2
      <4>1. j - 2 \in 1 .. Len(t) - 2 /\ (j - 2) + 2 = j
        BY <3>2 DEF Text
      <4> QED
        BY <4>1, <2>1
    <3> QED
      BY <3>1, <3>2 DEF Text
  <2>3. t \in Seq(Symbol) /\ s \in Seq(Symbol) /\ Len(t) = Len(s) /\ \A j \in 1 .. Len(t) : t[j] = s[j]
    BY <2>1, <2>2 DEF Text
  <2> QED
    BY <2>3, SeqEqual
<1>4. ASSUME Len(t) >= 2, b \in Text, t = s
      PROVE  t[1] = "*" /\ t[2] = "."
  <2> HIDE DEF b
  <2> QED
    BY <1>4, StarText
<1> QED
  BY <1>1, <1>2, <1>3, <1>4

\* A pattern that parses is given by its base domain.
LEMMA ParsedBase ==
    ASSUME NEW p \in Text, parses(p)
    PROVE  base_domain(p) \in Text /\ p = <<"*", ".">> \o base_domain(p)
             /\ Contains(base_domain(p), ".")
  BY StarOf DEF parses

\* The base domain of "*." and a text is the text.
LEMMA BaseOfStar ==
    ASSUME NEW b \in Text
    PROVE  base_domain(<<"*", ".">> \o b) = b
<1> DEFINE s == <<"*", ".">> \o b
<1>1. /\ s \in Text /\ Len(s) = Len(b) + 2 /\ \A j \in 1 .. Len(b) : s[j + 2] = b[j]
  BY StarText
<1> HIDE DEF s
<1>2. 3 \in 1 .. Len(s) + 1
  BY <1>1 DEF Text
<1>3. /\ From(s, 3) \in Text /\ Len(From(s, 3)) = Len(b)
      /\ \A j \in 1 .. Len(b) : From(s, 3)[j] = s[3 + j - 1]
  <2>1. /\ From(s, 3) \in Text /\ Len(From(s, 3)) = Len(s) - 3 + 1
        /\ \A j \in 1 .. Len(s) - 3 + 1 : From(s, 3)[j] = s[3 + j - 1]
    BY <1>1, <1>2, FromText
  <2>2. Len(s) - 3 + 1 = Len(b)
    BY <1>1 DEF Text
  <2> QED
    BY <2>1, <2>2
<1>4. \A j \in 1 .. Len(b) : From(s, 3)[j] = b[j]
  BY <1>1, <1>3 DEF Text
<1>5. From(s, 3) = b
  BY <1>3, <1>4, SeqEqual DEF Text
<1> QED
  BY <1>5 DEF base_domain, s

\* Two symbols occur in a text at neighbouring places.
LEMMA PairOccurs ==
    ASSUME NEW t \in Text, NEW c \in Symbol, NEW d \in Symbol
    PROVE  Occurs(<<c, d>>, t) <=> \E i \in 1 .. Len(t) - 1 : t[i] = c /\ t[i + 1] = d
<1>1. ASSUME NEW i \in 0 .. Len(t) - 2
      PROVE  SubSeq(t, i + 1, i + 2) = <<t[i + 1], t[i + 2]>>
  <2>1. i + 1 \in 1 .. Len(t) - 1 /\ (i + 1) + 1 = i + 2
    BY DEF Text
  <2> QED
    BY <2>1, PairText
<1>2. Len(<<c, d>>) = 2
  OBVIOUS
<1>3. Occurs(<<c, d>>, t) <=> \E i \in 0 .. Len(t) - 2 : t[i + 1] = c /\ t[i + 2] = d
  BY <1>1, <1>2 DEF Occurs
<1>4. ASSUME NEW i \in 0 .. Len(t) - 2, t[i + 1] = c, t[i + 2] = d
      PROVE  \E k \in 1 .. Len(t) - 1 : t[k] = c /\ t[k + 1] = d
  <2>1. i + 1 \in 1 .. Len(t) - 1 /\ (i + 1) + 1 = i + 2
    BY DEF Text
  <2> QED
    BY <2>1, <1>4
<1>5. ASSUME NEW k \in 1 .. Len(t) - 1, t[k] = c, t[k + 1] = d
      PROVE  \E i \in 0 .. Len(t) - 2 : t[i + 1] = c /\ t[i + 2] = d
  <2>1. k - 1 \in 0 .. Len(t) - 2 /\ (k - 1) + 1 = k /\ (k - 1) + 2 = k + 1
    BY DEF Text
  <2> QED
    BY <2>1, <1>5
<1> QED
  BY <1>3, <1>4, <1>5

\* The end of a text, whatever IsSuffix does to compare it.
LEMMA SuffixIs ==
    ASSUME NEW s \in Text, NEW t \in Text
    PROVE  IsSuffix(s, t) <=> Len(s) <= Len(t) /\ From(t, Len(t) - Len(s) + 1) = s
<1> DEFINE rs == Reverse(s)
           rt == Reverse(t)
           n == Len(s)
           m == Len(t)
<1>1. n \in Nat /\ m \in Nat
  BY DEF Text
<1>2. /\ rs \in Text /\ Len(rs) = n /\ \A i \in 1 .. n : rs[i] = s[n - i + 1]
      /\ rt \in Text /\ Len(rt) = m /\ \A i \in 1 .. m : rt[i] = t[m - i + 1]
  BY DEF Reverse, Text
<1> HIDE DEF rs, rt
<1> SUFFICES ASSUME n <= m
             PROVE  SubSeq(rs, 1, n) = SubSeq(rt, 1, n) <=> From(t, m - n + 1) = s
  BY <1>2 DEF IsSuffix, IsPrefix, rs, rt
<1>3. /\ SubSeq(rs, 1, n) \in Text /\ Len(SubSeq(rs, 1, n)) = n
      /\ \A i \in 1 .. n : SubSeq(rs, 1, n)[i] = rs[i]
  BY <1>1, <1>2, UptoText
<1>4. /\ SubSeq(rt, 1, n) \in Text /\ Len(SubSeq(rt, 1, n)) = n
      /\ \A i \in 1 .. n : SubSeq(rt, 1, n)[i] = rt[i]
  BY <1>1, <1>2, UptoText
<1>5. SubSeq(rs, 1, n) = SubSeq(rt, 1, n) <=> \A i \in 1 .. n : rs[i] = rt[i]
  <2>1. (\A i \in 1 .. n : SubSeq(rs, 1, n)[i] = SubSeq(rt, 1, n)[i])
          => SubSeq(rs, 1, n) = SubSeq(rt, 1, n)
    BY <1>3, <1>4, SeqEqual DEF Text
  <2> QED
    BY <2>1, <1>3, <1>4
<1>6. /\ From(t, m - n + 1) \in Text /\ Len(From(t, m - n + 1)) = n
      /\ \A j \in 1 .. n : From(t, m - n + 1)[j] = t[m - n + j]
  <2>1. m - n + 1 \in 1 .. Len(t) + 1 /\ Len(t) - (m - n + 1) + 1 = n
    BY <1>1
  <2>2. \A j \in 1 .. n : (m - n + 1) + j - 1 = m - n + j
    BY <1>1
  <2> DEFINE k == m - n + 1
  <2>3. /\ From(t, k) \in Text
        /\ Len(From(t, k)) = Len(t) - k + 1
        /\ \A j \in 1 .. Len(t) - k + 1 : From(t, k)[j] = t[k + j - 1]
    BY <2>1, FromText
  <2> QED
    BY <2>1, <2>2, <2>3
<1>7. From(t, m - n + 1) = s <=> \A j \in 1 .. n : t[m - n + j] = s[j]
  <2>1. (\A j \in 1 .. n : From(t, m - n + 1)[j] = s[j]) => From(t, m - n + 1) = s
    BY <1>6, SeqEqual DEF Text
  <2> QED
    BY <2>1, <1>6
<1>8. ASSUME \A i \in 1 .. n : rs[i] = rt[i]
      PROVE  \A j \in 1 .. n : t[m - n + j] = s[j]
  <2> TAKE j \in 1 .. n
  <2> DEFINE k == n - j + 1
  <2>1. k \in 1 .. n /\ k \in 1 .. m /\ n - k + 1 = j /\ m - k + 1 = m - n + j
    BY <1>1
  <2> HIDE DEF k
  <2>2. rs[k] = s[j] /\ rt[k] = t[m - n + j]
    BY <1>2, <2>1
  <2> QED
    BY <1>8, <2>1, <2>2
<1>9. ASSUME \A j \in 1 .. n : t[m - n + j] = s[j]
      PROVE  \A i \in 1 .. n : rs[i] = rt[i]
  <2> TAKE i \in 1 .. n
  <2>1. n - i + 1 \in 1 .. n /\ i \in 1 .. m /\ m - n + (n - i + 1) = m - i + 1
    BY <1>1
  <2> QED
    BY <1>2, <1>9, <2>1
<1> QED
  BY <1>5, <1>7, <1>8, <1>9

\* A base domain that parse accepts is a domain name, and conversely.
LEMMA BaseIsDomain ==
    ASSUME NEW b \in Text
    PROVE  (Contains(b, ".") /\ Head(b) # "." /\ Last(b) # "." /\ ~Occurs(<<".", ".">>, b))
             <=> IsDomain(b)
<1>1. Len(b) \in Nat /\ "." \in Symbol
  BY DEF Text, Symbol
<1>2. Occurs(<<".", ".">>, b) <=> \E i \in 1 .. Len(b) - 1 : b[i] = "." /\ b[i + 1] = "."
  BY <1>1, PairOccurs
<1>3. Contains(b, ".") => Len(b) >= 1 /\ Head(b) = b[1]
  BY DEF Contains, Text
<1>4. ASSUME Contains(b, "."), Head(b) # ".", Last(b) # ".", ~Occurs(<<".", ".">>, b)
      PROVE  IsDomain(b)
  <2> SUFFICES ASSUME NEW i \in 0 .. Len(b), NEW j \in i + 1 .. Len(b) + 1,
                      i = 0 \/ b[i] = ".", j = Len(b) + 1 \/ b[j] = "."
               PROVE  j > i + 1
    BY <1>4 DEF IsDomain
  <2> SUFFICES ASSUME j = i + 1 PROVE FALSE
    BY <1>1
  <2>1. CASE i = 0
    <3>1. j = 1 /\ 1 # Len(b) + 1
      BY <2>1, <1>1, <1>3, <1>4
    <3> QED
      BY <3>1, <1>3, <1>4
  <2>2. CASE i # 0 /\ j = Len(b) + 1
    <3>1. i = Len(b) /\ b[i] = "."
      BY <2>2, <1>1
    <3> QED
      BY <3>1, <1>4 DEF Last
  <2>3. CASE i # 0 /\ j # Len(b) + 1
    <3>1. i \in 1 .. Len(b) - 1 /\ b[i] = "." /\ b[i + 1] = "."
      BY <2>3, <1>1
    <3> QED
      BY <3>1, <1>2, <1>4
  <2> QED
    BY <2>1, <2>2, <2>3
<1>5. ASSUME IsDomain(b)
      PROVE  Contains(b, ".") /\ Head(b) # "." /\ Last(b) # "." /\ ~Occurs(<<".", ".">>, b)
  <2>1. Contains(b, ".")
    BY <1>5 DEF IsDomain
  <2>2. \A i \in 0 .. Len(b) : \A j \in i + 1 .. Len(b) + 1 :
          (i = 0 \/ b[i] = ".") /\ (j = Len(b) + 1 \/ b[j] = ".") => j > i + 1
    BY <1>5 DEF IsDomain
  <2>3. ASSUME Head(b) = "." PROVE FALSE
    <3>1. b[1] = "." /\ 0 \in 0 .. Len(b) /\ 1 \in 0 + 1 .. Len(b) + 1
      BY <1>1, <1>3, <2>1, <2>3
    <3> QED
      BY <3>1, <2>2
  <2>4. ASSUME Last(b) = "." PROVE FALSE
    <3>1. /\ b[Len(b)] = "." /\ Len(b) \in 0 .. Len(b)
          /\ Len(b) + 1 \in Len(b) + 1 .. Len(b) + 1
      BY <1>1, <2>4 DEF Last
    <3>2. Len(b) + 1 > Len(b) + 1
      BY <3>1, <2>2
    <3> QED
      BY <3>2, <1>1
  <2>5. ASSUME NEW i \in 1 .. Len(b) - 1, b[i] = ".", b[i + 1] = "." PROVE FALSE
    <3>1. i \in 0 .. Len(b) /\ i + 1 \in i + 1 .. Len(b) + 1
      BY <1>1
    <3>2. i + 1 > i + 1
      BY <3>1, <2>2, <2>5
    <3> QED
      BY <3>2
  <2> QED
    BY <1>2, <2>1, <2>3, <2>4, <2>5
<1> QED
  BY <1>4, <1>5

\* Nothing but the asterisk label holds an asterisk: then no two follow one
\* another, and none ends the text.
LEMMA NoOtherStar ==
    ASSUME NEW b \in Text, b # <<>>, ~Contains(b, "*")
    PROVE  /\ ~Occurs(<<"*", "*">>, <<"*", ".">> \o b)
           /\ ~IsSuffix(<<".", "*">>, <<"*", ".">> \o b)
<1> DEFINE t == <<"*", ".">> \o b
           u == <<".", "*">>
<1>1. /\ t \in Text /\ Len(t) = Len(b) + 2 /\ t[1] = "*" /\ t[2] = "."
      /\ \A j \in 1 .. Len(b) : t[j + 2] = b[j]
  BY StarText
<1>2. u \in Text /\ Len(u) = 2 /\ u[2] = "*" /\ "*" \in Symbol
  BY DEF Text, Symbol
<1> HIDE DEF t, u
<1>3. Len(b) \in Nat /\ Len(b) >= 1
  BY EmptySeq DEF Text
<1>4. ASSUME NEW j \in 2 .. Len(t) PROVE t[j] # "*"
  <2>1. CASE j = 2
    BY <1>1, <2>1
  <2>2. CASE j > 2
    <3>1. j - 2 \in 1 .. Len(b) /\ (j - 2) + 2 = j
      BY <1>1, <1>3, <2>2
    <3>2. t[j] = b[j - 2]
      BY <1>1, <3>1
    <3> QED
      BY <3>1, <3>2 DEF Contains
  <2> QED
    BY <2>1, <2>2
<1>5. ~Occurs(<<"*", "*">>, t)
  <2>1. SUFFICES ASSUME NEW i \in 1 .. Len(t) - 1, t[i + 1] = "*" PROVE FALSE
    BY <1>1, <1>2, PairOccurs
  <2>2. i + 1 \in 2 .. Len(t)
    BY <1>1, <1>3
  <2> QED
    BY <1>4, <2>1, <2>2
<1>6. ~IsSuffix(u, t)
  <2>1. SUFFICES ASSUME From(t, Len(t) - Len(u) + 1) = u PROVE FALSE
    BY <1>1, <1>2, SuffixIs
  <2> DEFINE k == Len(t) - 1
  <2>2. k \in 1 .. Len(t) + 1 /\ Len(t) - Len(u) + 1 = k /\ Len(t) - k + 1 = 2 /\ k + 2 - 1 = Len(t)
    BY <1>1, <1>2, <1>3
  <2>3. \A j \in 1 .. Len(t) - k + 1 : From(t, k)[j] = t[k + j - 1]
    BY <1>1, <2>2, FromText
  <2>4. From(t, k)[2] = t[Len(t)]
    BY <2>2, <2>3
  <2>5. t[Len(t)] # "*"
    <3>1. Len(t) \in 2 .. Len(t)
      BY <1>1, <1>3
    <3> QED
      BY <1>4, <3>1
  <2> QED
    BY <1>2, <2>1, <2>2, <2>4, <2>5
<1> QED
  BY <1>5, <1>6 DEF t, u

\* parse accepts the texts that name a domain under an asterisk, and no others.
LEMMA ParseIs ==
    ASSUME NEW t \in Text
    PROVE  parses(t) <=> \E base \in Suffixes(t) :
                            t = <<"*", ".">> \o base /\ IsDomain(base) /\ ~Contains(base, "*")
<1>1. ASSUME parses(t)
      PROVE  \E base \in Suffixes(t) :
                t = <<"*", ".">> \o base /\ IsDomain(base) /\ ~Contains(base, "*")
  <2> DEFINE b == base_domain(t)
  <2>1. /\ Contains(b, ".") /\ ~Contains(b, "*")
        /\ Head(b) # "." /\ Last(b) # "." /\ ~Occurs(<<".", ".">>, b)
    BY <1>1 DEF parses
  <2>2. b \in Text /\ t = <<"*", ".">> \o b
    BY <1>1, ParsedBase
  <2>3. b \in Suffixes(t)
    <3>1. Len(t) = Len(b) + 2 /\ Len(b) >= 1
      <4> HIDE DEF b
      <4>1. Len(t) = Len(b) + 2
        BY <2>2, StarText
      <4> QED
        BY <2>1, <2>2, <4>1 DEF Contains, Text
    <3>2. 3 \in 1 .. Len(t)
      BY <2>2, <3>1 DEF Text
    <3> QED
      BY <3>2 DEF Suffixes, base_domain, From
  <2>4. IsDomain(b)
    BY <2>1, <2>2, BaseIsDomain
  <2> HIDE DEF b
  <2> QED
    BY <2>1, <2>2, <2>3, <2>4
<1>2. ASSUME NEW base \in Suffixes(t),
             t = <<"*", ".">> \o base, IsDomain(base), ~Contains(base, "*")
      PROVE  parses(t)
  <2>1. base \in Text
    <3>1. CASE base = <<>>
      BY <3>1 DEF Text
    <3>2. CASE \E l \in 1 .. Len(t) : base = SubSeq(t, l, Len(t))
      BY <3>2, FromText DEF From, Text
    <3> QED
      BY <3>1, <3>2 DEF Suffixes
  <2>2. base_domain(t) = base
    BY <1>2, <2>1, BaseOfStar
  <2>3. is_wildcard_pattern(t)
    <3>1. Len(t) >= 2
      BY <1>2, <2>1, StarText DEF Text
    <3> QED
      BY <1>2, <2>1, <2>2, <3>1, StarOf
  <2>4. Contains(base, ".") /\ Head(base) # "." /\ Last(base) # "." /\ ~Occurs(<<".", ".">>, base)
    BY <1>2, <2>1, BaseIsDomain
  <2>5. base # <<>>
    BY <2>4 DEF Contains
  <2>6. ~Occurs(<<"*", "*">>, t) /\ ~IsSuffix(<<".", "*">>, t)
    BY <1>2, <2>1, <2>5, NoOtherStar
  <2> QED
    BY <1>2, <2>2, <2>3, <2>4, <2>6 DEF parses
<1> QED
  BY <1>1, <1>2

\* The first dot of a name, when what stands before it is a label.
LEMMA FirstDot ==
    ASSUME NEW h \in Text, NEW i \in 1 .. Len(h), h[i] = ".", IsLabel(SubSeq(h, 1, i - 1))
    PROVE  /\ i >= 2 /\ \A j \in 1 .. i - 1 : h[j] # "."
           /\ extract_parent_wildcard(h) = IF Contains(From(h, i + 1), ".")
                                           THEN <<"*", ".">> \o From(h, i + 1) ELSE NoPattern
<1> DEFINE s == SubSeq(h, 1, i - 1)
           I == {j \in 1 .. Len(h) : h[j] = "."}
<1>1. Len(h) \in Nat /\ i - 1 \in 0 .. Len(h)
  BY DEF Text
<1>2. s \in Text /\ Len(s) = i - 1 /\ \A j \in 1 .. i - 1 : s[j] = h[j]
  BY <1>1, UptoText
<1>3. i >= 2 /\ \A j \in 1 .. i - 1 : h[j] # "."
  <2>1. s # <<>> /\ \A j \in 1 .. Len(s) : s[j] # "."
    BY DEF IsLabel, Contains
  <2> HIDE DEF s
  <2>2. Len(s) # 0
    BY <1>2, <2>1, EmptySeq DEF Text
  <2> QED
    BY <1>1, <1>2, <2>1, <2>2
<1>4. i \in I /\ \A j \in I : i <= j
  BY <1>3, <1>1
<1>5. Min(I) = i
  <2>1. I \subseteq Nat
    OBVIOUS
  <2> HIDE DEF I
  <2>2. \A x \in I : (\A y \in I : x =< y) => x = i
    BY <1>4, <2>1
  <2> QED
    BY <1>4, <2>2 DEF Min
<1>6. I # {}
  BY <1>4
<1>7. Contains(h, ".")
  BY DEF Contains
<1> QED
  BY <1>3, <1>5, <1>6, <1>7 DEF extract_parent_wildcard, SelectInSeq

\* A pattern that parses and covers a name is the one the lookup probes, and
\* it matches the name.
LEMMA CoveringIsProbed ==
    ASSUME NEW h \in Text, NEW p \in Text, parses(p), Covers(p, h)
    PROVE  p = extract_parent_wildcard(h) /\ matches(p, h)
<1> DEFINE b == base_domain(p)
<1>1. b \in Text /\ p = <<"*", ".">> \o b /\ Contains(b, ".")
  BY ParsedBase
<1>2. PICK i \in 1 .. Len(h) : /\ h[i] = "." /\ IsLabel(SubSeq(h, 1, i - 1))
                               /\ From(h, i + 1) = b
  BY DEF Covers
<1>3. /\ i >= 2 /\ \A j \in 1 .. i - 1 : h[j] # "."
      /\ extract_parent_wildcard(h) = IF Contains(From(h, i + 1), ".")
                                      THEN <<"*", ".">> \o From(h, i + 1) ELSE NoPattern
  BY <1>2, FirstDot
<1>4. extract_parent_wildcard(h) = p
  BY <1>1, <1>2, <1>3
<1>5. Len(h) \in Nat /\ i + 1 \in 1 .. Len(h) + 1
  BY DEF Text
<1>6. Len(b) = Len(h) - i
  <2>1. Len(From(h, i + 1)) = Len(h) - (i + 1) + 1
    BY <1>5, FromText
  <2> QED
    BY <1>2, <1>5, <2>1
<1>7. IsSuffix(b, h)
  <2>1. Len(b) <= Len(h) /\ Len(h) - Len(b) + 1 = i + 1
    BY <1>5, <1>6
  <2> QED
    BY <1>1, <1>2, <2>1, SuffixIs
<1>8. Len(h) - Len(b) = i /\ i \in 0 .. Len(h) /\ i - 1 \in 0 .. i
  BY <1>5, <1>6
<1> DEFINE q == SubSeq(h, 1, i)
<1>9. q \in Text /\ Len(q) = i /\ \A j \in 1 .. i : q[j] = h[j]
  BY <1>8, UptoText
<1> HIDE DEF q
<1>10. Len(q) >= 2 /\ Last(q) = "."
  BY <1>2, <1>3, <1>9 DEF Last
<1>11. ~Contains(Front(q), ".")
  <2>1. Len(SubSeq(q, 1, i - 1)) = i - 1 /\ \A j \in 1 .. i - 1 : SubSeq(q, 1, i - 1)[j] = q[j]
    BY <1>8, <1>9, UptoText
  <2> QED
    BY <1>3, <1>8, <1>9, <2>1 DEF Front, Contains
<1>12. matches(p, h)
  <2>1. SubSeq(h, 1, Len(h) - Len(b)) = q
    BY <1>8 DEF q
  <2> QED
    BY <1>7, <1>10, <1>11, <2>1 DEF matches
<1> QED
  BY <1>4, <1>12

\* A pattern that matches a name covers it.
LEMMA MatchingCovers ==
    ASSUME NEW h \in Text, NEW p \in Text, parses(p), matches(p, h)
    PROVE  Covers(p, h)
<1> DEFINE b == base_domain(p)
           n == Len(h) - Len(b)
           q == SubSeq(h, 1, n)
<1>1. b \in Text
  BY ParsedBase
<1>2. IsSuffix(b, h) /\ Len(q) >= 2 /\ Last(q) = "." /\ ~Contains(Front(q), ".")
  BY DEF matches
<1>3. Len(b) <= Len(h) /\ From(h, n + 1) = b
  BY <1>1, <1>2, SuffixIs
<1>4. Len(h) \in Nat /\ Len(b) \in Nat /\ n \in 0 .. Len(h)
  BY <1>1, <1>3 DEF Text
<1> HIDE DEF n
<1>5. q \in Text /\ Len(q) = n /\ \A j \in 1 .. n : q[j] = h[j]
  BY <1>4, UptoText
<1>6. n \in 1 .. Len(h) /\ n >= 2 /\ h[n] = "."
  BY <1>2, <1>4, <1>5 DEF Last
<1> DEFINE s == SubSeq(h, 1, n - 1)
           f == SubSeq(q, 1, n - 1)
<1>7. n - 1 \in 0 .. Len(h) /\ n - 1 \in 0 .. Len(q)
  BY <1>4, <1>5, <1>6
<1>8. s \in Text /\ Len(s) = n - 1 /\ \A j \in 1 .. n - 1 : s[j] = h[j]
  BY <1>7, UptoText
<1>9. f \in Text /\ Len(f) = n - 1 /\ \A j \in 1 .. n - 1 : f[j] = q[j]
  BY <1>5, <1>7, UptoText
<1>10. ~Contains(f, ".")
  BY <1>2, <1>5 DEF Front
<1> HIDE DEF q, s, f
<1>11. ~Contains(s, ".")
  <2> SUFFICES ASSUME NEW j \in 1 .. n - 1, s[j] = "." PROVE FALSE
    BY <1>8 DEF Contains
  <2>1. j \in 1 .. n
    BY <1>4
  <2>2. f[j] = "."
    BY <1>5, <1>8, <1>9, <2>1
  <2> QED
    BY <1>9, <1>10, <2>2 DEF Contains
<1>12. s # <<>>
  BY <1>6, <1>8, EmptySeq
<1>13. IsLabel(SubSeq(h, 1, n - 1))
  BY <1>11, <1>12 DEF IsLabel, s
<1> QED
  BY <1>3, <1>6, <1>13 DEF Covers, b, n

\* The tables have their types, the host is a text, and what stands in the
\* table of wildcards was parsed when it was registered.
RoutesInv ==
    /\ routes \in [Key -> Owner \cup {NoOwner}]
    /\ wildcards \in [Pattern -> Owner \cup {NoOwner}]
    /\ host \in Text
    /\ \A p \in Pattern : wildcards[p] # NoOwner => parses(p)

\* Every step of the registry and of a visitor keeps them.
LEMMA RoutesInvStep == RoutesInv /\ [RoutesNext]_routeVars => RoutesInv'
<1> SUFFICES ASSUME RoutesInv, [RoutesNext]_routeVars PROVE RoutesInv'
  OBVIOUS
<1> USE DEF RoutesInv
<1>1. ASSUME NEW k \in Key, NEW o \in Owner, register(k, o) PROVE RoutesInv'
  BY <1>1 DEF register
<1>2. ASSUME NEW k \in Key, unregister(k) PROVE RoutesInv'
  BY <1>2 DEF unregister
<1>3. ASSUME NEW p \in Pattern, NEW o \in Owner, register_wildcard(p, o) PROVE RoutesInv'
  BY <1>3 DEF register_wildcard
<1>4. ASSUME NEW p \in Pattern, unregister_wildcard(p) PROVE RoutesInv'
  BY <1>4 DEF unregister_wildcard
<1>5. ASSUME Ask PROVE RoutesInv'
  <2>1. host' \in Text
    BY <1>5 DEF Ask, Text, Symbol
  <2> QED
    BY <1>5, <2>1 DEF Ask
<1>6. CASE UNCHANGED routeVars
  BY <1>6 DEF routeVars
<1> QED
  BY <1>1, <1>2, <1>3, <1>4, <1>5, <1>6 DEF RoutesNext

\* From them, the one probe of the lookup finds the pattern there is.
LEMMA RoutesInvRight == RoutesInv => RoutesRight
<1> SUFFICES ASSUME RoutesInv PROVE RoutesRight
  OBVIOUS
<1>1. host \in Text /\ \A p \in Pattern : wildcards[p] # NoOwner => parses(p)
  BY DEF RoutesInv
<1>2. ParseExact
  BY <1>1, ParseIs DEF ParseExact
<1>3. \A p \in Pattern : p \in Text
  BY RegistryAssumption DEF Text, Symbol
<1> DEFINE covering == {p \in Pattern : wildcards[p] # NoOwner /\ Covers(p, host)}
           w == extract_parent_wildcard(host)
<1>4. \A p \in covering : p = w /\ parses(p) /\ matches(p, host)
  BY <1>1, <1>3, CoveringIsProbed
<1>5. w \in Pattern /\ parses(w) /\ matches(w, host) => Covers(w, host)
  BY <1>1, <1>3, MatchingCovers
<1>6. lookup_wildcard(host) = IF covering = {} THEN NoOwner
                              ELSE wildcards[CHOOSE p \in covering : TRUE]
  <2> HIDE DEF w
  <2>1. CASE covering = {}
    <3>1. w \in Pattern /\ parses(w) /\ matches(w, host) => wildcards[w] = NoOwner
      BY <1>5, <2>1
    <3> QED
      BY <2>1, <3>1 DEF lookup_wildcard, w
  <2>2. CASE covering # {}
    <3>1. covering = {w}
      BY <1>4, <2>2
    <3>2. w \in Pattern /\ parses(w) /\ matches(w, host)
      BY <1>4, <3>1
    <3>3. (CHOOSE p \in {w} : TRUE) = w
      OBVIOUS
    <3>4. lookup_wildcard(host) = wildcards[w]
      BY <3>2 DEF lookup_wildcard, w
    <3> HIDE DEF covering
    <3> QED
      BY <2>2, <3>1, <3>3, <3>4
  <2> QED
    BY <2>1, <2>2
<1>7. FoundRight
  BY <1>6 DEF FoundRight, lookup
<1> QED
  BY <1>2, <1>7 DEF RoutesRight

\* RoutesRight holds always.
THEOREM RoutesFound == RoutesSpec => []RoutesRight
<1>1. RoutesInit => RoutesInv
  BY DEF RoutesInit, RoutesInv, Text, Key
<1> QED
  BY <1>1, RoutesInvStep, RoutesInvRight, PTL DEF RoutesSpec
=============================================================================
