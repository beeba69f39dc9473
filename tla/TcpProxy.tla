------------------------------ MODULE TcpProxy ------------------------------
(***************************************************************************)
(* TCP endpoints of the relay: the TCP branches of register_route and      *)
(* unregister_route (crates/localup-control/src/handler.rs), the task      *)
(* tracker, the spawner the relay installs                                 *)
(* (crates/localup-exit-node/src/main.rs) and the listening life of a      *)
(* TcpProxyServer, composed with the port pool.                            *)
(*                                                                         *)
(* The handler tracks an outer task.  The outer task only starts an inner  *)
(* one, which binds the port and accepts for ever; nobody keeps a handle   *)
(* of the inner task, so aborting what the tracker holds can stop the      *)
(* outer task before it has run and nothing after that.                    *)
(***************************************************************************)
EXTENDS Integers, FiniteSets

CONSTANTS
    Tunnel, RangeStart, RangeEnd, Hash, NearbySpan, Ttl, MaxTime,
    MaxHandlers    \* bound on the handlers of one tunnel at a time

VARIABLES
    available, allocated, bound, now,     \* the port pool, see PortAllocator
    registered,    \* tunnel -> its handlers that have registered the endpoint
    stopping,      \* tunnel -> its handlers between the abort and the release
    tracked,       \* tunnel -> the outer task: "none", "spawned", "finished"
    proxies        \* the inner tasks: [tunnel, port, state]

Pool == INSTANCE PortAllocator

ASSUME TcpAssumption == Pool!PortAssumption /\ MaxHandlers \in Nat

poolVars == <<available, allocated, bound, now>>
tcpVars == <<available, allocated, bound, now, registered, stopping, tracked, proxies>>

Port == RangeStart .. RangeEnd

Inner(t, p, s) == [tunnel |-> t, port |-> p, state |-> s]

\* The ports this relay itself listens on.
Own == {x.port : x \in {y \in proxies : y.state = "listening"}}

TcpInit ==
    /\ Pool!Init
    /\ registered = [t \in Tunnel |-> 0]
    /\ stopping = [t \in Tunnel |-> 0]
    /\ tracked = [t \in Tunnel |-> "none"]
    /\ proxies = {}

-----------------------------------------------------------------------------
\* A tunnel with neither has no TCP endpoint.
Handlers(t) == registered[t] + stopping[t]

\* register_route: lease a port, spawn the outer task and track it in the place
\* of the one tracked before, which is aborted.  A client that reconnects may
\* get here while the handler of its last connection still serves.
RegisterTcp(t, request, later) ==
    /\ Handlers(t) < MaxHandlers /\ Own \subseteq later
    /\ Pool!allocate(t, request, later)
    /\ IF allocated'[t] = Pool!NoAllocation
       THEN UNCHANGED <<registered, tracked>>
       ELSE /\ registered' = [registered EXCEPT ![t] = @ + 1]
            /\ tracked' = [tracked EXCEPT ![t] = "spawned"]
    /\ UNCHANGED <<stopping, proxies>>

\* The outer task runs: it starts the proxy server in a task of its own.
OuterTask(t) ==
    /\ tracked[t] = "spawned"
    /\ tracked' = [tracked EXCEPT ![t] = "finished"]
    /\ proxies' = proxies \cup {Inner(t, allocated[t].port, "binding")}
    /\ UNCHANGED <<poolVars, registered, stopping>>

\* TcpProxyServer::start binds once; if the port is taken the server is gone.
Bind(x) ==
    /\ x.state = "binding"
    /\ IF x.port \in bound
       THEN proxies' = proxies \ {x} /\ UNCHANGED bound
       ELSE /\ proxies' = (proxies \ {x}) \cup {Inner(x.tunnel, x.port, "listening")}
            /\ bound' = bound \cup {x.port}
    /\ UNCHANGED <<available, allocated, now, registered, stopping, tracked>>

\* unregister_route: abort the tracked task, wait 100 ms, release the port.
AbortTask(t) ==
    /\ registered[t] > 0
    /\ registered' = [registered EXCEPT ![t] = @ - 1]
    /\ stopping' = [stopping EXCEPT ![t] = @ + 1]
    /\ tracked' = [tracked EXCEPT ![t] = "none"]
    /\ UNCHANGED <<poolVars, proxies>>

Deallocate(t) ==
    /\ stopping[t] > 0 /\ Pool!ClockLeft
    /\ Pool!deallocate(t)
    /\ stopping' = [stopping EXCEPT ![t] = @ - 1]
    /\ UNCHANGED <<registered, tracked, proxies>>

CleanupExpired == Pool!cleanup_expired /\ UNCHANGED <<registered, stopping, tracked, proxies>>

\* Other processes come and go on the ports this relay does not listen on.
OtherProcesses ==
    /\ bound' \in {Own \cup others : others \in SUBSET Port}
    /\ UNCHANGED <<available, allocated, now, registered, stopping, tracked, proxies>>

\* A task that is ready to run does so long before a reservation of minutes
\* ends: time does not pass while one is pending.
Pending(t) == tracked[t] = "spawned" \/ \E x \in proxies : x.tunnel = t /\ x.state = "binding"

Tick == Pool!Tick /\ (\A t \in Tunnel : ~Pending(t)) /\ UNCHANGED <<registered, stopping, tracked, proxies>>

TcpNext ==
    \/ \E t \in Tunnel, request \in Port \cup {Pool!NoPort}, later \in SUBSET Port :
          RegisterTcp(t, request, later)
    \/ \E t \in Tunnel : OuterTask(t) \/ AbortTask(t) \/ Deallocate(t)
    \/ \E x \in proxies : Bind(x)
    \/ CleanupExpired
    \/ OtherProcesses
    \/ Tick

TcpSpec == TcpInit /\ [][TcpNext]_tcpVars
-----------------------------------------------------------------------------
\* A connection accepted on a port goes to the tunnel of the listener that
\* accepted it.  It never reaches another tunnel than the one the port is
\* leased to, although listeners outlive their leases: the probe of allocate
\* keeps a port with a listener from being leased again.
NoMisdelivery ==
    \A x \in proxies, u \in Tunnel :
        x.state = "listening" /\ Pool!Held(u) /\ allocated[u].port = x.port => x.tunnel = u

\* A proxy that could not bind its port leaves its tunnel served all the same,
\* on a return by the listener of the previous visit, unless a process outside
\* the relay holds the port: tunnels never take a port from one another.
Served ==
    [][\A x \in proxies \ proxies' :
         \/ Inner(x.tunnel, x.port, "listening") \in proxies'
         \/ x.port \in bound \ Own]_tcpVars
=============================================================================
