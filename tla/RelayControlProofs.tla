------------------------- MODULE RelayControlProofs -------------------------
(***************************************************************************)
(* Proofs about the relay's control plane, for every set of connections,   *)
(* of tunnels and of route slots, and whatever endpoints the clients ask   *)
(* for; about the session a client keeps with it; and about the codec and  *)
(* the multiplexer that carry them, for streams and messages of any number *)
(* and length.                                                             *)
(***************************************************************************)
EXTENDS RelayControl, Session, Carrier, SequenceTheorems, TLAPS

USE RelayAssumption

\* The places where a handler works on one endpoint.
Working == {"register", "lookup", "replace", "absent", "insert", "unroute"}

\* What the type invariant says of one handler.
HandlerOK(c) ==
    /\ tunnel[c] = NoTunnel <=> pc[c] = "idle"
    /\ pc[c] \in Working => step[c] \in 1 .. Len(Endpoints[tunnel[c]])
    /\ pc[c] \in {"lookup", "replace", "absent", "insert"} => At(c).proto # "tcp"

\* The shared maps have their types.
SharedOK ==
    /\ routes \in [Slot -> Tunnel \cup {NoTunnel}]
    /\ connections \in [Tunnel -> Conn \cup {NoConn}]
    /\ lease \in [Tunnel -> Lease \cup {NoLease}]
    /\ gone \subseteq Conn

\* A tunnel has a list of endpoints.
LEMMA EndpointsOf ==
    ASSUME NEW t \in Tunnel
    PROVE  /\ Endpoints[t] \in Seq(Endpoint)
           /\ Len(Endpoints[t]) \in Nat
           /\ Endpoints[t] # <<>> => 1 \in 1 .. Len(Endpoints[t])
           /\ Endpoints[t] = <<>> => 1 .. Len(Endpoints[t]) = {}
           /\ \A i \in 1 .. Len(Endpoints[t]) : Endpoints[t][i] \in Endpoint
<1>1. Endpoints[t] \in Seq(Endpoint)
  OBVIOUS
<1>2. Len(Endpoints[t]) = 0 <=> Endpoints[t] = <<>>
  BY <1>1, EmptySeq
<1> QED
  BY <1>1, <1>2

\* The endpoint a handler is at, while it works on one.
LEMMA AtEndpoint ==
    ASSUME TypeOK, NEW c \in Conn, pc[c] \in Working
    PROVE  /\ tunnel[c] \in Tunnel /\ step[c] \in 1 .. Len(Endpoints[tunnel[c]])
           /\ At(c) \in Endpoint
           /\ At(c).proto # "tcp" => At(c).slot \in Slot
           /\ At(c).proto = "tcp" => At(c).slot = NoSlot
<1>1. tunnel[c] \in Tunnel /\ step[c] \in 1 .. Len(Endpoints[tunnel[c]])
  BY DEF TypeOK, Working
<1>2. At(c) \in Endpoint
  BY <1>1, EndpointsOf DEF At
<1> QED
  BY <1>1, <1>2 DEF Endpoint

\* A step of one handler keeps the type invariant when it keeps the types of
\* what it changes.
LEMMA HandlerStep ==
    ASSUME TypeOK, SharedOK', NEW c \in Conn, NEW l \in Label, NEW t \in Tunnel, NEW n \in Nat,
           pc' = [pc EXCEPT ![c] = l], tunnel' = [tunnel EXCEPT ![c] = t],
           step' = [step EXCEPT ![c] = n],
           l # "idle",
           l \in Working => n \in 1 .. Len(Endpoints[t]),
           l \in {"lookup", "replace", "absent", "insert"} => Endpoints[t][n].proto # "tcp"
    PROVE  TypeOK'
<1>1. /\ pc' \in [Conn -> Label] /\ tunnel' \in [Conn -> Tunnel \cup {NoTunnel}]
      /\ step' \in [Conn -> Nat]
  BY DEF TypeOK
<1>2. ASSUME NEW d \in Conn PROVE HandlerOK(d)'
  <2>1. CASE d = c
    BY <2>1 DEF TypeOK, HandlerOK, At
  <2>2. CASE d # c
    BY <2>2 DEF TypeOK, HandlerOK, At, Working
  <2> QED
    BY <2>1, <2>2
<1> QED
  BY <1>1, <1>2 DEF TypeOK, HandlerOK, SharedOK, Working

\* The same of a step that moves a handler and does not change its endpoint.
LEMMA GotoStep ==
    ASSUME TypeOK, SharedOK', NEW c \in Conn, NEW l \in Label, Goto(c, l),
           pc[c] # "idle", l # "idle",
           l \in Working => step[c] \in 1 .. Len(Endpoints[tunnel[c]]),
           l \in {"lookup", "replace", "absent", "insert"} => At(c).proto # "tcp"
    PROVE  TypeOK'
<1>1. tunnel[c] \in Tunnel /\ step[c] \in Nat
  BY DEF TypeOK
<1>2. tunnel' = [tunnel EXCEPT ![c] = tunnel[c]] /\ step' = [step EXCEPT ![c] = step[c]]
  BY DEF Goto, TypeOK
<1>3. pc' = [pc EXCEPT ![c] = l]
  BY DEF Goto
<1>4. l \in {"lookup", "replace", "absent", "insert"} => Endpoints[tunnel[c]][step[c]].proto # "tcp"
  BY DEF At
<1> QED
  BY <1>1, <1>2, <1>3, <1>4, HandlerStep

\* The same of a step to the next endpoint.
LEMMA AdvanceStep ==
    ASSUME TypeOK, SharedOK', NEW c \in Conn, NEW more \in {"register", "unroute"},
           NEW after \in {"manage", "closed"}, Advance(c, more, after),
           pc[c] # "idle", step[c] \in 1 .. Len(Endpoints[tunnel[c]])
    PROVE  TypeOK'
<1> DEFINE l == IF step[c] < Len(Endpoints[tunnel[c]]) THEN more ELSE after
<1>1. tunnel[c] \in Tunnel /\ step[c] + 1 \in Nat
  BY DEF TypeOK
<1>2. tunnel' = [tunnel EXCEPT ![c] = tunnel[c]] /\ step' = [step EXCEPT ![c] = step[c] + 1]
  BY DEF Advance, TypeOK
<1>3. pc' = [pc EXCEPT ![c] = l]
  BY DEF Advance
<1>4. l \in {"register", "unroute", "manage", "closed"}
  OBVIOUS
<1>5. l \in Working => step[c] + 1 \in 1 .. Len(Endpoints[tunnel[c]])
  BY <1>1, EndpointsOf DEF Working
<1>6. l \in Label /\ l # "idle" /\ l \notin {"lookup", "replace", "absent", "insert"}
  BY <1>4 DEF Label
<1> HIDE DEF l
<1> QED
  BY <1>1, <1>2, <1>3, <1>5, <1>6, HandlerStep
-----------------------------------------------------------------------------
\* The shared maps and the handlers' state keep their types, and a handler
\* never works on an endpoint that its client did not ask for.
THEOREM TypeCorrect == Spec => []TypeOK
<1>1. Init => TypeOK
  BY DEF Init, LeaseInit, TypeOK, Label
<1>2. TypeOK /\ [Next]_vars => TypeOK'
  <2> SUFFICES ASSUME TypeOK, [Next]_vars PROVE TypeOK'
    OBVIOUS
  <2>0. SharedOK
    BY DEF TypeOK, SharedOK
  <2>1. ASSUME NEW c \in Conn, Exists(c) PROVE TypeOK'
    <3>1. pc[c] = "register" /\ At(c).proto = "http"
      BY <2>1 DEF Exists
    <3>2. PICK l \in {"lookup", "absent", "rejected"} : Goto(c, l)
      BY <2>1 DEF Exists
    <3>3. SharedOK'
      BY <2>0, <2>1 DEF Exists, SharedOK
    <3> QED
      BY <3>1, <3>2, <3>3, AtEndpoint, GotoStep DEF Label, Working
  <2>2. ASSUME NEW c \in Conn, Lookup(c) PROVE TypeOK'
    <3>1. PICK l \in {"absent", "replace", "rejected"} : Goto(c, l)
      BY <2>2 DEF Lookup
    <3>2. pc[c] = "lookup" /\ At(c).proto # "tcp"
      BY <2>2 DEF Lookup, TypeOK
    <3>3. SharedOK'
      BY <2>0, <2>2 DEF Lookup, SharedOK
    <3> QED
      BY <3>1, <3>2, <3>3, AtEndpoint, GotoStep DEF Label, Working
  <2>3. ASSUME NEW c \in Conn, Replace(c) PROVE TypeOK'
    <3>1. pc[c] = "replace" /\ At(c).proto # "tcp" /\ Goto(c, "absent")
      BY <2>3 DEF Replace, TypeOK
    <3>2. SharedOK'
      BY <2>0, <2>3 DEF Replace, SharedOK
    <3> QED
      BY <3>1, <3>2, AtEndpoint, GotoStep DEF Label, Working
  <2>4. ASSUME NEW c \in Conn, ContainsKey(c) PROVE TypeOK'
    <3>1. PICK l \in {"insert", "rejected"} : Goto(c, l)
      BY <2>4 DEF ContainsKey
    <3>2. At(c).proto # "tcp" /\ pc[c] \in {"absent", "register"}
      BY <2>4 DEF ContainsKey, TypeOK
    <3>3. SharedOK'
      BY <2>0, <2>4 DEF ContainsKey, SharedOK
    <3> QED
      BY <3>1, <3>2, <3>3, AtEndpoint, GotoStep DEF Label, Working
  <2>5. ASSUME NEW c \in Conn, Insert(c) PROVE TypeOK'
    <3>1. tunnel[c] \in Tunnel /\ step[c] \in 1 .. Len(Endpoints[tunnel[c]])
      BY <2>5, AtEndpoint DEF Insert, Working
    <3>2. SharedOK'
      BY <2>0, <2>5, <3>1 DEF Insert, SharedOK
    <3> QED
      BY <2>5, <3>1, <3>2, AdvanceStep DEF Insert
  <2>6. ASSUME NEW c \in Conn, Allocate(c) PROVE TypeOK'
    <3>1. tunnel[c] \in Tunnel /\ step[c] \in 1 .. Len(Endpoints[tunnel[c]])
      BY <2>6, AtEndpoint DEF Allocate, Working
    <3>2. lease' \in [Tunnel -> Lease \cup {NoLease}]
      <4>1. CASE Grant(tunnel[c])
        BY <2>0, <3>1, <4>1 DEF Grant, GrantPort, LeaseOf, Lease, SharedOK
      <4>2. CASE Renew(tunnel[c])
        BY <2>0, <3>1, <4>2 DEF Renew, LeaseOf, Lease, SharedOK
      <4> QED
        BY <2>0, <2>6, <4>1, <4>2 DEF Allocate, SharedOK
    <3>3. SharedOK'
      BY <2>0, <2>6, <3>2 DEF Allocate, SharedOK
    <3>4. CASE Advance(c, "register", "manage")
      BY <2>6, <3>1, <3>3, <3>4, AdvanceStep DEF Allocate
    <3>5. CASE Goto(c, "rejected")
      BY <2>6, <3>3, <3>5, GotoStep DEF Allocate, Label, Working
    <3> QED
      BY <2>6, <3>4, <3>5 DEF Allocate
  <2>7. ASSUME NEW c \in Conn, Manage(c) PROVE TypeOK'
    <3>1. SharedOK'
      BY <2>0, <2>7 DEF Manage, SharedOK
    <3> QED
      BY <2>7, <3>1, GotoStep DEF Manage, Label, Working
  <2>8. ASSUME NEW c \in Conn, Reply(c) PROVE TypeOK'
    <3>1. PICK l \in {"serving", "broken"} : Goto(c, l)
      BY <2>8 DEF Reply
    <3>2. SharedOK'
      BY <2>0, <2>8 DEF Reply, SharedOK
    <3> QED
      BY <2>8, <3>1, <3>2, GotoStep DEF Reply, Label, Working
  <2>9. ASSUME NEW c \in Conn, HeartbeatEnds(c) PROVE TypeOK'
    <3>1. SharedOK'
      BY <2>0, <2>9 DEF HeartbeatEnds, SharedOK
    <3> QED
      BY <2>9, <3>1, GotoStep DEF HeartbeatEnds, Label, Working
  <2>10. ASSUME NEW c \in Conn, UnregisterConnection(c) PROVE TypeOK'
    <3>1. tunnel[c] \in Tunnel
      BY <2>10 DEF UnregisterConnection, TypeOK
    <3>2. PICK l \in {"closed", "unroute"} :
             /\ pc' = [pc EXCEPT ![c] = l]
             /\ l = "unroute" => 1 \in 1 .. Len(Endpoints[tunnel[c]])
      BY <2>10, <3>1, EndpointsOf DEF UnregisterConnection
    <3>3. SharedOK'
      BY <2>0, <2>10 DEF UnregisterConnection, SharedOK
    <3>4. tunnel' = [tunnel EXCEPT ![c] = tunnel[c]] /\ step' = [step EXCEPT ![c] = 1]
      BY <2>10 DEF UnregisterConnection, TypeOK
    <3>5. l \in Label /\ l # "idle" /\ l \notin {"lookup", "replace", "absent", "insert"}
      BY DEF Label
    <3> QED
      BY <3>1, <3>2, <3>3, <3>4, <3>5, HandlerStep DEF Working
  <2>11. ASSUME NEW c \in Conn, UnregisterRoute(c) PROVE TypeOK'
    <3>1. tunnel[c] \in Tunnel /\ step[c] \in 1 .. Len(Endpoints[tunnel[c]])
      BY <2>11, AtEndpoint DEF UnregisterRoute, Working
    <3>2. SharedOK'
      BY <2>0, <2>11 DEF UnregisterRoute, SharedOK
    <3> QED
      BY <2>11, <3>1, <3>2, AdvanceStep DEF UnregisterRoute
  <2>12. ASSUME NEW c \in Conn, Deallocate(c) PROVE TypeOK'
    <3>1. tunnel[c] \in Tunnel /\ step[c] \in 1 .. Len(Endpoints[tunnel[c]])
      BY <2>12, AtEndpoint DEF Deallocate, Working
    <3>2. SharedOK'
      BY <2>0, <2>12, <3>1 DEF Deallocate, Release, LeaseOf, Lease, NoLease, SharedOK
    <3> QED
      BY <2>12, <3>1, <3>2, AdvanceStep DEF Deallocate
  <2>13. ASSUME NEW c \in Conn, ClientLeaves(c) PROVE TypeOK'
    BY <2>13 DEF ClientLeaves, handlerVars, TypeOK, At
  <2>14. ASSUME NEW c \in Conn, NEW t \in Tunnel, Connect(c, t) PROVE TypeOK'
    <3>1. PICK l \in {"manage", "register", "rejected"} :
             /\ pc' = [pc EXCEPT ![c] = l]
             /\ l = "register" => 1 \in 1 .. Len(Endpoints[t])
      BY <2>14, EndpointsOf DEF Connect
    <3>2. l \in Label /\ l # "idle" /\ l \notin {"lookup", "replace", "absent", "insert"}
      BY DEF Label
    <3>3. tunnel' = [tunnel EXCEPT ![c] = t] /\ step' = [step EXCEPT ![c] = 1]
      BY <2>14 DEF Connect
    <3>4. SharedOK'
      BY <2>0, <2>14 DEF Connect, SharedOK
    <3> QED
      BY <3>1, <3>2, <3>3, <3>4, HandlerStep DEF Working
  <2>15. CASE ReservationsLapse
    BY <2>15 DEF ReservationsLapse, Lapse, handlerVars, TypeOK, At
  <2>16. CASE UNCHANGED vars
    BY <2>16 DEF vars, TypeOK, At
  <2> QED
    BY <2>1, <2>2, <2>3, <2>4, <2>5, <2>6, <2>7, <2>8, <2>9, <2>10, <2>11, <2>12,
       <2>13, <2>14, <2>15, <2>16 DEF Next, Handler
<1> QED
  BY <1>1, <1>2, PTL DEF Spec
-----------------------------------------------------------------------------
\* What a handler has taken, place by place.
LEMMA TakenAt ==
    ASSUME TypeOK, NEW c \in Conn
    PROVE  /\ pc[c] \in {"idle", "closed"} => Taken(c) = {}
           /\ pc[c] \in {"manage", "reply", "serving", "leaving", "broken"} =>
                 Taken(c) = 1 .. Len(Endpoints[tunnel[c]])
           /\ pc[c] = "unroute" => Taken(c) = step[c] .. Len(Endpoints[tunnel[c]])
           /\ pc[c] \in {"register", "lookup", "replace", "absent", "insert", "rejected"} =>
                 Taken(c) = 1 .. step[c] - 1
  BY DEF Taken

\* A handler keeps what it has taken.
Keeps(c) == Taken(c) \subseteq Taken(c)' /\ (Taken(c) # {} => tunnel'[c] = tunnel[c])

\* A handler that goes on without working on another endpoint keeps what it
\* has taken.
LEMMA GotoKeeps ==
    ASSUME TypeOK, TypeOK', NEW c \in Conn, NEW l \in Label, Goto(c, l),
           \/ /\ pc[c] \in {"register", "lookup", "replace", "absent", "insert"}
              /\ l \in {"lookup", "replace", "absent", "insert", "rejected"}
           \/ /\ pc[c] \in {"manage", "reply", "serving"}
              /\ l \in {"reply", "serving", "broken", "leaving"}
    PROVE  \A d \in Conn : Keeps(d)
<1>1. pc'[c] = l /\ tunnel' = tunnel /\ step' = step
  BY DEF Goto, TypeOK
<1>2. Keeps(c)
  <2>1. CASE pc[c] \in {"register", "lookup", "replace", "absent", "insert"}
    <3>1. Taken(c)' = Taken(c)
      BY <1>1, <2>1 DEF Taken
    <3> QED
      BY <1>1, <3>1 DEF Keeps
  <2>2. CASE pc[c] \in {"manage", "reply", "serving"}
    <3>1. Taken(c)' = Taken(c)
      BY <1>1, <2>2 DEF Taken
    <3> QED
      BY <1>1, <3>1 DEF Keeps
  <2> QED
    BY <2>1, <2>2
<1>3. ASSUME NEW d \in Conn, d # c PROVE Keeps(d)
  BY <1>1, <1>3 DEF Keeps, Taken, Goto, TypeOK
<1> QED
  BY <1>2, <1>3

\* A handler that has got an endpoint has it from then on, with the earlier ones.
LEMMA AdvanceTakes ==
    ASSUME TypeOK, TypeOK', NEW c \in Conn, Advance(c, "register", "manage"),
           pc[c] \in {"register", "insert"}
    PROVE  (\A d \in Conn : Keeps(d)) /\ step[c] \in Taken(c)' /\ tunnel' = tunnel
<1>1. /\ tunnel' = tunnel /\ step'[c] = step[c] + 1
      /\ pc'[c] = IF step[c] < Len(Endpoints[tunnel[c]]) THEN "register" ELSE "manage"
  BY DEF Advance, TypeOK
<1>2. tunnel[c] \in Tunnel /\ step[c] \in 1 .. Len(Endpoints[tunnel[c]])
  BY AtEndpoint DEF Working
<1>3. Len(Endpoints[tunnel[c]]) \in Nat
  BY <1>2, EndpointsOf
<1>4. Taken(c) = 1 .. step[c] - 1
  BY TakenAt
<1>5. Taken(c)' = 1 .. step[c]
  <2>1. CASE step[c] < Len(Endpoints[tunnel[c]])
    BY <1>1, <1>2, <2>1 DEF Taken
  <2>2. CASE step[c] = Len(Endpoints[tunnel[c]])
    BY <1>1, <1>2, <2>2 DEF Taken
  <2> QED
    BY <1>2, <1>3, <2>1, <2>2
<1>6. Keeps(c) /\ step[c] \in Taken(c)'
  BY <1>1, <1>2, <1>3, <1>4, <1>5 DEF Keeps
<1>7. ASSUME NEW d \in Conn, d # c PROVE Keeps(d)
  BY <1>1, <1>7 DEF Keeps, Taken, Advance, TypeOK
<1> QED
  BY <1>1, <1>6, <1>7

\* A handler that gives an endpoint back still has the later ones.
LEMMA AdvanceGives ==
    ASSUME TypeOK, TypeOK', NEW c \in Conn, Advance(c, "unroute", "closed"), pc[c] = "unroute"
    PROVE  /\ \A d \in Conn : d # c => Keeps(d)
           /\ Taken(c) \subseteq Taken(c)' \cup {step[c]} /\ tunnel' = tunnel
<1>1. /\ tunnel' = tunnel /\ step'[c] = step[c] + 1
      /\ pc'[c] = IF step[c] < Len(Endpoints[tunnel[c]]) THEN "unroute" ELSE "closed"
  BY DEF Advance, TypeOK
<1>2. tunnel[c] \in Tunnel /\ step[c] \in 1 .. Len(Endpoints[tunnel[c]])
  BY AtEndpoint DEF Working
<1>3. Len(Endpoints[tunnel[c]]) \in Nat
  BY <1>2, EndpointsOf
<1>4. Taken(c) = step[c] .. Len(Endpoints[tunnel[c]])
  BY TakenAt
<1>5. Taken(c) \subseteq Taken(c)' \cup {step[c]}
  <2>1. CASE step[c] < Len(Endpoints[tunnel[c]])
    <3>1. Taken(c)' = step[c] + 1 .. Len(Endpoints[tunnel[c]])
      BY <1>1, <2>1 DEF Taken
    <3> QED
      BY <1>2, <1>3, <1>4, <3>1
  <2>2. CASE step[c] = Len(Endpoints[tunnel[c]])
    BY <1>2, <1>3, <1>4, <2>2
  <2> QED
    BY <1>2, <1>3, <2>1, <2>2
<1>6. ASSUME NEW d \in Conn, d # c PROVE Keeps(d)
  BY <1>1, <1>6 DEF Keeps, Taken, Advance, TypeOK
<1> QED
  BY <1>1, <1>5, <1>6

\* What a handler has taken and keeps, it still answers for.
LEMMA KeepsTakes ==
    ASSUME NEW c \in Conn, NEW t, NEW proto, NEW k, Keeps(c), Takes(c, t, proto, k)
    PROVE  Takes(c, t, proto, k)'
  BY DEF Keeps, Takes

\* A step in which every handler keeps what it has, and which adds no route, no
\* active lease and no connection, leaves everything accounted for.
LEMMA RoutesStay ==
    ASSUME RoutesAccounted, \A c \in Conn : Keeps(c),
           \A k \in Slot : routes'[k] # NoTunnel => routes'[k] = routes[k]
    PROVE  RoutesAccounted'
<1> SUFFICES ASSUME NEW k \in Slot, NEW t, t = routes'[k], t # NoTunnel
             PROVE  \E c \in Conn : Takes(c, t, {"http", "tls"}, k)'
  BY DEF RoutesAccounted
<1>1. PICK c \in Conn : Takes(c, t, {"http", "tls"}, k)
  BY DEF RoutesAccounted
<1> QED
  BY <1>1, KeepsTakes

\* Leases stay accounted for while no lease becomes active.
LEMMA LeasesStay ==
    ASSUME LeasesAccounted, \A c \in Conn : Keeps(c),
           \A t \in Tunnel : lease'[t].state = "Active" => lease[t].state = "Active"
    PROVE  LeasesAccounted'
<1> SUFFICES ASSUME NEW t \in Tunnel, lease'[t].state = "Active"
             PROVE  \E c \in Conn : Takes(c, t, {"tcp"}, NoSlot)'
  BY DEF LeasesAccounted
<1>1. PICK c \in Conn : Takes(c, t, {"tcp"}, NoSlot)
  BY DEF LeasesAccounted
<1> QED
  BY <1>1, KeepsTakes

\* So do the entries of the connection table, while only c moves and keeps what it owes.
LEMMA ConnectionsStay ==
    ASSUME TypeOK, ConnectionsAccounted, connections' = connections, NEW c \in Conn,
           pc[c] \notin {"reply", "serving", "leaving", "broken"} \/
              (tunnel'[c] = tunnel[c] /\ pc'[c] \in {"reply", "serving", "leaving", "broken"}),
           \A d \in Conn : d # c => pc'[d] = pc[d] /\ tunnel'[d] = tunnel[d]
    PROVE  ConnectionsAccounted'
<1> SUFFICES ASSUME NEW t \in Tunnel, connections[t] # NoConn
             PROVE  /\ tunnel'[connections[t]] = t
                    /\ pc'[connections[t]] \in {"reply", "serving", "leaving", "broken"}
  BY DEF ConnectionsAccounted
<1>1. /\ connections[t] \in Conn /\ tunnel[connections[t]] = t
      /\ pc[connections[t]] \in {"reply", "serving", "leaving", "broken"}
  BY DEF ConnectionsAccounted, TypeOK
<1> QED
  BY <1>1

\* However handlers of the same id overlap and whichever of them fail, what the
\* relay holds for a tunnel has a handler that answers for it.
THEOREM Answered == Spec => []Accounted
<1>1. Init => Accounted
  BY DEF Init, LeaseInit, NoLease, Accounted, RoutesAccounted, LeasesAccounted, ConnectionsAccounted
<1>2. TypeOK /\ TypeOK' /\ Accounted /\ [Next]_vars => Accounted'
  <2> SUFFICES ASSUME TypeOK, TypeOK', RoutesAccounted, LeasesAccounted, ConnectionsAccounted,
                      [Next]_vars
               PROVE  RoutesAccounted' /\ LeasesAccounted' /\ ConnectionsAccounted'
    BY DEF Accounted
  <2> DEFINE Good == RoutesAccounted' /\ LeasesAccounted' /\ ConnectionsAccounted'
  <2>1. ASSUME NEW c \in Conn, NEW l \in {"lookup", "replace", "absent", "insert", "rejected"},
               pc[c] \in {"register", "lookup", "replace", "absent", "insert"}, Goto(c, l),
               \A k \in Slot : routes'[k] # NoTunnel => routes'[k] = routes[k],
               UNCHANGED <<connections, lease>>
        PROVE  Good
    <3>1. \A d \in Conn : Keeps(d)
      BY <2>1, GotoKeeps DEF Label
    <3>2. \A d \in Conn : d # c => pc'[d] = pc[d] /\ tunnel'[d] = tunnel[d]
      BY <2>1 DEF Goto, TypeOK
    <3>3. ConnectionsAccounted'
      BY <2>1, <3>2, ConnectionsStay
    <3> QED
      BY <2>1, <3>1, <3>3, RoutesStay, LeasesStay
  <2>2. ASSUME NEW c \in Conn, Exists(c) \/ Lookup(c) \/ Replace(c) \/ ContainsKey(c) PROVE Good
    <3>1. PICK l \in {"lookup", "replace", "absent", "insert", "rejected"} : Goto(c, l)
      BY <2>2 DEF Exists, Lookup, Replace, ContainsKey
    <3>2. pc[c] \in {"register", "lookup", "replace", "absent", "insert"} /\ UNCHANGED <<connections, lease>>
      BY <2>2 DEF Exists, Lookup, Replace, ContainsKey
    <3>3. routes' = routes \/ routes' = [routes EXCEPT ![At(c).slot] = NoTunnel]
      BY <2>2 DEF Exists, Lookup, Replace, ContainsKey
    <3>4. \A k \in Slot : routes'[k] # NoTunnel => routes'[k] = routes[k]
      BY <3>3 DEF TypeOK
    <3> QED
      BY <2>1, <3>1, <3>2, <3>4
  <2>3. ASSUME NEW c \in Conn, Insert(c) PROVE Good
    <3>1. /\ pc[c] = "insert" /\ Advance(c, "register", "manage") /\ UNCHANGED <<connections, lease>>
          /\ routes' = [routes EXCEPT ![At(c).slot] = tunnel[c]]
      BY <2>3 DEF Insert
    <3>2. (\A d \in Conn : Keeps(d)) /\ step[c] \in Taken(c)' /\ tunnel' = tunnel
      BY <3>1, AdvanceTakes
    <3>3. \A d \in Conn : d # c => pc'[d] = pc[d] /\ tunnel'[d] = tunnel[d]
      BY <3>1 DEF Advance, TypeOK
    <3>4. LeasesAccounted' /\ ConnectionsAccounted'
      BY <3>1, <3>2, <3>3, LeasesStay, ConnectionsStay
    <3>5. ASSUME NEW k \in Slot, NEW t, t = routes'[k], t # NoTunnel
          PROVE  \E d \in Conn : Takes(d, t, {"http", "tls"}, k)'
      <4>1. CASE k = At(c).slot
        <5>1. t = tunnel[c]
          BY <3>1, <3>5, <4>1 DEF TypeOK
        <5>2. At(c).proto \in {"http", "tls"}
          BY <3>1, AtEndpoint DEF TypeOK, Working, Endpoint
        <5>3. Takes(c, t, {"http", "tls"}, k)'
          BY <3>2, <4>1, <5>1, <5>2 DEF Takes, At
        <5> QED
          BY <5>3
      <4>2. CASE k # At(c).slot
        <5>1. t = routes[k]
          BY <3>1, <3>5, <4>2 DEF TypeOK
        <5>2. PICK d \in Conn : Takes(d, t, {"http", "tls"}, k)
          BY <3>5, <5>1 DEF RoutesAccounted
        <5> QED
          BY <3>2, <5>2, KeepsTakes
      <4> QED
        BY <4>1, <4>2
    <3>6. RoutesAccounted'
      BY <3>5 DEF RoutesAccounted
    <3> QED
      BY <3>4, <3>6
  <2>4. ASSUME NEW c \in Conn, Allocate(c) PROVE Good
    <3>1. pc[c] = "register" /\ At(c).proto = "tcp" /\ UNCHANGED <<routes, connections>>
      BY <2>4 DEF Allocate
    <3>2. CASE Goto(c, "rejected") /\ UNCHANGED lease
      BY <2>1, <3>1, <3>2
    <3>3. CASE (Grant(tunnel[c]) \/ Renew(tunnel[c])) /\ Advance(c, "register", "manage")
      <4>1. (\A d \in Conn : Keeps(d)) /\ step[c] \in Taken(c)' /\ tunnel' = tunnel
        BY <3>1, <3>3, AdvanceTakes
      <4>2. \A d \in Conn : d # c => pc'[d] = pc[d] /\ tunnel'[d] = tunnel[d]
        BY <3>3 DEF Advance, TypeOK
      <4>3. RoutesAccounted' /\ ConnectionsAccounted'
        BY <3>1, <4>1, <4>2, RoutesStay, ConnectionsStay
      <4>4. \A t \in Tunnel : t # tunnel[c] => lease'[t] = lease[t]
        BY <3>3 DEF Grant, GrantPort, Renew, TypeOK
      <4>5. ASSUME NEW t \in Tunnel, lease'[t].state = "Active"
            PROVE  \E d \in Conn : Takes(d, t, {"tcp"}, NoSlot)'
        <5>1. CASE t = tunnel[c]
          <6>1. At(c).slot = NoSlot
            BY <3>1, AtEndpoint DEF Working
          <6>2. Takes(c, t, {"tcp"}, NoSlot)'
            BY <3>1, <4>1, <5>1, <6>1 DEF Takes, At
          <6> QED
            BY <6>2
        <5>2. CASE t # tunnel[c]
          <6>1. PICK d \in Conn : Takes(d, t, {"tcp"}, NoSlot)
            BY <4>4, <4>5, <5>2 DEF LeasesAccounted
          <6> QED
            BY <4>1, <6>1, KeepsTakes
        <5> QED
          BY <5>1, <5>2
      <4>6. LeasesAccounted'
        BY <4>5 DEF LeasesAccounted
      <4> QED
        BY <4>3, <4>6
    <3> QED
      BY <2>4, <3>2, <3>3 DEF Allocate
  <2>5. ASSUME NEW c \in Conn, Manage(c) PROVE Good
    <3>1. /\ pc[c] = "manage" /\ Goto(c, "reply") /\ UNCHANGED <<routes, lease>>
          /\ connections' = IF c \in Quic THEN [connections EXCEPT ![tunnel[c]] = c] ELSE connections
      BY <2>5 DEF Manage
    <3>2. \A d \in Conn : Keeps(d)
      BY <3>1, GotoKeeps DEF Label
    <3>3. /\ tunnel' = tunnel /\ pc'[c] = "reply" /\ \A d \in Conn : d # c => pc'[d] = pc[d]
          /\ tunnel[c] \in Tunnel
      BY <3>1 DEF Goto, TypeOK
    <3>4. ASSUME NEW t \in Tunnel, connections'[t] # NoConn
          PROVE  /\ tunnel'[connections'[t]] = t
                 /\ pc'[connections'[t]] \in {"reply", "serving", "leaving", "broken"}
      <4>1. CASE connections'[t] = c /\ t = tunnel[c]
        BY <3>3, <4>1
      <4>2. CASE connections'[t] = connections[t]
        BY <3>1, <3>3, <3>4, <4>2 DEF ConnectionsAccounted, TypeOK
      <4> QED
        BY <3>1, <4>1, <4>2 DEF TypeOK
    <3>5. ConnectionsAccounted'
      BY <3>4 DEF ConnectionsAccounted
    <3> QED
      BY <3>1, <3>2, <3>5, RoutesStay, LeasesStay
  <2>6. ASSUME NEW c \in Conn, Reply(c) \/ HeartbeatEnds(c) PROVE Good
    <3>1. PICK l \in {"serving", "broken", "leaving"} : Goto(c, l)
      BY <2>6 DEF Reply, HeartbeatEnds
    <3>2. pc[c] \in {"reply", "serving"} /\ UNCHANGED <<routes, lease, connections>>
      BY <2>6 DEF Reply, HeartbeatEnds
    <3>3. \A d \in Conn : Keeps(d)
      BY <3>1, <3>2, GotoKeeps DEF Label
    <3>4. ConnectionsAccounted'
      <4>1. /\ tunnel' = tunnel /\ pc'[c] \in {"serving", "broken", "leaving"}
            /\ \A d \in Conn : d # c => pc'[d] = pc[d]
        BY <3>1 DEF Goto, TypeOK
      <4> QED
        BY <3>2, <4>1, ConnectionsStay
    <3> QED
      BY <3>2, <3>3, <3>4, RoutesStay, LeasesStay
  <2>7. ASSUME NEW c \in Conn, UnregisterConnection(c) PROVE Good
    <3>1. /\ pc[c] = "leaving" /\ UNCHANGED <<routes, lease, tunnel>>
          /\ connections' = [connections EXCEPT ![tunnel[c]] = NoConn]
          /\ pc' = [pc EXCEPT ![c] = IF Endpoints[tunnel[c]] = <<>> THEN "closed" ELSE "unroute"]
          /\ step' = [step EXCEPT ![c] = 1]
      BY <2>7 DEF UnregisterConnection
    <3>2. tunnel[c] \in Tunnel
      BY <3>1 DEF TypeOK
    <3>3. Keeps(c)
      <4>1. Taken(c) = 1 .. Len(Endpoints[tunnel[c]])
        BY <3>1, TakenAt
      <4>2. CASE Endpoints[tunnel[c]] = <<>>
        BY <3>2, <4>1, <4>2, EndpointsOf DEF Keeps
      <4>3. CASE Endpoints[tunnel[c]] # <<>>
        <5>1. pc'[c] = "unroute" /\ step'[c] = 1
          BY <3>1, <4>3 DEF TypeOK
        <5>2. Taken(c)' = 1 .. Len(Endpoints[tunnel[c]])
          BY <3>1, <5>1 DEF Taken
        <5> QED
          BY <3>1, <4>1, <5>2 DEF Keeps
      <4> QED
        BY <4>2, <4>3
    <3>4. ASSUME NEW d \in Conn, d # c PROVE Keeps(d) /\ pc'[d] = pc[d] /\ tunnel'[d] = tunnel[d]
      <4>1. pc'[d] = pc[d] /\ tunnel'[d] = tunnel[d] /\ step'[d] = step[d]
        BY <3>1, <3>4 DEF TypeOK
      <4> QED
        BY <4>1 DEF Keeps, Taken
    <3>5. \A d \in Conn : Keeps(d)
      BY <3>3, <3>4
    <3>6. ASSUME NEW t \in Tunnel, connections'[t] # NoConn
          PROVE  /\ tunnel'[connections'[t]] = t
                 /\ pc'[connections'[t]] \in {"reply", "serving", "leaving", "broken"}
      <4>1. t # tunnel[c] /\ connections'[t] = connections[t]
        BY <3>1, <3>6 DEF TypeOK
      <4>2. connections[t] # c /\ connections[t] \in Conn
        BY <3>6, <4>1 DEF ConnectionsAccounted, TypeOK
      <4> QED
        BY <3>4, <3>6, <4>1, <4>2 DEF ConnectionsAccounted
    <3>7. ConnectionsAccounted'
      BY <3>6 DEF ConnectionsAccounted
    <3> QED
      BY <3>1, <3>5, <3>7, RoutesStay, LeasesStay
  <2>8. ASSUME NEW c \in Conn, UnregisterRoute(c) \/ Deallocate(c) PROVE Good
    <3>1. pc[c] = "unroute" /\ Advance(c, "unroute", "closed") /\ UNCHANGED connections
      BY <2>8 DEF UnregisterRoute, Deallocate
    <3>2. /\ \A d \in Conn : d # c => Keeps(d)
          /\ Taken(c) \subseteq Taken(c)' \cup {step[c]} /\ tunnel' = tunnel
      BY <3>1, AdvanceGives
    <3>3. tunnel[c] \in Tunnel /\ At(c) \in Endpoint
      BY <3>1, AtEndpoint DEF Working
    <3>4. ConnectionsAccounted'
      <4>1. \A d \in Conn : d # c => pc'[d] = pc[d] /\ tunnel'[d] = tunnel[d]
        BY <3>1 DEF Advance, TypeOK
      <4> QED
        BY <3>1, <4>1, ConnectionsStay
    <3>5. ASSUME NEW d \in Conn, NEW t, NEW proto, NEW k, Takes(d, t, proto, k),
                 d # c \/ k # At(c).slot \/ At(c).proto \notin proto
          PROVE  Takes(d, t, proto, k)'
      <4>1. CASE d # c
        BY <3>2, <3>5, <4>1, KeepsTakes
      <4>2. CASE d = c
        <5>1. PICK i \in Taken(c) : Endpoints[t][i].proto \in proto /\ Endpoints[t][i].slot = k
          BY <3>5, <4>2 DEF Takes
        <5>2. tunnel[c] = t /\ i # step[c]
          BY <3>5, <4>2, <5>1 DEF Takes, At
        <5> QED
          BY <3>2, <4>2, <5>1, <5>2 DEF Takes
      <4> QED
        BY <4>1, <4>2
    <3>6. RoutesAccounted'
      <4> SUFFICES ASSUME NEW k \in Slot, NEW t, t = routes'[k], t # NoTunnel
                   PROVE  \E d \in Conn : Takes(d, t, {"http", "tls"}, k)'
        BY DEF RoutesAccounted
      <4>1. t = routes[k] /\ (k # At(c).slot \/ At(c).proto \notin {"http", "tls"})
        BY <2>8 DEF UnregisterRoute, Deallocate, TypeOK
      <4>2. PICK d \in Conn : Takes(d, t, {"http", "tls"}, k)
        BY <4>1 DEF RoutesAccounted
      <4> QED
        BY <3>5, <4>1, <4>2
    <3>7. LeasesAccounted'
      <4> SUFFICES ASSUME NEW t \in Tunnel, lease'[t].state = "Active"
                   PROVE  \E d \in Conn : Takes(d, t, {"tcp"}, NoSlot)'
        BY DEF LeasesAccounted
      <4>1. lease[t].state = "Active" /\ (t # tunnel[c] \/ At(c).proto \notin {"tcp"})
        BY <2>8, <3>3 DEF UnregisterRoute, Deallocate, Release, LeaseOf, TypeOK
      <4>2. PICK d \in Conn : Takes(d, t, {"tcp"}, NoSlot)
        BY <4>1 DEF LeasesAccounted
      <4>3. d # c \/ At(c).proto \notin {"tcp"}
        BY <4>1, <4>2 DEF Takes
      <4> QED
        BY <3>5, <4>2, <4>3
    <3> QED
      BY <3>4, <3>6, <3>7
  <2>9. ASSUME NEW c \in Conn, NEW t \in Tunnel, Connect(c, t) PROVE Good
    <3>1. pc[c] = "idle" /\ UNCHANGED <<routes, connections, lease>>
      BY <2>9 DEF Connect
    <3>2. ASSUME NEW d \in Conn, d # c
          PROVE  Keeps(d) /\ pc'[d] = pc[d] /\ tunnel'[d] = tunnel[d]
      <4>1. pc'[d] = pc[d] /\ tunnel'[d] = tunnel[d] /\ step'[d] = step[d]
        BY <2>9, <3>2 DEF Connect, TypeOK
      <4> QED
        BY <4>1 DEF Keeps, Taken
    <3>3. Keeps(c)
      BY <3>1, TakenAt DEF Keeps
    <3> QED
      BY <3>1, <3>2, <3>3, RoutesStay, LeasesStay, ConnectionsStay
  <2>10. ASSUME UNCHANGED <<routes, connections, handlerVars>>,
                \A t \in Tunnel : lease'[t].state = "Active" => lease[t].state = "Active"
         PROVE  Good
    <3>1. \A d \in Conn : Keeps(d)
      BY <2>10 DEF Keeps, Taken, handlerVars
    <3>2. ConnectionsAccounted'
      BY <2>10 DEF ConnectionsAccounted, handlerVars
    <3> QED
      BY <2>10, <3>1, <3>2, RoutesStay, LeasesStay
  <2>11. ASSUME NEW c \in Conn, ClientLeaves(c) PROVE Good
    BY <2>10, <2>11 DEF ClientLeaves
  <2>12. ASSUME ReservationsLapse PROVE Good
    BY <2>10, <2>12 DEF ReservationsLapse, Lapse, NoLease
  <2>13. ASSUME UNCHANGED vars PROVE Good
    BY <2>10, <2>13 DEF vars, handlerVars
  <2>14. Good
    <3> HIDE DEF Good
    <3> QED
      BY <2>2, <2>3, <2>4, <2>5, <2>6, <2>7, <2>8, <2>9, <2>11, <2>12, <2>13 DEF Next, Handler
  <2> QED
    BY <2>14
<1> QED
  BY <1>1, <1>2, TypeCorrect, PTL DEF Spec
-----------------------------------------------------------------------------
(***************************************************************************)
(* Reachability.  It holds when clients do not overlap with themselves     *)
(* (the run relay_reconnect shows what happens when they do) and no two    *)
(* tunnels ask for the same slot.                                          *)
(***************************************************************************)
SlotsApart ==
    \A t, u \in Tunnel : \A i \in DOMAIN Endpoints[t], j \in DOMAIN Endpoints[u] :
        /\ Endpoints[t][i].proto # "tcp" /\ Endpoints[u][j].proto # "tcp"
        /\ Endpoints[t][i].slot = Endpoints[u][j].slot
        => t = u

\* A tunnel has at most one handler that has not ended.
OneLive ==
    \A c, d \in Conn : tunnel[c] = tunnel[d] /\ pc[c] \notin Over /\ pc[d] \notin Over => c = d

\* The places a handler passes before it cleans up.
Upright == {"register", "lookup", "replace", "absent", "insert", "manage", "reply", "serving"}

\* What a handler has taken is there: the slot, unless the handler is about to
\* register it anew, or the port.
Stands(c, i) ==
    LET e == Endpoints[tunnel[c]][i]
    IN  IF e.proto = "tcp" THEN lease[tunnel[c]].state = "Active"
        ELSE \/ routes[e.slot] = tunnel[c]
             \/ pc[c] \in {"absent", "insert"} /\ At(c).slot = e.slot

HandlerStands(c) ==
    /\ pc[c] \in Upright => \A i \in Taken(c) : Stands(c, i)
    /\ pc[c] \in {"reply", "serving"} /\ c \in Quic => connections[tunnel[c]] = c

Standing == OneLive /\ \A c \in Conn : HandlerStands(c)
\* A handler has taken only endpoints its client asked for.
LEMMA TakenWithin ==
    ASSUME TypeOK, NEW c \in Conn, pc[c] \in Upright
    PROVE  tunnel[c] \in Tunnel /\ Taken(c) \subseteq DOMAIN Endpoints[tunnel[c]]
<1>1. tunnel[c] \in Tunnel
  BY DEF TypeOK, Upright
<1>2. DOMAIN Endpoints[tunnel[c]] = 1 .. Len(Endpoints[tunnel[c]]) /\ Len(Endpoints[tunnel[c]]) \in Nat
  BY <1>1, EndpointsOf
<1>3. CASE pc[c] \in {"manage", "reply", "serving"}
  BY <1>1, <1>2, <1>3, TakenAt
<1>4. CASE pc[c] \in {"register", "lookup", "replace", "absent", "insert"}
  <2>1. step[c] \in 1 .. Len(Endpoints[tunnel[c]])
    BY <1>4, AtEndpoint DEF Working
  <2> QED
    BY <1>1, <1>2, <1>4, <2>1, TakenAt
<1> QED
  BY <1>3, <1>4 DEF Upright

\* A step of one handler leaves the others standing: it touches the slot it is
\* at, its own lease and its own connection, and no other handler that has not
\* ended has any of them.
LEMMA OthersStand ==
    ASSUME SlotsApart, TypeOK, Standing, NEW c \in Conn, NEW d \in Conn, d # c,
           pc'[d] = pc[d], tunnel'[d] = tunnel[d], step'[d] = step[d],
           pc[c] \notin Over \/ UNCHANGED <<routes, lease, connections>>,
           \A k \in Slot : routes'[k] = routes[k] \/
               (pc[c] \in Working /\ At(c).proto # "tcp" /\ k = At(c).slot),
           \A t \in Tunnel : t # tunnel[c] => lease'[t] = lease[t] /\ connections'[t] = connections[t]
    PROVE  HandlerStands(d)'
<1> SUFFICES ASSUME pc[d] \in Upright PROVE HandlerStands(d)'
  BY DEF HandlerStands, Upright
<1>0. HandlerStands(d) /\ OneLive
  BY DEF Standing
<1>1. tunnel[d] \in Tunnel /\ Taken(d) \subseteq DOMAIN Endpoints[tunnel[d]]
  BY TakenWithin
<1>2. Taken(d)' = Taken(d)
  BY DEF Taken
<1>3. tunnel[d] # tunnel[c] \/ UNCHANGED <<routes, lease, connections>>
  BY <1>0 DEF OneLive, Upright, Over, Failed
<1>4. lease'[tunnel[d]] = lease[tunnel[d]] /\ connections'[tunnel[d]] = connections[tunnel[d]]
  BY <1>1, <1>3
<1>5. ASSUME NEW i \in Taken(d) PROVE Stands(d, i)'
  <2> DEFINE e == Endpoints[tunnel[d]][i]
  <2>0. i \in DOMAIN Endpoints[tunnel[d]] /\ e \in Endpoint
    BY <1>1, EndpointsOf
  <2>1. Stands(d, i)
    BY <1>0, <1>5 DEF HandlerStands
  <2>2. CASE e.proto = "tcp"
    BY <1>4, <2>1, <2>2 DEF Stands
  <2>3. CASE e.proto # "tcp"
    <3>1. e.slot \in Slot
      BY <2>0, <2>3 DEF Endpoint
    <3>2. routes'[e.slot] = routes[e.slot]
      <4>1. SUFFICES ASSUME pc[c] \in Working, At(c).proto # "tcp", e.slot = At(c).slot,
                            tunnel[d] # tunnel[c]
                     PROVE  FALSE
        BY <1>3, <3>1
      <4>2. tunnel[c] \in Tunnel /\ step[c] \in DOMAIN Endpoints[tunnel[c]]
        BY <4>1, AtEndpoint, EndpointsOf
      <4> QED
        BY <1>1, <2>0, <2>3, <4>1, <4>2 DEF SlotsApart, At
    <3> QED
      BY <2>1, <2>3, <3>2 DEF Stands, At
  <2> QED
    BY <2>2, <2>3
<1> QED
  BY <1>0, <1>2, <1>4, <1>5 DEF HandlerStands

\* Handlers do not come back to life.
LEMMA OneLiveStays ==
    ASSUME OneLive, UNCHANGED tunnel, \A c \in Conn : pc'[c] \notin Over => pc[c] \notin Over
    PROVE  OneLive'
  BY DEF OneLive

\* A handler that goes on without working on another endpoint stands.
LEMMA GotoStands ==
    ASSUME TypeOK, NEW c \in Conn, NEW l \in Label, Goto(c, l), HandlerStands(c),
           \/ /\ pc[c] \in {"register", "lookup", "replace", "absent", "insert"}
              /\ l \in {"lookup", "replace", "absent", "insert", "rejected"}
           \/ /\ pc[c] \in {"reply", "serving"}
              /\ l \in {"serving", "broken", "leaving"},
           pc[c] \in {"absent", "insert"} => l \in {"insert", "rejected"},
           \A k \in Slot : routes'[k] = routes[k] \/ (l = "absent" /\ k = At(c).slot),
           UNCHANGED <<lease, connections>>
    PROVE  HandlerStands(c)'
<1>1. pc'[c] = l /\ tunnel' = tunnel /\ step' = step
  BY DEF Goto, TypeOK
<1>2. CASE l \in {"rejected", "broken", "leaving"}
  BY <1>1, <1>2 DEF HandlerStands, Upright
<1>3. CASE l \in {"lookup", "replace", "absent", "insert", "serving"}
  <2>1. pc[c] \in Upright /\ l \in Upright
    BY <1>3 DEF Upright
  <2>2. Taken(c)' = Taken(c)
    <3>1. CASE pc[c] \in {"register", "lookup", "replace", "absent", "insert"}
      BY <1>1, <1>3, <3>1 DEF Taken
    <3>2. CASE pc[c] \in {"reply", "serving"}
      BY <1>1, <1>3, <3>2 DEF Taken
    <3> QED
      BY <3>1, <3>2
  <2>3. ASSUME NEW i \in Taken(c) PROVE Stands(c, i)'
    <3>1. Stands(c, i)
      BY <2>1 DEF HandlerStands
    <3>2. Endpoints[tunnel[c]][i].proto # "tcp" => Endpoints[tunnel[c]][i].slot \in Slot
      <4>1. i \in DOMAIN Endpoints[tunnel[c]] /\ tunnel[c] \in Tunnel
        BY <2>1, TakenWithin
      <4>2. Endpoints[tunnel[c]][i] \in Endpoint
        BY <4>1, EndpointsOf
      <4> QED
        BY <4>2 DEF Endpoint
    <3>3. At(c)' = At(c)
      BY <1>1 DEF At
    <3> QED
      BY <1>1, <1>3, <3>1, <3>2, <3>3 DEF Stands
  <2>4. l \in {"reply", "serving"} => pc[c] \in {"reply", "serving"}
    BY <1>3
  <2> QED
    BY <1>1, <2>1, <2>2, <2>3, <2>4 DEF HandlerStands
<1> QED
  BY <1>2, <1>3

\* A handler that has got an endpoint stands with it and with the earlier ones.
LEMMA AdvanceStands ==
    ASSUME TypeOK, NEW c \in Conn, Advance(c, "register", "manage"), HandlerStands(c),
           pc[c] \in {"register", "insert"},
           IF At(c).proto = "tcp"
           THEN lease'[tunnel[c]].state = "Active" /\ routes' = routes /\ pc[c] = "register"
           ELSE lease' = lease /\ routes' = [routes EXCEPT ![At(c).slot] = tunnel[c]]
    PROVE  HandlerStands(c)'
<1>1. /\ tunnel' = tunnel /\ step'[c] = step[c] + 1
      /\ pc'[c] = IF step[c] < Len(Endpoints[tunnel[c]]) THEN "register" ELSE "manage"
  BY DEF Advance, TypeOK
<1>2. tunnel[c] \in Tunnel /\ step[c] \in 1 .. Len(Endpoints[tunnel[c]])
  BY AtEndpoint DEF Working
<1>3. Len(Endpoints[tunnel[c]]) \in Nat
  BY <1>2, EndpointsOf
<1>4. Taken(c) = 1 .. step[c] - 1
  BY TakenAt
<1>5. Taken(c)' = 1 .. step[c]
  <2>1. CASE step[c] < Len(Endpoints[tunnel[c]])
    BY <1>1, <1>2, <2>1 DEF Taken
  <2>2. CASE step[c] = Len(Endpoints[tunnel[c]])
    BY <1>1, <1>2, <2>2 DEF Taken
  <2> QED
    BY <1>2, <1>3, <2>1, <2>2
<1>6. ASSUME NEW i \in 1 .. step[c] PROVE Stands(c, i)'
  <2> DEFINE e == Endpoints[tunnel[c]][i]
  <2>1. e \in Endpoint /\ (e.proto # "tcp" => e.slot \in Slot)
    <3>1. e \in Endpoint
      BY <1>2, <1>3, EndpointsOf
    <3> QED
      BY <3>1 DEF Endpoint
  <2>2. CASE i = step[c]
    <3>1. e = At(c)
      BY <2>2 DEF At
    <3>2. e.proto = "tcp" => lease'[tunnel[c]].state = "Active"
      BY <3>1
    <3>3. e.proto # "tcp" => routes'[e.slot] = tunnel[c]
      BY <2>1, <3>1 DEF TypeOK
    <3> QED
      BY <1>1, <3>2, <3>3 DEF Stands
  <2>3. CASE i # step[c]
    <3>1. Stands(c, i)
      BY <1>2, <1>4, <2>3 DEF HandlerStands, Upright
    <3>2. CASE e.proto = "tcp"
      BY <1>1, <3>1, <3>2 DEF Stands
    <3>3. CASE e.proto # "tcp"
      <4>1. routes'[e.slot] = tunnel[c]
        BY <2>1, <3>1, <3>3 DEF Stands, TypeOK
      <4> QED
        BY <1>1, <3>3, <4>1 DEF Stands
    <3> QED
      BY <3>2, <3>3
  <2> QED
    BY <2>2, <2>3
<1>7. pc'[c] \notin {"reply", "serving"}
  BY <1>1
<1> QED
  BY <1>5, <1>6, <1>7 DEF HandlerStands
\* When clients return only after their old handler has ended, and tunnels ask
\* for different slots, every client that was told Connected can be reached.
\* The inductive invariant says of every handler, also while it is being set
\* up, that what it has taken stands; the step of another handler cannot
\* disturb it because that one has another id.
THEOREM ConnectedReachable ==
    ASSUME ~Overlap, SlotsApart
    PROVE  Spec => []Reachable
<1>1. Init => Standing
  BY DEF Init, Standing, OneLive, HandlerStands, Over, Upright
<1>2. TypeOK /\ Standing /\ [Next]_vars => Standing'
  <2> SUFFICES ASSUME TypeOK, Standing, [Next]_vars PROVE Standing'
    OBVIOUS
  <2> DEFINE Good == Standing'
  <2>0. OneLive /\ \A d \in Conn : HandlerStands(d)
    BY DEF Standing
  <2>1. ASSUME NEW c \in Conn, NEW l \in {"lookup", "replace", "absent", "insert", "rejected"},
               pc[c] \in {"register", "lookup", "replace", "absent", "insert"}, Goto(c, l),
               pc[c] \in {"absent", "insert"} => l \in {"insert", "rejected"},
               At(c).proto # "tcp" \/ routes' = routes,
               \A k \in Slot : routes'[k] = routes[k] \/ (l = "absent" /\ k = At(c).slot),
               UNCHANGED <<connections, lease>>
        PROVE  Good
    <3>1. HandlerStands(c)'
      BY <2>0, <2>1, GotoStands DEF Label
    <3>2. /\ tunnel' = tunnel /\ step' = step /\ pc[c] \notin Over /\ pc[c] \in Working
          /\ \A d \in Conn : d # c => pc'[d] = pc[d]
      BY <2>1 DEF Goto, TypeOK, Over, Failed, Working
    <3>3. \A d \in Conn : d # c => HandlerStands(d)'
      BY <2>1, <3>2, OthersStand
    <3>4. OneLive'
      BY <2>0, <3>2, OneLiveStays
    <3> QED
      BY <3>1, <3>3, <3>4 DEF Standing
  <2>2. ASSUME NEW c \in Conn, Exists(c) PROVE Good
    <3>1. PICK l \in {"lookup", "absent", "rejected"} : Goto(c, l)
      BY <2>2 DEF Exists
    <3> QED
      BY <2>1, <2>2, <3>1 DEF Exists
  <2>3. ASSUME NEW c \in Conn, Lookup(c) PROVE Good
    <3>1. PICK l \in {"absent", "replace", "rejected"} : Goto(c, l)
      BY <2>3 DEF Lookup
    <3> QED
      BY <2>1, <2>3, <3>1 DEF Lookup
  <2>4. ASSUME NEW c \in Conn, Replace(c) PROVE Good
    <3>1. pc[c] = "replace" /\ At(c).proto # "tcp"
      BY <2>4 DEF Replace, TypeOK
    <3>2. \A k \in Slot : routes'[k] = routes[k] \/ k = At(c).slot
      BY <2>4 DEF Replace, TypeOK
    <3> QED
      BY <2>1, <2>4, <3>1, <3>2 DEF Replace
  <2>5. ASSUME NEW c \in Conn, ContainsKey(c) PROVE Good
    <3>1. PICK l \in {"insert", "rejected"} : Goto(c, l)
      BY <2>5 DEF ContainsKey
    <3> QED
      BY <2>1, <2>5, <3>1 DEF ContainsKey
  <2>6. ASSUME NEW c \in Conn, pc[c] \in {"register", "insert"}, Advance(c, "register", "manage"),
               IF At(c).proto = "tcp"
               THEN lease'[tunnel[c]].state = "Active" /\ routes' = routes /\ pc[c] = "register"
               ELSE lease' = lease /\ routes' = [routes EXCEPT ![At(c).slot] = tunnel[c]],
               \A t \in Tunnel : t # tunnel[c] => lease'[t] = lease[t],
               UNCHANGED connections
        PROVE  Good
    <3>1. HandlerStands(c)'
      BY <2>0, <2>6, AdvanceStands
    <3>2. /\ tunnel' = tunnel /\ pc[c] \notin Over /\ pc[c] \in Working
          /\ \A d \in Conn : d # c => pc'[d] = pc[d] /\ step'[d] = step[d]
      BY <2>6 DEF Advance, TypeOK, Over, Failed, Working
    <3>3. \A k \in Slot : routes'[k] = routes[k] \/ (At(c).proto # "tcp" /\ k = At(c).slot)
      BY <2>6 DEF TypeOK
    <3>4. \A d \in Conn : d # c => HandlerStands(d)'
      BY <2>6, <3>2, <3>3, OthersStand
    <3>5. OneLive'
      BY <2>0, <3>2, OneLiveStays
    <3> QED
      BY <3>1, <3>4, <3>5 DEF Standing
  <2>7. ASSUME NEW c \in Conn, Insert(c) PROVE Good
    <3>1. pc[c] = "insert" /\ At(c).proto # "tcp"
      BY <2>7 DEF Insert, TypeOK
    <3> QED
      BY <2>6, <2>7, <3>1 DEF Insert
  <2>8. ASSUME NEW c \in Conn, Allocate(c) PROVE Good
    <3>1. CASE Goto(c, "rejected") /\ UNCHANGED lease
      BY <2>1, <2>8, <3>1 DEF Allocate
    <3>2. CASE (Grant(tunnel[c]) \/ Renew(tunnel[c])) /\ Advance(c, "register", "manage")
      <4>1. tunnel[c] \in Tunnel
        BY <2>8, AtEndpoint DEF Allocate, Working
      <4>2. /\ lease'[tunnel[c]].state = "Active"
            /\ \A t \in Tunnel : t # tunnel[c] => lease'[t] = lease[t]
        BY <3>2, <4>1 DEF Grant, GrantPort, Renew, LeaseOf, TypeOK
      <4> QED
        BY <2>6, <2>8, <3>2, <4>2 DEF Allocate
    <3> QED
      BY <2>8, <3>1, <3>2 DEF Allocate
  <2>9. ASSUME NEW c \in Conn, Manage(c) PROVE Good
    <3>1. /\ pc[c] = "manage" /\ Goto(c, "reply") /\ UNCHANGED <<routes, lease>>
          /\ connections' = IF c \in Quic THEN [connections EXCEPT ![tunnel[c]] = c] ELSE connections
      BY <2>9 DEF Manage
    <3>2. /\ tunnel' = tunnel /\ step' = step /\ pc[c] \notin Over /\ pc'[c] = "reply"
          /\ tunnel[c] \in Tunnel /\ \A d \in Conn : d # c => pc'[d] = pc[d]
      BY <3>1 DEF Goto, TypeOK, Over, Failed
    <3>3. HandlerStands(c)'
      <4>1. Taken(c)' = Taken(c)
        BY <3>1, <3>2 DEF Taken
      <4>2. \A i \in Taken(c) : Stands(c, i)'
        BY <2>0, <3>1, <3>2 DEF HandlerStands, Upright, Stands, At
      <4>3. c \in Quic => connections'[tunnel[c]] = c
        BY <3>1, <3>2 DEF TypeOK
      <4> QED
        BY <3>2, <4>1, <4>2, <4>3 DEF HandlerStands
    <3>4. \A t \in Tunnel : t # tunnel[c] => connections'[t] = connections[t]
      BY <3>1 DEF TypeOK
    <3>5. \A d \in Conn : d # c => HandlerStands(d)'
      BY <3>1, <3>2, <3>4, OthersStand
    <3>6. OneLive'
      BY <2>0, <3>2, OneLiveStays
    <3> QED
      BY <3>3, <3>5, <3>6 DEF Standing
  <2>10. ASSUME NEW c \in Conn, Reply(c) \/ HeartbeatEnds(c) PROVE Good
    <3>1. PICK l \in {"serving", "broken", "leaving"} : Goto(c, l)
      BY <2>10 DEF Reply, HeartbeatEnds
    <3>2. pc[c] \in {"reply", "serving"} /\ UNCHANGED <<routes, lease, connections>>
      BY <2>10 DEF Reply, HeartbeatEnds
    <3>3. HandlerStands(c)'
      BY <2>0, <3>1, <3>2, GotoStands DEF Label
    <3>4. /\ tunnel' = tunnel /\ step' = step /\ pc[c] \notin Over
          /\ \A d \in Conn : d # c => pc'[d] = pc[d]
      BY <3>1, <3>2 DEF Goto, TypeOK, Over, Failed
    <3>5. \A d \in Conn : d # c => HandlerStands(d)'
      BY <3>2, <3>4, OthersStand
    <3>6. OneLive'
      BY <2>0, <3>4, OneLiveStays
    <3> QED
      BY <3>3, <3>5, <3>6 DEF Standing
  <2>11. ASSUME NEW c \in Conn, UnregisterConnection(c) \/ UnregisterRoute(c) \/ Deallocate(c)
         PROVE  Good
    <3>1. /\ tunnel' = tunnel /\ pc[c] \notin Over /\ pc'[c] \in {"unroute", "closed"}
          /\ \A d \in Conn : d # c => pc'[d] = pc[d] /\ step'[d] = step[d]
      BY <2>11 DEF UnregisterConnection, UnregisterRoute, Deallocate, Advance, TypeOK, Over, Failed
    <3>2. HandlerStands(c)'
      BY <3>1 DEF HandlerStands, Upright
    <3>3. \A k \in Slot : routes'[k] = routes[k] \/
             (pc[c] \in Working /\ At(c).proto # "tcp" /\ k = At(c).slot)
      BY <2>11 DEF UnregisterConnection, UnregisterRoute, Deallocate, TypeOK, Working
    <3>4. \A t \in Tunnel : t # tunnel[c] => lease'[t] = lease[t] /\ connections'[t] = connections[t]
      BY <2>11 DEF UnregisterConnection, UnregisterRoute, Deallocate, Release, TypeOK
    <3>5. \A d \in Conn : d # c => HandlerStands(d)'
      BY <3>1, <3>3, <3>4, OthersStand
    <3>6. OneLive'
      BY <2>0, <3>1, OneLiveStays
    <3> QED
      BY <3>2, <3>5, <3>6 DEF Standing
  <2>12. ASSUME NEW c \in Conn, NEW t \in Tunnel, Connect(c, t) PROVE Good
    <3>1. /\ pc[c] = "idle" /\ UNCHANGED <<routes, connections, lease>>
          /\ tunnel'[c] = t /\ step'[c] = 1 /\ pc'[c] \in {"manage", "register", "rejected"}
          /\ pc'[c] = "manage" => Endpoints[t] = <<>>
          /\ \A d \in Conn : d # c => pc'[d] = pc[d] /\ step'[d] = step[d] /\ tunnel'[d] = tunnel[d]
      BY <2>12 DEF Connect, TypeOK
    <3>2. Taken(c)' = {}
      <4>1. CASE pc'[c] = "manage"
        <5>1. Taken(c)' = 1 .. Len(Endpoints[t])
          BY <3>1, <4>1 DEF Taken
        <5> QED
          BY <3>1, <4>1, <5>1, EndpointsOf
      <4>2. CASE pc'[c] \in {"register", "rejected"}
        <5>1. Taken(c)' = 1 .. 0
          BY <3>1, <4>2 DEF Taken
        <5> QED
          BY <5>1
      <4> QED
        BY <3>1, <4>1, <4>2
    <3>3. HandlerStands(c)'
      BY <3>1, <3>2 DEF HandlerStands
    <3>4. \A d \in Conn : d # c => HandlerStands(d)'
      BY <3>1, OthersStand
    <3>5. \A d \in Conn : tunnel[d] = t => pc[d] \in Over
      BY <2>12 DEF Connect, ClientReady
    <3>6. OneLive'
      BY <2>0, <3>1, <3>5 DEF OneLive
    <3> QED
      BY <3>3, <3>4, <3>6 DEF Standing
  <2>13. ASSUME UNCHANGED <<routes, connections, handlerVars>>,
                \A t \in Tunnel : lease[t].state = "Active" => lease'[t].state = "Active"
         PROVE  Good
    <3>1. ASSUME NEW d \in Conn PROVE HandlerStands(d)'
      <4>1. Taken(d)' = Taken(d)
        BY <2>13 DEF Taken, handlerVars
      <4>2. ASSUME NEW i \in Taken(d), pc[d] \in Upright PROVE Stands(d, i)'
        <5>1. tunnel[d] \in Tunnel /\ Stands(d, i)
          BY <2>0, <4>2, TakenWithin DEF HandlerStands
        <5> QED
          BY <2>13, <5>1 DEF Stands, At, handlerVars
      <4> QED
        BY <2>0, <2>13, <4>1, <4>2 DEF HandlerStands, handlerVars
    <3>2. OneLive'
      BY <2>0, <2>13 DEF OneLive, handlerVars
    <3> QED
      BY <3>1, <3>2 DEF Standing
  <2>14. ASSUME NEW c \in Conn, ClientLeaves(c) PROVE Good
    BY <2>13, <2>14 DEF ClientLeaves
  <2>15. ASSUME ReservationsLapse PROVE Good
    <3>1. \A t \in Tunnel : lease[t].state = "Active" => lease'[t].state = "Active"
      BY <2>15 DEF ReservationsLapse, Lapse
    <3> QED
      BY <2>13, <2>15, <3>1 DEF ReservationsLapse
  <2>16. ASSUME UNCHANGED vars PROVE Good
    BY <2>13, <2>16 DEF vars, handlerVars
  <2>17. Good
    <3> HIDE DEF Good
    <3> QED
      BY <2>2, <2>3, <2>4, <2>5, <2>7, <2>8, <2>9, <2>10, <2>11, <2>12, <2>14, <2>15, <2>16
         DEF Next, Handler
  <2> QED
    BY <2>17
<1>3. TypeOK /\ Standing => Reachable
  <2> SUFFICES ASSUME TypeOK, Standing, NEW c \in Conn, pc[c] = "serving"
               PROVE  /\ \A i \in DOMAIN Endpoints[tunnel[c]] :
                           LET e == Endpoints[tunnel[c]][i]
                           IN  IF e.proto = "tcp" THEN lease[tunnel[c]].state = "Active"
                                                  ELSE routes[e.slot] = tunnel[c]
                      /\ c \in Quic => connections[tunnel[c]] = c
    BY DEF Reachable, OnFile
  <2>1. HandlerStands(c) /\ tunnel[c] \in Tunnel
    BY DEF Standing, TypeOK
  <2>2. DOMAIN Endpoints[tunnel[c]] = Taken(c)
    BY <2>1, TakenAt, EndpointsOf
  <2> QED
    BY <2>1, <2>2 DEF HandlerStands, Upright, Stands
<1> QED
  BY <1>1, <1>2, <1>3, TypeCorrect, PTL DEF Spec

-----------------------------------------------------------------------------
(* The heartbeat and the retries *)

\* The messages the two directions of the control stream carry.
ToClient == {"Ping", "DisconnectAck"}
ToRelay == {"Pong", "Disconnect"}

\* The types the heartbeat depends on.
ControlTypes ==
    /\ toClient \in Seq(ToClient) /\ toRelay \in Seq(ToRelay)
    /\ waiting \in BOOLEAN

\* While the relay serves: a ping or a pong in flight is the only one of either, and the
\* relay waits for it.
Beat ==
    relayLoop = "serving" =>
        /\ \A i, j \in 1 .. Len(toClient) : toClient[i] = "Ping" /\ toClient[j] = "Ping" => i = j
        /\ \A i, j \in 1 .. Len(toRelay) : toRelay[i] = "Pong" /\ toRelay[j] = "Pong" => i = j
        /\ \A i \in 1 .. Len(toClient), j \in 1 .. Len(toRelay) :
              ~(toClient[i] = "Ping" /\ toRelay[j] = "Pong")
        /\ \A i \in 1 .. Len(toClient) : toClient[i] = "Ping" => waiting
        /\ \A i \in 1 .. Len(toRelay) : toRelay[i] = "Pong" => waiting

ControlInv == ControlTypes /\ Beat

\* What is left of a queue after its head keeps its order.
LEMMA TailKeeps ==
    ASSUME NEW S, NEW q \in Seq(S), q # <<>>
    PROVE  /\ Tail(q) \in Seq(S) /\ Len(q) \in Nat \ {0} /\ Len(Tail(q)) = Len(q) - 1
           /\ 1 \in 1 .. Len(q) /\ Head(q) = q[1]
           /\ \A i \in 1 .. Len(Tail(q)) : i + 1 \in 1 .. Len(q) /\ Tail(q)[i] = q[i + 1]
<1>1. Len(q) \in Nat /\ Len(q) # 0
  BY EmptySeq
<1>2. Tail(q) \in Seq(S) /\ Len(Tail(q)) = Len(q) - 1
  BY HeadTailProperties
<1> QED
  BY <1>1, <1>2

\* A message that is sent comes behind the others.
LEMMA AppendKeeps ==
    ASSUME NEW S, NEW q \in Seq(S), NEW m \in S
    PROVE  /\ Append(q, m) \in Seq(S) /\ Len(q) \in Nat /\ Len(Append(q, m)) = Len(q) + 1
           /\ \A i \in 1 .. Len(Append(q, m)) :
                 Append(q, m)[i] = IF i = Len(q) + 1 THEN m ELSE q[i]
           /\ \A i \in 1 .. Len(Append(q, m)) : i # Len(q) + 1 => i \in 1 .. Len(q)
  BY AppendProperties

\* Every step of the relay, of the client and of the network keeps the heartbeat single.
LEMMA ControlStep ==
    ASSUME ControlInv, [ControlNext]_controlVars
    PROVE  ControlInv'
<1> USE DEF ControlInv, ControlTypes
<1>1. CASE UNCHANGED controlVars
  BY <1>1 DEF controlVars, Beat
<1>2. CASE SendPing
  <2>1. /\ ~waiting /\ waiting' = TRUE /\ toClient' = Append(toClient, "Ping")
        /\ UNCHANGED <<toRelay, relayLoop>> /\ relayLoop = "serving"
    BY <1>2 DEF SendPing, SendToClient
  <2>2. /\ toClient' \in Seq(ToClient) /\ Len(toClient) \in Nat /\ Len(toClient') = Len(toClient) + 1
        /\ \A i \in 1 .. Len(toClient') :
              /\ toClient'[i] = IF i = Len(toClient) + 1 THEN "Ping" ELSE toClient[i]
              /\ i # Len(toClient) + 1 => i \in 1 .. Len(toClient)
    BY <2>1, AppendKeeps DEF ToClient
  <2>3. /\ \A i \in 1 .. Len(toClient) : toClient[i] # "Ping"
        /\ \A i \in 1 .. Len(toRelay) : toRelay[i] # "Pong"
    BY <2>1 DEF Beat
  <2>4. Beat'
    BY <2>1, <2>2, <2>3 DEF Beat
  <2> QED
    BY <2>1, <2>2, <2>4
<1>3. CASE PongTimeout
  BY <1>3 DEF PongTimeout, Beat
<1>4. CASE ReceivePong
  <2>1. /\ relayLoop = "serving" /\ toRelay # <<>> /\ Head(toRelay) = "Pong"
        /\ toRelay' = Tail(toRelay) /\ waiting' = FALSE
        /\ UNCHANGED <<toClient, relayLoop>>
    BY <1>4 DEF ReceivePong, Incoming
  <2>2. /\ toRelay' \in Seq(ToRelay) /\ Len(toRelay) \in Nat \ {0} /\ Len(toRelay') = Len(toRelay) - 1
        /\ 1 \in 1 .. Len(toRelay) /\ toRelay[1] = "Pong"
        /\ \A i \in 1 .. Len(toRelay') : i + 1 \in 1 .. Len(toRelay) /\ toRelay'[i] = toRelay[i + 1]
    BY <2>1, TailKeeps
  <2>3. /\ \A i \in 1 .. Len(toClient) : toClient[i] # "Ping"
        /\ \A i \in 1 .. Len(toRelay) : toRelay[i] = "Pong" => i = 1
    BY <2>1, <2>2 DEF Beat
  <2>4. \A i \in 1 .. Len(toRelay') : toRelay'[i] # "Pong"
    BY <2>2, <2>3
  <2>5. Beat'
    BY <2>1, <2>3, <2>4 DEF Beat
  <2> QED
    BY <2>1, <2>2, <2>5
<1>5. CASE ReceiveDisconnect
  <2>1. /\ toRelay # <<>> /\ toRelay' = Tail(toRelay) /\ toClient' = Append(toClient, "DisconnectAck")
        /\ relayLoop' = "ended" /\ waiting' = waiting
    BY <1>5 DEF ReceiveDisconnect, Incoming, SendToClient
  <2>2. toRelay' \in Seq(ToRelay) /\ toClient' \in Seq(ToClient)
    BY <2>1, TailKeeps, AppendKeeps DEF ToClient
  <2> QED
    BY <2>1, <2>2 DEF Beat
<1>6. CASE RelaySeesClose
  BY <1>6 DEF RelaySeesClose, Beat
<1>7. ASSUME Close, waiting' = waiting
      PROVE  ControlInv'
  <2>1. toClient' \in Seq(ToClient) /\ toRelay' \in Seq(ToRelay) /\ Len(toClient') = 0 /\ Len(toRelay') = 0
    BY <1>7 DEF Close
  <2> QED
    BY <1>7, <2>1 DEF Beat
<1>8. ASSUME UNCHANGED <<toClient, toRelay, waiting>>, relayLoop' = relayLoop \/ relayLoop' = "dropped"
      PROVE  ControlInv'
  BY <1>8 DEF Beat
<1>9. ASSUME Exit \/ LinkFails \/ ClientDrops \/ RelayReturns \/ VisitorGoes
       PROVE  ControlInv'
  <2>1. waiting' = waiting
    BY <1>9 DEF Exit, LinkFails, ClientDrops, RelayReturns, VisitorGoes, relayVars
  <2>2. Close \/ (UNCHANGED <<toClient, toRelay>> /\ (relayLoop' = relayLoop \/ relayLoop' = "dropped"))
    BY <1>9 DEF Exit, LinkFails, ClientDrops, RelayReturns, VisitorGoes, relayVars
  <2> QED
    BY <1>7, <1>8, <2>1, <2>2
<1>10. ASSUME \/ RunStarts \/ CtrlC \/ AckTimeout \/ ControlSeesClose \/ AcceptSeesClose
              \/ DropHandles \/ VisitorComes
       PROVE  ControlInv'
  <2>1. UNCHANGED <<toClient, toRelay, waiting, relayLoop>>
    BY <1>10 DEF RunStarts, CtrlC, AckTimeout, ControlSeesClose, AcceptSeesClose, DropHandles,
                 VisitorComes, relayVars
  <2> QED
    BY <1>8, <2>1
<1>11. CASE StreamReset
  <2>1. relayLoop' # "serving" /\ toClient' = <<>> /\ UNCHANGED <<toRelay, waiting>>
    BY <1>11 DEF StreamReset, StreamGone, relayVars
  <2>2. toClient' \in Seq(ToClient)
    BY <2>1
  <2> QED
    BY <2>1, <2>2 DEF Beat
<1>12. CASE AnswerPing
  <2>0. CASE relayLoop # "serving" /\ toRelay' = toRelay
    <3>1. toClient # <<>> /\ toClient' = Tail(toClient) /\ UNCHANGED <<relayLoop, waiting>>
      BY <1>12 DEF AnswerPing, Incoming, relayVars
    <3>2. toClient' \in Seq(ToClient)
      BY <3>1, TailKeeps
    <3> QED
      BY <2>0, <3>1, <3>2 DEF Beat
  <2> SUFFICES ASSUME ~(relayLoop # "serving" /\ toRelay' = toRelay)
               PROVE  ControlInv'
    BY <2>0
  <2>1. /\ toClient # <<>> /\ Head(toClient) = "Ping" /\ toClient' = Tail(toClient)
        /\ toRelay' = Append(toRelay, "Pong") /\ UNCHANGED <<relayLoop, waiting>>
    BY <1>12 DEF AnswerPing, Incoming, SendToRelay, StreamGone, relayVars
  <2>2. /\ toClient' \in Seq(ToClient) /\ Len(toClient) \in Nat \ {0} /\ Len(toClient') = Len(toClient) - 1
        /\ 1 \in 1 .. Len(toClient) /\ toClient[1] = "Ping"
        /\ \A i \in 1 .. Len(toClient') : i + 1 \in 1 .. Len(toClient) /\ toClient'[i] = toClient[i + 1]
    BY <2>1, TailKeeps
  <2>3. /\ toRelay' \in Seq(ToRelay) /\ Len(toRelay) \in Nat /\ Len(toRelay') = Len(toRelay) + 1
        /\ \A i \in 1 .. Len(toRelay') :
              /\ toRelay'[i] = IF i = Len(toRelay) + 1 THEN "Pong" ELSE toRelay[i]
              /\ i # Len(toRelay) + 1 => i \in 1 .. Len(toRelay)
    BY <2>1, AppendKeeps DEF ToRelay
  <2>4. ASSUME relayLoop = "serving"
        PROVE  Beat'
    <3>1. /\ \A i \in 1 .. Len(toClient) : toClient[i] = "Ping" => i = 1
          /\ \A i \in 1 .. Len(toRelay) : toRelay[i] # "Pong"
          /\ waiting
      BY <2>2, <2>4 DEF Beat
    <3>2. \A i \in 1 .. Len(toClient') : toClient'[i] # "Ping"
      BY <2>2, <3>1
    <3>3. \A i \in 1 .. Len(toRelay') : toRelay'[i] = "Pong" => i = Len(toRelay) + 1
      BY <2>3, <3>1
    <3> QED
      BY <2>1, <3>1, <3>2, <3>3 DEF Beat
  <2>5. Beat'
    BY <2>1, <2>4 DEF Beat
  <2> QED
    BY <2>1, <2>2, <2>3, <2>5
<1>13. CASE SendDisconnect
  <2>1. /\ UNCHANGED <<toClient, relayLoop, waiting>>
        /\ toRelay' = Append(toRelay, "Disconnect") \/ toRelay' = toRelay
    BY <1>13 DEF SendDisconnect, SendToRelay, relayVars
  <2>2. CASE toRelay' = Append(toRelay, "Disconnect")
    <3>1. /\ toRelay' \in Seq(ToRelay) /\ Len(toRelay) \in Nat /\ Len(toRelay') = Len(toRelay) + 1
          /\ \A i \in 1 .. Len(toRelay') :
                /\ toRelay'[i] = IF i = Len(toRelay) + 1 THEN "Disconnect" ELSE toRelay[i]
                /\ i # Len(toRelay) + 1 => i \in 1 .. Len(toRelay)
      BY <2>2, AppendKeeps DEF ToRelay
    <3>2. \A i \in 1 .. Len(toRelay') : toRelay'[i] = "Pong" => i \in 1 .. Len(toRelay) /\ toRelay[i] = "Pong"
      BY <3>1
    <3>3. Beat'
      BY <2>1, <3>2 DEF Beat
    <3> QED
      BY <2>1, <3>1, <3>3
  <2> QED
    BY <2>1, <2>2 DEF Beat
<1>14. CASE ReceiveAck
  <2>1. toClient # <<>> /\ toClient' = Tail(toClient) /\ UNCHANGED <<toRelay, relayLoop, waiting>>
    BY <1>14 DEF ReceiveAck, relayVars
  <2>2. /\ toClient' \in Seq(ToClient)
        /\ \A i \in 1 .. Len(toClient') : i + 1 \in 1 .. Len(toClient) /\ toClient'[i] = toClient[i + 1]
        /\ Len(toClient) \in Nat /\ Len(toClient') \in Nat
    BY <2>1, TailKeeps
  <2>3. Beat'
    BY <2>1, <2>2 DEF Beat
  <2> QED
    BY <2>1, <2>2, <2>3
<1> QED
  BY <1>1, <1>2, <1>3, <1>4, <1>5, <1>6, <1>12, <1>13, <1>14, <1>9, <1>10, <1>11
  DEF ControlNext, RelayStep, ClientStep

\* A client that connects has waited as long as its failures ask for.
ReconnectInv ==
    /\ attempt \in Nat /\ waited \in Nat
    /\ phase = "connecting" => waited = BackoffSeconds(attempt)

\* A delay is a number of seconds, and at least one after a failure whose power of two
\* fits in 64 bits.
LEMMA BackoffPauses ==
    ASSUME NEW n \in Nat
    PROVE  /\ BackoffSeconds(n) \in Nat
           /\ n \in 1 .. Width => BackoffSeconds(n) >= 1
<1>1. CASE n = 0
  BY <1>1 DEF BackoffSeconds
<1>2. CASE n # 0
  <2>1. n - 1 \in Nat /\ BackoffSeconds(n) = CappedPower(n - 1)
    BY <1>2 DEF BackoffSeconds
  <2>2. CASE n - 1 \in 5 .. 63
    BY <2>1, <2>2 DEF CappedPower, MaxDelay, Width
  <2>3. CASE n - 1 >= 64
    BY <2>1, <2>3 DEF CappedPower, Width
  <2>4. CASE n - 1 \in 0 .. 4
    <3>1. /\ n \in {1, 2, 3, 4, 5}
          /\ CappedPower(n - 1) = <<1, 2, 4, 8, 16>>[n]
      BY <2>4 DEF CappedPower, MaxDelay, Width
    <3>2. <<1, 2, 4, 8, 16>>[n] \in {1, 2, 4, 8, 16}
      BY <3>1
    <3> QED
      BY <2>1, <3>1, <3>2
  <2> QED
    BY <2>1, <2>2, <2>3, <2>4
<1> QED
  BY <1>1, <1>2

\* Every step of the loop of attempts keeps that.
LEMMA ReconnectStep ==
    ASSUME ReconnectInv, [ReconnectNext]_reconnectVars
    PROVE  ReconnectInv'
<1> USE DEF ReconnectInv
<1>1. CASE UNCHANGED reconnectVars
  BY <1>1 DEF reconnectVars
<1>2. CASE Delay
  <2>1. waited' = BackoffSeconds(attempt) /\ attempt' = attempt
    BY <1>2 DEF Delay
  <2>2. BackoffSeconds(attempt') = BackoffSeconds(attempt)
    BY <2>1
  <2> QED
    BY <2>1, <2>2, BackoffPauses
<1>3. ASSUME Cancel \/ SessionRuns
      PROVE  ReconnectInv'
  <2>1. UNCHANGED <<phase, attempt, waited>>
    BY <1>3 DEF Cancel, SessionRuns
  <2> QED
    BY <2>1
<1>4. ASSUME CancelDelay \/ ConnectSucceeds \/ ConnectRefused \/ SessionEnds \/ Disconnect \/ LeaveTimeout
      PROVE  ReconnectInv'
  <2>1. phase' # "connecting" /\ waited' = waited /\ attempt' \in {0, attempt}
    BY <1>4 DEF CancelDelay, ConnectSucceeds, ConnectRefused, SessionEnds, Disconnect, LeaveTimeout, Leave
  <2> QED
    BY <2>1
<1>5. CASE ConnectFails
  <2>1. phase' # "connecting" /\ waited' = waited /\ attempt' = attempt + 1
    BY <1>5 DEF ConnectFails, Leave
  <2> QED
    BY <2>1
<1> QED
  BY <1>1, <1>2, <1>3, <1>4, <1>5 DEF ReconnectNext, Connects

\* The heartbeat of a session never has a stale pong to answer a later ping, and the
\* client never tries again without a pause after a failure, up to the 64th in a row
\* (handle_client_connection, TunnelConnection::run, run_standalone).
THEOREM SessionPaced == ControlSpec /\ ReconnectSpec => []Paced
<1>1. ControlInit => ControlInv
  <2>1. ASSUME ControlInit
        PROVE  /\ toClient \in Seq(ToClient) /\ toRelay \in Seq(ToRelay)
               /\ Len(toClient) = 0 /\ Len(toRelay) = 0 /\ waiting = FALSE
    BY <2>1 DEF ControlInit
  <2> QED
    BY <2>1 DEF ControlInv, ControlTypes, Beat
<1>2. ReconnectInit => ReconnectInv
  BY DEF ReconnectInit, ReconnectInv
<1>3. ControlInv => OneHeartbeat
  <2>1. SUFFICES ASSUME ControlInv, relayLoop = "serving", NEW a \in InFlight, NEW b \in InFlight
                 PROVE  waiting /\ a = b
    BY DEF OneHeartbeat
  <2>2. /\ DOMAIN toClient = 1 .. Len(toClient)
        /\ DOMAIN toRelay = 1 .. Len(toRelay)
    BY <2>1 DEF ControlInv, ControlTypes
  <2>3. ASSUME NEW c \in InFlight
        PROVE  \/ c = <<"Ping", c[2]>> /\ c[2] \in 1 .. Len(toClient) /\ toClient[c[2]] = "Ping"
               \/ c = <<"Pong", c[2]>> /\ c[2] \in 1 .. Len(toRelay) /\ toRelay[c[2]] = "Pong"
    BY <2>2, <2>3 DEF InFlight, Places
  <2> QED
    BY <2>1, <2>3, SMTT(60) DEF ControlInv, Beat
<1>4. ReconnectInv => RetriesPaced
  BY BackoffPauses DEF ReconnectInv, RetriesPaced, Width
<1> QED
  BY <1>1, <1>2, <1>3, <1>4, ControlStep, ReconnectStep, PTL DEF ControlSpec, ReconnectSpec, Paced
-----------------------------------------------------------------------------
(***************************************************************************)
(* The codec on a stream of bytes.  Whatever part of the bytes sent has    *)
(* arrived, been read or been decoded, the bytes in the buffer and those   *)
(* under way are the encodings of the messages that are still to come, in  *)
(* order and without a gap.                                                *)
(***************************************************************************)
HIDE RelayAssumption

\* A byte of a message: of which message it is, its place, and the length of the payload.
Byte == [message : Nat, place : Nat, length : Nat]

\* The place of the last byte of its message.
LastPlace(b) == HeaderSize + b.length - 1

\* Bytes on their way from an end that has sent messages of the lengths s to one
\* that has decoded m of them: each message stands in its order, the next one
\* behind it.
Line(w, m, s) ==
    /\ w \in Seq(Byte)
    /\ \A i \in 1 .. Len(w) : \A j \in i .. Len(w) :
          j - i <= LastPlace(w[i]) - w[i].place
            => /\ w[j].message = w[i].message /\ w[j].length = w[i].length
               /\ w[j].place = w[i].place + (j - i)
    /\ \A i \in 1 .. Len(w) - 1 :
          w[i].place = LastPlace(w[i]) => w[i + 1].message = w[i].message + 1 /\ w[i + 1].place = 0
    /\ \A i \in 1 .. Len(w) : /\ w[i].message \in 1 .. Len(s)
                              /\ w[i].length = s[w[i].message]
                              /\ w[i].place <= LastPlace(w[i])
    /\ Len(w) > 0 => w[1].message = m + 1 /\ w[1].place = 0

\* All that was sent is decoded or on its way ...
Whole(w, m, s) ==
    IF Len(w) = 0 THEN m = Len(s)
    ELSE w[Len(w)].message = Len(s) /\ w[Len(w)].place = LastPlace(w[Len(w)])

\* ... but for some bytes of the last message.
Short(w, m, s) ==
    IF Len(w) = 0 THEN m = Len(s) - 1
    ELSE \/ w[Len(w)].message = Len(s) /\ w[Len(w)].place # LastPlace(w[Len(w)])
         \/ w[Len(w)].message = Len(s) - 1 /\ w[Len(w)].place = LastPlace(w[Len(w)])

\* Each of the two ends has the other for its peer.
LEMMA OtherEnd ==
    /\ Other("client") = "server" /\ Other("server") = "client"
    /\ \A e \in Ends : Other(e) \in Ends /\ Other(e) # e /\ Other(Other(e)) = e
    /\ \A e, f \in Ends : f = e \/ f = Other(e)
<1>1. Other("client") = "server" /\ Other("server") = "client"
  <2>1. \A o \in Ends : o # "client" <=> o = "server"
    BY DEF Ends
  <2>2. \A o \in Ends : o # "server" <=> o = "client"
    BY DEF Ends
  <2>3. "client" \in Ends /\ "server" \in Ends
    BY DEF Ends
  <2> QED
    BY <2>1, <2>2, <2>3 DEF Other
<1> QED
  BY <1>1 DEF Ends

\* The place of the last byte is a number, and the same for all bytes of a message.
LEMMA LastIs ==
    /\ HeaderSize \in Nat /\ HeaderSize >= 1
    /\ \A b \in Byte : LastPlace(b) \in Nat /\ LastPlace(b) >= HeaderSize - 1 /\ LastPlace(b) = HeaderSize + b.length - 1
    /\ \A b, c \in Byte : b.length = c.length => LastPlace(b) = LastPlace(c)
  BY StreamBounds DEF Byte, LastPlace

\* The bytes of a message.
LEMMA EncodeIs ==
    ASSUME NEW n \in Nat, NEW l \in Nat
    PROVE  /\ Encode(n, l) \in Seq(Byte) /\ Len(Encode(n, l)) = HeaderSize + l
           /\ \A j \in 1 .. HeaderSize + l :
                 Encode(n, l)[j] = [message |-> n, place |-> j - 1, length |-> l]
<1> DEFINE L == HeaderSize + l
           b == [k \in 1 .. L |-> [message |-> n, place |-> k - 1, length |-> l]]
<1>1. L \in Nat
  BY StreamBounds
<1> HIDE DEF L
<1>2. b \in [1 .. L -> Byte]
  BY <1>1 DEF Byte
<1>3. \A j \in 1 .. L : b[j] = [message |-> n, place |-> j - 1, length |-> l]
  OBVIOUS
<1> HIDE DEF b
<1>4. b \in Seq(Byte) /\ Len(b) = L
  BY <1>1, <1>2, IsASeq, LenProperties
<1>5. Encode(n, l) = b
  BY DEF Encode, b, L
<1> QED
  BY <1>3, <1>4, <1>5 DEF L

\* A part of the bytes at the front is such a line as well.
LEMMA LineFront ==
    ASSUME NEW w, NEW m \in Nat, NEW s \in Seq(Nat), Line(w, m, s), NEW n \in 0 .. Len(w)
    PROVE  Line(SubSeq(w, 1, n), m, s)
<1> DEFINE v == SubSeq(w, 1, n)
<1>1. w \in Seq(Byte) /\ Len(w) \in Nat /\ Len(s) \in Nat
  BY DEF Line
<1>2. v \in Seq(Byte) /\ Len(v) = n /\ \A i \in 1 .. n : v[i] = w[i]
  BY <1>1
<1> HIDE DEF v
<1>3. \A i \in 1 .. n : i \in 1 .. Len(w)
  BY <1>1
<1>4. ASSUME NEW i \in 1 .. n, NEW j \in i .. n, j - i <= LastPlace(v[i]) - v[i].place
      PROVE  /\ v[j].message = v[i].message /\ v[j].length = v[i].length
             /\ v[j].place = v[i].place + (j - i)
  <2>1. j \in 1 .. n /\ i \in 1 .. Len(w) /\ j \in i .. Len(w)
    BY <1>1
  <2>2. v[i] = w[i] /\ v[j] = w[j]
    BY <1>2, <2>1
  <2> QED
    BY <1>4, <2>1, <2>2 DEF Line
<1>5. ASSUME NEW i \in 1 .. n - 1, v[i].place = LastPlace(v[i])
      PROVE  v[i + 1].message = v[i].message + 1 /\ v[i + 1].place = 0
  <2>1. i \in 1 .. n /\ i + 1 \in 1 .. n /\ i \in 1 .. Len(w) - 1
    BY <1>1
  <2> QED
    BY <1>2, <1>5, <2>1 DEF Line
<1>6. ASSUME NEW i \in 1 .. n
      PROVE  /\ v[i].message \in 1 .. Len(s) /\ v[i].length = s[v[i].message]
             /\ v[i].place <= LastPlace(v[i])
  BY <1>2, <1>3 DEF Line
<1>7. n > 0 => v[1].message = m + 1 /\ v[1].place = 0
  <2>1. n > 0 => v[1] = w[1] /\ Len(w) > 0
    BY <1>1, <1>2
  <2> QED
    BY <2>1 DEF Line
<1>8. Line(v, m, s)
  BY <1>2, <1>4, <1>5, <1>6, <1>7 DEF Line
<1> QED
  BY <1>8 DEF v

\* A message that is sent joins the line.
LEMMA LineSend ==
    ASSUME NEW w, NEW m \in Nat, NEW s \in Seq(Nat), Line(w, m, s), Whole(w, m, s), NEW l \in Nat
    PROVE  /\ Line(w \o Encode(Len(s) + 1, l), m, Append(s, l))
           /\ Whole(w \o Encode(Len(s) + 1, l), m, Append(s, l))
<1> DEFINE c == Encode(Len(s) + 1, l)
           v == w \o c
           t == Append(s, l)
           W == Len(w)
           N == Len(s) + 1
           L == HeaderSize + l
<1>1. w \in Seq(Byte) /\ W \in Nat /\ Len(s) \in Nat /\ N \in Nat /\ L \in Nat /\ L >= 1
  BY LastIs DEF Line
<1>2. c \in Seq(Byte) /\ Len(c) = L
      /\ \A j \in 1 .. L : c[j] = [message |-> N, place |-> j - 1, length |-> l]
  BY <1>1, EncodeIs
<1>3. t \in Seq(Nat) /\ Len(t) = N /\ t[N] = l /\ \A i \in 1 .. Len(s) : t[i] = s[i]
  BY <1>1, AppendProperties
<1>4. \A i \in 1 .. W : /\ w[i].message \in 1 .. Len(s) /\ w[i].length = s[w[i].message]
                        /\ w[i].place <= LastPlace(w[i]) /\ w[i] \in Byte
  BY <1>1 DEF Line
<1>5. \A b \in Byte : b.length = l => LastPlace(b) = L - 1
  BY LastIs
<1>6. \A b \in Byte : LastPlace(b) \in Nat /\ b.place \in Nat
  BY LastIs DEF Byte
<1> HIDE DEF c, t, W, N, L
<1>7. /\ v \in Seq(Byte) /\ Len(v) = W + L
      /\ \A i \in 1 .. W : v[i] = w[i]
      /\ \A i \in W + 1 .. W + L : /\ v[i].message = N /\ v[i].place = i - W - 1 /\ v[i].length = l
                                   /\ LastPlace(v[i]) = L - 1
  <2>1. /\ v \in Seq(Byte) /\ Len(v) = Len(w) + Len(c)
        /\ \A i \in 1 .. Len(w) + Len(c) : v[i] = IF i <= Len(w) THEN w[i] ELSE c[i - Len(w)]
    BY <1>1, <1>2, ConcatProperties
  <2>2. Len(w) = W /\ Len(c) = L
    BY <1>2 DEF W
  <2> HIDE DEF v
  <2>3. ASSUME NEW i \in W + 1 .. W + L
        PROVE  v[i].message = N /\ v[i].place = i - W - 1 /\ v[i].length = l /\ LastPlace(v[i]) = L - 1
    <3>1. i - W \in 1 .. L /\ ~(i <= W) /\ i \in 1 .. W + L /\ (i - W) - 1 = i - W - 1
      BY <1>1
    <3>2. v[i] = c[i - W] /\ v[i] \in Byte
      BY <1>1, <2>1, <2>2, <3>1
    <3> QED
      BY <1>2, <1>5, <3>1, <3>2
  <2>4. ASSUME NEW i \in 1 .. W PROVE v[i] = w[i]
    <3>1. i <= W /\ i \in 1 .. W + L
      BY <1>1
    <3> QED
      BY <2>1, <2>2, <3>1
  <2> QED
    BY <2>1, <2>2, <2>3, <2>4
<1> HIDE DEF v
<1>8. N = Len(s) + 1 /\ W = Len(w)
  BY DEF N, W
<1>9. \A i \in 1 .. Len(v) : i \in 1 .. W \/ i \in W + 1 .. W + L
  BY <1>1, <1>7
<1>10. ASSUME NEW i \in 1 .. Len(v), NEW j \in i .. Len(v), j - i <= LastPlace(v[i]) - v[i].place
       PROVE  /\ v[j].message = v[i].message /\ v[j].length = v[i].length
              /\ v[j].place = v[i].place + (j - i)
  <2>1. CASE i \in W + 1 .. W + L
    <3>1. j \in W + 1 .. W + L
      BY <2>1, <1>1, <1>7
    <3> QED
      BY <1>1, <1>7, <2>1, <3>1, SMTT(60)
  <2>2. CASE i \in 1 .. W
    <3>1. w[i] = v[i] /\ w[i] \in Byte /\ w[W] \in Byte /\ W \in 1 .. W
      BY <1>1, <1>4, <1>7, <1>8, <2>2
    <3>2. CASE j <= W
      <4>1. j \in i .. Len(w) /\ v[j] = w[j] /\ i \in 1 .. Len(w)
        BY <1>1, <1>7, <1>8, <2>2, <3>2
      <4> QED
        BY <1>10, <3>1, <4>1 DEF Line
    <3>3. CASE j > W
      \* Then the message of i would go on behind the last byte, which ends one.
      <4>1. W \in i .. Len(w) /\ i \in 1 .. Len(w) /\ W - i < j - i
        BY <1>1, <1>8, <2>2, <3>3
      <4>2. LastPlace(w[i]) \in Nat /\ w[i].place \in Nat /\ j \in Nat /\ i \in Nat
        BY <1>1, <1>6, <1>7, <3>1
      <4>3. W - i <= LastPlace(w[i]) - w[i].place
        BY <1>1, <1>10, <3>1, <4>1, <4>2
      <4>4. w[W].length = w[i].length /\ w[W].place = w[i].place + (W - i)
        BY <3>1, <4>1, <4>3 DEF Line
      <4>5. w[W].place = LastPlace(w[W])
        BY <1>1, <1>8, <2>2 DEF Whole
      <4>6. LastPlace(w[W]) = LastPlace(w[i])
        BY <3>1, <4>4, LastIs
      <4>7. LastPlace(w[i]) = w[i].place + (W - i) /\ j - i <= LastPlace(w[i]) - w[i].place
        BY <1>10, <3>1, <4>4, <4>5, <4>6
      <4> QED
        BY <1>1, <3>3, <4>2, <4>7
    <3> QED
      BY <3>2, <3>3, <1>1, <1>7
  <2> QED
    BY <2>1, <2>2, <1>9
<1>11. ASSUME NEW i \in 1 .. Len(v) - 1, v[i].place = LastPlace(v[i])
       PROVE  v[i + 1].message = v[i].message + 1 /\ v[i + 1].place = 0
  <2>1. CASE i \in 1 .. W - 1
    <3>1. v[i] = w[i] /\ v[i + 1] = w[i + 1] /\ i \in 1 .. Len(w) - 1
      BY <1>1, <1>7, <1>8, <2>1
    <3> QED
      BY <1>11, <3>1 DEF Line
  <2>2. CASE i = W
    <3>1. W \in 1 .. W /\ W + 1 \in W + 1 .. W + L
      BY <1>1, <2>2
    <3>2. v[W] = w[W] /\ w[W].message = Len(s)
      BY <1>7, <1>8, <3>1 DEF Whole
    <3>3. v[W + 1].message = N /\ v[W + 1].place = W + 1 - W - 1
      BY <1>7, <3>1, SMTT(60)
    <3> QED
      BY <1>1, <1>8, <2>2, <3>2, <3>3
  <2>3. CASE i \in W + 1 .. W + L - 1
    <3>1. i \in W + 1 .. W + L
      BY <1>1, <2>3
    <3>2. v[i].place = i - W - 1 /\ LastPlace(v[i]) = L - 1
      BY <1>7, <3>1
    <3>3. i - W - 1 = L - 1
      BY <1>11, <3>2
    <3> QED
      BY <1>1, <2>3, <3>3
  <2> QED
    BY <1>1, <1>7, <2>1, <2>2, <2>3
<1>12. ASSUME NEW i \in 1 .. Len(v)
       PROVE  /\ v[i].message \in 1 .. Len(t) /\ v[i].length = t[v[i].message]
              /\ v[i].place <= LastPlace(v[i])
  <2>1. CASE i \in 1 .. W
    <3>1. v[i] = w[i] /\ w[i].message \in 1 .. Len(s) /\ w[i].length = s[w[i].message]
          /\ w[i].place <= LastPlace(w[i])
      BY <1>4, <1>7, <2>1
    <3>2. w[i].message \in 1 .. Len(s) /\ w[i].message \in 1 .. N
      BY <1>1, <1>8, <3>1
    <3> QED
      BY <1>3, <3>1, <3>2
  <2>2. CASE i \in W + 1 .. W + L
    <3>1. v[i].message = N /\ v[i].place = i - W - 1 /\ v[i].length = l /\ LastPlace(v[i]) = L - 1
      BY <1>7, <2>2
    <3>2. N \in 1 .. N /\ i - W - 1 <= L - 1
      BY <1>1, <1>8, <2>2
    <3> QED
      BY <1>3, <3>1, <3>2
  <2> QED
    BY <2>1, <2>2, <1>9
<1>13. v[1].message = m + 1 /\ v[1].place = 0
  <2>1. CASE W = 0
    <3>1. 1 \in W + 1 .. W + L
      BY <1>1, <2>1
    <3>2. v[1].message = N /\ v[1].place = 1 - W - 1 /\ m = Len(s)
      BY <1>7, <1>8, <2>1, <3>1 DEF Whole
    <3> QED
      BY <1>1, <1>8, <2>1, <3>2
  <2>2. CASE W # 0
    <3>1. 1 \in 1 .. W
      BY <1>1, <2>2
    <3>2. v[1] = w[1] /\ Len(w) > 0
      BY <1>1, <1>7, <1>8, <3>1
    <3> QED
      BY <3>2 DEF Line
  <2> QED
    BY <2>1, <2>2
<1>14. Line(v, m, t)
  BY <1>7, <1>10, <1>11, <1>12, <1>13 DEF Line
<1>15. Whole(v, m, t)
  <2>1. Len(v) \in W + 1 .. W + L /\ Len(v) # 0
    BY <1>1, <1>7
  <2>2. v[Len(v)].message = N /\ v[Len(v)].place = Len(v) - W - 1 /\ LastPlace(v[Len(v)]) = L - 1
    BY <1>7, <2>1
  <2> QED
    BY <1>1, <1>3, <1>7, <1>8, <2>1, <2>2, SMTT(60) DEF Whole
<1> QED
  BY <1>14, <1>15 DEF v, c, t

\* A buffer holds a message with a payload of l bytes, d bytes in all.
Holding(w, l, d) ==
    /\ Len(w) >= HeaderSize /\ l = w[HeaderSize].length /\ d = HeaderSize + l /\ Len(w) >= d

\* The message at the front of a line leaves it.
LEMMA LineDecode ==
    ASSUME NEW w \in Seq(Byte), NEW m \in Nat, NEW s \in Seq(Nat), Line(w, m, s), NEW d \in Nat, NEW l \in Nat,
           Holding(w, l, d)
    PROVE  /\ m + 1 <= Len(s) /\ l = s[m + 1] /\ d \in 1 .. Len(w)
           /\ SubSeq(w, 1, d) = Encode(m + 1, s[m + 1])
           /\ Line(SubSeq(w, d + 1, Len(w)), m + 1, s)
           /\ Whole(w, m, s) => Whole(SubSeq(w, d + 1, Len(w)), m + 1, s)
           /\ Short(w, m, s) => Short(SubSeq(w, d + 1, Len(w)), m + 1, s)
<1> DEFINE W == Len(w)
           v == SubSeq(w, d + 1, W)
           n == W - d
<1>1. /\ w \in Seq(Byte) /\ W \in Nat /\ Len(s) \in Nat
      /\ HeaderSize \in 1 .. W /\ 1 \in 1 .. W /\ w[1] \in Byte /\ w[HeaderSize] \in Byte
      /\ HeaderSize \in Nat /\ HeaderSize >= 1
  <2>1. HeaderSize \in Nat /\ HeaderSize >= 1
    BY LastIs
  <2>2. W \in Nat /\ Len(s) \in Nat /\ W >= HeaderSize
    BY DEF Holding
  <2>3. HeaderSize \in 1 .. W /\ 1 \in 1 .. W
    BY <2>1, <2>2
  <2> QED
    BY <2>1, <2>2, <2>3
<1>2. d <= W /\ d >= 1
  BY <1>1 DEF Holding
<1>3. w[1].message = m + 1 /\ w[1].place = 0
  BY <1>1 DEF Line
<1>4. w[1].length = l /\ LastPlace(w[1]) = d - 1
  <2>1. HeaderSize - 1 <= LastPlace(w[1]) - w[1].place /\ HeaderSize \in 1 .. Len(w)
    BY <1>1, <1>3, LastIs
  <2>2. w[HeaderSize].length = w[1].length
    BY <1>1, <2>1 DEF Line
  <2> QED
    BY <1>1, <2>2, LastIs DEF Holding
<1>5. m + 1 <= Len(s) /\ l = s[m + 1] /\ m + 1 \in 1 .. Len(s)
  <2>1. w[1].message \in 1 .. Len(s) /\ w[1].length = s[w[1].message]
    BY <1>1 DEF Line
  <2> QED
    BY <1>1, <1>3, <1>4, <2>1
<1>6. ASSUME NEW j \in 1 .. d
      PROVE  w[j] = [message |-> m + 1, place |-> j - 1, length |-> l]
  <2>1. j \in 1 .. Len(w) /\ 1 \in 1 .. Len(w) /\ j - 1 <= LastPlace(w[1]) - w[1].place
    BY <1>1, <1>2, <1>3, <1>4
  <2>2. /\ w[j].message = w[1].message /\ w[j].length = w[1].length
        /\ w[j].place = w[1].place + (j - 1)
    BY <2>1 DEF Line
  <2>3. w[j] \in Byte
    BY <1>1, <2>1
  <2>4. w[j].place = j - 1 /\ w[j].message = m + 1 /\ w[j].length = l
    BY <1>3, <1>4, <2>2
  <2> QED
    BY <2>3, <2>4 DEF Byte
<1>7. SubSeq(w, 1, d) = Encode(m + 1, l)
  <2>1. SubSeq(w, 1, d) \in Seq(Byte) /\ Len(SubSeq(w, 1, d)) = d /\ \A j \in 1 .. d : SubSeq(w, 1, d)[j] = w[j]
    BY <1>1, <1>2
  <2>2. /\ Encode(m + 1, l) \in Seq(Byte) /\ Len(Encode(m + 1, l)) = d
        /\ \A j \in 1 .. d : Encode(m + 1, l)[j] = [message |-> m + 1, place |-> j - 1, length |-> l]
    <3>1. d = HeaderSize + l /\ m + 1 \in Nat
      BY DEF Holding
    <3> QED
      BY <3>1, EncodeIs
  <2>3. \A j \in 1 .. d : SubSeq(w, 1, d)[j] = Encode(m + 1, l)[j]
    BY <1>6, <2>1, <2>2
  <2> QED
    BY <2>1, <2>2, <2>3, SeqEqual
<1>8. v \in Seq(Byte) /\ Len(v) = n /\ (\A i \in 1 .. n : v[i] = w[d + i]) /\ n \in Nat
  <2> HIDE DEF W
  <2>1. d + 1 \in 1 .. W + 1 /\ W = Len(w)
    BY <1>1, <1>2 DEF W
  <2>2. /\ v \in Seq(Byte) /\ Len(v) = W - (d + 1) + 1
        /\ \A i \in 1 .. W - (d + 1) + 1 : v[i] = w[(d + 1) + i - 1]
    BY <1>1, <2>1
  <2>3. W - (d + 1) + 1 = n /\ n \in Nat /\ \A i \in 1 .. n : (d + 1) + i - 1 = d + i
    BY <1>1, <1>2
  <2> HIDE DEF v, n
  <2> QED
    BY <2>2, <2>3
<1> HIDE DEF v
<1>9. \A i \in 1 .. n : d + i \in 1 .. Len(w)
  BY <1>1, <1>2
<1>10. w[d].message = m + 1 /\ w[d].place = LastPlace(w[d])
  <2>1. d \in 1 .. d /\ w[d] = [message |-> m + 1, place |-> d - 1, length |-> l]
    BY <1>2, <1>6
  <2>2. w[d] \in Byte
    BY <1>1, <1>2
  <2>3. LastPlace(w[d]) = HeaderSize + w[d].length - 1
    BY <2>2, LastIs
  <2> QED
    BY <1>1, <1>2, <2>1, <2>3 DEF Holding
<1>11. n > 0 => w[d + 1].message = m + 1 + 1 /\ w[d + 1].place = 0
  <2>1. n > 0 => d \in 1 .. Len(w) - 1
    BY <1>1, <1>2
  <2> QED
    BY <1>10, <2>1 DEF Line
<1>12. n = W - d /\ W = Len(w)
  OBVIOUS
<1> HIDE DEF n, W
<1>13. ASSUME NEW i \in 1 .. n, NEW j \in i .. n, j - i <= LastPlace(v[i]) - v[i].place
       PROVE  /\ v[j].message = v[i].message /\ v[j].length = v[i].length
              /\ v[j].place = v[i].place + (j - i)
  <2>1. j \in 1 .. n /\ d + j \in d + i .. Len(w) /\ (d + j) - (d + i) = j - i
    BY <1>1, <1>2, <1>8, <1>9, SMTT(60)
  <2>2. v[i] = w[d + i] /\ v[j] = w[d + j] /\ d + i \in 1 .. Len(w)
    BY <1>8, <1>9, <2>1
  <2>3. (d + j) - (d + i) <= LastPlace(w[d + i]) - w[d + i].place
    BY <1>13, <2>1, <2>2
  <2>4. /\ w[d + j].message = w[d + i].message /\ w[d + j].length = w[d + i].length
        /\ w[d + j].place = w[d + i].place + ((d + j) - (d + i))
    BY <2>1, <2>2, <2>3 DEF Line
  <2> QED
    BY <2>1, <2>2, <2>4
<1>14. ASSUME NEW i \in 1 .. n - 1, v[i].place = LastPlace(v[i])
       PROVE  v[i + 1].message = v[i].message + 1 /\ v[i + 1].place = 0
  <2>1. i \in 1 .. n /\ i + 1 \in 1 .. n /\ d + (i + 1) = (d + i) + 1
    BY <1>2, <1>8, SMTT(60)
  <2>2. v[i] = w[d + i] /\ v[i + 1] = w[(d + i) + 1]
    BY <1>8, <2>1
  <2>3. d + i \in 1 .. Len(w) - 1
    <3>1. d + i \in 1 .. Len(w) /\ d + (i + 1) \in 1 .. Len(w)
      BY <1>9, <2>1
    <3> QED
      BY <1>1, <1>2, <1>12, <3>1
  <2> QED
    BY <1>14, <2>2, <2>3 DEF Line
<1>15. ASSUME NEW i \in 1 .. n
       PROVE  /\ v[i].message \in 1 .. Len(s) /\ v[i].length = s[v[i].message]
              /\ v[i].place <= LastPlace(v[i])
  <2>1. v[i] = w[d + i] /\ d + i \in 1 .. Len(w)
    BY <1>8, <1>9
  <2> QED
    BY <2>1 DEF Line
<1>16. n > 0 => v[1].message = m + 1 + 1 /\ v[1].place = 0
  <2>1. n > 0 => v[1] = w[d + 1]
    BY <1>8
  <2> QED
    BY <1>11, <2>1
<1>17. Line(v, m + 1, s)
  BY <1>8, <1>13, <1>14, <1>15, <1>16 DEF Line
<1>18. (Whole(w, m, s) => Whole(v, m + 1, s)) /\ (Short(w, m, s) => Short(v, m + 1, s))
  <2>1. CASE n = 0
    <3>1. W = d /\ Len(v) = 0 /\ Len(w) # 0
      BY <1>1, <1>2, <1>8, <1>12, <2>1
    <3>2. w[Len(w)].message = m + 1 /\ w[Len(w)].place = LastPlace(w[Len(w)])
      BY <1>10, <1>12, <3>1
    <3> QED
      BY <1>1, <3>1, <3>2 DEF Whole, Short
  <2>2. CASE n # 0
    <3>0. n \in Nat /\ W \in Nat /\ n = W - d
      BY <1>1, <1>8, <1>12
    <3>1. n \in 1 .. n /\ d + n = W
      BY <2>2, <3>0
    <3>2. v[Len(v)] = w[Len(w)] /\ Len(v) # 0 /\ Len(w) # 0
      BY <1>1, <1>2, <1>8, <1>12, <2>2, <3>1
    <3> QED
      BY <3>2 DEF Whole, Short
  <2> QED
    BY <2>1, <2>2
<1> QED
  BY <1>1, <1>2, <1>5, <1>7, <1>12, <1>17, <1>18 DEF v, W

\* Bytes of the last message that are left out.
LEMMA LineCut ==
    ASSUME NEW w, NEW m \in Nat, NEW s \in Seq(Nat), Line(w, m, s), Whole(w, m, s),
           NEW n \in Nat, n < Len(w), \A i \in n + 1 .. Len(w) : w[i].message = Len(s)
    PROVE  Short(SubSeq(w, 1, n), m, s)
<1> DEFINE v == SubSeq(w, 1, n)
<1>1. w \in Seq(Byte) /\ Len(w) \in Nat /\ Len(s) \in Nat /\ n + 1 \in 1 .. Len(w) /\ w[n + 1].message = Len(s)
  BY DEF Line
<1>2. v \in Seq(Byte) /\ Len(v) = n /\ \A i \in 1 .. n : v[i] = w[i]
  BY <1>1
<1> HIDE DEF v
<1>3. CASE n = 0
  <2>1. w[1].message = m + 1
    BY <1>1 DEF Line
  <2> QED
    BY <1>1, <1>2, <1>3, <2>1 DEF Short, v
<1>4. CASE n # 0
  <2>1. n \in 1 .. n /\ n \in 1 .. Len(w) - 1 /\ n \in 1 .. Len(w) /\ v[n] = w[n] /\ w[n] \in Byte
    BY <1>1, <1>2, <1>4
  <2>2. CASE w[n].place = LastPlace(w[n])
    <3>1. w[n + 1].message = w[n].message + 1 /\ w[n].message \in Nat
      BY <2>1, <2>2 DEF Line, Byte
    <3>2. w[n].message = Len(s) - 1
      BY <1>1, <3>1
    <3> QED
      BY <1>2, <1>4, <2>1, <2>2, <3>2 DEF Short, v
  <2>3. CASE w[n].place # LastPlace(w[n])
    <3>1. w[n].place <= LastPlace(w[n]) /\ w[n].place \in Nat /\ LastPlace(w[n]) \in Nat
      BY <2>1, LastIs DEF Line, Byte
    <3>2. (n + 1) - n <= LastPlace(w[n]) - w[n].place /\ n + 1 \in n .. Len(w)
      <4>1. \A a, c \in Nat : a <= c /\ a # c => 1 <= c - a
        OBVIOUS
      <4>2. 1 <= LastPlace(w[n]) - w[n].place
        BY <2>3, <3>1, <4>1
      <4>3. (n + 1) - n = 1 /\ n + 1 \in n .. Len(w)
        BY <1>1
      <4> QED
        BY <4>2, <4>3
    <3>3. w[n + 1].message = w[n].message
      BY <2>1, <3>2 DEF Line
    <3> QED
      BY <1>1, <1>2, <1>4, <2>1, <2>3, <3>3 DEF Short, v
  <2> QED
    BY <2>2, <2>3
<1> QED
  BY <1>3, <1>4

\* A line that holds no message is empty if nothing is left out, and is else a part of the
\* last message.
LEMMA LineEnds ==
    ASSUME NEW w, NEW m \in Nat, NEW s \in Seq(Nat), Line(w, m, s), ~HoldsMessage(w)
    PROVE  /\ Whole(w, m, s) => w = <<>> /\ m = Len(s)
           /\ Short(w, m, s) => m = Len(s) - 1
<1>1. w \in Seq(Byte) /\ Len(w) \in Nat /\ Len(s) \in Nat
  BY DEF Line
<1>2. CASE Len(w) = 0
  <2>1. w = <<>>
    BY <1>1, <1>2, EmptySeq
  <2> QED
    BY <1>2, <2>1 DEF Whole, Short
<1>3. CASE Len(w) # 0
  <2> DEFINE W == Len(w)
  <2>1. W \in 1 .. W /\ 1 \in 1 .. W /\ w[1] \in Byte /\ w[W] \in Byte /\ w[1].place = 0 /\ w[1].message = m + 1
    BY <1>1, <1>3 DEF Line
  <2>2. W - 1 < LastPlace(w[1])
    <3>1. SUFFICES ASSUME W - 1 >= LastPlace(w[1]) PROVE FALSE
      BY <1>1, <2>1, LastIs
    <3>2. HeaderSize \in 1 .. W /\ HeaderSize - 1 <= LastPlace(w[1]) - w[1].place
      BY <1>1, <2>1, <3>1, LastIs
    <3>3. w[HeaderSize].length = w[1].length
      BY <2>1, <3>2 DEF Line
    <3>4. LastPlace(w[1]) = HeaderSize + w[1].length - 1 /\ w[1].length \in Nat
      BY <2>1, LastIs DEF Byte
    <3>5. W >= HeaderSize /\ W >= HeaderSize + w[HeaderSize].length
      BY <1>1, <3>1, <3>2, <3>3, <3>4, LastIs
    <3> QED
      BY <3>5 DEF HoldsMessage, LengthIn
  <2>3. W - 1 <= LastPlace(w[1]) - w[1].place
    BY <1>1, <2>1, <2>2, LastIs
  <2>4. w[W].message = m + 1 /\ w[W].length = w[1].length /\ w[W].place = w[1].place + (W - 1)
    BY <2>1, <2>3 DEF Line
  <2>5. w[W].place # LastPlace(w[W])
    <3>1. LastPlace(w[W]) = LastPlace(w[1]) /\ LastPlace(w[1]) \in Nat
      BY <2>1, <2>4, LastIs
    <3> QED
      BY <1>1, <2>1, <2>2, <2>4, <3>1
  <2> QED
    BY <1>1, <1>3, <2>1, <2>4, <2>5 DEF Whole, Short
<1> QED
  BY <1>2, <1>3

\* How the bytes of a buffer and those behind them come apart and together.
LEMMA Joined ==
    ASSUME NEW S, NEW b \in Seq(S), NEW f \in Seq(S)
    PROVE  /\ \A c \in Seq(S) : b \o (f \o c) = (b \o f) \o c
           /\ \A x \in S : b \o Append(f, x) = Append(b \o f, x)
           /\ \A n \in 0 .. Len(f) : /\ b \o SubSeq(f, 1, n) = SubSeq(b \o f, 1, Len(b) + n)
                                     /\ (b \o SubSeq(f, 1, n)) \o SubSeq(f, n + 1, Len(f)) = b \o f
           /\ \A k \in 1 .. Len(b) + 1 : SubSeq(b, k, Len(b)) \o f = SubSeq(b \o f, k, Len(b \o f))
           /\ \A k \in 0 .. Len(b) : SubSeq(b \o f, 1, k) = SubSeq(b, 1, k)
<1>1. /\ b \o f \in Seq(S) /\ Len(b \o f) = Len(b) + Len(f) /\ Len(b) \in Nat /\ Len(f) \in Nat
      /\ \A i \in 1 .. Len(b) + Len(f) : (b \o f)[i] = IF i <= Len(b) THEN b[i] ELSE f[i - Len(b)]
  BY ConcatProperties
<1>2. ASSUME NEW c \in Seq(S) PROVE b \o (f \o c) = (b \o f) \o c
  BY ConcatAssociative
<1>3. ASSUME NEW x \in S PROVE b \o Append(f, x) = Append(b \o f, x)
  <2>1. Append(f, x) = f \o <<x>> /\ Append(b \o f, x) = (b \o f) \o <<x>> /\ <<x>> \in Seq(S)
    BY <1>1, AppendIsConcat
  <2> QED
    BY <1>2, <2>1
<1>4. ASSUME NEW n \in 0 .. Len(f)
      PROVE  /\ b \o SubSeq(f, 1, n) = SubSeq(b \o f, 1, Len(b) + n)
             /\ (b \o SubSeq(f, 1, n)) \o SubSeq(f, n + 1, Len(f)) = b \o f
  <2> DEFINE g == SubSeq(f, 1, n)
             h == SubSeq(f, n + 1, Len(f))
             u == SubSeq(b \o f, 1, Len(b) + n)
  <2>1. g \in Seq(S) /\ Len(g) = n /\ \A i \in 1 .. n : g[i] = f[i]
    BY <1>1
  <2>2. /\ u \in Seq(S) /\ Len(u) = Len(b) + n
        /\ \A i \in 1 .. Len(b) + n : u[i] = (b \o f)[i]
    <3>1. Len(b) + n \in 0 .. Len(b \o f)
      BY <1>1
    <3> DEFINE w == b \o f
    <3>2. w \in Seq(S) /\ Len(b) + n \in 0 .. Len(w)
      BY <1>1, <3>1
    <3> HIDE DEF w
    <3>3. /\ SubSeq(w, 1, Len(b) + n) \in Seq(S) /\ Len(SubSeq(w, 1, Len(b) + n)) = Len(b) + n
          /\ \A i \in 1 .. Len(b) + n : SubSeq(w, 1, Len(b) + n)[i] = w[i]
      BY <3>2
    <3> QED
      BY <3>3 DEF w
  <2> HIDE DEF g, u
  <2>3. /\ b \o g \in Seq(S) /\ Len(b \o g) = Len(b) + n
        /\ \A i \in 1 .. Len(b) + n : (b \o g)[i] = IF i <= Len(b) THEN b[i] ELSE g[i - Len(b)]
    BY <2>1, ConcatProperties
  <2>4. ASSUME NEW i \in 1 .. Len(b) + n PROVE (b \o g)[i] = u[i]
    <3>1. i \in 1 .. Len(b) + Len(f) /\ (i > Len(b) => i - Len(b) \in 1 .. n)
      BY <1>1
    <3> QED
      BY <1>1, <2>1, <2>2, <2>3, <3>1
  <2>5. b \o g = u
    BY <2>2, <2>3, <2>4, SeqEqual
  <2>6. h \in Seq(S) /\ g \o h = f
    <3>1. 1 \in 1 .. Len(f) + 1 /\ n \in 1 - 1 .. Len(f) /\ Len(f) \in n .. Len(f)
      BY <1>1
    <3>2. h \in Seq(S) /\ Len(h) = Len(f) - n /\ \A i \in 1 .. Len(f) - n : h[i] = f[n + i]
      BY <1>1
    <3> HIDE DEF h
    <3>3. /\ g \o h \in Seq(S) /\ Len(g \o h) = Len(f)
          /\ \A i \in 1 .. Len(f) : (g \o h)[i] = IF i <= n THEN g[i] ELSE h[i - n]
      <4>1. /\ g \o h \in Seq(S) /\ Len(g \o h) = Len(g) + Len(h)
            /\ \A i \in 1 .. Len(g) + Len(h) : (g \o h)[i] = IF i <= Len(g) THEN g[i] ELSE h[i - Len(g)]
        BY <2>1, <3>2, ConcatProperties
      <4>2. Len(g) = n /\ n + Len(h) = Len(f)
        BY <1>1, <2>1, <3>2
      <4> QED
        BY <4>1, <4>2
    <3>4. ASSUME NEW i \in 1 .. Len(f) PROVE (g \o h)[i] = f[i]
      <4>1. (i <= n => i \in 1 .. n) /\ (i > n => i - n \in 1 .. Len(f) - n /\ n + (i - n) = i)
        BY <1>1
      <4> QED
        BY <2>1, <3>2, <3>3, <4>1
    <3> QED
      BY <3>2, <3>3, <3>4, SeqEqual
  <2> HIDE DEF h
  <2>7. (b \o g) \o h = b \o f
    <3>1. g \in Seq(S) /\ h \in Seq(S)
      BY <2>1, <2>6
    <3>2. (b \o g) \o h = b \o (g \o h)
      BY <3>1, ConcatAssociative, SMTT(60)
    <3>3. g \o h = f
      BY <2>6
    <3> QED
      BY <3>2, <3>3, Zenon
  <2> QED
    BY <2>5, <2>7 DEF g, h, u
<1>5. ASSUME NEW k \in 1 .. Len(b) + 1
      PROVE  SubSeq(b, k, Len(b)) \o f = SubSeq(b \o f, k, Len(b \o f))
  <2> DEFINE r == SubSeq(b, k, Len(b))
             w == b \o f
             u == SubSeq(w, k, Len(w))
             n == Len(b) - k + 1
  <2>1. r \in Seq(S) /\ Len(r) = n /\ \A i \in 1 .. n : r[i] = b[k + i - 1]
    BY <1>1
  <2>2. w \in Seq(S) /\ k \in 1 .. Len(w) + 1 /\ Len(w) = Len(b) + Len(f)
    BY <1>1
  <2> HIDE DEF w
  <2>3. u \in Seq(S) /\ Len(u) = Len(w) - k + 1 /\ \A i \in 1 .. Len(w) - k + 1 : u[i] = w[k + i - 1]
    BY <2>2
  <2>4. Len(w) - k + 1 = n + Len(f) /\ n \in Nat
    BY <1>1, <2>2
  <2> HIDE DEF r, u
  <2>5. /\ r \o f \in Seq(S) /\ Len(r \o f) = n + Len(f)
        /\ \A i \in 1 .. n + Len(f) : (r \o f)[i] = IF i <= n THEN r[i] ELSE f[i - n]
    <3> HIDE DEF n
    <3> QED
      BY <2>1, <2>4, ConcatProperties
  <2>6. ASSUME NEW i \in 1 .. n + Len(f) PROVE (r \o f)[i] = u[i]
    <3>1. k + i - 1 \in 1 .. Len(b) + Len(f) /\ (i <= n <=> k + i - 1 <= Len(b))
          /\ (k + i - 1) - Len(b) = i - n /\ (i <= n => i \in 1 .. n)
      BY <1>1, <2>4
    <3>2. w[k + i - 1] = IF k + i - 1 <= Len(b) THEN b[k + i - 1] ELSE f[(k + i - 1) - Len(b)]
      BY <1>1, <3>1 DEF w
    <3>3. u[i] = w[k + i - 1]
      BY <2>3, <2>4
    <3> HIDE DEF n
    <3> QED
      BY <2>1, <2>5, <3>1, <3>2, <3>3
  <2>7. r \o f = u
    <3> HIDE DEF n
    <3> QED
      BY <2>3, <2>4, <2>5, <2>6, SeqEqual
  <2> QED
    BY <2>7 DEF r, u, w
<1>6. ASSUME NEW k \in 0 .. Len(b) PROVE SubSeq(b \o f, 1, k) = SubSeq(b, 1, k)
  <2> DEFINE w == b \o f
  <2>1. w \in Seq(S) /\ k \in 0 .. Len(w) /\ \A i \in 1 .. k : w[i] = b[i]
    BY <1>1
  <2> HIDE DEF w
  <2>2. SubSeq(w, 1, k) \in Seq(S) /\ Len(SubSeq(w, 1, k)) = k /\ \A i \in 1 .. k : SubSeq(w, 1, k)[i] = w[i]
    BY <2>1
  <2>3. SubSeq(b, 1, k) \in Seq(S) /\ Len(SubSeq(b, 1, k)) = k /\ \A i \in 1 .. k : SubSeq(b, 1, k)[i] = b[i]
    BY <1>1
  <2>4. \A i \in 1 .. k : SubSeq(w, 1, k)[i] = SubSeq(b, 1, k)[i]
    BY <2>1, <2>2, <2>3
  <2>5. SubSeq(w, 1, k) = SubSeq(b, 1, k)
    BY <2>2, <2>3, <2>4, SeqEqual
  <2> QED
    BY <2>5 DEF w
<1> QED
  BY <1>2, <1>3, <1>4, <1>5, <1>6
\* Bytes that are added behind.
LEMMA AddedBehind ==
    /\ \A b, f, c \in Seq(Byte) : b \o (f \o c) = (b \o f) \o c
    /\ \A b, f \in Seq(Byte) : \A x \in Byte : b \o Append(f, x) = Append(b \o f, x)
<1>1. ASSUME NEW b \in Seq(Byte), NEW f \in Seq(Byte), NEW c \in Seq(Byte)
      PROVE  b \o (f \o c) = (b \o f) \o c
  BY ConcatAssociative
<1>2. ASSUME NEW b \in Seq(Byte), NEW f \in Seq(Byte), NEW x \in Byte
      PROVE  b \o Append(f, x) = Append(b \o f, x)
  BY Joined
<1> QED
  BY <1>1, <1>2

\* What holds of the messages to one end, of which b is in its buffer, f on the
\* way and g still to be written, when it has decoded t and the other end has
\* sent s, was cut off or not (c), is followed by h, has closed its sending half
\* or not (x), while receiving has ended in r and the connection is up or not
\* (a): the bytes are a line, whole or short of some of the last message as long
\* as none is lost; what was decoded is what was sent, and an end that was told
\* None had all of it.
Carries(b, f, g, t, s, c, h, x, r, a) ==
    /\ Line((b \o f) \o g, Len(t), s)
    /\ (a = TRUE \/ h # "no") /\ c # TRUE => Whole((b \o f) \o g, Len(t), s)
    /\ (a = TRUE \/ h # "no") /\ c = TRUE => Short((b \o f) \o g, Len(t), s)
    /\ h # "no" => "send" \in x
    /\ "send" \in x \/ c = TRUE => g = <<>>
    /\ \A i \in 1 .. Len(g) : g[i].message = Len(s)
    /\ Len(t) <= Len(s) /\ \A k \in 1 .. Len(t) : t[k] = Encode(k, s[k])
    /\ r = "none" => "send" \in x /\ Len(t) = Len(s) - (IF c = TRUE THEN 1 ELSE 0)
    /\ r = "error" => a # TRUE \/ c = TRUE \/ h = "reset"

\* Nothing behind nothing.
LEMMA NoneBehind ==
    ASSUME NEW b \in Seq(Byte), NEW f \in Seq(Byte)
    PROVE  /\ <<>> \in Seq(Byte) /\ b \o <<>> = b /\ (b \o f) \o <<>> = b \o f
           /\ b \o f \in Seq(Byte)
  BY ConcatEmptySeq

\* A message is sent: it is written at once, or waits to be written.
LEMMA CarriesSent ==
    ASSUME NEW b \in Seq(Byte), NEW f \in Seq(Byte), NEW t \in Seq(Seq(Byte)), NEW s \in Seq(Nat),
           NEW z, z # TRUE, NEW h, NEW x, "send" \notin x, NEW r, NEW a, a = TRUE,
           NEW l \in Nat, Carries(b, f, <<>>, t, s, z, h, x, r, a)
    PROVE  LET c == Encode(Len(s) + 1, l) IN
           /\ c \in Seq(Byte) /\ f \o c \in Seq(Byte) /\ Append(s, l) \in Seq(Nat)
           /\ Carries(b, f, c, t, Append(s, l), z, h, x, r, a)
           /\ Carries(b, f \o c, <<>>, t, Append(s, l), z, h, x, r, a)
<1> DEFINE c == Encode(Len(s) + 1, l)
           u == Append(s, l)
<1>1. /\ c \in Seq(Byte) /\ Len(s) \in Nat /\ Len(t) \in Nat
      /\ \A i \in 1 .. Len(c) : c[i].message = Len(s) + 1
  <2>1. Len(s) \in Nat /\ Len(s) + 1 \in Nat /\ Len(t) \in Nat
    OBVIOUS
  <2>2. /\ c \in Seq(Byte) /\ Len(c) = HeaderSize + l
        /\ \A i \in 1 .. HeaderSize + l : c[i] = [message |-> Len(s) + 1, place |-> i - 1, length |-> l]
    BY <2>1, EncodeIs
  <2> HIDE DEF c
  <2> QED
    BY <2>1, <2>2
<1>2. u \in Seq(Nat) /\ Len(u) = Len(s) + 1 /\ \A k \in 1 .. Len(s) : u[k] = s[k]
  BY AppendProperties
<1>3. (b \o f) \o <<>> = b \o f /\ <<>> \in Seq(Byte) /\ b \o f \in Seq(Byte) /\ f \o c \in Seq(Byte)
  BY <1>1, NoneBehind
<1>4. Line(b \o f, Len(t), s) /\ Whole(b \o f, Len(t), s)
  BY <1>3 DEF Carries
<1> HIDE DEF u
<1>5. Line((b \o f) \o c, Len(t), u) /\ Whole((b \o f) \o c, Len(t), u)
  BY <1>1, <1>4, LineSend DEF u
<1> HIDE DEF c
<1>6. (b \o (f \o c)) \o <<>> = (b \o f) \o c
  <2>1. b \o (f \o c) = (b \o f) \o c
    BY <1>1, AddedBehind, Zenon
  <2>2. (b \o (f \o c)) \o <<>> = b \o (f \o c)
    BY <1>3, NoneBehind
  <2> QED
    BY <2>1, <2>2
<1>7. Len(t) <= Len(u) /\ \A k \in 1 .. Len(t) : t[k] = Encode(k, u[k])
  <2>1. Len(t) <= Len(s) /\ \A k \in 1 .. Len(t) : t[k] = Encode(k, s[k])
    BY DEF Carries
  <2>2. \A k \in 1 .. Len(t) : k \in 1 .. Len(s)
    BY <1>1, <2>1
  <2> QED
    BY <1>1, <1>2, <2>1, <2>2
<1>8. r # "none" /\ r # "error" /\ h = "no"
  BY DEF Carries
<1>9. \A i \in 1 .. Len(<<>>) : <<>>[i].message = Len(u)
  OBVIOUS
<1>10. Carries(b, f, c, t, u, z, h, x, r, a)
  BY <1>1, <1>2, <1>5, <1>7, <1>8 DEF Carries
<1>11. Carries(b, f \o c, <<>>, t, u, z, h, x, r, a)
  BY <1>5, <1>6, <1>7, <1>8, <1>9 DEF Carries
<1> QED
  BY <1>1, <1>2, <1>3, <1>10, <1>11 DEF c, u

\* A byte is written.
LEMMA CarriesWritten ==
    ASSUME NEW b \in Seq(Byte), NEW f \in Seq(Byte), NEW g \in Seq(Byte), g # <<>>,
           NEW t, NEW s, NEW c, NEW h, NEW x, NEW r, NEW a, Carries(b, f, g, t, s, c, h, x, r, a)
    PROVE  /\ Append(f, Head(g)) \in Seq(Byte) /\ Tail(g) \in Seq(Byte)
           /\ Carries(b, Append(f, Head(g)), Tail(g), t, s, c, h, x, r, a)
<1> DEFINE y == Head(g)
           z == Tail(g)
<1>1. y \in Byte /\ z \in Seq(Byte) /\ <<y>> \in Seq(Byte) /\ g = <<y>> \o z
  BY HeadTailProperties
<1>2. \A i \in 1 .. Len(z) : i + 1 \in 1 .. Len(g) /\ z[i] = g[i + 1]
  BY TailKeeps
<1> HIDE DEF y, z
<1>3. Append(f, y) = f \o <<y>> /\ Append(f, y) \in Seq(Byte) /\ b \o f \in Seq(Byte)
  BY <1>1, AppendIsConcat
<1>4. (b \o Append(f, y)) \o z = (b \o f) \o g
  <2>1. b \o (f \o <<y>>) = (b \o f) \o <<y>>
    BY <1>1, AddedBehind, Zenon
  <2>2. ((b \o f) \o <<y>>) \o z = (b \o f) \o (<<y>> \o z)
    BY <1>1, <1>3, AddedBehind, Zenon
  <2> QED
    BY <1>1, <1>3, <2>1, <2>2
<1>5. \A i \in 1 .. Len(z) : z[i].message = Len(s)
  BY <1>2 DEF Carries
<1>6. "send" \notin x /\ c # TRUE
  BY DEF Carries
<1>7. Carries(b, Append(f, y), z, t, s, c, h, x, r, a)
  BY <1>4, <1>5, <1>6 DEF Carries
<1> QED
  BY <1>1, <1>3, <1>7 DEF y, z

\* The sending end is dropped, or fails, in the middle of a message.
LEMMA CarriesCut ==
    ASSUME NEW b \in Seq(Byte), NEW f \in Seq(Byte), NEW g \in Seq(Byte), g # <<>>,
           NEW t \in Seq(Seq(Byte)), NEW s \in Seq(Nat), NEW c, NEW h, NEW x,
           NEW r, NEW a, Carries(b, f, g, t, s, c, h, x, r, a),
           NEW z, z = TRUE, NEW k, NEW y, k = h \/ ("send" \in y /\ a = TRUE)
    PROVE  Carries(b, f, <<>>, t, s, z, k, y, r, a)
<1> DEFINE w == (b \o f) \o g
           n == Len(b \o f)
<1>1. "send" \notin x /\ c # TRUE /\ h = "no"
  BY DEF Carries
<1>2. b \o f \in Seq(Byte) /\ n \in Nat /\ Len(g) \in Nat /\ Len(g) # 0 /\ Len(t) \in Nat
  BY EmptySeq
<1>3. /\ w \in Seq(Byte) /\ Len(w) = n + Len(g)
      /\ \A i \in 1 .. n + Len(g) : w[i] = IF i <= n THEN (b \o f)[i] ELSE g[i - n]
  BY <1>2, ConcatProperties
<1>4. SubSeq(w, 1, n) = b \o f
  <2>1. SubSeq((b \o f) \o g, 1, n) = SubSeq(b \o f, 1, n)
    <3>1. n \in 0 .. Len(b \o f)
      BY <1>2
    <3> QED
      BY <1>2, <3>1, Joined
  <2>2. SubSeq(b \o f, 1, n) = b \o f
    BY <1>2
  <2> QED
    BY <2>1, <2>2
<1> HIDE DEF w, n
<1>5. Line(w, Len(t), s)
  BY DEF Carries, w
<1>6. \A i \in n + 1 .. Len(w) : w[i].message = Len(s)
  <2>1. ASSUME NEW i \in n + 1 .. Len(w)
        PROVE  i \in 1 .. n + Len(g) /\ ~(i <= n) /\ i - n \in 1 .. Len(g)
    BY <1>2, <1>3
  <2> QED
    BY <1>3, <2>1 DEF Carries
<1>7. Line(b \o f, Len(t), s)
  <2>1. n \in 0 .. Len(w)
    BY <1>2, <1>3
  <2> QED
    BY <1>2, <1>4, <1>5, <2>1, LineFront
<1>8. a = TRUE => Short(b \o f, Len(t), s)
  <2>1. a = TRUE => Whole(w, Len(t), s)
    BY <1>1 DEF Carries, w
  <2>2. n < Len(w)
    BY <1>2, <1>3
  <2> QED
    BY <1>2, <1>4, <1>5, <1>6, <2>1, <2>2, LineCut
<1>9. (b \o f) \o <<>> = b \o f
  BY NoneBehind
<1>10. k # "no" => a = TRUE /\ "send" \in y
  BY <1>1
<1>11. r # "none"
  BY <1>1 DEF Carries
<1>12. \A i \in 1 .. Len(<<>>) : <<>>[i].message = Len(s)
  OBVIOUS
<1>13. Len(t) <= Len(s) /\ \A i \in 1 .. Len(t) : t[i] = Encode(i, s[i])
  BY DEF Carries
<1> QED
  BY <1>7, <1>8, <1>9, <1>10, <1>11, <1>12, <1>13 DEF Carries

\* The sending end is closed between two messages.
LEMMA CarriesClosed ==
    ASSUME NEW b, NEW f, NEW t, NEW s, NEW c, NEW h, NEW x, NEW r, NEW a,
           Carries(b, f, <<>>, t, s, c, h, x, r, a),
           NEW k, k = h \/ (a = TRUE /\ h = "no"), NEW y, "send" \in y
    PROVE  Carries(b, f, <<>>, t, s, c, k, y, r, a)
  BY DEF Carries

\* A message is decoded.
LEMMA CarriesDecoded ==
    ASSUME NEW b \in Seq(Byte), NEW f \in Seq(Byte), NEW g \in Seq(Byte),
           NEW t \in Seq(Seq(Byte)), NEW s \in Seq(Nat), NEW c, NEW h, NEW x, NEW a,
           Carries(b, f, g, t, s, c, h, x, "going", a), HoldsMessage(b)
    PROVE  /\ AfterMessage(b) \in Seq(Byte) /\ FirstMessage(b) \in Seq(Byte)
           /\ Carries(AfterMessage(b), f, g, Append(t, FirstMessage(b)), s, c, h, x, "going", a)
<1> DEFINE l == LengthIn(b)
           d == HeaderSize + l
           v == b \o f
           w == v \o g
<1>1. HeaderSize \in Nat /\ HeaderSize >= 1 /\ Len(b) \in Nat /\ Len(t) \in Nat
      /\ Len(b) >= HeaderSize /\ Len(b) >= d
  BY LastIs DEF HoldsMessage
<1>2. HeaderSize \in 1 .. Len(b) /\ b[HeaderSize] \in Byte
  BY <1>1
<1>3. l \in Nat /\ d \in Nat /\ l = b[HeaderSize].length
  <2>1. l = b[HeaderSize].length
    BY DEF LengthIn
  <2>2. b[HeaderSize].length \in Nat
    BY <1>2 DEF Byte
  <2> HIDE DEF l
  <2> QED
    BY <1>1, <2>1, <2>2
<1>4. /\ FirstMessage(b) = SubSeq(b, 1, d) /\ AfterMessage(b) = SubSeq(b, d + 1, Len(b))
  BY DEF FirstMessage, AfterMessage
<1> HIDE DEF l
<1>5. d = HeaderSize + l
  OBVIOUS
<1> HIDE DEF d
<1>6. /\ v \in Seq(Byte) /\ Len(v) = Len(b) + Len(f) /\ Len(f) \in Nat /\ Len(g) \in Nat
      /\ \A i \in 1 .. Len(b) + Len(f) : v[i] = IF i <= Len(b) THEN b[i] ELSE f[i - Len(b)]
  BY ConcatProperties
<1>7. d \in 0 .. Len(b) /\ d + 1 \in 1 .. Len(b) + 1 /\ d \in 1 .. Len(b)
  BY <1>1, <1>3, <1>5
<1>8. SubSeq(v, 1, d) = SubSeq(b, 1, d) /\ SubSeq(b, d + 1, Len(b)) \o f = SubSeq(v, d + 1, Len(v))
  BY <1>7, Joined
<1> HIDE DEF v
<1>9. /\ w \in Seq(Byte) /\ Len(w) = Len(v) + Len(g)
      /\ \A i \in 1 .. Len(v) + Len(g) : w[i] = IF i <= Len(v) THEN v[i] ELSE g[i - Len(v)]
  <2>1. v \in Seq(Byte)
    BY <1>6
  <2> QED
    BY <2>1, ConcatProperties, Zenon
<1>10. d \in 0 .. Len(v) /\ d + 1 \in 1 .. Len(v) + 1
  BY <1>1, <1>6, <1>7
<1>11. SubSeq(w, 1, d) = SubSeq(v, 1, d) /\ SubSeq(v, d + 1, Len(v)) \o g = SubSeq(w, d + 1, Len(w))
  BY <1>6, <1>10, Joined
<1>12. w = (b \o f) \o g
  BY DEF v
<1> HIDE DEF w
<1>13. Len(w) >= HeaderSize /\ Len(w) >= d /\ l = w[HeaderSize].length
  <2>1. HeaderSize \in 1 .. Len(b) + Len(f) /\ HeaderSize <= Len(b)
    BY <1>1, <1>6
  <2>2. v[HeaderSize] = b[HeaderSize]
    BY <1>6, <2>1
  <2>3. HeaderSize \in 1 .. Len(v) + Len(g) /\ HeaderSize <= Len(v)
    BY <1>6, <2>1
  <2>4. w[HeaderSize] = v[HeaderSize]
    BY <1>9, <2>3
  <2> QED
    BY <1>1, <1>3, <1>6, <1>7, <1>9, <2>2, <2>4
<1>14. Line(w, Len(t), s) /\ Holding(w, l, d)
  BY <1>5, <1>12, <1>13 DEF Carries, Holding
<1> DEFINE m == Len(t)
           rest == SubSeq(w, d + 1, Len(w))
<1>15. m \in Nat
  BY <1>1
<1> HIDE DEF m
<1>16. Line(w, m, s)
  BY <1>14 DEF m
<1>17. /\ m + 1 <= Len(s) /\ l = s[m + 1]
       /\ SubSeq(w, 1, d) = Encode(m + 1, s[m + 1])
       /\ Line(rest, m + 1, s)
       /\ Whole(w, m, s) => Whole(rest, m + 1, s)
       /\ Short(w, m, s) => Short(rest, m + 1, s)
  <2>1. w \in Seq(Byte) /\ m \in Nat /\ d \in Nat /\ l \in Nat
    BY <1>3, <1>9, <1>15
  <2> QED
    BY <2>1, <1>14, <1>16, LineDecode, Zenon
<1> DEFINE p == FirstMessage(b)
           q == AfterMessage(b)
           u == Append(t, p)
<1>18. q \in Seq(Byte) /\ p \in Seq(Byte)
  BY <1>4, <1>7
<1>19. (q \o f) \o g = rest /\ p = Encode(m + 1, s[m + 1])
  BY <1>4, <1>8, <1>11, <1>17
<1> HIDE DEF p, q, rest
<1>20. /\ u \in Seq(Seq(Byte)) /\ Len(u) = m + 1 /\ u[m + 1] = p /\ \A k \in 1 .. m : u[k] = t[k]
  <2>1. /\ u \in Seq(Seq(Byte)) /\ Len(u) = Len(t) + 1 /\ u[Len(t) + 1] = p
        /\ \A k \in 1 .. Len(t) : u[k] = t[k]
    BY <1>18, AppendProperties
  <2> QED
    BY <2>1 DEF m
<1> HIDE DEF u
<1>21. \A k \in 1 .. Len(u) : u[k] = Encode(k, s[k])
  <2>1. \A k \in 1 .. m : t[k] = Encode(k, s[k])
    BY DEF Carries, m
  <2>2. \A k \in 1 .. m + 1 : k \in 1 .. m \/ k = m + 1
    BY <1>15
  <2> QED
    BY <1>19, <1>20, <2>1, <2>2
<1>22. (a = TRUE \/ h # "no") /\ c # TRUE => Whole(rest, m + 1, s)
  BY <1>12, <1>17 DEF Carries, m
<1>23. (a = TRUE \/ h # "no") /\ c = TRUE => Short(rest, m + 1, s)
  BY <1>12, <1>17 DEF Carries, m
<1>24. /\ h # "no" => "send" \in x
       /\ "send" \in x \/ c = TRUE => g = <<>>
       /\ \A i \in 1 .. Len(g) : g[i].message = Len(s)
  BY DEF Carries
<1>25. Carries(q, f, g, u, s, c, h, x, "going", a)
  BY <1>17, <1>19, <1>20, <1>21, <1>22, <1>23, <1>24 DEF Carries
<1> QED
  BY <1>18, <1>25 DEF p, q, u

\* Bytes are read into the buffer.
LEMMA CarriesRead ==
    ASSUME NEW b \in Seq(Byte), NEW f \in Seq(Byte), NEW n \in 0 .. Len(f),
           NEW g, NEW t, NEW s, NEW c, NEW h, NEW x, NEW r, NEW a, Carries(b, f, g, t, s, c, h, x, r, a)
    PROVE  /\ b \o SubSeq(f, 1, n) \in Seq(Byte) /\ SubSeq(f, n + 1, Len(f)) \in Seq(Byte)
           /\ Carries(b \o SubSeq(f, 1, n), SubSeq(f, n + 1, Len(f)), g, t, s, c, h, x, r, a)
<1>1. (b \o SubSeq(f, 1, n)) \o SubSeq(f, n + 1, Len(f)) = b \o f
  BY Joined
<1>2. SubSeq(f, 1, n) \in Seq(Byte) /\ SubSeq(f, n + 1, Len(f)) \in Seq(Byte)
  OBVIOUS
<1>3. b \o SubSeq(f, 1, n) \in Seq(Byte)
  BY <1>2
<1> QED
  BY <1>1, <1>2, <1>3 DEF Carries

\* The end of the stream is read.
LEMMA CarriesTold ==
    ASSUME NEW b \in Seq(Byte), NEW t \in Seq(Seq(Byte)), NEW s \in Seq(Nat), NEW g \in Seq(Byte),
           NEW c, NEW h, NEW x, NEW r, NEW a,
           Carries(b, <<>>, g, t, s, c, h, x, r, a), ~HoldsMessage(b), h # "no",
           NEW q, q = "error" => h = "reset" \/ b # <<>>
    PROVE  Carries(b, <<>>, g, t, s, c, h, x, q, a)
<1>1. g = <<>> /\ "send" \in x /\ Len(t) \in Nat
  BY DEF Carries
<1>2. b \o <<>> = b /\ (b \o <<>>) \o <<>> = b
  BY NoneBehind
<1>3. Line(b, Len(t), s) /\ (c # TRUE => Whole(b, Len(t), s)) /\ (c = TRUE => Short(b, Len(t), s))
  BY <1>1, <1>2 DEF Carries
<1>4. (c # TRUE => b = <<>> /\ Len(t) = Len(s)) /\ (c = TRUE => Len(t) = Len(s) - 1)
  BY <1>1, <1>3, LineEnds
<1>5. q = "none" => "send" \in x /\ Len(t) = Len(s) - (IF c = TRUE THEN 1 ELSE 0)
  <2>1. CASE c = TRUE
    BY <1>1, <1>4, <2>1
  <2>2. CASE c # TRUE
    <3>1. Len(s) - 0 = Len(s)
      OBVIOUS
    <3> QED
      BY <1>1, <1>4, <2>2, <3>1
  <2> QED
    BY <2>1, <2>2
<1>6. q = "error" => a # TRUE \/ c = TRUE \/ h = "reset"
  BY <1>4
<1> QED
  BY <1>5, <1>6 DEF Carries

\* The connection is lost, with bytes on their way and perhaps what follows them.
LEMMA CarriesLost ==
    ASSUME NEW b \in Seq(Byte), NEW f \in Seq(Byte), NEW g \in Seq(Byte),
           NEW t \in Seq(Seq(Byte)), NEW s \in Seq(Nat), NEW c, NEW h, NEW x, NEW r, NEW a,
           Carries(b, f, g, t, s, c, h, x, r, a), NEW n \in 0 .. Len(f),
           NEW k, k = "no" \/ (k = h /\ n = Len(f)), NEW z, z # TRUE
    PROVE  /\ SubSeq(f, 1, n) \in Seq(Byte)
           /\ Carries(b, SubSeq(f, 1, n), <<>>, t, s, c, k, x, r, z)
<1> DEFINE e == SubSeq(f, 1, n)
           v == b \o f
           w == v \o g
           y == Len(b) + n
<1>1. e \in Seq(Byte) /\ Len(f) \in Nat /\ Len(b) \in Nat /\ Len(t) \in Nat /\ y \in Nat
  OBVIOUS
<1>2. v \in Seq(Byte) /\ Len(v) = Len(b) + Len(f) /\ y \in 0 .. Len(v)
  BY <1>1, ConcatProperties
<1>3. b \o e = SubSeq(v, 1, y)
  BY Joined
<1> HIDE DEF e, v
<1>4. w \in Seq(Byte) /\ Len(w) = Len(v) + Len(g) /\ y \in 0 .. Len(w)
  <2>1. v \in Seq(Byte)
    BY <1>2
  <2>2. w \in Seq(Byte) /\ Len(w) = Len(v) + Len(g)
    BY <2>1, ConcatProperties, Zenon
  <2> HIDE DEF w, y
  <2> QED
    BY <1>2, <2>2
<1>5. SubSeq(w, 1, y) = SubSeq(v, 1, y)
  BY <1>2, Joined
<1>6. (b \o e) \o <<>> = b \o e
  BY <1>1, NoneBehind
<1> HIDE DEF y
<1>7. Line(w, Len(t), s)
  BY DEF Carries, v
<1>8. Line(b \o e, Len(t), s)
  <2> HIDE DEF w
  <2> QED
    BY <1>1, <1>3, <1>4, <1>5, <1>7, LineFront
<1>9. CASE k # "no"
  <2>1. k = h /\ n = Len(f) /\ g = <<>>
    BY <1>9 DEF Carries
  <2>2. e = f
    BY <2>1 DEF e
  <2> QED
    BY <1>1, <2>1, <2>2 DEF Carries, e
<1>10. CASE k = "no"
  <2>1. \A i \in 1 .. Len(<<>>) : <<>>[i].message = Len(s)
    OBVIOUS
  <2>2. Carries(b, e, <<>>, t, s, c, "no", x, r, z)
    BY <1>6, <1>8, <2>1 DEF Carries
  <2> QED
    BY <1>1, <1>10, <2>2 DEF e
<1> QED
  BY <1>9, <1>10


\* What is carried to end e.
Carried(e) ==
    Carries(buffer[e], flow[Other(e)], sending[Other(e)], taken[e], sent[Other(e)], cut[Other(e)],
            fin[Other(e)], closed[Other(e)], outcome[e], alive)

\* The types of what the invariant speaks of.
TsTypes ==
    /\ closed \in [Ends -> SUBSET Halves] /\ split \in [Ends -> BOOLEAN]
    /\ cut \in [Ends -> BOOLEAN] /\ alive \in BOOLEAN
    /\ sending \in [Ends -> Seq(Byte)] /\ flow \in [Ends -> Seq(Byte)]
    /\ buffer \in [Ends -> Seq(Byte)] /\ taken \in [Ends -> Seq(Seq(Byte))]
    /\ sent \in [Ends -> Seq(Nat)] /\ fin \in [Ends -> {"no", "fin", "reset"}]
    /\ outcome \in [Ends -> {"going", "none", "error", "early"}]

TsInv == TsTypes /\ \A e \in Ends : Carried(e)

\* The invariant at an end and at its peer is the invariant.
LEMMA BothEnds ==
    ASSUME NEW e \in Ends, TsTypes', Carried(e)', Carried(Other(e))'
    PROVE  TsInv'
  BY OtherEnd DEF TsInv

\* What the invariant says of an end, of its peer, and of the two directions.
LEMMA AtEnds ==
    ASSUME TsInv, NEW e \in Ends, NEW o, o = Other(e)
    PROVE  /\ TsTypes /\ o \in Ends /\ o # e /\ Other(o) = e /\ Carried(e) /\ Carried(o)
           /\ alive \in BOOLEAN /\ split[e] \in BOOLEAN /\ cut[e] \in BOOLEAN /\ cut[o] \in BOOLEAN
           /\ sending[e] \in Seq(Byte) /\ flow[e] \in Seq(Byte) /\ sending[o] \in Seq(Byte)
           /\ flow[o] \in Seq(Byte) /\ buffer[e] \in Seq(Byte) /\ buffer[o] \in Seq(Byte)
           /\ taken[e] \in Seq(Seq(Byte)) /\ taken[o] \in Seq(Seq(Byte))
           /\ sent[e] \in Seq(Nat) /\ sent[o] \in Seq(Nat)
           /\ Carries(buffer[e], flow[o], sending[o], taken[e], sent[o], cut[o], fin[o],
                      closed[o], outcome[e], alive)
           /\ Carries(buffer[o], flow[e], sending[e], taken[o], sent[e], cut[e], fin[e],
                      closed[e], outcome[o], alive)
<1>1. TsTypes /\ Other(e) \in Ends /\ Other(e) # e /\ Other(Other(e)) = e
  BY OtherEnd DEF TsInv
<1>2. Carried(e) /\ Carried(Other(e))
  BY <1>1 DEF TsInv
<1> QED
  BY <1>1, <1>2 DEF TsTypes, Carried

\* A step that leaves what is carried to an end alone.
LEMMA CarriedSame ==
    ASSUME NEW e \in Ends, Carried(e),
           UNCHANGED <<buffer[e], flow[Other(e)], sending[Other(e)], taken[e], sent[Other(e)],
                       cut[Other(e)], fin[Other(e)], closed[Other(e)], outcome[e], alive>>
    PROVE  Carried(e)'
  BY DEF Carried

\* A step that leaves all of it alone.
LEMMA UntouchedAll ==
    ASSUME TsInv, UNCHANGED <<sendVars, recvVars, closed, alive>>, split' \in [Ends -> BOOLEAN]
    PROVE  TsInv'
<1>1. UNCHANGED <<sending, flow, fin, cut, sent, buffer, taken, outcome, closed, alive>>
  BY DEF sendVars, recvVars
<1>2. TsTypes'
  BY <1>1 DEF TsInv, TsTypes
<1>3. ASSUME NEW e \in Ends PROVE Carried(e)'
  BY <1>1, CarriedSame DEF TsInv
<1> QED
  BY <1>2, <1>3 DEF TsInv

\* A message is sent.
LEMMA SendsKept ==
    ASSUME TsInv, NEW e \in Ends, NEW l \in Nat, StreamSends(e, l)
    PROVE  TsInv'
<1> DEFINE c == Encode(Len(sent[e]) + 1, l)
           u == Append(sent[e], l)
<1>1. PICK o : o = Other(e)
  OBVIOUS
<1>2. /\ UNCHANGED <<fin, cut, buffer, taken, outcome, closed, split, alive>>
      /\ sending[e] = <<>> /\ "send" \notin closed[e] /\ alive /\ ~cut[e]
      /\ sent' = [sent EXCEPT ![e] = u]
      /\ \/ flow' = [flow EXCEPT ![e] = flow[e] \o c] /\ sending' = sending
         \/ sending' = [sending EXCEPT ![e] = c] /\ flow' = flow
  BY DEF StreamSends, Sending, recvVars
<1>3. /\ c \in Seq(Byte) /\ flow[e] \o c \in Seq(Byte) /\ u \in Seq(Nat)
      /\ Carries(buffer[o], flow[e], c, taken[o], u, cut[e], fin[e], closed[e], outcome[o], alive)
      /\ Carries(buffer[o], flow[e] \o c, <<>>, taken[o], u, cut[e], fin[e], closed[e], outcome[o], alive)
  <2>1. Carries(buffer[o], flow[e], <<>>, taken[o], sent[e], cut[e], fin[e], closed[e], outcome[o], alive)
    BY <1>1, <1>2, AtEnds
  <2>2. /\ buffer[o] \in Seq(Byte) /\ flow[e] \in Seq(Byte) /\ taken[o] \in Seq(Seq(Byte))
        /\ sent[e] \in Seq(Nat) /\ cut[e] # TRUE /\ alive = TRUE
    BY <1>1, <1>2, AtEnds
  <2> QED
    BY <1>2, <2>1, <2>2, CarriesSent
<1>4. TsTypes /\ o \in Ends /\ o # e /\ Other(o) = e /\ Carried(e)
  BY <1>1, AtEnds
<1> HIDE DEF c, u
<1>5. TsTypes'
  BY <1>2, <1>3, <1>4 DEF TsTypes
<1>6. /\ flow'[o] = flow[o] /\ sending'[o] = sending[o] /\ sent'[o] = sent[o] /\ sent'[e] = u
      /\ \/ flow'[e] = flow[e] \o c /\ sending'[e] = <<>>
         \/ flow'[e] = flow[e] /\ sending'[e] = c
  BY <1>2, <1>4 DEF TsTypes
<1>7. Carried(e)'
  BY <1>1, <1>2, <1>4, <1>6, CarriedSame
<1>8. Carried(o)'
  BY <1>2, <1>3, <1>4, <1>6 DEF Carried
<1> QED
  BY <1>1, <1>5, <1>7, <1>8, BothEnds

\* A byte is written.
LEMMA WritesKept ==
    ASSUME TsInv, NEW e \in Ends, StreamWrites(e)
    PROVE  TsInv'
<1> DEFINE f == Append(flow[e], Head(sending[e]))
           g == Tail(sending[e])
<1>1. PICK o : o = Other(e)
  OBVIOUS
<1>2. /\ UNCHANGED <<fin, cut, sent, buffer, taken, outcome, closed, split, alive>>
      /\ sending[e] # <<>>
      /\ flow' = [flow EXCEPT ![e] = f] /\ sending' = [sending EXCEPT ![e] = g]
  BY DEF StreamWrites, recvVars
<1>3. /\ f \in Seq(Byte) /\ g \in Seq(Byte)
      /\ Carries(buffer[o], f, g, taken[o], sent[e], cut[e], fin[e], closed[e], outcome[o], alive)
  <2>1. /\ buffer[o] \in Seq(Byte) /\ flow[e] \in Seq(Byte) /\ sending[e] \in Seq(Byte)
        /\ Carries(buffer[o], flow[e], sending[e], taken[o], sent[e], cut[e], fin[e], closed[e],
                   outcome[o], alive)
    BY <1>1, AtEnds
  <2> QED
    BY <1>2, <2>1, CarriesWritten
<1>4. TsTypes /\ o \in Ends /\ o # e /\ Other(o) = e /\ Carried(e)
  BY <1>1, AtEnds
<1> HIDE DEF f, g
<1>5. TsTypes'
  BY <1>2, <1>3, <1>4 DEF TsTypes
<1>6. /\ flow'[o] = flow[o] /\ sending'[o] = sending[o] /\ flow'[e] = f /\ sending'[e] = g
  BY <1>2, <1>4 DEF TsTypes
<1>7. Carried(e)'
  BY <1>1, <1>2, <1>4, <1>6, CarriedSame
<1>8. Carried(o)'
  BY <1>2, <1>3, <1>4, <1>6 DEF Carried
<1> QED
  BY <1>1, <1>5, <1>7, <1>8, BothEnds

\* The sender stops: it is closed, fails or is dropped, perhaps in the middle of a message.
LEMMA StopsKept ==
    ASSUME TsInv, NEW e \in Ends, NEW k \in {"no", "fin", "reset"}, NEW y \in SUBSET Halves,
           UNCHANGED <<flow, sent, buffer, taken, outcome, split, alive>>,
           sending' = [sending EXCEPT ![e] = <<>>],
           cut' = [cut EXCEPT ![e] = cut[e] \/ sending[e] # <<>>],
           fin' = [fin EXCEPT ![e] = k], closed' = [closed EXCEPT ![e] = y],
           closed[e] \subseteq y,
           \/ k = fin[e] /\ (y = closed[e] \/ sending[e] = <<>>)
           \/ alive /\ "send" \in y /\ (fin[e] = "no" \/ k = fin[e])
    PROVE  TsInv'
<1>1. PICK o : o = Other(e)
  OBVIOUS
<1> DEFINE z == cut[e] \/ sending[e] # <<>>
<1>2. TsTypes /\ o \in Ends /\ o # e /\ Other(o) = e /\ Carried(e)
  BY <1>1, AtEnds
<1>3. /\ buffer[o] \in Seq(Byte) /\ flow[e] \in Seq(Byte) /\ sending[e] \in Seq(Byte)
      /\ taken[o] \in Seq(Seq(Byte)) /\ sent[e] \in Seq(Nat) /\ cut[e] \in BOOLEAN /\ alive \in BOOLEAN
      /\ z \in BOOLEAN
      /\ Carries(buffer[o], flow[e], sending[e], taken[o], sent[e], cut[e], fin[e], closed[e],
                 outcome[o], alive)
  BY <1>1, AtEnds
<1>4. Carries(buffer[o], flow[e], <<>>, taken[o], sent[e], z, k, y, outcome[o], alive)
  <2>1. CASE sending[e] # <<>>
    <3>1. z = TRUE
      BY <2>1
    <3> HIDE DEF z
    <3>2. k = fin[e] \/ ("send" \in y /\ alive = TRUE)
      BY <2>1
    <3> QED
      BY <1>3, <2>1, <3>1, <3>2, CarriesCut
  <2>2. CASE sending[e] = <<>>
    <3>1. z = cut[e]
      BY <1>3, <2>2
    <3> HIDE DEF z
    <3>2. Carries(buffer[o], flow[e], <<>>, taken[o], sent[e], cut[e], fin[e], closed[e], outcome[o], alive)
      BY <1>3, <2>2
    <3>3. Carries(buffer[o], flow[e], <<>>, taken[o], sent[e], cut[e], k, y, outcome[o], alive)
      <4>1. CASE "send" \in y
        <5>1. k = fin[e] \/ (alive = TRUE /\ fin[e] = "no")
          BY <1>3
        <5> QED
          BY <3>2, <4>1, <5>1, CarriesClosed
      <4>2. CASE "send" \notin y
        <5>1. "send" \notin closed[e] /\ k = fin[e]
          BY <4>2
        <5> QED
          BY <3>2, <4>2, <5>1 DEF Carries
      <4> QED
        BY <4>1, <4>2
    <3> QED
      BY <3>1, <3>3
  <2> QED
    BY <2>1, <2>2
<1> HIDE DEF z
<1>5. TsTypes'
  <2>1. cut' = [cut EXCEPT ![e] = z]
    BY DEF z
  <2> QED
    BY <1>2, <1>3, <2>1 DEF TsTypes
<1>6. /\ sending'[o] = sending[o] /\ cut'[o] = cut[o] /\ fin'[o] = fin[o] /\ closed'[o] = closed[o]
      /\ sending'[e] = <<>> /\ cut'[e] = z /\ fin'[e] = k /\ closed'[e] = y
  BY <1>2 DEF TsTypes, z
<1>7. Carried(e)'
  BY <1>1, <1>2, <1>6, CarriedSame
<1>8. Carried(o)'
  BY <1>2, <1>4, <1>6 DEF Carried
<1> QED
  BY <1>1, <1>5, <1>7, <1>8, BothEnds

\* write_all fails.
LEMMA WriteFailsKept ==
    ASSUME TsInv, NEW e \in Ends, WriteFails(e)
    PROVE  TsInv'
<1>1. /\ closed \in [Ends -> SUBSET Halves] /\ fin \in [Ends -> {"no", "fin", "reset"}]
      /\ cut \in [Ends -> BOOLEAN]
  BY DEF TsInv, TsTypes
<1>2. /\ UNCHANGED <<flow, sent, buffer, taken, outcome, split, alive>>
      /\ sending[e] # <<>> /\ sending' = [sending EXCEPT ![e] = <<>>]
      /\ cut' = [cut EXCEPT ![e] = TRUE] /\ fin' = fin /\ closed' = closed
  BY DEF WriteFails, recvVars
<1>3. /\ fin' = [fin EXCEPT ![e] = fin[e]] /\ closed' = [closed EXCEPT ![e] = closed[e]]
      /\ cut' = [cut EXCEPT ![e] = cut[e] \/ sending[e] # <<>>]
  BY <1>1, <1>2
<1>4. fin[e] \in {"no", "fin", "reset"} /\ closed[e] \in SUBSET Halves /\ closed[e] \subseteq closed[e]
  BY <1>1
<1> DEFINE k == fin[e]
           y == closed[e]
<1>5. /\ k \in {"no", "fin", "reset"} /\ y \in SUBSET Halves /\ closed[e] \subseteq y /\ k = fin[e] /\ y = closed[e]
      /\ fin' = [fin EXCEPT ![e] = k] /\ closed' = [closed EXCEPT ![e] = y]
  BY <1>3, <1>4
<1> HIDE DEF k, y
<1> QED
  BY <1>2, <1>3, <1>5, StopsKept

\* A sender finishes.
LEMMA StreamFinishKept ==
    ASSUME TsInv, NEW e \in Ends, StreamFinishes(e)
    PROVE  TsInv'
<1> DEFINE y == closed[e] \cup ClosedAfter(e, "send")
<1>1. /\ closed \in [Ends -> SUBSET Halves] /\ fin \in [Ends -> {"no", "fin", "reset"}]
      /\ cut \in [Ends -> BOOLEAN] /\ sending \in [Ends -> Seq(Byte)]
  BY DEF TsInv, TsTypes
<1>2. /\ UNCHANGED <<flow, sent, buffer, taken, outcome, split, alive>>
      /\ sending[e] = <<>> /\ sending' = sending /\ alive /\ "send" \notin closed[e]
      /\ cut' = cut /\ fin' = [fin EXCEPT ![e] = "fin"] /\ closed' = [closed EXCEPT ![e] = y]
  BY DEF StreamFinishes, Sending, recvVars
<1>3. y \in SUBSET Halves /\ "send" \in y /\ closed[e] \subseteq y
  BY <1>1 DEF ClosedAfter, Halves
<1>4. /\ sending' = [sending EXCEPT ![e] = <<>>]
      /\ cut' = [cut EXCEPT ![e] = cut[e] \/ sending[e] # <<>>]
  BY <1>1, <1>2
<1>5. fin[e] = "no"
  <2>1. PICK o : o = Other(e)
    OBVIOUS
  <2> QED
    BY <1>2, <2>1, AtEnds DEF Carries
<1> HIDE DEF y
<1> QED
  BY <1>2, <1>3, <1>4, <1>5, StopsKept

\* A sender is dropped.
LEMMA DroppedKept ==
    ASSUME TsInv, NEW e \in Ends, StreamDropped(e)
    PROVE  TsInv'
<1> DEFINE y == closed[e] \cup ClosedAfter(e, "send")
           k == IF "send" \in closed[e] THEN fin[e] ELSE IF carrier = "quic" THEN "fin" ELSE "reset"
<1>1. /\ closed \in [Ends -> SUBSET Halves] /\ fin \in [Ends -> {"no", "fin", "reset"}]
  BY DEF TsInv, TsTypes
<1>2. /\ UNCHANGED <<flow, sent, buffer, taken, outcome, split, alive>>
      /\ sending' = [sending EXCEPT ![e] = <<>>] /\ alive
      /\ cut' = [cut EXCEPT ![e] = cut[e] \/ sending[e] # <<>>]
      /\ fin' = [fin EXCEPT ![e] = k] /\ closed' = [closed EXCEPT ![e] = y]
  BY DEF StreamDropped, recvVars
<1>3. /\ y \in SUBSET Halves /\ "send" \in y /\ closed[e] \subseteq y
      /\ k \in {"no", "fin", "reset"}
  BY <1>1 DEF ClosedAfter, Halves
<1>4. fin[e] = "no" \/ k = fin[e]
  <2>1. PICK o : o = Other(e)
    OBVIOUS
  <2>2. fin[e] # "no" => "send" \in closed[e]
    BY <2>1, AtEnds DEF Carries
  <2> QED
    BY <2>2
<1> HIDE DEF y, k
<1> QED
  BY <1>2, <1>3, <1>4, StopsKept

\* A message is decoded.
LEMMA DecodeKept ==
    ASSUME TsInv, NEW e \in Ends, StreamDecodes(e)
    PROVE  TsInv'
<1> DEFINE b == AfterMessage(buffer[e])
           u == Append(taken[e], FirstMessage(buffer[e]))
<1>1. PICK o : o = Other(e)
  OBVIOUS
<1>2. /\ UNCHANGED <<sending, flow, fin, cut, sent, outcome, closed, split, alive>>
      /\ HoldsMessage(buffer[e]) /\ outcome[e] = "going"
      /\ taken' = [taken EXCEPT ![e] = u] /\ buffer' = [buffer EXCEPT ![e] = b]
  BY DEF StreamDecodes, Receiving, IsCalled, sendVars
<1>3. /\ b \in Seq(Byte) /\ u \in Seq(Seq(Byte))
      /\ Carries(b, flow[o], sending[o], u, sent[o], cut[o], fin[o], closed[o], "going", alive)
  <2>1. /\ buffer[e] \in Seq(Byte) /\ flow[o] \in Seq(Byte) /\ sending[o] \in Seq(Byte)
        /\ taken[e] \in Seq(Seq(Byte)) /\ sent[o] \in Seq(Nat)
        /\ Carries(buffer[e], flow[o], sending[o], taken[e], sent[o], cut[o], fin[o], closed[o], "going", alive)
    BY <1>1, <1>2, AtEnds
  <2>2. /\ b \in Seq(Byte) /\ FirstMessage(buffer[e]) \in Seq(Byte)
        /\ Carries(b, flow[o], sending[o], u, sent[o], cut[o], fin[o], closed[o], "going", alive)
    BY <1>2, <2>1, CarriesDecoded
  <2>3. u \in Seq(Seq(Byte))
    BY <2>1, <2>2
  <2> QED
    BY <2>2, <2>3
<1>4. TsTypes /\ o \in Ends /\ o # e /\ Other(o) = e /\ Carried(o)
  BY <1>1, AtEnds
<1> HIDE DEF b, u
<1>5. TsTypes'
  BY <1>2, <1>3, <1>4 DEF TsTypes
<1>6. buffer'[o] = buffer[o] /\ taken'[o] = taken[o] /\ buffer'[e] = b /\ taken'[e] = u
  BY <1>2, <1>4 DEF TsTypes
<1>7. Carried(o)'
  BY <1>2, <1>4, <1>6, CarriedSame
<1>8. Carried(e)'
  BY <1>1, <1>2, <1>3, <1>6 DEF Carried
<1> QED
  BY <1>1, <1>5, <1>7, <1>8, BothEnds

\* Bytes are read.
LEMMA ReadsKept ==
    ASSUME TsInv, NEW e \in Ends, StreamReads(e)
    PROVE  TsInv'
<1>1. PICK o : o = Other(e)
  OBVIOUS
<1>2. PICK n \in 1 .. Len(flow[o]) :
        /\ buffer' = [buffer EXCEPT ![e] = buffer[e] \o SubSeq(flow[o], 1, n)]
        /\ flow' = [flow EXCEPT ![o] = SubSeq(flow[o], n + 1, Len(flow[o]))]
  BY <1>1 DEF StreamReads
<1> DEFINE b == buffer[e] \o SubSeq(flow[o], 1, n)
           f == SubSeq(flow[o], n + 1, Len(flow[o]))
<1>3. UNCHANGED <<sending, fin, cut, sent, taken, outcome, closed, split, alive>>
  BY DEF StreamReads
<1>4. TsTypes /\ o \in Ends /\ o # e /\ Other(o) = e /\ Carried(o)
  BY <1>1, AtEnds
<1>5. /\ b \in Seq(Byte) /\ f \in Seq(Byte)
      /\ Carries(b, f, sending[o], taken[e], sent[o], cut[o], fin[o], closed[o], outcome[e], alive)
  <2>1. /\ buffer[e] \in Seq(Byte) /\ flow[o] \in Seq(Byte) /\ n \in 0 .. Len(flow[o])
        /\ Carries(buffer[e], flow[o], sending[o], taken[e], sent[o], cut[o], fin[o], closed[o], outcome[e], alive)
    BY <1>1, AtEnds
  <2> QED
    BY <2>1, CarriesRead
<1>6. buffer' = [buffer EXCEPT ![e] = b] /\ flow' = [flow EXCEPT ![o] = f]
  BY <1>2
<1> HIDE DEF b, f
<1>7. TsTypes'
  BY <1>3, <1>4, <1>5, <1>6 DEF TsTypes
<1>8. buffer'[o] = buffer[o] /\ flow'[e] = flow[e] /\ buffer'[e] = b /\ flow'[o] = f
  BY <1>4, <1>6 DEF TsTypes
<1>9. Carried(o)'
  BY <1>3, <1>4, <1>8, CarriedSame
<1>10. Carried(e)'
  BY <1>1, <1>3, <1>5, <1>8 DEF Carried
<1> QED
  BY <1>1, <1>7, <1>9, <1>10, BothEnds

\* An end is told that nothing more comes, and is closed for receiving, or as a whole.
LEMMA EndKept ==
    ASSUME TsInv, NEW e \in Ends, NEW q \in {"going", "none", "error", "early"}, NEW y \in SUBSET Halves,
           UNCHANGED <<sending, flow, fin, cut, sent, buffer, taken, split, alive>>,
           outcome' = [outcome EXCEPT ![e] = q], closed' = [closed EXCEPT ![e] = y],
           closed[e] \subseteq y, sending[e] = <<>> \/ ("send" \in y => "send" \in closed[e]),
           Carries(buffer[e], flow[Other(e)], sending[Other(e)], taken[e], sent[Other(e)], cut[Other(e)],
                   fin[Other(e)], closed[Other(e)], q, alive)
    PROVE  TsInv'
<1>1. PICK o : o = Other(e)
  OBVIOUS
<1>2. TsTypes /\ o \in Ends /\ o # e /\ Other(o) = e
  BY <1>1, AtEnds
<1>3. TsTypes'
  BY <1>2 DEF TsTypes
<1>4. /\ closed'[o] = closed[o] /\ outcome'[o] = outcome[o] /\ closed'[e] = y /\ outcome'[e] = q
  BY <1>2 DEF TsTypes
<1>5. Carried(e)'
  BY <1>1, <1>4 DEF Carried
<1>6. Carries(buffer[o], flow[e], sending[e], taken[o], sent[e], cut[e], fin[e], y, outcome[o], alive)
  <2>1. Carries(buffer[o], flow[e], sending[e], taken[o], sent[e], cut[e], fin[e], closed[e], outcome[o], alive)
    BY <1>1, AtEnds
  <2> QED
    BY <2>1 DEF Carries
<1>7. Carried(o)'
  BY <1>2, <1>4, <1>6 DEF Carried
<1> QED
  BY <1>1, <1>3, <1>5, <1>7, BothEnds

\* An end that reads further than the last byte is told of it.
LEMMA ReadsEndKept ==
    ASSUME TsInv, NEW e \in Ends, ReadsNothing(e) \/ ReadsEnd(e) \/ ReadFails(e)
    PROVE  TsInv'
<1>1. PICK o : o = Other(e)
  OBVIOUS
<1>2. /\ UNCHANGED <<sending, flow, fin, cut, sent, buffer, taken, split, alive>>
      /\ split[e] \/ sending[e] = <<>>
  BY DEF ReadsNothing, ReadsEnd, ReadFails, Receiving, IsCalled, sendVars
<1>3. /\ TsTypes /\ o \in Ends /\ fin[o] \in {"no", "fin", "reset"} /\ closed[e] \subseteq Halves
      /\ buffer[e] \in Seq(Byte) /\ taken[e] \in Seq(Seq(Byte)) /\ sent[o] \in Seq(Nat)
      /\ sending[o] \in Seq(Byte) /\ alive \in BOOLEAN
      /\ Carries(buffer[e], flow[o], sending[o], taken[e], sent[o], cut[o], fin[o], closed[o], outcome[e], alive)
  BY <1>1, AtEnds DEF TsTypes
<1> DEFINE y == closed[e] \cup ClosedAfter(e, "recv")
<1>4. /\ y \in SUBSET Halves /\ closed[e] \subseteq y
      /\ sending[e] = <<>> \/ ("send" \in y => "send" \in closed[e])
  BY <1>2, <1>3 DEF ClosedAfter, Halves
<1>5. CASE ReadsNothing(e)
  <2>1. outcome' = [outcome EXCEPT ![e] = "early"] /\ closed' = [closed EXCEPT ![e] = closed[e]]
    BY <1>3, <1>5 DEF ReadsNothing, TsTypes
  <2>2. Carries(buffer[e], flow[o], sending[o], taken[e], sent[o], cut[o], fin[o], closed[o], "early", alive)
    BY <1>3 DEF Carries
  <2> QED
    BY <1>1, <1>2, <1>3, <2>1, <2>2, EndKept
<1>6. CASE ReadsEnd(e)
  <2> DEFINE q == IF fin[o] = "fin" /\ (buffer[e] = <<>> \/ split[e]) THEN "none" ELSE "error"
  <2>1. /\ outcome' = [outcome EXCEPT ![e] = q] /\ closed' = [closed EXCEPT ![e] = y]
        /\ ~HoldsMessage(buffer[e]) /\ flow[o] = <<>> /\ fin[o] # "no"
    BY <1>1, <1>6 DEF ReadsEnd
  <2>2. q \in {"going", "none", "error", "early"} /\ (q = "error" => fin[o] = "reset" \/ buffer[e] # <<>>)
    BY <1>3, <2>1
  <2> HIDE DEF q, y
  <2>3. Carries(buffer[e], <<>>, sending[o], taken[e], sent[o], cut[o], fin[o], closed[o], outcome[e], alive)
    BY <1>3, <2>1
  <2>4. Carries(buffer[e], <<>>, sending[o], taken[e], sent[o], cut[o], fin[o], closed[o], q, alive)
    BY <1>3, <2>1, <2>2, <2>3, CarriesTold
  <2>5. Carries(buffer[e], flow[o], sending[o], taken[e], sent[o], cut[o], fin[o], closed[o], q, alive)
    BY <2>1, <2>4
  <2> QED
    BY <1>1, <1>2, <1>4, <2>1, <2>2, <2>5, EndKept
<1>7. CASE ReadFails(e)
  <2>1. /\ outcome' = [outcome EXCEPT ![e] = "error"] /\ closed' = [closed EXCEPT ![e] = y] /\ alive # TRUE
    BY <1>3, <1>7 DEF ReadFails
  <2>2. Carries(buffer[e], flow[o], sending[o], taken[e], sent[o], cut[o], fin[o], closed[o], "error", alive)
    BY <1>3, <2>1 DEF Carries
  <2> HIDE DEF y
  <2> QED
    BY <1>1, <1>2, <1>4, <2>1, <2>2, EndKept
<1> QED
  BY <1>5, <1>6, <1>7

\* The connection is lost.
LEMMA LossKept ==
    ASSUME TsInv, ConnectionLost
    PROVE  TsInv'
<1>1. /\ UNCHANGED <<cut, sent, buffer, taken, outcome, closed, split>> /\ alive' = FALSE
      /\ sending' = [e \in Ends |-> <<>>]
  BY DEF ConnectionLost, recvVars
<1>2. ASSUME NEW e \in Ends
      PROVE  \E n \in 0 .. Len(flow[e]), k \in {"no", "fin", "reset"} :
               flow'[e] = SubSeq(flow[e], 1, n) /\ fin'[e] = k /\ (k = "no" \/ (k = fin[e] /\ n = Len(flow[e])))
  <2>1. PICK c \in 0 .. Len(flow["client"]), s \in 0 .. Len(flow["server"]), came \in SUBSET Ends :
          LET n == [i \in Ends |-> IF i = "client" THEN c ELSE s] IN
          /\ flow' = [i \in Ends |-> SubSeq(flow[i], 1, n[i])]
          /\ fin' = [i \in Ends |-> IF i \in came /\ n[i] = Len(flow[i]) THEN fin[i] ELSE "no"]
    BY DEF ConnectionLost
  <2> DEFINE m == IF e = "client" THEN c ELSE s
  <2>2. m \in 0 .. Len(flow[e])
    BY <2>1 DEF Ends
  <2>3. /\ flow'[e] = SubSeq(flow[e], 1, m)
        /\ fin'[e] = IF e \in came /\ m = Len(flow[e]) THEN fin[e] ELSE "no"
    BY <2>1
  <2>4. fin[e] \in {"no", "fin", "reset"}
    BY DEF TsInv, TsTypes
  <2> HIDE DEF m
  <2> QED
    BY <2>2, <2>3, <2>4
<1>3. DOMAIN flow' = Ends /\ DOMAIN fin' = Ends /\ flow' = [i \in Ends |-> flow'[i]] /\ fin' = [i \in Ends |-> fin'[i]]
  BY DEF ConnectionLost
<1>4. ASSUME NEW e \in Ends
      PROVE  Carried(e)' /\ flow'[Other(e)] \in Seq(Byte) /\ fin'[Other(e)] \in {"no", "fin", "reset"}
  <2>1. PICK o : o = Other(e)
    OBVIOUS
  <2>2. /\ o \in Ends /\ buffer[e] \in Seq(Byte) /\ flow[o] \in Seq(Byte) /\ sending[o] \in Seq(Byte)
        /\ taken[e] \in Seq(Seq(Byte)) /\ sent[o] \in Seq(Nat)
        /\ Carries(buffer[e], flow[o], sending[o], taken[e], sent[o], cut[o], fin[o], closed[o], outcome[e], alive)
    BY <2>1, AtEnds
  <2>3. PICK n \in 0 .. Len(flow[o]), k \in {"no", "fin", "reset"} :
          flow'[o] = SubSeq(flow[o], 1, n) /\ fin'[o] = k /\ (k = "no" \/ (k = fin[o] /\ n = Len(flow[o])))
    BY <1>2, <2>2
  <2>4. /\ SubSeq(flow[o], 1, n) \in Seq(Byte)
        /\ Carries(buffer[e], SubSeq(flow[o], 1, n), <<>>, taken[e], sent[o], cut[o], k, closed[o], outcome[e], FALSE)
    BY <2>2, <2>3, CarriesLost
  <2>5. sending'[o] = <<>>
    BY <1>1, <2>2
  <2>6. Carried(e)'
    BY <1>1, <2>1, <2>3, <2>4, <2>5 DEF Carried
  <2> QED
    BY <2>1, <2>3, <2>4, <2>6
<1>5. \A e \in Ends : flow'[e] \in Seq(Byte) /\ fin'[e] \in {"no", "fin", "reset"}
  BY <1>4, OtherEnd
<1>6. sending' \in [Ends -> Seq(Byte)]
  BY <1>1
<1>7. flow' \in [Ends -> Seq(Byte)] /\ fin' \in [Ends -> {"no", "fin", "reset"}]
  BY <1>3, <1>5
<1>8. TsTypes'
  BY <1>1, <1>6, <1>7 DEF TsInv, TsTypes
<1> QED
  BY <1>4, <1>8 DEF TsInv

\* Every step keeps the messages in order.
LEMMA TsInvStep == TsInv /\ [TsNext]_tsVars => TsInv'
<1> SUFFICES ASSUME TsInv, [TsNext]_tsVars PROVE TsInv'
  OBVIOUS
<1>1. split \in [Ends -> BOOLEAN]
  BY DEF TsInv, TsTypes
<1>2. CASE OpenBi \/ AskForStream \/ DriverAccepts \/ RespondToStream \/ StreamAnswered \/ AcceptBi
  BY <1>1, <1>2, UntouchedAll DEF OpenBi, AskForStream, DriverAccepts, RespondToStream, StreamAnswered, AcceptBi
<1>3. CASE \E e \in Ends : Split(e)
  BY <1>1, <1>3, UntouchedAll DEF Split
<1>4. CASE UNCHANGED tsVars
  BY <1>1, <1>4, UntouchedAll DEF tsVars
<1>5. ASSUME NEW e \in Ends, NEW l \in 0 .. MaxLength + 1, StreamSends(e, l) PROVE TsInv'
  BY <1>5, SendsKept, StreamBounds
<1> QED
  BY <1>2, <1>3, <1>4, <1>5, WritesKept, WriteFailsKept, StreamFinishKept, DroppedKept, DecodeKept, ReadsKept,
     ReadsEndKept, LossKept DEF TsNext, TsGoes

\* A stream that is not open yet has carried nothing.
LEMMA TsInvInit == TsInit => TsInv
<1> SUFFICES ASSUME TsInit PROVE TsInv
  OBVIOUS
<1>1. /\ closed = [e \in Ends |-> {}] /\ split = [e \in Ends |-> FALSE] /\ cut = [e \in Ends |-> FALSE]
      /\ sending = [e \in Ends |-> <<>>] /\ flow = [e \in Ends |-> <<>>] /\ buffer = [e \in Ends |-> <<>>]
      /\ sent = [e \in Ends |-> <<>>] /\ taken = [e \in Ends |-> <<>>] /\ alive = TRUE
      /\ fin = [e \in Ends |-> "no"] /\ outcome = [e \in Ends |-> "going"]
  BY DEF TsInit
<1>2. TsTypes
  BY <1>1 DEF TsTypes
<1>3. ASSUME NEW e \in Ends PROVE Carried(e)
  <2>1. PICK o : o = Other(e)
    OBVIOUS
  <2>2. /\ buffer[e] = <<>> /\ flow[o] = <<>> /\ sending[o] = <<>> /\ taken[e] = <<>> /\ sent[o] = <<>>
        /\ fin[o] = "no" /\ closed[o] = {} /\ cut[o] = FALSE /\ outcome[e] = "going" /\ alive = TRUE
    BY <1>1, <2>1, OtherEnd
  <2>3. <<>> \o <<>> = <<>> /\ Len(<<>>) = 0
    BY ConcatEmptySeq, EmptySeq
  <2>4. Line(<<>>, 0, <<>>) /\ Whole(<<>>, 0, <<>>)
    BY DEF Line, Whole
  <2>5. /\ Line((<<>> \o <<>>) \o <<>>, Len(<<>>), <<>>)
        /\ Whole((<<>> \o <<>>) \o <<>>, Len(<<>>), <<>>)
    BY <2>3, <2>4, Zenon
  <2>6. \A i \in 1 .. Len(<<>>) : FALSE
    BY <2>3
  <2>7. Carries(<<>>, <<>>, <<>>, <<>>, <<>>, FALSE, "no", {}, "going", TRUE)
    BY <2>3, <2>5, <2>6 DEF Carries
  <2> QED
    BY <2>1, <2>2, <2>7 DEF Carried
<1> QED
  BY <1>2, <1>3 DEF TsInv

\* What the codec decodes is what the other end encoded, message by message; the peer's
\* None comes behind the last of them that was not left half way, and an error only when
\* something was lost (QuicStream, H2Stream).
LEMMA StreamRight == TsSpec => []DecodedAsSent
<1>1. TsInv => DecodedAsSent
  <2> SUFFICES ASSUME TsInv, NEW e \in Ends
               PROVE  LET o == Other(e) IN
                      /\ Len(taken[e]) <= Len(sent[o])
                      /\ \A k \in DOMAIN taken[e] : taken[e][k] = Encode(k, sent[o][k])
                      /\ outcome[e] = "none" => Len(taken[e]) = Len(sent[o]) - (IF cut[o] THEN 1 ELSE 0)
                      /\ outcome[e] = "error" => ~alive \/ cut[o] \/ fin[o] = "reset"
    BY DEF DecodedAsSent
  <2>1. PICK o : o = Other(e)
    OBVIOUS
  <2>2. /\ cut[o] \in BOOLEAN /\ alive \in BOOLEAN /\ taken[e] \in Seq(Seq(Byte))
        /\ Carries(buffer[e], flow[o], sending[o], taken[e], sent[o], cut[o], fin[o], closed[o], outcome[e], alive)
    BY <2>1, AtEnds
  <2>3. DOMAIN taken[e] = 1 .. Len(taken[e]) /\ (cut[o] <=> cut[o] = TRUE) /\ (alive <=> alive = TRUE)
    BY <2>2
  <2> QED
    BY <2>1, <2>2, <2>3 DEF Carries
<1> QED
  BY <1>1, TsInvInit, TsInvStep, PTL DEF TsSpec

-----------------------------------------------------------------------------
(***************************************************************************)
(* The multiplexer.  For each end of each stream, the messages pass from   *)
(* the other end through the queue of the writer task, the socket, the     *)
(* hand of the reader task and the channel of the stream; at every place   *)
(* the next ones stand in order, and the end of the stream behind the      *)
(* last.                                                                   *)
(***************************************************************************)

(***************************************************************************)
(* The two sides number their streams apart, so that an id tells who       *)
(* opened it.                                                              *)
(***************************************************************************)
Opener(i) == IF i % 2 = 1 THEN "client" ELSE "server"

\* What is sent: a message of a stream, by its opener and its number, or the FIN; in frames.
What == {"client", "server", "nobody"} \X Nat
Frame == [id : Ids, what : What]
\* The ends of streams, and what the reader task may be at.
End == [st : {"none", "open", "dropped"}, opener : {"client", "server", "nobody"},
        closed : BOOLEAN, eof : BOOLEAN, late : BOOLEAN, sent : Nat, got : Seq(What)]
ReaderState == [st : {"reading", "sending", "announcing", "telling", "ended"},
                id : Ids \cup {0}, what : What, todo : SUBSET Ids]

\* The types of what the invariant speaks of.
MuxTypes ==
    /\ nextId \in [Sides -> Nat] /\ opening \in [Sides -> Ids \cup {0}]
    /\ table \in [Sides -> SUBSET Ids]
    /\ chan \in [Sides -> [Ids -> Seq(What)]] /\ stream \in [Sides -> [Ids -> End]]
    /\ acceptQueue \in [Sides -> Seq(Ids)]
    /\ released \in [Sides -> BOOLEAN] /\ reader \in [Sides -> ReaderState]
    /\ writer \in [Sides -> {"running", "ended"}]
    /\ out \in [Sides -> Seq(Frame)] /\ wire \in [Sides -> Seq(Frame)]
    /\ socket \in {"up", "down"}

\* Ids that a side draws are its own and new; an id in a table was registered by
\* the side that drew it.
IdsRight(s) ==
    /\ nextId[s] % 2 = FirstId(s) % 2
    /\ opening[s] # 0 => /\ opening[s] % 2 = FirstId(s) % 2 /\ opening[s] < nextId[s]
                         /\ opening[s] \notin table[s] /\ ~released[s]
    /\ \A i \in table[s] : /\ i \in table[Opener(i)]
                           /\ Opener(i) = s => i < nextId[s]

\* A stream that nobody holds has done nothing; one that is held is in the table
\* and names the side that opened it.
EndRight(s, i) ==
    /\ stream[s][i].st = "none" =>
          /\ stream[s][i].got = <<>> /\ stream[s][i].eof = FALSE /\ stream[s][i].closed = FALSE
          /\ stream[s][i].sent = 0
    /\ stream[s][i].st # "none" => i \in table[s] /\ stream[s][i].opener = Opener(i)
    /\ i \notin table[s] => chan[s][i] = <<>>

EndsRight(s) == \A i \in Ids : EndRight(s, i)

\* A frame belongs to a stream that its sender holds or held, which has finished
\* if the frame says so.
Owned(s, f) ==
    /\ stream[s][f.id].st # "none" /\ f.what[1] = Opener(f.id)
    /\ f.what[2] = FIN => stream[s][f.id].closed = TRUE

FramesRight(s) ==
    /\ \A p \in 1 .. Len(out[s]) : Owned(s, out[s][p])
    /\ \A p \in 1 .. Len(wire[s]) : Owned(s, wire[s][p])

\* A stream that waits to be accepted, or to be announced, is one of the other
\* side's, nobody holds it yet, and it waits once.
Waiting(s, i) == i \in table[s] /\ stream[s][i].st = "none" /\ Opener(i) = Across(s)

AcceptRight(s) ==
    /\ \A p \in 1 .. Len(acceptQueue[s]) : Waiting(s, acceptQueue[s][p])
    /\ \A p, q \in 1 .. Len(acceptQueue[s]) : acceptQueue[s][p] = acceptQueue[s][q] => p = q
    /\ released[s] => acceptQueue[s] = <<>>
    /\ reader[s].st = "announcing" =>
          /\ Waiting(s, reader[s].id)
          /\ \A p \in 1 .. Len(acceptQueue[s]) : acceptQueue[s][p] # reader[s].id

\* What the tasks hold is in the table, and they end with the socket.
TasksRight(s) ==
    /\ reader[s].st = "reading" => reader[s].id = 0
    /\ reader[s].st = "sending" => reader[s].id \in table[s]
    /\ reader[s].st = "telling" => reader[s].id \in table[s] \cup {0} /\ reader[s].todo \subseteq table[s]
    /\ reader[s].st \in {"telling", "ended"} => socket = "down" /\ wire[Across(s)] = <<>>
    /\ writer[s] = "ended" => socket = "down"

(***************************************************************************)
(* The frames of one stream among those of all.  When k of its messages    *)
(* have been taken and n were sent, the messages that are left follow one  *)
(* another, from the next one on, and the end is behind the last.          *)
(***************************************************************************)
Series(q, i, k, n) ==
    /\ \A p \in 1 .. Len(q) : q[p].id = i => q[p].what[2] = FIN \/ (q[p].what[2] > k /\ q[p].what[2] <= n)
    /\ \A p \in 1 .. Len(q) : \A r \in p + 1 .. Len(q) :
          q[p].id = i /\ q[r].id = i
            => q[p].what[2] # FIN /\ (q[r].what[2] = FIN \/ q[p].what[2] < q[r].what[2])
    /\ \A p \in 1 .. Len(q) :
          q[p].id = i /\ q[p].what[2] > k + 1
            => \E r \in 1 .. p - 1 : q[r].id = i /\ q[r].what[2] = q[p].what[2] - 1
    /\ \A p \in 1 .. Len(q) :
          q[p].id = i /\ q[p].what[2] = FIN /\ n > k
            => \E r \in 1 .. p - 1 : q[r].id = i /\ q[r].what[2] = n

Complete(q, i, k, n) == n > k => \E r \in 1 .. Len(q) : q[r].id = i /\ q[r].what[2] = n

Absent(q, i) == \A p \in 1 .. Len(q) : q[p].id # i

\* The frames that will still come from a side.
Flowing(o) == IF socket = "up" THEN wire[o] \o out[o] ELSE wire[o]

\* An end takes what is brought to it until it is dropped.
Taking(s, i) == stream[s][i].st = "open" \/ (stream[s][i].st = "none" /\ ~released[s])

\* What the reader has in its hand for a stream: one message, or none.
Hand(s, i) == IF reader[s].st = "sending" /\ reader[s].id = i THEN 1 ELSE 0

\* The way of the messages to one end that takes them: g were received (eof: and the end),
\* those in its channel c follow, then the one that the reader has in its hand (h, w), then
\* those in the frames q that still come; the other end sent n and may have finished.
Way(i, g, eof, c, h, w, q, n, finished, net) ==
    /\ Series(q, i, g + Len(c) + h, n)
    /\ net = "up" => Complete(q, i, g + Len(c) + h, n)
    /\ eof = TRUE \/ (\E k \in 1 .. Len(c) : c[k][2] = FIN) \/ (h = 1 /\ w[2] = FIN) => Absent(q, i)
    /\ \A k \in 1 .. Len(c) : c[k][2] # FIN =>
          c[k] = <<Opener(i), g + k>> /\ g + k <= n /\ \A j \in 1 .. k - 1 : c[j][2] # FIN
    /\ net = "up" => \A k \in 1 .. Len(c) : c[k][2] = FIN =>
          k = Len(c) /\ h = 0 /\ finished = TRUE /\ g + k - 1 = n
    /\ h = 1 /\ w[2] # FIN =>
          /\ w = <<Opener(i), g + Len(c) + 1>> /\ g + Len(c) + 1 <= n
          /\ \A k \in 1 .. Len(c) : c[k][2] # FIN
    /\ h = 1 /\ w[2] = FIN /\ net = "up" =>
          finished = TRUE /\ g + Len(c) = n /\ \A k \in 1 .. Len(c) : c[k][2] # FIN

Arriving(s, i) ==
    Way(i, Len(stream[s][i].got), stream[s][i].eof, chan[s][i], Hand(s, i), reader[s].what,
        Flowing(Across(s)), stream[Across(s)][i].sent, stream[Across(s)][i].closed, socket)

\* The messages an end has received.
Received(s, i) ==
    LET me == stream[s][i]
        them == stream[Across(s)][i]
    IN  /\ \A k \in 1 .. Len(me.got) : me.got[k] = <<Opener(i), k>>
        /\ Len(me.got) <= them.sent
        /\ me.eof = TRUE /\ socket = "up" => them.closed = TRUE /\ Len(me.got) = them.sent

Messages(s, i) == Received(s, i) /\ (Taking(s, i) => Arriving(s, i))

Structure(s) == IdsRight(s) /\ EndsRight(s) /\ FramesRight(s) /\ AcceptRight(s) /\ TasksRight(s)

\* The inductive invariant of the multiplexer.
MuxInv ==
    /\ MuxTypes
    /\ \A s \in Sides : Structure(s)
    /\ \A s \in Sides : \A i \in Ids : Messages(s, i)

\* Each of the two sides has the other across.
LEMMA AcrossSide ==
    /\ Across("client") = "server" /\ Across("server") = "client"
    /\ "client" \in Sides /\ "server" \in Sides
    /\ \A s \in Sides : Across(s) \in Sides /\ Across(s) # s /\ Across(Across(s)) = s
    /\ \A s, t \in Sides : t = s \/ t = Across(s)
    /\ \A i : Opener(i) \in Sides
<1>1. Across("client") = "server" /\ Across("server") = "client"
  <2>1. \A p \in Sides : p # "client" <=> p = "server"
    BY DEF Sides
  <2>2. \A p \in Sides : p # "server" <=> p = "client"
    BY DEF Sides
  <2>3. "client" \in Sides /\ "server" \in Sides
    BY DEF Sides
  <2> QED
    BY <2>1, <2>2, <2>3 DEF Across
<1>2. \A i : Opener(i) \in Sides
  BY DEF Opener, Sides
<1> QED
  BY <1>1, <1>2 DEF Sides

\* The side that draws an id is the one the id tells.
LEMMA DrawnBy ==
    ASSUME NEW s \in Sides, NEW i \in Ids
    PROVE  i % 2 = FirstId(s) % 2 <=> Opener(i) = s
<1>1. i \in Nat
  BY MuxBounds DEF Ids
<1>2. i % 2 \in {0, 1}
  BY <1>1
<1>3. s = "client" \/ s = "server"
  BY DEF Sides
<1>4. FirstId("client") % 2 = 1 /\ FirstId("server") % 2 = 0
  BY DEF FirstId
<1> QED
  BY <1>2, <1>3, <1>4 DEF Opener

\* An entry of a table of tables is changed.
LEMMA Entry ==
    ASSUME NEW T, NEW f \in [Sides -> [Ids -> T]], NEW s \in Sides, NEW i \in Ids, NEW v \in T
    PROVE  /\ [f EXCEPT ![s][i] = v] \in [Sides -> [Ids -> T]]
           /\ [f EXCEPT ![s][i] = v][s][i] = v
           /\ \A t \in Sides, j \in Ids : t # s \/ j # i => [f EXCEPT ![s][i] = v][t][j] = f[t][j]
  OBVIOUS

(***************************************************************************)
(* Frames of one stream.                                                   *)
(***************************************************************************)
LEMMA SeriesFront ==
    ASSUME NEW q \in Seq(Frame), NEW i \in Ids, NEW k \in Nat, NEW n \in Nat, Series(q, i, k, n),
           NEW m \in 0 .. Len(q)
    PROVE  /\ Series(SubSeq(q, 1, m), i, k, n)
           /\ Absent(q, i) => Absent(SubSeq(q, 1, m), i)
<1> DEFINE v == SubSeq(q, 1, m)
<1>1. v \in Seq(Frame) /\ Len(v) = m /\ Len(q) \in Nat /\ \A p \in 1 .. m : v[p] = q[p] /\ p \in 1 .. Len(q)
  BY LenProperties
<1> HIDE DEF v
<1>2. \A p \in 1 .. m : v[p].id = i => v[p].what[2] = FIN \/ (v[p].what[2] > k /\ v[p].what[2] <= n)
  BY <1>1 DEF Series
<1>3. ASSUME NEW p \in 1 .. m, NEW r \in p + 1 .. m, v[p].id = i, v[r].id = i
      PROVE  v[p].what[2] # FIN /\ (v[r].what[2] = FIN \/ v[p].what[2] < v[r].what[2])
  <2>1. p \in 1 .. Len(q) /\ r \in p + 1 .. Len(q) /\ v[p] = q[p] /\ v[r] = q[r]
    BY <1>1
  <2> QED
    BY <1>3, <2>1 DEF Series
<1>4. ASSUME NEW p \in 1 .. m, v[p].id = i, v[p].what[2] > k + 1
      PROVE  \E r \in 1 .. p - 1 : v[r].id = i /\ v[r].what[2] = v[p].what[2] - 1
  <2>1. PICK r \in 1 .. p - 1 : q[r].id = i /\ q[r].what[2] = q[p].what[2] - 1
    BY <1>1, <1>4 DEF Series
  <2>2. v[r] = q[r] /\ v[p] = q[p]
    BY <1>1
  <2> QED
    BY <2>1, <2>2
<1>5. ASSUME NEW p \in 1 .. m, v[p].id = i, v[p].what[2] = FIN, n > k
      PROVE  \E r \in 1 .. p - 1 : v[r].id = i /\ v[r].what[2] = n
  <2>1. PICK r \in 1 .. p - 1 : q[r].id = i /\ q[r].what[2] = n
    BY <1>1, <1>5 DEF Series
  <2>2. v[r] = q[r]
    BY <1>1
  <2> QED
    BY <2>1, <2>2
<1>6. Series(v, i, k, n)
  BY <1>1, <1>2, <1>3, <1>4, <1>5 DEF Series
<1>7. Absent(q, i) => Absent(v, i)
  BY <1>1 DEF Absent
<1> QED
  BY <1>6, <1>7 DEF v

\* The first frame is taken from a queue.
LEMMA FrameTaken ==
    ASSUME NEW q \in Seq(Frame), q # <<>>
    PROVE  /\ Tail(q) \in Seq(Frame) /\ Len(q) \in Nat /\ Len(q) >= 1 /\ Len(Tail(q)) = Len(q) - 1
           /\ \A p \in 1 .. Len(q) - 1 : Tail(q)[p] = q[p + 1]
           /\ Head(q) = q[1] /\ q[1] \in Frame
<1>1. Len(q) \in Nat /\ Len(q) >= 1
  BY EmptySeq, LenProperties
<1> QED
  BY <1>1, HeadTailProperties

\* It is of another stream.
LEMMA SeriesPassed ==
    ASSUME NEW q \in Seq(Frame), q # <<>>, NEW i \in Ids, q[1].id # i,
           NEW k \in Nat, NEW n \in Nat, Series(q, i, k, n)
    PROVE  /\ Series(Tail(q), i, k, n)
           /\ Complete(q, i, k, n) => Complete(Tail(q), i, k, n)
           /\ Absent(q, i) => Absent(Tail(q), i)
<1> DEFINE v == Tail(q)
           m == Len(q) - 1
<1>1. v \in Seq(Frame) /\ Len(v) = m /\ m \in Nat /\ Len(q) = m + 1 /\ \A p \in 1 .. m : v[p] = q[p + 1]
  BY FrameTaken
<1> HIDE DEF v, m
<1>2. \A p \in 1 .. m : p + 1 \in 1 .. Len(q)
  BY <1>1
<1>3. \A r \in 1 .. Len(q) : q[r].id = i => r - 1 \in 1 .. m /\ (r - 1) + 1 = r
  BY <1>1
<1>4. \A p \in 1 .. m : v[p].id = i => v[p].what[2] = FIN \/ (v[p].what[2] > k /\ v[p].what[2] <= n)
  BY <1>1, <1>2 DEF Series
<1>5. ASSUME NEW p \in 1 .. m, NEW r \in p + 1 .. m, v[p].id = i, v[r].id = i
      PROVE  v[p].what[2] # FIN /\ (v[r].what[2] = FIN \/ v[p].what[2] < v[r].what[2])
  <2>1. p + 1 \in 1 .. Len(q) /\ r + 1 \in (p + 1) + 1 .. Len(q) /\ v[p] = q[p + 1] /\ v[r] = q[r + 1]
    BY <1>1
  <2> QED
    BY <1>5, <2>1 DEF Series
<1>6. ASSUME NEW p \in 1 .. m, v[p].id = i, v[p].what[2] > k + 1
      PROVE  \E r \in 1 .. p - 1 : v[r].id = i /\ v[r].what[2] = v[p].what[2] - 1
  <2>1. PICK r \in 1 .. (p + 1) - 1 : q[r].id = i /\ q[r].what[2] = q[p + 1].what[2] - 1
    BY <1>1, <1>2, <1>6 DEF Series
  <2>2. r - 1 \in 1 .. p - 1 /\ v[r - 1] = q[r]
    <3>1. r \in 1 .. Len(q)
      BY <1>1
    <3>2. r - 1 \in 1 .. m /\ (r - 1) + 1 = r
      BY <1>3, <2>1, <3>1
    <3> QED
      BY <1>1, <3>2
  <2> QED
    BY <1>1, <2>1, <2>2
<1>7. ASSUME NEW p \in 1 .. m, v[p].id = i, v[p].what[2] = FIN, n > k
      PROVE  \E r \in 1 .. p - 1 : v[r].id = i /\ v[r].what[2] = n
  <2>1. PICK r \in 1 .. (p + 1) - 1 : q[r].id = i /\ q[r].what[2] = n
    BY <1>1, <1>2, <1>7 DEF Series
  <2>2. r - 1 \in 1 .. p - 1 /\ v[r - 1] = q[r]
    <3>1. r \in 1 .. Len(q)
      BY <1>1
    <3>2. r - 1 \in 1 .. m /\ (r - 1) + 1 = r
      BY <1>3, <2>1, <3>1
    <3> QED
      BY <1>1, <3>2
  <2> QED
    BY <2>1, <2>2
<1>8. Series(v, i, k, n)
  BY <1>1, <1>4, <1>5, <1>6, <1>7 DEF Series
<1>9. Complete(q, i, k, n) => Complete(v, i, k, n)
  <2> SUFFICES ASSUME NEW r \in 1 .. Len(q), q[r].id = i, q[r].what[2] = n
               PROVE  \E p \in 1 .. Len(v) : v[p].id = i /\ v[p].what[2] = n
    BY DEF Complete
  <2>1. r - 1 \in 1 .. m /\ v[r - 1] = q[r]
    BY <1>1, <1>3
  <2> QED
    BY <1>1, <2>1
<1>10. Absent(q, i) => Absent(v, i)
  BY <1>1, <1>2 DEF Absent
<1> QED
  BY <1>8, <1>9, <1>10 DEF v

\* It is of the stream: its next message,
LEMMA SeriesNext ==
    ASSUME NEW q \in Seq(Frame), q # <<>>, NEW i \in Ids, q[1].id = i, q[1].what[2] # FIN,
           NEW k \in Nat, NEW n \in Nat, Series(q, i, k, n)
    PROVE  /\ q[1].what[2] = k + 1 /\ k + 1 <= n
           /\ Series(Tail(q), i, k + 1, n)
           /\ Complete(q, i, k, n) => Complete(Tail(q), i, k + 1, n)
<1> DEFINE v == Tail(q)
           m == Len(q) - 1
<1>1. /\ v \in Seq(Frame) /\ Len(v) = m /\ m \in Nat /\ Len(q) = m + 1 /\ \A p \in 1 .. m : v[p] = q[p + 1]
      /\ 1 \in 1 .. Len(q) /\ \A p \in 1 .. Len(q) : q[p].what[2] \in Nat
  <2>1. \A p \in 1 .. Len(q) : q[p] \in Frame
    OBVIOUS
  <2>2. \A p \in 1 .. Len(q) : q[p].what[2] \in Nat
    BY <2>1 DEF Frame, What
  <2> QED
    BY <2>2, FrameTaken
<1> HIDE DEF v, m
<1>2. \A p \in 1 .. m : p + 1 \in 1 .. Len(q)
  BY <1>1
<1>3. q[1].what[2] = k + 1 /\ k + 1 <= n
  <2>1. q[1].what[2] > k /\ q[1].what[2] <= n
    BY <1>1 DEF Series
  <2>2. ~(q[1].what[2] > k + 1)
    <3> SUFFICES ASSUME q[1].what[2] > k + 1 PROVE FALSE
      OBVIOUS
    <3>1. \E r \in 1 .. 1 - 1 : q[r].id = i /\ q[r].what[2] = q[1].what[2] - 1
      BY <1>1 DEF Series
    <3> QED
      BY <3>1
  <2> QED
    BY <1>1, <2>1, <2>2
<1>4. \A p \in 1 .. m : v[p].id = i /\ v[p].what[2] # FIN => v[p].what[2] > k + 1 /\ v[p].what[2] <= n
  <2> SUFFICES ASSUME NEW p \in 1 .. m, v[p].id = i, v[p].what[2] # FIN
               PROVE  v[p].what[2] > k + 1 /\ v[p].what[2] <= n
    OBVIOUS
  <2>1. p + 1 \in 1 + 1 .. Len(q) /\ v[p] = q[p + 1]
    BY <1>1
  <2>2. q[1].what[2] < q[p + 1].what[2]
    BY <1>1, <2>1 DEF Series
  <2>3. q[p + 1].what[2] <= n
    BY <1>2, <2>1 DEF Series
  <2> QED
    BY <1>3, <2>1, <2>2, <2>3
<1>5. ASSUME NEW p \in 1 .. m, NEW r \in p + 1 .. m, v[p].id = i, v[r].id = i
      PROVE  v[p].what[2] # FIN /\ (v[r].what[2] = FIN \/ v[p].what[2] < v[r].what[2])
  <2>1. p + 1 \in 1 .. Len(q) /\ r + 1 \in (p + 1) + 1 .. Len(q) /\ v[p] = q[p + 1] /\ v[r] = q[r + 1]
    BY <1>1
  <2> QED
    BY <1>5, <2>1 DEF Series
<1>6. ASSUME NEW p \in 1 .. m, v[p].id = i, v[p].what[2] > (k + 1) + 1
      PROVE  \E r \in 1 .. p - 1 : v[r].id = i /\ v[r].what[2] = v[p].what[2] - 1
  <2>1. v[p] = q[p + 1] /\ p + 1 \in 1 .. Len(q) /\ q[p + 1].what[2] \in Nat
    BY <1>1, <1>2
  <2>2. q[p + 1].what[2] > k + 1
    BY <1>6, <2>1
  <2>3. PICK r \in 1 .. (p + 1) - 1 : q[r].id = i /\ q[r].what[2] = q[p + 1].what[2] - 1
    BY <1>6, <2>1, <2>2 DEF Series
  <2>4. r # 1
    BY <1>3, <1>6, <2>1, <2>3, SMTT(60)
  <2>5. r - 1 \in 1 .. m /\ r - 1 \in 1 .. p - 1 /\ (r - 1) + 1 = r
    BY <1>1, <2>4
  <2>6. v[r - 1] = q[r]
    BY <1>1, <2>5
  <2> QED
    BY <2>1, <2>3, <2>5, <2>6
<1>7. ASSUME NEW p \in 1 .. m, v[p].id = i, v[p].what[2] = FIN, n > k + 1
      PROVE  \E r \in 1 .. p - 1 : v[r].id = i /\ v[r].what[2] = n
  <2>1. PICK r \in 1 .. (p + 1) - 1 : q[r].id = i /\ q[r].what[2] = n
    <3>1. n > k
      BY <1>7
    <3> QED
      BY <1>1, <1>2, <1>7, <3>1 DEF Series
  <2>2. r # 1
    BY <1>3, <1>7, <2>1
  <2>3. r - 1 \in 1 .. m /\ r - 1 \in 1 .. p - 1 /\ (r - 1) + 1 = r
    BY <1>1, <2>2
  <2>4. v[r - 1] = q[r]
    BY <1>1, <2>3
  <2> QED
    BY <2>1, <2>3, <2>4
<1>8. Series(v, i, k + 1, n)
  BY <1>1, <1>4, <1>5, <1>6, <1>7 DEF Series
<1>9. Complete(q, i, k, n) => Complete(v, i, k + 1, n)
  <2> SUFFICES ASSUME Complete(q, i, k, n), n > k + 1
               PROVE  \E p \in 1 .. Len(v) : v[p].id = i /\ v[p].what[2] = n
    BY DEF Complete
  <2>1. PICK r \in 1 .. Len(q) : q[r].id = i /\ q[r].what[2] = n
    BY DEF Complete
  <2>2. r # 1
    BY <1>3, <2>1
  <2>3. r - 1 \in 1 .. m /\ (r - 1) + 1 = r
    BY <1>1, <2>2
  <2>4. v[r - 1] = q[r]
    BY <1>1, <2>3
  <2> QED
    BY <1>1, <2>1, <2>3, <2>4
<1> QED
  BY <1>3, <1>8, <1>9 DEF v

\* or its end, which is the last of it.
LEMMA SeriesEnd ==
    ASSUME NEW q \in Seq(Frame), q # <<>>, NEW i \in Ids, q[1].id = i, q[1].what[2] = FIN,
           NEW k \in Nat, NEW n \in Nat, Series(q, i, k, n)
    PROVE  n <= k /\ Absent(Tail(q), i)
<1>1. 1 \in 1 .. Len(q)
  BY FrameTaken
<1>2. ~(n > k)
  <2> SUFFICES ASSUME n > k PROVE FALSE
    OBVIOUS
  <2>1. \E r \in 1 .. 1 - 1 : q[r].id = i /\ q[r].what[2] = n
    BY <1>1 DEF Series
  <2> QED
    BY <2>1
<1>3. ASSUME NEW p \in 1 .. Len(Tail(q)), Tail(q)[p].id = i PROVE FALSE
  <2>1. p + 1 \in 1 + 1 .. Len(q) /\ Tail(q)[p] = q[p + 1]
    BY FrameTaken
  <2> QED
    BY <1>1, <1>3, <2>1 DEF Series
<1> QED
  BY <1>2, <1>3 DEF Absent
\* A stream of which no frame is left.
LEMMA SeriesOver ==
    ASSUME NEW q, NEW i, Absent(q, i), NEW k, NEW n
    PROVE  Series(q, i, k, n)
<1>1. \A p \in 1 .. Len(q) : q[p].id # i
  BY DEF Absent
<1> QED
  BY <1>1 DEF Series

\* Another message is counted as sent, but none of its frames will come.
LEMMA SeriesGrown ==
    ASSUME NEW q \in Seq(Frame), NEW i \in Ids, NEW k \in Nat, NEW n \in Nat, Series(q, i, k, n),
           \A p \in 1 .. Len(q) : q[p].id = i => q[p].what[2] # FIN
    PROVE  Series(q, i, k, n + 1)
<1>1. \A p \in 1 .. Len(q) : q[p].what[2] \in Nat
  <2>1. \A p \in 1 .. Len(q) : q[p] \in Frame
    OBVIOUS
  <2> QED
    BY <2>1 DEF Frame, What
<1>2. \A p \in 1 .. Len(q) : q[p].id = i => q[p].what[2] > k /\ q[p].what[2] <= n
  BY DEF Series
<1>3. \A p \in 1 .. Len(q) : q[p].id = i => q[p].what[2] > k /\ q[p].what[2] <= n + 1
  BY <1>1, <1>2
<1> QED
  BY <1>3 DEF Series

\* A frame joins a queue: of another stream,
LEMMA SeriesBeside ==
    ASSUME NEW q \in Seq(Frame), NEW f \in Frame, NEW i \in Ids, f.id # i,
           NEW k \in Nat, NEW n \in Nat, Series(q, i, k, n)
    PROVE  /\ Series(Append(q, f), i, k, n)
           /\ Complete(q, i, k, n) => Complete(Append(q, f), i, k, n)
           /\ Absent(q, i) => Absent(Append(q, f), i)
<1> DEFINE v == Append(q, f)
           m == Len(q)
<1>1. v \in Seq(Frame) /\ Len(v) = m + 1 /\ m \in Nat /\ v[m + 1] = f /\ \A p \in 1 .. m : v[p] = q[p]
  BY AppendProperties, LenProperties
<1> HIDE DEF v
<1>2. \A p \in 1 .. m + 1 : v[p].id = i => p \in 1 .. m /\ v[p] = q[p]
  BY <1>1
<1>3. \A p \in 1 .. m + 1 : v[p].id = i => v[p].what[2] = FIN \/ (v[p].what[2] > k /\ v[p].what[2] <= n)
  BY <1>2 DEF Series
<1>4. ASSUME NEW p \in 1 .. m + 1, NEW r \in p + 1 .. m + 1, v[p].id = i, v[r].id = i
      PROVE  v[p].what[2] # FIN /\ (v[r].what[2] = FIN \/ v[p].what[2] < v[r].what[2])
  <2>1. r \in 1 .. m + 1
    BY <1>1
  <2>2. p \in 1 .. Len(q) /\ r \in p + 1 .. Len(q) /\ v[p] = q[p] /\ v[r] = q[r]
    BY <1>2, <1>4, <2>1
  <2> QED
    BY <1>4, <2>2 DEF Series
<1>5. ASSUME NEW p \in 1 .. m + 1, v[p].id = i, v[p].what[2] > k + 1
      PROVE  \E r \in 1 .. p - 1 : v[r].id = i /\ v[r].what[2] = v[p].what[2] - 1
  <2>1. p \in 1 .. Len(q) /\ v[p] = q[p]
    BY <1>2, <1>5
  <2>2. PICK r \in 1 .. p - 1 : q[r].id = i /\ q[r].what[2] = q[p].what[2] - 1
    BY <1>5, <2>1 DEF Series
  <2>3. v[r] = q[r]
    BY <1>1, <2>1
  <2> QED
    BY <2>1, <2>2, <2>3
<1>6. ASSUME NEW p \in 1 .. m + 1, v[p].id = i, v[p].what[2] = FIN, n > k
      PROVE  \E r \in 1 .. p - 1 : v[r].id = i /\ v[r].what[2] = n
  <2>1. p \in 1 .. Len(q) /\ v[p] = q[p]
    BY <1>2, <1>6
  <2>2. PICK r \in 1 .. p - 1 : q[r].id = i /\ q[r].what[2] = n
    BY <1>6, <2>1 DEF Series
  <2>3. v[r] = q[r]
    BY <1>1, <2>1
  <2> QED
    BY <2>2, <2>3
<1>7. Series(v, i, k, n)
  BY <1>1, <1>3, <1>4, <1>5, <1>6 DEF Series
<1>8. Complete(q, i, k, n) => Complete(v, i, k, n)
  <2>1. \A r \in 1 .. m : r \in 1 .. m + 1
    BY <1>1
  <2> QED
    BY <1>1, <2>1 DEF Complete
<1>9. Absent(q, i) => Absent(v, i)
  BY <1>1, <1>2 DEF Absent
<1> QED
  BY <1>7, <1>8, <1>9 DEF v

\* its next message,
LEMMA SeriesSent ==
    ASSUME NEW q \in Seq(Frame), NEW f \in Frame, NEW i \in Ids, f.id = i,
           NEW k \in Nat, NEW n \in Nat, k <= n, f.what[2] = n + 1, Series(q, i, k, n),
           Complete(q, i, k, n), \A p \in 1 .. Len(q) : q[p].id = i => q[p].what[2] # FIN
    PROVE  Series(Append(q, f), i, k, n + 1) /\ Complete(Append(q, f), i, k, n + 1)
<1> DEFINE v == Append(q, f)
           m == Len(q)
<1>1. v \in Seq(Frame) /\ Len(v) = m + 1 /\ m \in Nat /\ v[m + 1] = f /\ \A p \in 1 .. m : v[p] = q[p]
  BY AppendProperties, LenProperties
<1>2. \A p \in 1 .. m : q[p].what[2] \in Nat
  <2>1. \A p \in 1 .. m : q[p] \in Frame
    OBVIOUS
  <2> QED
    BY <2>1 DEF Frame, What
<1> HIDE DEF v
<1>3. \A p \in 1 .. m : q[p].id = i => q[p].what[2] > k /\ q[p].what[2] <= n /\ q[p].what[2] # FIN
  BY DEF Series
<1>4. \A p \in 1 .. m + 1 : p \in 1 .. m \/ p = m + 1
  BY <1>1
<1>5. ASSUME NEW p \in 1 .. m + 1, v[p].id = i
      PROVE  v[p].what[2] > k /\ v[p].what[2] <= n + 1 /\ v[p].what[2] # FIN
  <2>1. CASE p \in 1 .. m
    BY <1>1, <1>2, <1>3, <1>5, <2>1
  <2>2. CASE p = m + 1
    BY <1>1, <2>2 DEF FIN
  <2> QED
    BY <1>4, <2>1, <2>2
<1>6. ASSUME NEW p \in 1 .. m + 1, NEW r \in p + 1 .. m + 1, v[p].id = i, v[r].id = i
      PROVE  v[p].what[2] < v[r].what[2]
  <2>1. p \in 1 .. m /\ v[p] = q[p] /\ q[p].id = i
    BY <1>1, <1>6
  <2>2. CASE r = m + 1
    <3>1. q[p].what[2] <= n /\ q[p].what[2] \in Nat
      BY <1>2, <1>3, <2>1
    <3> QED
      BY <1>1, <2>1, <2>2, <3>1
  <2>3. CASE r # m + 1
    <3>1. r \in p + 1 .. Len(q) /\ v[r] = q[r] /\ q[r].what[2] # FIN
      <4>1. r \in p + 1 .. Len(q) /\ r \in 1 .. Len(q)
        BY <1>1, <1>6, <2>3
      <4>2. v[r] = q[r]
        BY <1>1, <4>1
      <4> QED
        BY <1>3, <1>6, <4>1, <4>2
    <3> QED
      BY <1>6, <2>1, <3>1 DEF Series
  <2> QED
    BY <2>2, <2>3
<1>7. ASSUME NEW p \in 1 .. m + 1, v[p].id = i, v[p].what[2] > k + 1
      PROVE  \E r \in 1 .. p - 1 : v[r].id = i /\ v[r].what[2] = v[p].what[2] - 1
  <2>1. CASE p \in 1 .. m
    <3>1. PICK r \in 1 .. p - 1 : q[r].id = i /\ q[r].what[2] = q[p].what[2] - 1
      BY <1>1, <1>7, <2>1 DEF Series
    <3>2. v[r] = q[r] /\ v[p] = q[p]
      BY <1>1, <2>1
    <3> QED
      BY <3>1, <3>2
  <2>2. CASE p = m + 1
    <3>1. n > k
      BY <1>1, <1>7, <2>2
    <3>2. PICK r \in 1 .. m : q[r].id = i /\ q[r].what[2] = n
      BY <3>1 DEF Complete
    <3>3. v[r] = q[r]
      BY <1>1
    <3>4. r \in 1 .. p - 1
      BY <1>1, <2>2
    <3>5. v[p] = f
      BY <1>1, <2>2
    <3>6. v[p].what[2] = n + 1 /\ (n + 1) - 1 = n
      BY <3>5, SMTT(60)
    <3>7. v[p].what[2] - 1 = n
      BY ONLY <3>6
    <3> QED
      BY <3>2, <3>3, <3>4, <3>7
  <2> QED
    BY <1>4, <2>1, <2>2
<1>8. Series(v, i, k, n + 1)
  BY <1>1, <1>5, <1>6, <1>7 DEF Series
<1>9. Complete(v, i, k, n + 1)
  <2>1. m + 1 \in 1 .. Len(v) /\ v[m + 1].id = i /\ v[m + 1].what[2] = n + 1
    BY <1>1
  <2> QED
    BY <2>1 DEF Complete
<1> QED
  BY <1>8, <1>9 DEF v

\* or its end.
LEMMA SeriesFinished ==
    ASSUME NEW q \in Seq(Frame), NEW f \in Frame, NEW i \in Ids, f.id = i,
           NEW k \in Nat, NEW n \in Nat, f.what[2] = FIN, Series(q, i, k, n),
           Complete(q, i, k, n), \A p \in 1 .. Len(q) : q[p].id = i => q[p].what[2] # FIN
    PROVE  Series(Append(q, f), i, k, n) /\ Complete(Append(q, f), i, k, n)
<1> DEFINE v == Append(q, f)
           m == Len(q)
<1>1. v \in Seq(Frame) /\ Len(v) = m + 1 /\ m \in Nat /\ v[m + 1] = f /\ \A p \in 1 .. m : v[p] = q[p]
  BY AppendProperties, LenProperties
<1> HIDE DEF v
<1>2. \A p \in 1 .. m : q[p].id = i => q[p].what[2] > k /\ q[p].what[2] <= n /\ q[p].what[2] # FIN
  BY DEF Series
<1>3. \A p \in 1 .. m + 1 : p \in 1 .. m \/ p = m + 1
  BY <1>1
<1>4. ASSUME NEW p \in 1 .. m + 1, v[p].id = i
      PROVE  v[p].what[2] = FIN \/ (v[p].what[2] > k /\ v[p].what[2] <= n)
  BY <1>1, <1>2, <1>3, <1>4
<1>5. ASSUME NEW p \in 1 .. m + 1, NEW r \in p + 1 .. m + 1, v[p].id = i, v[r].id = i
      PROVE  v[p].what[2] # FIN /\ (v[r].what[2] = FIN \/ v[p].what[2] < v[r].what[2])
  <2>1. p \in 1 .. m /\ v[p] = q[p] /\ q[p].id = i /\ q[p].what[2] # FIN
    BY <1>1, <1>2, <1>5
  <2>2. CASE r = m + 1
    BY <1>1, <2>1, <2>2
  <2>3. CASE r # m + 1
    <3>1. r \in p + 1 .. m
      BY <1>1, <2>3
    <3>2. v[r] = q[r]
      BY <1>1, <3>1
    <3> QED
      BY <1>5, <2>1, <3>1, <3>2 DEF Series
  <2> QED
    BY <2>2, <2>3
<1>6. ASSUME NEW p \in 1 .. m + 1, v[p].id = i, v[p].what[2] > k + 1
      PROVE  \E r \in 1 .. p - 1 : v[r].id = i /\ v[r].what[2] = v[p].what[2] - 1
  <2>1. p # m + 1
    BY <1>1, <1>6 DEF FIN
  <2>2. p \in 1 .. m
    BY <1>3, <2>1
  <2>3. PICK r \in 1 .. p - 1 : q[r].id = i /\ q[r].what[2] = q[p].what[2] - 1
    BY <1>1, <1>6, <2>2 DEF Series
  <2>4. v[r] = q[r] /\ v[p] = q[p]
    BY <1>1, <2>2
  <2> QED
    BY <2>3, <2>4
<1>7. ASSUME NEW p \in 1 .. m + 1, v[p].id = i, v[p].what[2] = FIN, n > k
      PROVE  \E r \in 1 .. p - 1 : v[r].id = i /\ v[r].what[2] = n
  <2>1. p = m + 1
    BY <1>1, <1>2, <1>3, <1>7
  <2>2. PICK r \in 1 .. m : q[r].id = i /\ q[r].what[2] = n
    BY <1>7 DEF Complete
  <2>3. v[r] = q[r] /\ r \in 1 .. p - 1
    BY <1>1, <2>1
  <2> QED
    BY <2>2, <2>3
<1>8. Series(v, i, k, n)
  BY <1>1, <1>4, <1>5, <1>6, <1>7 DEF Series
<1>9. Complete(v, i, k, n)
  <2>1. \A r \in 1 .. m : r \in 1 .. m + 1 /\ v[r] = q[r]
    BY <1>1
  <2> QED
    BY <1>1, <2>1 DEF Complete
<1> QED
  BY <1>8, <1>9 DEF v

(***************************************************************************)
(* The way of the messages to one end, and what the steps do to it.        *)
(***************************************************************************)
WayTypes(i, g, c, h, w, q, n) ==
    /\ i \in Ids /\ g \in Nat /\ c \in Seq(What) /\ h \in {0, 1} /\ w \in What /\ q \in Seq(Frame) /\ n \in Nat

\* What is counted on the way of the messages is counted in numbers.
LEMMA WayCounted ==
    ASSUME NEW i, NEW g, NEW eof, NEW c, NEW h, NEW w, NEW q, NEW n, NEW d, NEW net,
           WayTypes(i, g, c, h, w, q, n)
    PROVE  /\ Len(c) \in Nat /\ g + Len(c) + h \in Nat
           /\ \A k \in 1 .. Len(c) : c[k] \in What /\ c[k][2] \in Nat
           /\ w[2] \in Nat
           /\ \A p \in 1 .. Len(q) : q[p] \in Frame
<1>1. Len(c) \in Nat
  BY LenProperties DEF WayTypes
<1>2. \A k \in 1 .. Len(c) : c[k] \in What
  BY DEF WayTypes
<1>3. \A k \in 1 .. Len(c) : c[k][2] \in Nat
  BY <1>2 DEF What
<1>4. w[2] \in Nat
  BY DEF WayTypes, What
<1>5. \A p \in 1 .. Len(q) : q[p] \in Frame
  BY DEF WayTypes
<1>6. g + Len(c) + h \in Nat
  BY <1>1 DEF WayTypes
<1> QED
  BY <1>1, <1>2, <1>3, <1>4, <1>5, <1>6

\* No more was taken than was sent, as long as the end has not come.
LEMMA WaySpan ==
    ASSUME NEW i, NEW g, NEW eof, NEW c, NEW h, NEW w, NEW q, NEW n, NEW d, NEW net,
           WayTypes(i, g, c, h, w, q, n), Way(i, g, eof, c, h, w, q, n, d, net), g <= n,
           \A k \in 1 .. Len(c) : c[k][2] # FIN, h = 0 \/ w[2] # FIN
    PROVE  g + Len(c) + h <= n
<1>1. Len(c) \in Nat /\ g \in Nat /\ n \in Nat /\ h \in {0, 1}
  BY WayCounted DEF WayTypes
<1>2. CASE h = 1
  BY <1>1, <1>2 DEF Way
<1>3. CASE h = 0 /\ Len(c) = 0
  BY <1>1, <1>3
<1>4. CASE h = 0 /\ Len(c) > 0
  <2>1. Len(c) \in 1 .. Len(c)
    BY <1>1, <1>4
  <2>2. g + Len(c) <= n
    BY <2>1 DEF Way
  <2> QED
    BY <1>1, <1>4, <2>2
<1> QED
  BY <1>1, <1>2, <1>3, <1>4

\* The socket is lost.
LEMMA WayLost ==
    ASSUME NEW i, NEW g, NEW eof, NEW c, NEW h, NEW w, NEW q, NEW n, NEW d, NEW net,
           WayTypes(i, g, c, h, w, q, n), Way(i, g, eof, c, h, w, q, n, d, net), NEW m \in 0 .. Len(q)
    PROVE  Way(i, g, eof, c, h, w, SubSeq(q, 1, m), n, d, "down")
<1> DEFINE k == g + Len(c) + h
           v == SubSeq(q, 1, m)
<1>1. k \in Nat /\ i \in Ids /\ n \in Nat /\ q \in Seq(Frame)
  BY WayCounted DEF WayTypes
<1>2. Series(q, i, k, n)
  BY DEF Way
<1> HIDE DEF k
<1>3. Series(v, i, k, n) /\ (Absent(q, i) => Absent(v, i))
  BY <1>1, <1>2, SeriesFront
<1> HIDE DEF v
<1> USE DEF k
<1> QED
  BY <1>3 DEF Way, v

\* A frame of another stream joins the queue, or leaves it.
LEMMA WayBeside ==
    ASSUME NEW i, NEW g, NEW eof, NEW c, NEW h, NEW w, NEW q, NEW n, NEW d, NEW net,
           WayTypes(i, g, c, h, w, q, n), Way(i, g, eof, c, h, w, q, n, d, net),
           NEW f \in Frame, f.id # i
    PROVE  Way(i, g, eof, c, h, w, Append(q, f), n, d, net)
<1> DEFINE k == g + Len(c) + h
           v == Append(q, f)
<1>1. k \in Nat /\ i \in Ids /\ n \in Nat /\ q \in Seq(Frame)
  BY WayCounted DEF WayTypes
<1>2. Series(q, i, k, n)
  BY DEF Way
<1> HIDE DEF k
<1>3. /\ Series(v, i, k, n) /\ (Absent(q, i) => Absent(v, i))
      /\ Complete(q, i, k, n) => Complete(v, i, k, n)
  BY <1>1, <1>2, SeriesBeside
<1> HIDE DEF v
<1> USE DEF k
<1> QED
  BY <1>3 DEF Way, v

\* The first frame is of another stream and leaves.
LEMMA WayPassed ==
    ASSUME NEW i, NEW g, NEW eof, NEW c, NEW h, NEW w, NEW q, NEW n, NEW d, NEW net,
           WayTypes(i, g, c, h, w, q, n), Way(i, g, eof, c, h, w, q, n, d, net),
           q # <<>>, q[1].id # i
    PROVE  Way(i, g, eof, c, h, w, Tail(q), n, d, net)
<1> DEFINE k == g + Len(c) + h
           v == Tail(q)
<1>1. k \in Nat /\ i \in Ids /\ n \in Nat /\ q \in Seq(Frame)
  BY WayCounted DEF WayTypes
<1>2. Series(q, i, k, n)
  BY DEF Way
<1> HIDE DEF k
<1>3. /\ Series(v, i, k, n) /\ (Absent(q, i) => Absent(v, i))
      /\ Complete(q, i, k, n) => Complete(v, i, k, n)
  BY <1>1, <1>2, SeriesPassed
<1> HIDE DEF v
<1> USE DEF k
<1> QED
  BY <1>3 DEF Way, v

\* The other end sends a message, on a socket that is up
LEMMA WaySent ==
    ASSUME NEW i, NEW g, NEW eof, NEW c, NEW h, NEW w, NEW q, NEW n, NEW d, NEW net,
           WayTypes(i, g, c, h, w, q, n), Way(i, g, eof, c, h, w, q, n, d, net),
           net = "up", d = FALSE, eof = TRUE => d = TRUE, g <= n,
           \A p \in 1 .. Len(q) : q[p].id = i => q[p].what[2] # FIN,
           NEW f \in Frame, f.id = i, f.what[2] = n + 1
    PROVE  Way(i, g, eof, c, h, w, Append(q, f), n + 1, d, net)
<1> DEFINE k == g + Len(c) + h
           v == Append(q, f)
<1>1. k \in Nat /\ i \in Ids /\ n \in Nat /\ q \in Seq(Frame) /\ h \in {0, 1} /\ g \in Nat /\ Len(c) \in Nat
  BY WayCounted DEF WayTypes
<1>2. Series(q, i, k, n) /\ Complete(q, i, k, n)
  BY DEF Way
<1>3. (\A j \in 1 .. Len(c) : c[j][2] # FIN) /\ (h = 0 \/ w[2] # FIN) /\ eof # TRUE
  BY <1>1 DEF Way
<1>4. k <= n
  BY <1>3, WaySpan
<1> HIDE DEF k
<1>5. Series(v, i, k, n + 1) /\ Complete(v, i, k, n + 1)
  BY <1>1, <1>2, <1>4, SeriesSent
<1> HIDE DEF v
<1> USE DEF k
<1>6. \A j \in 1 .. Len(c) : c[j] = <<Opener(i), g + j>> /\ g + j <= n + 1
  <2>1. \A j \in 1 .. Len(c) : c[j] = <<Opener(i), g + j>> /\ g + j <= n
    BY <1>3 DEF Way
  <2>2. \A j \in 1 .. Len(c) : g + j <= n => g + j <= n + 1
    BY <1>1
  <2> QED
    BY <2>1, <2>2
<1>7. h = 1 => w = <<Opener(i), g + Len(c) + 1>> /\ g + Len(c) + 1 <= n + 1
  <2>1. h = 1 => w = <<Opener(i), g + Len(c) + 1>> /\ g + Len(c) + 1 <= n
    BY <1>3 DEF Way
  <2> QED
    BY <1>1, <2>1
<1>8. Way(i, g, eof, c, h, w, v, n + 1, d, net)
  BY <1>1, <1>3, <1>5, <1>6, <1>7 DEF Way
<1> QED
  BY <1>8 DEF v

\* or on one that is down.
LEMMA WayGrown ==
    ASSUME NEW i, NEW g, NEW eof, NEW c, NEW h, NEW w, NEW q, NEW n, NEW d, NEW net,
           WayTypes(i, g, c, h, w, q, n), Way(i, g, eof, c, h, w, q, n, d, net),
           net = "down", \A p \in 1 .. Len(q) : q[p].id = i => q[p].what[2] # FIN
    PROVE  Way(i, g, eof, c, h, w, q, n + 1, d, net)
<1> DEFINE k == g + Len(c) + h
<1>1. k \in Nat /\ i \in Ids /\ n \in Nat /\ q \in Seq(Frame) /\ h \in {0, 1} /\ g \in Nat /\ Len(c) \in Nat
  BY WayCounted DEF WayTypes
<1>2. Series(q, i, k, n)
  BY DEF Way
<1> HIDE DEF k
<1>3. Series(q, i, k, n + 1)
  BY <1>1, <1>2, SeriesGrown
<1> USE DEF k
<1>4. \A j \in 1 .. Len(c) : c[j][2] # FIN =>
          c[j] = <<Opener(i), g + j>> /\ g + j <= n + 1 /\ \A l \in 1 .. j - 1 : c[l][2] # FIN
  <2>1. \A j \in 1 .. Len(c) : c[j][2] # FIN =>
          c[j] = <<Opener(i), g + j>> /\ g + j <= n /\ \A l \in 1 .. j - 1 : c[l][2] # FIN
    BY DEF Way
  <2>2. \A j \in 1 .. Len(c) : g + j <= n => g + j <= n + 1
    BY <1>1
  <2> QED
    BY <2>1, <2>2
<1>5. h = 1 /\ w[2] # FIN =>
          /\ w = <<Opener(i), g + Len(c) + 1>> /\ g + Len(c) + 1 <= n + 1
          /\ \A j \in 1 .. Len(c) : c[j][2] # FIN
  <2>1. h = 1 /\ w[2] # FIN =>
          /\ w = <<Opener(i), g + Len(c) + 1>> /\ g + Len(c) + 1 <= n
          /\ \A j \in 1 .. Len(c) : c[j][2] # FIN
    BY DEF Way
  <2> QED
    BY <1>1, <2>1
<1>6. eof = TRUE \/ (\E j \in 1 .. Len(c) : c[j][2] = FIN) \/ (h = 1 /\ w[2] = FIN) => Absent(q, i)
  BY DEF Way
<1> QED
  BY <1>3, <1>4, <1>5, <1>6 DEF Way

\* The other end finishes.
LEMMA WayFinished ==
    ASSUME NEW i, NEW g, NEW eof, NEW c, NEW h, NEW w, NEW q, NEW n, NEW d, NEW net,
           WayTypes(i, g, c, h, w, q, n), Way(i, g, eof, c, h, w, q, n, d, net),
           net = "up", d = FALSE, eof = TRUE => d = TRUE,
           \A p \in 1 .. Len(q) : q[p].id = i => q[p].what[2] # FIN,
           NEW f \in Frame, f.id = i, f.what[2] = FIN
    PROVE  Way(i, g, eof, c, h, w, Append(q, f), n, TRUE, net)
<1> DEFINE k == g + Len(c) + h
           v == Append(q, f)
<1>1. k \in Nat /\ i \in Ids /\ n \in Nat /\ q \in Seq(Frame) /\ h \in {0, 1}
  BY WayCounted DEF WayTypes
<1>2. Series(q, i, k, n) /\ Complete(q, i, k, n)
  BY DEF Way
<1>3. (\A j \in 1 .. Len(c) : c[j][2] # FIN) /\ (h = 0 \/ w[2] # FIN) /\ eof # TRUE
  BY <1>1 DEF Way
<1> HIDE DEF k
<1>4. Series(v, i, k, n) /\ Complete(v, i, k, n)
  BY <1>1, <1>2, SeriesFinished
<1> HIDE DEF v
<1> USE DEF k
<1>5. Way(i, g, eof, c, h, w, v, n, TRUE, net)
  BY <1>1, <1>3, <1>4 DEF Way
<1> QED
  BY <1>5 DEF v

\* The reader takes a frame of the stream in its hand,
LEMMA WayTaken ==
    ASSUME NEW i, NEW g, NEW eof, NEW c, NEW h, NEW w, NEW q, NEW n, NEW d, NEW net,
           WayTypes(i, g, c, h, w, q, n), Way(i, g, eof, c, h, w, q, n, d, net),
           q # <<>>, q[1].id = i, h = 0, g <= n, q[1].what[2] = FIN => d = TRUE,
           q[1].what = <<Opener(i), q[1].what[2]>>
    PROVE  /\ Way(i, g, eof, c, 1, q[1].what, Tail(q), n, d, net)
           /\ \A k \in 1 .. Len(c) : c[k][2] # FIN
           /\ eof # TRUE
<1> DEFINE k == g + Len(c)
           x == q[1].what
           v == Tail(q)
<1>1. /\ k \in Nat /\ i \in Ids /\ n \in Nat /\ q \in Seq(Frame) /\ g \in Nat /\ Len(c) \in Nat
      /\ g + Len(c) + h = k /\ x[2] \in Nat /\ 1 \in 1 .. Len(q)
  <2>1. q \in Seq(Frame)
    BY DEF WayTypes
  <2>2. q[1] \in Frame /\ 1 \in 1 .. Len(q)
    BY <2>1, FrameTaken
  <2>3. x[2] \in Nat
    BY <2>2 DEF Frame, What
  <2> QED
    BY <2>1, <2>2, <2>3, WayCounted DEF WayTypes
<1>2. Series(q, i, k, n) /\ (net = "up" => Complete(q, i, k, n))
  BY <1>1 DEF Way
<1>3. (\A j \in 1 .. Len(c) : c[j][2] # FIN) /\ eof # TRUE
  <2>1. ~Absent(q, i)
    BY <1>1 DEF Absent
  <2> QED
    BY <2>1 DEF Way
<1>4. k <= n
  BY <1>1, <1>3, WaySpan
<1>5. \A j \in 1 .. Len(c) : c[j] = <<Opener(i), g + j>> /\ g + j <= n
  BY <1>3 DEF Way
<1>6. CASE x[2] # FIN
  <2> HIDE DEF k, v
  <2>1. x[2] = k + 1 /\ k + 1 <= n /\ Series(v, i, k + 1, n) /\ (net = "up" => Complete(v, i, k + 1, n))
    BY <1>1, <1>2, <1>6, SeriesNext DEF v
  <2>2. x = <<Opener(i), x[2]>>
    OBVIOUS
  <2> HIDE DEF x
  <2> USE DEF k
  <2>3. Way(i, g, eof, c, 1, x, v, n, d, net)
    BY <1>1, <1>3, <1>5, <1>6, <2>1, <2>2 DEF Way
  <2> QED
    BY <1>3, <2>3 DEF x, v
<1>7. CASE x[2] = FIN
  <2> HIDE DEF k, v
  <2>1. n <= k /\ Absent(v, i)
    BY <1>1, <1>2, <1>7, SeriesEnd DEF v
  <2>2. Series(v, i, k + 1, n)
    BY <2>1, SeriesOver
  <2>3. Complete(v, i, k + 1, n)
    BY <1>1, <2>1 DEF Complete
  <2>4. k = n
    BY <1>1, <1>4, <2>1
  <2> HIDE DEF x
  <2> USE DEF k
  <2>5. d = TRUE
    BY <1>7 DEF x
  <2>6. Way(i, g, eof, c, 1, x, v, n, d, net)
    BY <1>1, <1>3, <1>5, <1>7, <2>1, <2>2, <2>3, <2>4, <2>5 DEF Way
  <2> QED
    BY <1>3, <2>6 DEF x, v
<1> QED
  BY <1>6, <1>7

\* and puts it into the channel; what tells of the loss goes the same way.
LEMMA WayDelivered ==
    ASSUME NEW i, NEW g, NEW eof, NEW c, NEW h, NEW w, NEW q, NEW n, NEW d, NEW net,
           WayTypes(i, g, c, h, w, q, n), Way(i, g, eof, c, h, w, q, n, d, net), h = 1, NEW w2
    PROVE  Way(i, g, eof, Append(c, w), 0, w2, q, n, d, net)
<1> DEFINE z == Append(c, w)
           m == Len(c)
<1>1. /\ m \in Nat /\ g \in Nat /\ n \in Nat
      /\ Len(z) = m + 1 /\ z[m + 1] = w /\ \A k \in 1 .. m : z[k] = c[k]
  BY WayCounted, AppendProperties DEF WayTypes
<1> HIDE DEF z
<1>2. g + Len(z) + 0 = g + Len(c) + h
  BY <1>1
<1>3. \A k \in 1 .. Len(z) : k \in 1 .. m \/ k = m + 1
  BY <1>1
<1>4. (\E k \in 1 .. Len(z) : z[k][2] = FIN) => (\E k \in 1 .. m : c[k][2] = FIN) \/ w[2] = FIN
  BY <1>1, <1>3
<1>5. ASSUME NEW k \in 1 .. Len(z), z[k][2] # FIN
      PROVE  z[k] = <<Opener(i), g + k>> /\ g + k <= n /\ \A j \in 1 .. k - 1 : z[j][2] # FIN
  <2>1. CASE k \in 1 .. m
    <3>1. z[k] = c[k] /\ \A j \in 1 .. k - 1 : z[j] = c[j]
      BY <1>1, <2>1
    <3>2. c[k] = <<Opener(i), g + k>> /\ g + k <= n /\ \A j \in 1 .. k - 1 : c[j][2] # FIN
      BY <1>5, <2>1, <3>1 DEF Way
    <3> QED
      BY <3>1, <3>2
  <2>2. CASE k = m + 1
    <3>1. z[k] = w /\ g + k = g + m + 1 /\ \A j \in 1 .. k - 1 : j \in 1 .. m /\ z[j] = c[j]
      BY <1>1, <2>2
    <3>2. w = <<Opener(i), g + m + 1>> /\ g + m + 1 <= n /\ \A j \in 1 .. m : c[j][2] # FIN
      BY <1>5, <3>1 DEF Way
    <3> QED
      BY <3>1, <3>2
  <2> QED
    BY <1>3, <2>1, <2>2
<1>6. ASSUME net = "up", NEW k \in 1 .. Len(z), z[k][2] = FIN
      PROVE  k = Len(z) /\ 0 = 0 /\ d = TRUE /\ g + k - 1 = n
  <2>1. CASE k \in 1 .. m
    BY <1>1, <1>6, <2>1 DEF Way
  <2>2. CASE k = m + 1
    <3>1. d = TRUE /\ g + m = n
      BY <1>1, <1>6, <2>2 DEF Way
    <3> QED
      BY <1>1, <2>2, <3>1
  <2> QED
    BY <1>3, <2>1, <2>2
<1>7. Way(i, g, eof, z, 0, w2, q, n, d, net)
  <2>1. Series(q, i, g + Len(z) + 0, n) /\ (net = "up" => Complete(q, i, g + Len(z) + 0, n))
    BY <1>2 DEF Way
  <2>2. eof = TRUE \/ (\E k \in 1 .. Len(z) : z[k][2] = FIN) \/ (0 = 1 /\ w2[2] = FIN) => Absent(q, i)
    BY <1>4 DEF Way
  <2>3. net = "up" => \A k \in 1 .. Len(z) : z[k][2] = FIN =>
          k = Len(z) /\ 0 = 0 /\ d = TRUE /\ g + k - 1 = n
    BY <1>6
  <2>4. 0 # 1
    OBVIOUS
  <2> QED
    BY <1>5, <2>1, <2>2, <2>3, <2>4 DEF Way
<1> QED
  BY <1>7 DEF z

\* A stream is told that the socket is lost.
LEMMA WayTold ==
    ASSUME NEW i, NEW g, NEW eof, NEW c, NEW h, NEW w, NEW q, NEW n, NEW d, NEW net,
           WayTypes(i, g, c, h, w, q, n), Way(i, g, eof, c, h, w, q, n, d, net), h = 0,
           net = "down", q = <<>>, NEW x \in What, x[2] = FIN
    PROVE  Way(i, g, eof, Append(c, x), h, w, q, n, d, net)
<1> DEFINE z == Append(c, x)
           m == Len(c)
<1>1. /\ m \in Nat /\ g \in Nat /\ n \in Nat
      /\ Len(z) = m + 1 /\ z[m + 1] = x /\ \A k \in 1 .. m : z[k] = c[k]
  BY WayCounted, AppendProperties DEF WayTypes
<1> HIDE DEF z
<1>2. Absent(q, i)
  BY DEF Absent
<1>3. Series(q, i, g + Len(z) + h, n)
  BY <1>2, SeriesOver
<1>4. ASSUME NEW k \in 1 .. Len(z), z[k][2] # FIN
      PROVE  z[k] = <<Opener(i), g + k>> /\ g + k <= n /\ \A j \in 1 .. k - 1 : z[j][2] # FIN
  <2>1. k \in 1 .. m
    BY <1>1, <1>4
  <2>2. z[k] = c[k] /\ \A j \in 1 .. k - 1 : z[j] = c[j]
    BY <1>1, <2>1
  <2>3. c[k] = <<Opener(i), g + k>> /\ g + k <= n /\ \A j \in 1 .. k - 1 : c[j][2] # FIN
    BY <1>4, <2>1, <2>2 DEF Way
  <2> QED
    BY <2>2, <2>3
<1>5. Way(i, g, eof, z, h, w, q, n, d, net)
  BY <1>2, <1>3, <1>4 DEF Way
<1> QED
  BY <1>5 DEF z

\* A new stream starts with the message that made it.
LEMMA WayNew ==
    ASSUME NEW i, NEW g, NEW eof, NEW c, NEW h, NEW w, NEW q, NEW n, NEW d, NEW net,
           WayTypes(i, g, c, h, w, q, n), Way(i, g, eof, c, h, w, q, n, d, net), c = <<>>, h = 0,
           q # <<>>, q[1].id = i, g <= n, q[1].what[2] # FIN,
           q[1].what = <<Opener(i), q[1].what[2]>>, NEW w2
    PROVE  Way(i, g, eof, <<q[1].what>>, 0, w2, Tail(q), n, d, net)
<1> DEFINE x == q[1].what
<1>1. Way(i, g, eof, c, 1, x, Tail(q), n, d, net)
  BY WayTaken
<1>2. x \in What /\ Tail(q) \in Seq(Frame)
  <2>1. q \in Seq(Frame)
    BY DEF WayTypes
  <2>2. q[1] \in Frame /\ Tail(q) \in Seq(Frame)
    BY <2>1, FrameTaken
  <2> QED
    BY <2>2 DEF Frame
<1>3. WayTypes(i, g, c, 1, x, Tail(q), n)
  BY <1>2 DEF WayTypes
<1> HIDE DEF x
<1>4. Way(i, g, eof, Append(c, x), 0, w2, Tail(q), n, d, net)
  BY <1>1, <1>3, WayDelivered
<1>5. Append(c, x) = <<x>>
  OBVIOUS
<1> QED
  BY <1>4, <1>5 DEF x

\* The end of a stream that is not there is passed over.
LEMMA WaySkipped ==
    ASSUME NEW i, NEW g, NEW eof, NEW c, NEW h, NEW w, NEW q, NEW n, NEW d, NEW net,
           WayTypes(i, g, c, h, w, q, n), Way(i, g, eof, c, h, w, q, n, d, net), c = <<>>, h = 0,
           q # <<>>, q[1].id = i, q[1].what[2] = FIN, NEW w2
    PROVE  Way(i, g, eof, c, h, w2, Tail(q), n, d, net)
<1> DEFINE k == g + Len(c) + h
<1>1. k \in Nat /\ i \in Ids /\ n \in Nat /\ q \in Seq(Frame)
  BY WayCounted DEF WayTypes
<1>2. Series(q, i, k, n)
  BY DEF Way
<1> HIDE DEF k
<1>3. n <= k /\ Absent(Tail(q), i)
  BY <1>1, <1>2, SeriesEnd
<1>4. Series(Tail(q), i, k, n) /\ Complete(Tail(q), i, k, n)
  BY <1>1, <1>3, SeriesOver DEF Complete
<1>5. 1 .. Len(c) = {} /\ h # 1
  OBVIOUS
<1> USE DEF k
<1> QED
  BY <1>3, <1>4, <1>5 DEF Way

\* With nothing in the reader's hand, what was there last does not matter.
LEMMA WayHandless ==
    ASSUME NEW i, NEW g, NEW eof, NEW c, NEW h, NEW w, NEW q, NEW n, NEW d, NEW net,
           Way(i, g, eof, c, h, w, q, n, d, net), h = 0, NEW w2
    PROVE  Way(i, g, eof, c, h, w2, q, n, d, net)
  BY DEF Way

\* The end receives a message,
LEMMA WayGot ==
    ASSUME NEW i, NEW g, NEW eof, NEW c, NEW h, NEW w, NEW q, NEW n, NEW d, NEW net,
           WayTypes(i, g, c, h, w, q, n), Way(i, g, eof, c, h, w, q, n, d, net),
           c # <<>>, c[1][2] # FIN
    PROVE  /\ Way(i, g + 1, eof, Tail(c), h, w, q, n, d, net)
           /\ c[1] = <<Opener(i), g + 1>> /\ g + 1 <= n
<1> DEFINE z == Tail(c)
           m == Len(c) - 1
<1>1. /\ m \in Nat /\ Len(c) = m + 1 /\ Len(z) = m /\ \A k \in 1 .. m : z[k] = c[k + 1] /\ k + 1 \in 1 .. Len(c)
      /\ g \in Nat /\ n \in Nat /\ h \in {0, 1} /\ 1 \in 1 .. Len(c)
  <2>1. c \in Seq(What) /\ Len(c) \in Nat /\ Len(c) # 0
    BY WayCounted, EmptySeq DEF WayTypes
  <2> QED
    BY <2>1, HeadTailProperties DEF WayTypes
<1> HIDE DEF z, m
<1>2. (g + 1) + Len(z) + h = g + Len(c) + h /\ (g + 1) + Len(z) = g + Len(c)
  BY <1>1
<1>3. c[1] = <<Opener(i), g + 1>> /\ g + 1 <= n
  BY <1>1 DEF Way
<1>4. \A k \in 1 .. Len(z) : z[k] = c[k + 1] /\ k + 1 \in 1 .. Len(c)
  BY <1>1
<1>5. ASSUME NEW k \in 1 .. Len(z), z[k][2] # FIN
      PROVE  z[k] = <<Opener(i), (g + 1) + k>> /\ (g + 1) + k <= n /\ \A j \in 1 .. k - 1 : z[j][2] # FIN
  <2>1. /\ c[k + 1] = <<Opener(i), g + (k + 1)>> /\ g + (k + 1) <= n
        /\ \A j \in 1 .. (k + 1) - 1 : c[j][2] # FIN
    BY <1>4, <1>5 DEF Way
  <2>2. g + (k + 1) = (g + 1) + k
    BY <1>1
  <2>3. \A j \in 1 .. k - 1 : j + 1 \in 1 .. (k + 1) - 1 /\ z[j] = c[j + 1]
    BY <1>1
  <2> QED
    BY <1>4, <2>1, <2>2, <2>3
<1>6. ASSUME net = "up", NEW k \in 1 .. Len(z), z[k][2] = FIN
      PROVE  k = Len(z) /\ h = 0 /\ d = TRUE /\ (g + 1) + k - 1 = n
  <2>1. k + 1 = Len(c) /\ h = 0 /\ d = TRUE /\ g + (k + 1) - 1 = n
    BY <1>4, <1>6 DEF Way
  <2> QED
    BY <1>1, <2>1
<1>7. h = 1 /\ w[2] # FIN =>
          /\ w = <<Opener(i), (g + 1) + Len(z) + 1>> /\ (g + 1) + Len(z) + 1 <= n
          /\ \A k \in 1 .. Len(z) : z[k][2] # FIN
  BY <1>2, <1>4 DEF Way
<1>8. h = 1 /\ w[2] = FIN /\ net = "up" =>
          d = TRUE /\ (g + 1) + Len(z) = n /\ \A k \in 1 .. Len(z) : z[k][2] # FIN
  BY <1>2, <1>4 DEF Way
<1>9. /\ Series(q, i, (g + 1) + Len(z) + h, n)
      /\ net = "up" => Complete(q, i, (g + 1) + Len(z) + h, n)
  BY <1>2 DEF Way
<1>10. eof = TRUE \/ (\E k \in 1 .. Len(z) : z[k][2] = FIN) \/ (h = 1 /\ w[2] = FIN) => Absent(q, i)
  BY <1>4 DEF Way
<1>11. Way(i, g + 1, eof, z, h, w, q, n, d, net)
  BY <1>5, <1>6, <1>7, <1>8, <1>9, <1>10 DEF Way
<1> QED
  BY <1>3, <1>11 DEF z

\* or learns that there are no more.
LEMMA WayOver ==
    ASSUME NEW i, NEW g, NEW eof, NEW c, NEW h, NEW w, NEW q, NEW n, NEW d, NEW net,
           WayTypes(i, g, c, h, w, q, n), Way(i, g, eof, c, h, w, q, n, d, net),
           c # <<>>, c[1][2] = FIN
    PROVE  /\ Way(i, g, TRUE, Tail(c), h, w, q, n, d, net)
           /\ net = "up" => d = TRUE /\ g = n
<1> DEFINE z == Tail(c)
           m == Len(c) - 1
<1>1. /\ m \in Nat /\ Len(c) = m + 1 /\ Len(z) = m /\ \A k \in 1 .. m : z[k] = c[k + 1] /\ k + 1 \in 1 .. Len(c)
      /\ g \in Nat /\ n \in Nat /\ h \in {0, 1} /\ 1 \in 1 .. Len(c)
  <2>1. c \in Seq(What) /\ Len(c) \in Nat /\ Len(c) # 0
    BY WayCounted, EmptySeq DEF WayTypes
  <2> QED
    BY <2>1, HeadTailProperties DEF WayTypes
<1> HIDE DEF z, m
<1>2. Absent(q, i)
  BY <1>1 DEF Way
<1>3. Series(q, i, g + Len(z) + h, n)
  BY <1>2, SeriesOver
<1>4. \A k \in 1 .. Len(z) : z[k][2] = FIN
  <2> SUFFICES ASSUME NEW k \in 1 .. Len(z), z[k][2] # FIN PROVE FALSE
    OBVIOUS
  <2>1. z[k] = c[k + 1] /\ k + 1 \in 1 .. Len(c) /\ 1 \in 1 .. (k + 1) - 1
    BY <1>1
  <2>2. \A j \in 1 .. (k + 1) - 1 : c[j][2] # FIN
    BY <2>1 DEF Way
  <2> QED
    BY <2>1, <2>2
<1>5. h = 1 => w[2] = FIN
  BY <1>1 DEF Way
<1>6. net = "up" => Len(c) = 1 /\ h = 0 /\ d = TRUE /\ g = n
  <2>1. net = "up" => 1 = Len(c) /\ h = 0 /\ d = TRUE /\ g + 1 - 1 = n
    BY <1>1 DEF Way
  <2> QED
    BY <1>1, <2>1
<1>7. net = "up" => Len(z) = 0
  BY <1>1, <1>6
<1>8. net = "up" => Complete(q, i, g + Len(z) + h, n)
  BY <1>1, <1>6, <1>7 DEF Complete
<1>9. Way(i, g, TRUE, z, h, w, q, n, d, net)
  BY <1>1, <1>2, <1>3, <1>4, <1>5, <1>6, <1>7, <1>8 DEF Way
<1> QED
  BY <1>6, <1>9 DEF z

(***************************************************************************)
(* What leaves the messages to an end alone.                               *)
(***************************************************************************)
LEMMA FlowTyped ==
    ASSUME MuxTypes, NEW s \in Sides
    PROVE  /\ Flowing(s) \in Seq(Frame) /\ wire[s] \in Seq(Frame) /\ out[s] \in Seq(Frame)
           /\ Len(wire[s]) \in Nat /\ Len(out[s]) \in Nat
<1>1. wire[s] \in Seq(Frame) /\ out[s] \in Seq(Frame)
  BY DEF MuxTypes
<1>2. wire[s] \o out[s] \in Seq(Frame)
  BY <1>1, ConcatProperties
<1> QED
  BY <1>1, <1>2, LenProperties DEF Flowing

\* In a state of the right types, so is the way to each end.
LEMMA WayTyped ==
    ASSUME MuxTypes, NEW s \in Sides, NEW i \in Ids
    PROVE  WayTypes(i, Len(stream[s][i].got), chan[s][i], Hand(s, i), reader[s].what,
                    Flowing(Across(s)), stream[Across(s)][i].sent)
<1>1. Across(s) \in Sides
  BY AcrossSide
<1>2. stream[s][i] \in End /\ stream[Across(s)][i] \in End /\ reader[s] \in ReaderState /\ chan[s][i] \in Seq(What)
  BY <1>1 DEF MuxTypes
<1>3. Len(stream[s][i].got) \in Nat /\ stream[Across(s)][i].sent \in Nat /\ reader[s].what \in What
  <2>1. stream[s][i].got \in Seq(What)
    BY <1>2 DEF End
  <2>2. Len(stream[s][i].got) \in Nat
    BY <2>1, LenProperties
  <2> QED
    BY <1>2, <2>2 DEF End, ReaderState
<1>4. Flowing(Across(s)) \in Seq(Frame)
  BY <1>1, FlowTyped
<1>5. Hand(s, i) \in {0, 1}
  BY DEF Hand
<1> QED
  BY <1>2, <1>3, <1>4, <1>5 DEF WayTypes

\* A step that leaves alone what one end sends and the other takes keeps its messages.
LEMMA Kept ==
    ASSUME NEW s \in Sides, NEW i \in Ids, Messages(s, i),
           stream'[s][i].got = stream[s][i].got, stream'[s][i].eof = stream[s][i].eof,
           stream'[Across(s)][i].sent = stream[Across(s)][i].sent,
           stream[Across(s)][i].closed = TRUE => stream'[Across(s)][i].closed = TRUE,
           chan'[s][i] = chan[s][i], Hand(s, i)' = Hand(s, i),
           Hand(s, i) = 1 => reader'[s].what = reader[s].what,
           Flowing(Across(s))' = Flowing(Across(s)), socket' = socket,
           Taking(s, i)' => Taking(s, i)
    PROVE  Messages(s, i)'
<1>1. Received(s, i)'
  BY DEF Messages, Received
<1>2. ASSUME Taking(s, i)' PROVE Arriving(s, i)'
  <2>1. Arriving(s, i)
    BY <1>2 DEF Messages
  <2>2. Way(i, Len(stream[s][i].got), stream[s][i].eof, chan[s][i], Hand(s, i), reader[s].what,
            Flowing(Across(s)), stream[Across(s)][i].sent, stream[Across(s)][i].closed, socket)
    BY <2>1 DEF Arriving
  <2>3. Hand(s, i) \in {0, 1}
    BY DEF Hand
  <2>4. Way(i, Len(stream[s][i].got), stream[s][i].eof, chan[s][i], Hand(s, i), reader'[s].what,
            Flowing(Across(s)), stream[Across(s)][i].sent, stream'[Across(s)][i].closed, socket)
    <3>1. CASE Hand(s, i) = 0
      BY <2>2, <3>1 DEF Way
    <3>2. CASE Hand(s, i) = 1
      BY <2>2, <3>2 DEF Way
    <3> QED
      BY <2>3, <3>1, <3>2
  <2> QED
    BY <2>4 DEF Arriving
<1> QED
  BY <1>1, <1>2 DEF Messages

\* Neither the ends nor the frames change, nor what the reader has in its hand.
LEMMA Idle ==
    ASSUME MuxInv, UNCHANGED <<chan, stream, out, wire, socket>>,
           \A t \in Sides : released[t] => released'[t],
           \A t \in Sides, j \in Ids : Hand(t, j)' = Hand(t, j),
           \A t \in Sides, j \in Ids : Hand(t, j) = 1 => reader'[t].what = reader[t].what
    PROVE  \A t \in Sides, j \in Ids : Messages(t, j)'
<1> SUFFICES ASSUME NEW t \in Sides, NEW j \in Ids PROVE Messages(t, j)'
  OBVIOUS
<1>1. Messages(t, j)
  BY DEF MuxInv
<1>2. Flowing(Across(t))' = Flowing(Across(t))
  BY DEF Flowing
<1>3. Taking(t, j)' => Taking(t, j)
  BY DEF Taking
<1> QED
  BY <1>1, <1>2, <1>3, Kept

\* The parts of the invariant.
LEMMA Holds ==
    ASSUME MuxInv, NEW s \in Sides
    PROVE  /\ MuxTypes /\ IdsRight(s) /\ EndsRight(s) /\ FramesRight(s) /\ AcceptRight(s) /\ TasksRight(s)
           /\ Across(s) \in Sides /\ Across(s) # s
           /\ \A i \in Ids : Messages(s, i) /\ Received(s, i) /\ (Taking(s, i) => Arriving(s, i))
  BY AcrossSide DEF MuxInv, Structure, Messages

\* And the invariant from its parts, after a step.
LEMMA Established ==
    ASSUME MuxTypes', \A t \in Sides : Structure(t)', \A t \in Sides, j \in Ids : Messages(t, j)'
    PROVE  MuxInv'
  BY DEF MuxInv

\* What the queue of streams to accept promises is kept while they still wait.
LEMMA AcceptKept ==
    ASSUME NEW t \in Sides, AcceptRight(t), \A j \in Ids : Waiting(t, j) => Waiting(t, j)',
           acceptQueue \in [Sides -> Seq(Ids)], reader[t].id \in Ids \cup {0},
           acceptQueue'[t] = acceptQueue[t], released'[t] = released[t],
           reader'[t].st = "announcing" => reader[t].st = "announcing" /\ reader'[t].id = reader[t].id,
           reader[t].st = "announcing" => reader[t].id \in Ids
    PROVE  AcceptRight(t)'
<1>1. \A p \in 1 .. Len(acceptQueue[t]) : acceptQueue[t][p] \in Ids
  OBVIOUS
<1> QED
  BY <1>1 DEF AcceptRight

\* Frames stay with the stream that sent them.
LEMMA OwnedKept ==
    ASSUME NEW t \in Sides, NEW f \in Frame, Owned(t, f),
           \A j \in Ids : stream[t][j].st # "none" => stream'[t][j].st # "none",
           \A j \in Ids : stream[t][j].closed = TRUE => stream'[t][j].closed = TRUE
    PROVE  Owned(t, f)'
<1>1. f.id \in Ids
  BY DEF Frame
<1> QED
  BY <1>1 DEF Owned

\* Frames stay owned while no end is forgotten and none is opened again.
LEMMA FramesKept ==
    ASSUME MuxTypes, NEW t \in Sides, FramesRight(t), out'[t] = out[t], wire'[t] = wire[t],
           \A j \in Ids : stream[t][j].st # "none" => stream'[t][j].st # "none",
           \A j \in Ids : stream[t][j].closed = TRUE => stream'[t][j].closed = TRUE
    PROVE  FramesRight(t)'
<1>1. out[t] \in Seq(Frame) /\ wire[t] \in Seq(Frame)
  BY DEF MuxTypes
<1>2. ASSUME NEW p \in 1 .. Len(out'[t]) PROVE Owned(t, out[t][p])'
  <2>1. out[t][p] \in Frame /\ Owned(t, out[t][p])
    BY <1>1 DEF FramesRight
  <2>2. PICK f \in Frame : f = out[t][p] /\ f = out'[t][p]
    BY <2>1
  <2>3. Owned(t, f)
    BY <2>1, <2>2
  <2>4. Owned(t, f)'
    BY <2>3, OwnedKept
  <2> QED
    BY <2>2, <2>4 DEF Owned
<1>3. ASSUME NEW p \in 1 .. Len(wire'[t]) PROVE Owned(t, wire[t][p])'
  <2>1. wire[t][p] \in Frame /\ Owned(t, wire[t][p])
    BY <1>1 DEF FramesRight
  <2>2. PICK f \in Frame : f = wire[t][p] /\ f = wire'[t][p]
    BY <2>1
  <2>3. Owned(t, f)
    BY <2>1, <2>2
  <2>4. Owned(t, f)'
    BY <2>3, OwnedKept
  <2> QED
    BY <2>2, <2>4 DEF Owned
<1> QED
  BY <1>2, <1>3 DEF FramesRight

\* The parts of the invariant only change with what they speak of: the ids,
LEMMA IdsSame ==
    ASSUME NEW t, IdsRight(t), UNCHANGED <<nextId, opening, table, released>>
    PROVE  IdsRight(t)'
  BY DEF IdsRight

\* the ends,
LEMMA EndsSame ==
    ASSUME NEW t, EndsRight(t), UNCHANGED <<stream, table, chan>>
    PROVE  EndsRight(t)'
  BY DEF EndsRight, EndRight

\* the frames,
LEMMA FramesSame ==
    ASSUME NEW t, FramesRight(t), UNCHANGED <<stream, out, wire>>
    PROVE  FramesRight(t)'
  BY DEF FramesRight, Owned

\* the streams that wait,
LEMMA AcceptSame ==
    ASSUME NEW t, AcceptRight(t), UNCHANGED <<table, stream, acceptQueue, released, reader>>
    PROVE  AcceptRight(t)'
  BY DEF AcceptRight, Waiting

\* and the tasks.
LEMMA TasksSame ==
    ASSUME NEW t, TasksRight(t), UNCHANGED <<table, reader, writer, wire, socket>>
    PROVE  TasksRight(t)'
  BY DEF TasksRight

(***************************************************************************)
(* The operations of the connection.                                       *)
(***************************************************************************)
LEMMA OpenKept ==
    ASSUME MuxInv, NEW s \in Sides, open_stream(s)
    PROVE  MuxInv'
<1>1. MuxTypes'
  <2>1. nextId[s] \in Ids /\ nextId[s] + 2 \in Nat
    BY DEF open_stream, MuxInv, MuxTypes
  <2>2. nextId' \in [Sides -> Nat] /\ opening' \in [Sides -> Ids \cup {0}]
    BY <2>1 DEF open_stream, MuxInv, MuxTypes
  <2> QED
    BY <2>2 DEF open_stream, MuxInv, MuxTypes
<1>2. IdsRight(s)'
  <2>1. /\ nextId[s] \in Ids /\ nextId[s] \in Nat /\ nextId[s] % 2 = FirstId(s) % 2
        /\ nextId'[s] = nextId[s] + 2 /\ opening'[s] = nextId[s] /\ ~released[s] /\ table' = table /\ released' = released
    BY Holds DEF open_stream, MuxTypes, IdsRight
  <2>2. (nextId[s] + 2) % 2 = nextId[s] % 2
    BY <2>1
  <2>3. Opener(nextId[s]) = s
    BY <2>1, DrawnBy
  <2>4. nextId[s] \notin table[s]
    BY <2>1, <2>3, Holds DEF IdsRight
  <2>5. ASSUME NEW i \in table[s] PROVE i \in table[Opener(i)] /\ (Opener(i) = s => i < nextId[s] + 2)
    <3>1. i \in table[Opener(i)] /\ (Opener(i) = s => i < nextId[s])
      BY Holds DEF IdsRight
    <3>2. i \in Nat
      <4>1. table \in [Sides -> SUBSET Ids]
        BY Holds DEF MuxTypes
      <4>2. i \in Ids
        BY <4>1
      <4> QED
        BY <4>2, MuxBounds DEF Ids
    <3> QED
      BY <2>1, <3>1, <3>2
  <2>6. nextId[s] < nextId[s] + 2
    BY <2>1
  <2> QED
    BY <2>1, <2>2, <2>4, <2>5, <2>6 DEF IdsRight
<1>3. ASSUME NEW t \in Sides, t # s PROVE IdsRight(t)'
  <2>1. nextId'[t] = nextId[t] /\ opening'[t] = opening[t] /\ table' = table /\ released' = released
    BY <1>3, Holds DEF open_stream, MuxTypes
  <2> QED
    BY <2>1, Holds DEF IdsRight
<1>4. ASSUME NEW t \in Sides PROVE (EndsRight(t) /\ FramesRight(t) /\ AcceptRight(t) /\ TasksRight(t))'
  BY Holds, EndsSame, FramesSame, AcceptSame, TasksSame DEF open_stream
<1>5. \A t \in Sides, j \in Ids : Messages(t, j)'
  BY Idle DEF open_stream, Hand
<1> QED
  BY <1>1, <1>2, <1>3, <1>4, <1>5, Established DEF Structure

\* accept_stream starts to wait; close sets a flag.
LEMMA WaitCloseKept ==
    ASSUME MuxInv, NEW s \in Sides, AcceptStream(s) \/ close_connection(s)
    PROVE  MuxInv'
<1>1. UNCHANGED <<nextId, opening, table, chan, stream, acceptQueue, released, reader, writer, out, wire, socket>>
  BY DEF AcceptStream, close_connection
<1>2. MuxTypes'
  BY <1>1 DEF MuxInv, MuxTypes
<1>3. ASSUME NEW t \in Sides PROVE Structure(t)'
  BY <1>1, Holds, IdsSame, EndsSame, FramesSame, AcceptSame, TasksSame DEF Structure
<1>4. \A t \in Sides, j \in Ids : Messages(t, j)'
  BY <1>1, Idle DEF Hand
<1> QED
  BY <1>2, <1>3, <1>4, Established

\* The connection is dropped, and the streams nobody accepted with it.
LEMMA DropConnectionKept ==
    ASSUME MuxInv, NEW s \in Sides, DropConnection(s)
    PROVE  MuxInv'
<1>1. UNCHANGED <<nextId, opening, table, chan, stream, reader, writer, out, wire, socket>>
  BY DEF DropConnection
<1>2. /\ released'[s] = TRUE /\ acceptQueue'[s] = <<>> /\ opening[s] = 0
      /\ \A t \in Sides : t # s => released'[t] = released[t] /\ acceptQueue'[t] = acceptQueue[t]
      /\ released' \in [Sides -> BOOLEAN] /\ acceptQueue' \in [Sides -> Seq(Ids)]
  <2>1. released \in [Sides -> BOOLEAN] /\ acceptQueue \in [Sides -> Seq(Ids)] /\ <<>> \in Seq(Ids)
    BY DEF MuxInv, MuxTypes
  <2> QED
    BY <2>1 DEF DropConnection
<1>3. MuxTypes'
  BY <1>1, <1>2 DEF MuxInv, MuxTypes
<1>4. ASSUME NEW t \in Sides PROVE (EndsRight(t) /\ FramesRight(t) /\ TasksRight(t))'
  BY <1>1, Holds, EndsSame, FramesSame, TasksSame
<1>5. ASSUME NEW t \in Sides PROVE IdsRight(t)'
  BY <1>1, <1>2, Holds DEF IdsRight
<1>6. ASSUME NEW t \in Sides PROVE AcceptRight(t)'
  <2>1. CASE t = s
    <3>1. 1 .. Len(<<>>) = {}
      OBVIOUS
    <3>2. \A p : p \notin {}
      OBVIOUS
    <3>3. reader[s].st = "announcing" => Waiting(s, reader[s].id)
      BY Holds DEF AcceptRight
    <3> QED
      BY <1>1, <1>2, <2>1, <3>1, <3>2, <3>3 DEF AcceptRight, Waiting
  <2>2. CASE t # s
    <3>1. released'[t] = released[t] /\ acceptQueue'[t] = acceptQueue[t]
      BY <1>2, <2>2
    <3> QED
      BY <1>1, <3>1, Holds DEF AcceptRight, Waiting
  <2> QED
    BY <2>1, <2>2
<1>7. \A t \in Sides, j \in Ids : Messages(t, j)'
  <2>1. \A t \in Sides : released[t] => released'[t]
    BY <1>2
  <2> QED
    BY <1>1, <2>1, Idle DEF Hand
<1> QED
  BY <1>3, <1>4, <1>5, <1>6, <1>7, Established DEF Structure

\* An end is made of a stream that nobody held.
Fresh(e) == e.st = "open" /\ e.got = <<>> /\ e.eof = FALSE /\ e.closed = FALSE /\ e.sent = 0

\* What a new WebSocketStream is like.
LEMMA FreshEnd ==
    ASSUME NEW o \in Sides, NEW b \in BOOLEAN
    PROVE  /\ NewEnd(o) \in End /\ Fresh(NewEnd(o)) /\ NewEnd(o).opener = o
           /\ [NewEnd(o) EXCEPT !.late = b] \in End /\ Fresh([NewEnd(o) EXCEPT !.late = b])
           /\ [NewEnd(o) EXCEPT !.late = b].opener = o
<1>1. <<>> \in Seq(What) /\ 0 \in Nat
  OBVIOUS
<1> QED
  BY <1>1 DEF NewEnd, NoEnd, End, Fresh, Sides

\* A new end has sent nothing, and what waits in its channel is its own.
LEMMA EndMade ==
    ASSUME MuxInv, NEW s \in Sides, NEW i \in Ids, stream[s][i].st = "none", ~released[s],
           Fresh(stream'[s][i]), \A t \in Sides, j \in Ids : t # s \/ j # i => stream'[t][j] = stream[t][j],
           \A t \in Sides, j \in Ids : chan'[t][j] = chan[t][j],
           UNCHANGED <<released, reader, out, wire, socket>>
    PROVE  \A t \in Sides : FramesRight(t)' /\ \A j \in Ids : Messages(t, j)'
<1>1. stream[s][i].got = <<>> /\ stream[s][i].eof = FALSE /\ stream[s][i].closed = FALSE /\ stream[s][i].sent = 0
  BY Holds DEF EndsRight, EndRight
<1>2. ASSUME NEW t \in Sides, NEW j \in Ids
      PROVE  /\ stream'[t][j].got = stream[t][j].got /\ stream'[t][j].eof = stream[t][j].eof
             /\ stream'[t][j].sent = stream[t][j].sent /\ stream'[t][j].closed = stream[t][j].closed
             /\ (stream[t][j].st # "none" => stream'[t][j].st # "none")
             /\ (Taking(t, j)' => Taking(t, j))
  <2>1. CASE t = s /\ j = i
    BY <1>1, <2>1 DEF Fresh, Taking
  <2>2. CASE t # s \/ j # i
    <3>1. stream'[t][j] = stream[t][j]
      BY <2>2
    <3> QED
      BY <3>1 DEF Taking
  <2> QED
    BY <2>1, <2>2
<1>3. ASSUME NEW t \in Sides PROVE FramesRight(t)'
  <2>1. MuxTypes /\ FramesRight(t) /\ out'[t] = out[t] /\ wire'[t] = wire[t]
    BY Holds
  <2> QED
    BY <1>2, <2>1, FramesKept
<1>4. ASSUME NEW t \in Sides, NEW j \in Ids PROVE Messages(t, j)'
  <2>1. Messages(t, j) /\ Across(t) \in Sides
    BY Holds
  <2>2. Hand(t, j)' = Hand(t, j) /\ Flowing(Across(t))' = Flowing(Across(t)) /\ reader'[t].what = reader[t].what
    BY DEF Hand, Flowing
  <2>3. stream'[t][j].got = stream[t][j].got /\ stream'[t][j].eof = stream[t][j].eof /\ chan'[t][j] = chan[t][j]
    BY <1>2
  <2>4. /\ stream'[Across(t)][j].sent = stream[Across(t)][j].sent
        /\ stream'[Across(t)][j].closed = stream[Across(t)][j].closed
    BY <1>2, <2>1
  <2> QED
    BY <1>2, <2>1, <2>2, <2>3, <2>4, Kept
<1> QED
  BY <1>3, <1>4

\* open_stream puts its stream into the table.
LEMMA RegisterKept ==
    ASSUME MuxInv, NEW s \in Sides, Register(s)
    PROVE  MuxInv'
<1> DEFINE i == opening[s]
<1>1. i \in Ids /\ i \notin table[s] /\ Opener(i) = s /\ ~released[s] /\ i < nextId[s]
  <2>1. opening[s] # 0 /\ opening[s] \in Ids
    BY Holds DEF Register, MuxTypes
  <2>2. i % 2 = FirstId(s) % 2 /\ i < nextId[s] /\ i \notin table[s] /\ ~released[s]
    BY <2>1, Holds DEF IdsRight
  <2> QED
    BY <2>1, <2>2, DrawnBy
<1>2. stream[s][i].st = "none" /\ chan[s][i] = <<>>
  BY <1>1, Holds DEF EndsRight, EndRight
<1>3. UNCHANGED <<nextId, acceptQueue, released, reader, writer, out, wire, socket>>
  BY DEF Register
<1>4. /\ table' \in [Sides -> SUBSET Ids] /\ table'[s] = table[s] \cup {i}
      /\ \A t \in Sides : t # s => table'[t] = table[t]
  <2>1. table' = [table EXCEPT ![s] = @ \cup {i}]
    BY DEF Register
  <2> HIDE DEF i
  <2> QED
    BY <1>1, <2>1, Holds DEF MuxTypes
<1>5. /\ opening' \in [Sides -> Ids \cup {0}] /\ opening'[s] = 0
      /\ \A t \in Sides : t # s => opening'[t] = opening[t]
  BY Holds DEF Register, MuxTypes
<1>6. chan' \in [Sides -> [Ids -> Seq(What)]] /\ \A t \in Sides, j \in Ids : chan'[t][j] = chan[t][j]
  <2>1. chan' = [chan EXCEPT ![s][i] = <<>>] /\ <<>> \in Seq(What) /\ chan \in [Sides -> [Ids -> Seq(What)]]
    BY Holds DEF Register, MuxTypes
  <2> HIDE DEF i
  <2> QED
    BY <1>1, <1>2, <2>1, Entry
<1>7. /\ stream' \in [Sides -> [Ids -> End]] /\ Fresh(stream'[s][i]) /\ stream'[s][i].opener = s
      /\ \A t \in Sides, j \in Ids : t # s \/ j # i => stream'[t][j] = stream[t][j]
  <2> DEFINE e == [NewEnd(s) EXCEPT !.late = reader[s].st = "ended"]
  <2>1. stream' = [stream EXCEPT ![s][i] = e] /\ stream \in [Sides -> [Ids -> End]]
    BY Holds DEF Register, MuxTypes
  <2>2. e \in End /\ Fresh(e) /\ e.opener = s
    BY FreshEnd
  <2> HIDE DEF i, e
  <2> QED
    BY <1>1, <2>1, <2>2, Entry
<1> HIDE DEF i
<1>8. MuxTypes'
  BY <1>3, <1>4, <1>5, <1>6, <1>7, Holds DEF MuxTypes
<1>9. \A t \in Sides : FramesRight(t)' /\ \A j \in Ids : Messages(t, j)'
  BY <1>1, <1>2, <1>3, <1>6, <1>7, EndMade
<1>10. \A t \in Sides : table[t] \subseteq table'[t]
  BY <1>4
<1>11. ASSUME NEW t \in Sides PROVE IdsRight(t)'
  <2>1. nextId'[t] = nextId[t] /\ released'[t] = released[t]
    BY <1>3
  <2>2. /\ opening'[t] # 0 => /\ opening'[t] % 2 = FirstId(t) % 2 /\ opening'[t] < nextId[t]
                              /\ opening'[t] \notin table'[t] /\ ~released[t]
    BY <1>4, <1>5, Holds DEF IdsRight
  <2>3. ASSUME NEW j \in table'[t] PROVE j \in table'[Opener(j)] /\ (Opener(j) = t => j < nextId[t])
    <3>1. CASE j \in table[t]
      BY <1>10, <3>1, Holds, AcrossSide DEF IdsRight
    <3>2. CASE j \notin table[t]
      <4>1. t = s /\ j = i
        BY <1>4, <3>2
      <4> QED
        BY <1>1, <1>4, <4>1
    <3> QED
      BY <3>1, <3>2
  <2>4. nextId[t] % 2 = FirstId(t) % 2
    BY Holds DEF IdsRight
  <2> QED
    BY <2>1, <2>2, <2>3, <2>4 DEF IdsRight
<1>12. ASSUME NEW t \in Sides PROVE EndsRight(t)'
  <2> SUFFICES ASSUME NEW j \in Ids PROVE EndRight(t, j)'
    BY DEF EndsRight, EndRight
  <2>0. EndRight(t, j)
    BY Holds DEF EndsRight, EndRight
  <2>1. CASE t = s /\ j = i
    BY <1>1, <1>4, <1>7, <2>1 DEF Fresh, EndRight
  <2>2. CASE t # s \/ j # i
    <3>1. stream'[t][j] = stream[t][j] /\ chan'[t][j] = chan[t][j] /\ table[t] \subseteq table'[t]
      BY <1>6, <1>7, <1>10, <2>2
    <3> QED
      BY <2>0, <3>1 DEF EndRight
  <2> QED
    BY <2>1, <2>2
<1>13. ASSUME NEW t \in Sides PROVE AcceptRight(t)'
  <2>1. \A j \in Ids : Waiting(t, j) => Waiting(t, j)'
    <3> SUFFICES ASSUME NEW j \in Ids, Waiting(t, j) PROVE Waiting(t, j)'
      OBVIOUS
    <3>1. t # s \/ j # i
      BY <1>1 DEF Waiting
    <3> QED
      BY <1>7, <1>10, <3>1 DEF Waiting
  <2>2. reader[t].id \in Ids \cup {0} /\ (reader[t].st = "announcing" => reader[t].id \in Ids)
    <3>1. reader[t] \in ReaderState /\ table[t] \subseteq Ids
      BY Holds DEF MuxTypes
    <3>2. reader[t].st = "announcing" => reader[t].id \in table[t]
      BY Holds DEF AcceptRight, Waiting
    <3> QED
      BY <3>1, <3>2 DEF ReaderState
  <2>3. acceptQueue \in [Sides -> Seq(Ids)] /\ AcceptRight(t)
    BY Holds DEF MuxTypes
  <2> QED
    BY <1>3, <2>1, <2>2, <2>3, AcceptKept
<1>14. ASSUME NEW t \in Sides PROVE TasksRight(t)'
  BY <1>3, <1>10, Holds DEF TasksRight
<1> QED
  BY <1>8, <1>9, <1>11, <1>12, <1>13, <1>14, Established DEF Structure

\* accept_stream returns a stream that was announced.
LEMMA AcceptedKept ==
    ASSUME MuxInv, NEW s \in Sides, Accepted(s)
    PROVE  MuxInv'
<1> DEFINE a == acceptQueue[s]
           i == Head(acceptQueue[s])
<1>1. /\ a \in Seq(Ids) /\ Len(a) \in Nat /\ Len(a) >= 1 /\ i = a[1] /\ i \in Ids
      /\ Tail(a) \in Seq(Ids) /\ Len(Tail(a)) = Len(a) - 1 /\ \A p \in 1 .. Len(a) - 1 : Tail(a)[p] = a[p + 1]
  <2>1. a \in Seq(Ids) /\ a # <<>>
    BY Holds DEF Accepted, MuxTypes
  <2>2. Len(a) \in Nat /\ Len(a) >= 1
    BY <2>1, EmptySeq, LenProperties
  <2> QED
    BY <2>1, <2>2, HeadTailProperties
<1>2. Waiting(s, i) /\ ~released[s]
  <2>1. 1 \in 1 .. Len(a)
    BY <1>1
  <2> QED
    BY <1>1, <2>1, Holds DEF AcceptRight, Accepted
<1>3. i \in table[s] /\ stream[s][i].st = "none" /\ Opener(i) = Across(s)
  BY <1>2 DEF Waiting
<1>4. UNCHANGED <<nextId, opening, table, chan, released, reader, writer, out, wire, socket>>
  BY DEF Accepted
<1>5. /\ acceptQueue' \in [Sides -> Seq(Ids)] /\ acceptQueue'[s] = Tail(a)
      /\ \A t \in Sides : t # s => acceptQueue'[t] = acceptQueue[t]
  BY <1>1, Holds DEF Accepted, MuxTypes
<1>6. /\ stream' \in [Sides -> [Ids -> End]] /\ Fresh(stream'[s][i]) /\ stream'[s][i].opener = Opener(i)
      /\ \A t \in Sides, j \in Ids : t # s \/ j # i => stream'[t][j] = stream[t][j]
  <2> DEFINE e == NewEnd(Across(s))
  <2>1. stream' = [stream EXCEPT ![s][i] = e] /\ stream \in [Sides -> [Ids -> End]]
    BY Holds DEF Accepted, MuxTypes
  <2>2. e \in End /\ Fresh(e) /\ e.opener = Across(s)
    BY Holds, FreshEnd
  <2> HIDE DEF i, e
  <2> QED
    BY <1>1, <1>3, <2>1, <2>2, Entry
<1> HIDE DEF i
<1>7. MuxTypes'
  BY <1>4, <1>5, <1>6, Holds DEF MuxTypes
<1>8. \A t \in Sides : FramesRight(t)' /\ \A j \in Ids : Messages(t, j)'
  BY <1>1, <1>2, <1>3, <1>4, <1>6, EndMade
<1>9. ASSUME NEW t \in Sides PROVE IdsRight(t)' /\ TasksRight(t)'
  BY <1>4, Holds, IdsSame, TasksSame
<1>10. ASSUME NEW t \in Sides PROVE EndsRight(t)'
  <2> SUFFICES ASSUME NEW j \in Ids PROVE EndRight(t, j)'
    BY DEF EndsRight, EndRight
  <2>0. EndRight(t, j)
    BY Holds DEF EndsRight, EndRight
  <2>1. CASE t = s /\ j = i
    BY <1>3, <1>4, <1>6, <2>1 DEF Fresh, EndRight
  <2>2. CASE t # s \/ j # i
    <3>1. stream'[t][j] = stream[t][j]
      BY <1>6, <2>2
    <3> QED
      BY <1>4, <2>0, <3>1 DEF EndRight
  <2> QED
    BY <2>1, <2>2
<1>11. \A t \in Sides, j \in Ids : Waiting(t, j) /\ (t # s \/ j # i) => Waiting(t, j)'
  BY <1>4, <1>6 DEF Waiting
<1>12. ASSUME NEW t \in Sides PROVE reader[t].st = "announcing" => reader[t].id \in Ids
  <2>1. table[t] \subseteq Ids
    BY Holds DEF MuxTypes
  <2> QED
    BY <2>1, Holds DEF AcceptRight, Waiting
<1>13. ASSUME NEW t \in Sides, t # s PROVE AcceptRight(t)'
  <2>1. reader[t].id \in Ids \cup {0}
    BY Holds DEF MuxTypes, ReaderState
  <2>2. acceptQueue \in [Sides -> Seq(Ids)] /\ AcceptRight(t) /\ acceptQueue'[t] = acceptQueue[t]
    BY <1>5, <1>13, Holds DEF MuxTypes
  <2>3. \A j \in Ids : Waiting(t, j) => Waiting(t, j)'
    BY <1>11, <1>13
  <2> QED
    BY <1>4, <1>12, <2>1, <2>2, <2>3, AcceptKept
<1>14. AcceptRight(s)'
  <2>0. PICK z \in Seq(Ids) : z = Tail(a)
    BY <1>1
  <2>1. Len(z) = Len(a) - 1 /\ \A p \in 1 .. Len(z) : z[p] = a[p + 1] /\ p + 1 \in 1 .. Len(a) /\ p + 1 # 1
    BY <1>1, <2>0
  <2>2. 1 \in 1 .. Len(a) /\ \A p \in 1 .. Len(a) : a[p] \in Ids
    BY <1>1
  <2>3. /\ \A p \in 1 .. Len(a) : Waiting(s, a[p])
        /\ \A p, q \in 1 .. Len(a) : a[p] = a[q] => p = q
        /\ reader[s].st = "announcing" =>
              Waiting(s, reader[s].id) /\ \A p \in 1 .. Len(a) : a[p] # reader[s].id
    BY Holds DEF AcceptRight
  <2> HIDE DEF a
  <2>4. ASSUME NEW p \in 1 .. Len(z) PROVE Waiting(s, z[p])'
    <3>1. z[p] = a[p + 1] /\ z[p] # i /\ z[p] \in Ids /\ Waiting(s, z[p])
      BY <1>1, <2>1, <2>2, <2>3
    <3>2. PICK j \in Ids : j = z[p]
      BY <3>1
    <3>3. Waiting(s, j)'
      BY <1>11, <3>1, <3>2
    <3> QED
      BY <1>4, <1>5, <3>2, <3>3 DEF Waiting
  <2>5. ASSUME NEW p \in 1 .. Len(z), NEW q \in 1 .. Len(z), z[p] = z[q] PROVE p = q
    <3>1. p + 1 = q + 1
      BY <2>1, <2>3, <2>5
    <3> QED
      BY <3>1
  <2>6. ASSUME reader[s].st = "announcing"
        PROVE  Waiting(s, reader[s].id)' /\ \A p \in 1 .. Len(z) : z[p] # reader[s].id
    <3>1. reader[s].id # i /\ reader[s].id \in Ids /\ Waiting(s, reader[s].id)
      BY <1>1, <1>12, <2>2, <2>3, <2>6
    <3>2. PICK j \in Ids : j = reader[s].id /\ j = reader'[s].id
      BY <1>4, <3>1
    <3>3. Waiting(s, j)'
      BY <1>11, <3>1, <3>2
    <3> QED
      BY <2>1, <2>3, <2>6, <3>2, <3>3 DEF Waiting
  <2>7. acceptQueue'[s] = z /\ reader' = reader /\ released' = released
    BY <1>4, <1>5, <2>0
  <2> QED
    BY <1>2, <2>4, <2>5, <2>6, <2>7 DEF AcceptRight, Waiting
<1> QED
  BY <1>7, <1>8, <1>9, <1>10, <1>13, <1>14, Established DEF Structure

(***************************************************************************)
(* The operations of a stream.                                             *)
(***************************************************************************)
LEMMA Announced ==
    ASSUME MuxInv, NEW t \in Sides
    PROVE  /\ reader[t].id \in Ids \cup {0} /\ (reader[t].st = "announcing" => reader[t].id \in Ids)
           /\ acceptQueue \in [Sides -> Seq(Ids)]
<1>1. reader[t] \in ReaderState /\ table[t] \subseteq Ids /\ acceptQueue \in [Sides -> Seq(Ids)]
  BY Holds DEF MuxTypes
<1>2. reader[t].st = "announcing" => reader[t].id \in table[t]
  BY Holds DEF AcceptRight, Waiting
<1> QED
  BY <1>1, <1>2 DEF ReaderState

\* What a call changes in an end leaves it an end.
LEMMA EndEdits ==
    ASSUME NEW e \in End
    PROVE  /\ \A n \in Nat : [e EXCEPT !.sent = n] \in End
           /\ \A x \in What : [e EXCEPT !.got = Append(@, x)] \in End
           /\ [e EXCEPT !.closed = TRUE] \in End
           /\ [e EXCEPT !.closed = TRUE, !.eof = TRUE] \in End /\ [e EXCEPT !.st = "dropped"] \in End
<1>1. e.got \in Seq(What)
  BY DEF End
<1>2. \A x \in What : Append(e.got, x) \in Seq(What)
  BY <1>1, AppendProperties
<1>3. \A x \in What : [e EXCEPT !.got = Append(@, x)] \in End
  BY <1>2 DEF End
<1>4. \A n \in Nat : [e EXCEPT !.sent = n] \in End
  BY DEF End
<1>5. [e EXCEPT !.closed = TRUE] \in End /\ [e EXCEPT !.st = "dropped"] \in End
  BY DEF End
<1>6. [e EXCEPT !.closed = TRUE, !.eof = TRUE] \in End
  BY DEF End
<1> QED
  BY <1>3, <1>4, <1>5, <1>6

\* A call on a stream touches neither ids, tables nor tasks.
LEMMA StreamStep ==
    ASSUME MuxInv, NEW s \in Sides, NEW i \in Ids, stream[s][i].st = "open",
           stream'[s][i].st # "none", stream'[s][i].opener = stream[s][i].opener,
           \A t \in Sides, j \in Ids : t # s \/ j # i => stream'[t][j] = stream[t][j],
           \A t \in Sides, j \in Ids : t # s \/ j # i => chan'[t][j] = chan[t][j],
           UNCHANGED <<nextId, opening, table, acceptQueue, released, reader, writer, wire, socket>>
    PROVE  \A t \in Sides : IdsRight(t)' /\ EndsRight(t)' /\ AcceptRight(t)' /\ TasksRight(t)'
<1> TAKE t \in Sides
<1>1. IdsRight(t)' /\ TasksRight(t)'
  BY Holds, IdsSame, TasksSame
<1>2. ASSUME NEW j \in Ids PROVE EndRight(t, j)'
  <2>1. EndRight(t, j)
    BY Holds DEF EndsRight
  <2>2. CASE t = s /\ j = i
    BY <2>1, <2>2 DEF EndRight
  <2>3. CASE t # s \/ j # i
    <3>1. stream'[t][j] = stream[t][j] /\ chan'[t][j] = chan[t][j]
      BY <2>3
    <3> QED
      BY <2>1, <3>1 DEF EndRight
  <2> QED
    BY <2>2, <2>3
<1>3. AcceptRight(t)'
  <2>1. \A j \in Ids : Waiting(t, j) => Waiting(t, j)'
    <3> SUFFICES ASSUME NEW j \in Ids, Waiting(t, j) PROVE Waiting(t, j)'
      OBVIOUS
    <3>1. t # s \/ j # i
      BY DEF Waiting
    <3> QED
      BY <3>1 DEF Waiting
  <2>2. AcceptRight(t)
    BY Holds
  <2> QED
    BY <2>1, <2>2, Announced, AcceptKept
<1> QED
  BY <1>1, <1>2, <1>3 DEF EndsRight

\* Every frame that still comes is its sender's.
LEMMA FlowOwned ==
    ASSUME MuxInv, NEW s \in Sides
    PROVE  \A p \in 1 .. Len(Flowing(s)) : Flowing(s)[p] \in Frame /\ Owned(s, Flowing(s)[p])
<1>1. /\ wire[s] \in Seq(Frame) /\ out[s] \in Seq(Frame) /\ Len(wire[s]) \in Nat /\ Len(out[s]) \in Nat
      /\ Flowing(s) \in Seq(Frame)
  BY Holds, FlowTyped
<1>2. /\ \A p \in 1 .. Len(wire[s]) : Owned(s, wire[s][p])
      /\ \A p \in 1 .. Len(out[s]) : Owned(s, out[s][p])
  BY Holds DEF FramesRight
<1>3. \A p \in 1 .. Len(Flowing(s)) : Flowing(s)[p] \in Frame
  BY <1>1
<1>4. CASE socket = "up"
  <2>1. Flowing(s) = wire[s] \o out[s]
    BY <1>4 DEF Flowing
  <2> SUFFICES ASSUME NEW p \in 1 .. Len(wire[s] \o out[s])
               PROVE  Owned(s, (wire[s] \o out[s])[p])
    BY <1>3, <2>1
  <2>2. Len(wire[s] \o out[s]) = Len(wire[s]) + Len(out[s]) /\ Len(wire[s]) \in Nat /\ Len(out[s]) \in Nat
    BY <1>1, ConcatProperties
  <2>3. (wire[s] \o out[s])[p] = IF p <= Len(wire[s]) THEN wire[s][p] ELSE out[s][p - Len(wire[s])]
    BY <1>1, ConcatProperties
  <2>4. CASE p <= Len(wire[s])
    <3>1. p \in 1 .. Len(wire[s])
      BY <2>4, <2>2
    <3> QED
      BY <1>2, <2>3, <2>4, <3>1
  <2>5. CASE ~(p <= Len(wire[s]))
    <3>0. PICK a \in Nat, b \in Nat : a = Len(wire[s]) /\ b = Len(out[s])
      BY <2>2
    <3>1. p \in 1 .. a + b /\ ~(p <= a)
      BY <2>5, <2>2, <3>0
    <3>2. p - a \in 1 .. b
      BY <3>1
    <3>3. p - Len(wire[s]) \in 1 .. Len(out[s])
      BY <3>0, <3>2
    <3> QED
      BY <1>2, <2>3, <2>5, <3>3
  <2> QED
    BY <2>4, <2>5
<1>5. CASE socket # "up"
  BY <1>2, <1>3, <1>5 DEF Flowing
<1> QED
  BY <1>4, <1>5

\* A stream that has not finished has no FIN on its way.
LEMMA NotFinished ==
    ASSUME MuxInv, NEW s \in Sides, NEW i \in Ids, stream[s][i].closed = FALSE
    PROVE  \A p \in 1 .. Len(Flowing(s)) : Flowing(s)[p].id = i => Flowing(s)[p].what[2] # FIN
  BY FlowOwned DEF Owned

\* A frame is handed to the writer task.
LEMMA FlowPut ==
    ASSUME MuxTypes, NEW s \in Sides, NEW f \in Frame, out' = [out EXCEPT ![s] = Append(@, f)],
           UNCHANGED <<wire, socket>>
    PROVE  /\ out' \in [Sides -> Seq(Frame)]
           /\ socket = "up" => Flowing(s)' = Append(Flowing(s), f)
           /\ socket # "up" => Flowing(s)' = Flowing(s)
           /\ Flowing(Across(s))' = Flowing(Across(s))
<1>1. out \in [Sides -> Seq(Frame)] /\ wire[s] \in Seq(Frame) /\ out[s] \in Seq(Frame)
  BY DEF MuxTypes
<1>2. Append(out[s], f) \in Seq(Frame)
  BY <1>1, AppendProperties
<1>3. out'[s] = Append(out[s], f) /\ out' \in [Sides -> Seq(Frame)] /\ out'[Across(s)] = out[Across(s)]
  BY <1>1, <1>2, AcrossSide
<1>4. wire[s] \o Append(out[s], f) = Append(wire[s] \o out[s], f)
  <2>1. \A w1, w2 \in Seq(Frame) : w1 \o Append(w2, f) = Append(w1 \o w2, f)
    OBVIOUS
  <2> QED
    BY <1>1, <2>1
<1>5. Flowing(Across(s))' = Flowing(Across(s))
  BY <1>3 DEF Flowing
<1>6. socket # "up" => Flowing(s)' = Flowing(s)
  BY DEF Flowing
<1>7. ASSUME socket = "up" PROVE Flowing(s)' = Append(Flowing(s), f)
  <2>1. Flowing(s)' = wire[s] \o out'[s] /\ Flowing(s) = wire[s] \o out[s]
    BY <1>7 DEF Flowing
  <2> QED
    BY <1>3, <1>4, <2>1
<1> QED
  BY <1>3, <1>5, <1>6, <1>7

\* The sender's frames are still its own.
LEMMA PutOwned ==
    ASSUME MuxTypes, NEW s \in Sides, \A t \in Sides : FramesRight(t), NEW f \in Frame,
           out' = [out EXCEPT ![s] = Append(@, f)], UNCHANGED wire, Owned(s, f)',
           \A t \in Sides, j \in Ids : stream[t][j].st # "none" => stream'[t][j].st # "none",
           \A t \in Sides, j \in Ids : stream[t][j].closed = TRUE => stream'[t][j].closed = TRUE
    PROVE  \A t \in Sides : FramesRight(t)'
<1> TAKE t \in Sides
<1>1. /\ out \in [Sides -> Seq(Frame)] /\ wire[t] \in Seq(Frame) /\ out[t] \in Seq(Frame) /\ FramesRight(t)
      /\ Len(out[t]) \in Nat
  <2>1. out \in [Sides -> Seq(Frame)] /\ wire[t] \in Seq(Frame) /\ out[t] \in Seq(Frame) /\ FramesRight(t)
    BY DEF MuxTypes
  <2> QED
    BY <2>1, LenProperties
<1>2. CASE t # s
  BY <1>1, <1>2, FramesKept
<1>3. CASE t = s
  <2>1. PICK z \in Seq(Frame) : z = Append(out[s], f) /\ out'[t] = z
    BY <1>1, <1>3, AppendProperties
  <2>2. Len(z) = Len(out[t]) + 1 /\ z[Len(out[t]) + 1] = f /\ \A p \in 1 .. Len(out[t]) : z[p] = out[t][p]
    BY <1>1, <1>3, <2>1, AppendProperties
  <2>3. ASSUME NEW p \in 1 .. Len(z) PROVE Owned(t, z[p])'
    <3>1. CASE p \in 1 .. Len(out[t])
      <4>1. PICK g \in Frame : g = z[p] /\ g = out[t][p]
        BY <1>1, <2>2, <3>1
      <4>2. Owned(t, g)
        BY <1>1, <3>1, <4>1 DEF FramesRight
      <4>3. Owned(t, g)'
        BY <4>2, OwnedKept
      <4> QED
        BY <4>1, <4>3 DEF Owned
    <3>2. CASE p = Len(out[t]) + 1
      BY <1>3, <2>2, <3>2 DEF Owned
    <3> QED
      BY <1>1, <2>2, <3>1, <3>2
  <2>4. ASSUME NEW p \in 1 .. Len(wire[t]) PROVE Owned(t, wire[t][p])'
    <3>1. PICK g \in Frame : g = wire[t][p] /\ g = wire'[t][p]
      BY <1>1
    <3>2. Owned(t, g)
      BY <1>1, <3>1 DEF FramesRight
    <3>3. Owned(t, g)'
      BY <3>2, OwnedKept
    <3> QED
      BY <3>1, <3>3 DEF Owned
  <2>5. \A p \in 1 .. Len(out'[t]) : Owned(t, out[t][p])'
    BY <2>1, <2>3 DEF Owned
  <2>6. \A p \in 1 .. Len(wire'[t]) : Owned(t, wire[t][p])'
    BY <2>4
  <2> QED
    BY <2>5, <2>6 DEF FramesRight
<1> QED
  BY <1>2, <1>3

\* The other side's frames and hands are not touched when an end sends.
LEMMA SenderKept ==
    ASSUME MuxInv, NEW s \in Sides, NEW i \in Ids, NEW j \in Ids,
           stream'[s][i].got = stream[s][i].got, stream'[s][i].eof = stream[s][i].eof,
           stream'[s][i].st = stream[s][i].st,
           \A t \in Sides, k \in Ids : t # s \/ k # i => stream'[t][k] = stream[t][k],
           UNCHANGED <<chan, released, reader, socket>>, Flowing(Across(s))' = Flowing(Across(s))
    PROVE  Messages(s, j)'
<1>1. Messages(s, j) /\ Across(s) \in Sides /\ Across(s) # s
  BY Holds
<1>2. /\ stream'[s][j].got = stream[s][j].got /\ stream'[s][j].eof = stream[s][j].eof
      /\ stream'[s][j].st = stream[s][j].st
  <2>1. CASE j = i
    BY <2>1
  <2>2. CASE j # i
    BY <2>2
  <2> QED
    BY <2>1, <2>2
<1>3. stream'[Across(s)][j] = stream[Across(s)][j]
  BY <1>1
<1>4. Hand(s, j)' = Hand(s, j) /\ (Taking(s, j)' => Taking(s, j))
  BY <1>2 DEF Hand, Taking
<1> QED
  BY <1>1, <1>2, <1>3, <1>4, Kept

\* The frame that joins the queue is another stream's.
LEMMA BesideKept ==
    ASSUME MuxInv, NEW r \in Sides, NEW j \in Ids, NEW f \in Frame, f.id # j,
           stream'[r][j] = stream[r][j], stream'[Across(r)][j] = stream[Across(r)][j],
           UNCHANGED <<chan, released, reader, socket>>,
           socket = "up" => Flowing(Across(r))' = Append(Flowing(Across(r)), f),
           socket # "up" => Flowing(Across(r))' = Flowing(Across(r))
    PROVE  Messages(r, j)'
<1>1. MuxTypes /\ Messages(r, j) /\ Hand(r, j)' = Hand(r, j) /\ (Taking(r, j)' => Taking(r, j))
  BY Holds DEF Hand, Taking
<1>2. Received(r, j)'
  BY <1>1 DEF Messages, Received
<1>3. ASSUME Taking(r, j)' PROVE Arriving(r, j)'
  <2> DEFINE g == Len(stream[r][j].got)
             eof == stream[r][j].eof
             c == chan[r][j]
             h == Hand(r, j)
             w == reader[r].what
             q == Flowing(Across(r))
             n == stream[Across(r)][j].sent
             d == stream[Across(r)][j].closed
  <2>1. WayTypes(j, g, c, h, w, q, n) /\ Way(j, g, eof, c, h, w, q, n, d, socket)
    BY <1>1, <1>3, WayTyped DEF Messages, Arriving
  <2> HIDE DEF g, eof, c, h, w, q, n, d
  <2>2. Way(j, g, eof, c, h, w, Append(q, f), n, d, socket)
    BY <2>1, WayBeside
  <2> USE DEF g, eof, c, h, w, q, n, d
  <2>3. CASE socket = "up"
    BY <1>1, <2>2, <2>3 DEF Arriving
  <2>4. CASE socket # "up"
    BY <1>1, <2>1, <2>4 DEF Arriving
  <2> QED
    BY <2>3, <2>4
<1> QED
  BY <1>2, <1>3 DEF Messages

\* An end that is held, and what is known of it.
LEMMA HeldEnd ==
    ASSUME MuxInv, NEW s \in Sides, NEW i \in Ids, stream[s][i].st = "open"
    PROVE  /\ MuxTypes /\ stream[s][i] \in End /\ stream \in [Sides -> [Ids -> End]]
           /\ stream[s][i].opener = Opener(i) /\ Opener(i) \in Sides
           /\ stream[s][i].got \in Seq(What) /\ Len(stream[s][i].got) \in Nat /\ stream[s][i].closed \in BOOLEAN
<1>1. stream[s][i] \in End /\ stream \in [Sides -> [Ids -> End]] /\ MuxTypes
  BY Holds DEF MuxTypes
<1>2. stream[s][i].got \in Seq(What) /\ stream[s][i].closed \in BOOLEAN
  BY <1>1 DEF End
<1>3. Len(stream[s][i].got) \in Nat
  BY <1>2, LenProperties
<1>4. stream[s][i].opener = Opener(i)
  BY Holds DEF EndsRight, EndRight
<1> QED
  BY <1>1, <1>2, <1>3, <1>4, AcrossSide

\* send_message.
LEMMA SendKept ==
    ASSUME MuxInv, NEW s \in Sides, NEW i \in Ids, SendMessage(s, i)
    PROVE  MuxInv'
<1> DEFINE f == [id |-> i, what |-> <<stream[s][i].opener, stream[s][i].sent + 1>>]
<1>1. /\ MuxTypes /\ stream[s][i] \in End /\ stream[s][i].st = "open" /\ stream[s][i].closed = FALSE
      /\ stream \in [Sides -> [Ids -> End]] /\ stream[s][i].opener = Opener(i) /\ Opener(i) \in Sides
  <2>1. stream[s][i].st = "open" /\ ~stream[s][i].closed
    BY DEF SendMessage, Live
  <2> QED
    BY <2>1, HeldEnd
<1>2. f \in Frame /\ f.id = i /\ f.what[1] = Opener(i) /\ f.what[2] = stream[s][i].sent + 1 /\ f.what[2] # FIN
  <2>1. stream[s][i].sent \in Nat
    BY <1>1 DEF End
  <2>2. stream[s][i].sent + 1 \in Nat /\ stream[s][i].sent + 1 # 0
    BY <2>1
  <2>3. <<stream[s][i].opener, stream[s][i].sent + 1>> \in What
    BY <1>1, <2>2 DEF What, Sides
  <2> QED
    BY <1>1, <2>2, <2>3 DEF Frame, FIN
<1>3. UNCHANGED <<nextId, opening, table, chan, acceptQueue, released, reader, writer, wire, socket>>
  BY DEF SendMessage
<1>4. out' = [out EXCEPT ![s] = Append(@, f)]
  BY DEF SendMessage, PutFrame
<1>5. /\ stream' \in [Sides -> [Ids -> End]]
      /\ stream'[s][i] = [stream[s][i] EXCEPT !.sent = @ + 1]
      /\ \A t \in Sides, j \in Ids : t # s \/ j # i => stream'[t][j] = stream[t][j]
  <2> DEFINE e == [stream[s][i] EXCEPT !.sent = @ + 1]
  <2>1. stream' = [stream EXCEPT ![s][i] = e]
    BY DEF SendMessage
  <2>2. e \in End
    <3>1. stream[s][i].sent \in Nat
      BY <1>1 DEF End
    <3>2. stream[s][i].sent + 1 \in Nat
      BY <3>1
    <3> QED
      BY <1>1, <3>2, EndEdits
  <2> HIDE DEF e
  <2> QED
    BY <1>1, <2>1, <2>2, Entry DEF e
<1>6. /\ stream'[s][i].st = "open" /\ stream'[s][i].opener = stream[s][i].opener
      /\ stream'[s][i].got = stream[s][i].got /\ stream'[s][i].eof = stream[s][i].eof
      /\ stream'[s][i].closed = FALSE /\ stream'[s][i].sent = stream[s][i].sent + 1
  BY <1>1, <1>5 DEF End
<1> HIDE DEF f
<1>7. /\ out' \in [Sides -> Seq(Frame)]
      /\ socket = "up" => Flowing(s)' = Append(Flowing(s), f)
      /\ socket # "up" => Flowing(s)' = Flowing(s)
      /\ Flowing(Across(s))' = Flowing(Across(s))
  BY <1>1, <1>2, <1>3, <1>4, FlowPut
<1>8. MuxTypes'
  BY <1>1, <1>3, <1>5, <1>7 DEF MuxTypes
<1>9. \A t \in Sides : IdsRight(t)' /\ EndsRight(t)' /\ AcceptRight(t)' /\ TasksRight(t)'
  BY <1>1, <1>3, <1>5, <1>6, StreamStep
<1>10. \A t \in Sides : FramesRight(t)'
  <2>1. PICK g \in Frame : g = f
    BY <1>2
  <2>2. Owned(s, g)'
    BY <1>2, <1>6, <2>1 DEF Owned
  <2>3. \A t \in Sides : FramesRight(t)
    BY Holds
  <2>4. /\ \A t \in Sides, j \in Ids : stream[t][j].st # "none" => stream'[t][j].st # "none"
        /\ \A t \in Sides, j \in Ids : stream[t][j].closed = TRUE => stream'[t][j].closed = TRUE
    BY <1>1, <1>5, <1>6
  <2> QED
    BY <1>1, <1>3, <1>4, <2>1, <2>2, <2>3, <2>4, PutOwned
<1>11. ASSUME NEW j \in Ids PROVE Messages(s, j)'
  <2>1. UNCHANGED <<chan, released, reader, socket>> /\ Flowing(Across(s))' = Flowing(Across(s))
    BY <1>3, <1>7
  <2>2. /\ stream'[s][i].got = stream[s][i].got /\ stream'[s][i].eof = stream[s][i].eof
        /\ stream'[s][i].st = stream[s][i].st
    BY <1>1, <1>6
  <2>3. \A t \in Sides, k \in Ids : t # s \/ k # i => stream'[t][k] = stream[t][k]
    BY <1>5
  <2> QED
    BY <2>1, <2>2, <2>3, SenderKept
<1>12. ASSUME NEW j \in Ids PROVE Messages(Across(s), j)'
  <2> DEFINE r == Across(s)
  <2>1. r \in Sides /\ r # s /\ Across(r) = s /\ Messages(r, j)
    BY Holds, AcrossSide
  <2>2. stream'[r][j] = stream[r][j] /\ chan'[r][j] = chan[r][j] /\ Hand(r, j)' = Hand(r, j)
    BY <1>3, <1>5, <2>1 DEF Hand
  <2>3. Taking(r, j)' <=> Taking(r, j)
    BY <1>3, <2>2 DEF Taking
  <2> HIDE DEF r
  <2>4. CASE j # i
    <3>1. stream'[Across(r)][j] = stream[Across(r)][j] /\ f.id # j
      BY <1>2, <1>5, <2>1, <2>4
    <3>2. /\ socket = "up" => Flowing(Across(r))' = Append(Flowing(Across(r)), f)
          /\ socket # "up" => Flowing(Across(r))' = Flowing(Across(r))
      BY <1>7, <2>1
    <3>3. Messages(r, j)'
      BY <1>2, <1>3, <2>1, <2>2, <3>1, <3>2, BesideKept
    <3> QED
      BY <3>3 DEF r
  <2>5. CASE j = i
    <3>1. Received(r, i) /\ Len(stream[r][i].got) \in Nat /\ stream[s][i].sent \in Nat
      <4>1. WayTypes(i, Len(stream[r][i].got), chan[r][i], Hand(r, i), reader[r].what, Flowing(s), stream[s][i].sent)
        BY <1>1, <2>1, WayTyped
      <4> QED
        BY <2>1, <2>5, <4>1 DEF Messages, WayTypes
    <3>2. Len(stream[r][i].got) <= stream[s][i].sent /\ ~(stream[r][i].eof = TRUE /\ socket = "up")
      BY <1>1, <2>1, <3>1 DEF Received
    <3>3. Received(r, i)'
      <4>1. Len(stream[r][i].got) <= stream[s][i].sent + 1
        BY <3>1, <3>2
      <4> QED
        BY <1>3, <1>6, <2>1, <2>2, <2>5, <3>1, <3>2, <4>1 DEF Received
    <3>4. ASSUME Taking(r, i)' PROVE Arriving(r, i)'
      <4> DEFINE g == Len(stream[r][i].got)
                 eof == stream[r][i].eof
                 c == chan[r][i]
                 h == Hand(r, i)
                 w == reader[r].what
                 q == Flowing(s)
                 n == stream[s][i].sent
                 d == stream[s][i].closed
      <4>1. WayTypes(i, g, c, h, w, q, n) /\ Way(i, g, eof, c, h, w, q, n, d, socket)
        BY <1>1, <2>1, <2>3, <2>5, <3>4, WayTyped DEF Messages, Arriving
      <4>2. \A p \in 1 .. Len(q) : q[p].id = i => q[p].what[2] # FIN
        BY <1>1, NotFinished
      <4>3. d = FALSE /\ g <= n /\ f.what[2] = n + 1 /\ ~(eof = TRUE /\ socket = "up")
        BY <1>1, <1>2, <3>2
      <4> HIDE DEF g, eof, c, h, w, q, n, d
      <4>4. CASE socket = "up"
        <5>1. Way(i, g, eof, c, h, w, Append(q, f), n + 1, d, socket)
          BY <1>2, <4>1, <4>2, <4>3, <4>4, WaySent
        <5> QED
          BY <1>1, <1>3, <1>6, <1>7, <2>1, <2>2, <2>5, <4>4, <5>1 DEF Arriving, g, eof, c, h, w, q, n, d
      <4>5. CASE socket # "up"
        <5>1. socket = "down"
          BY <1>1, <4>5 DEF MuxTypes
        <5>2. Way(i, g, eof, c, h, w, q, n + 1, d, socket)
          BY <4>1, <4>2, <5>1, WayGrown
        <5> QED
          BY <1>1, <1>3, <1>6, <1>7, <2>1, <2>2, <2>5, <4>5, <5>2 DEF Arriving, g, eof, c, h, w, q, n, d
      <4> QED
        BY <4>4, <4>5
    <3> QED
      BY <3>3, <3>4, <2>1, <2>5 DEF Messages, r
  <2> QED
    BY <2>4, <2>5
<1>13. \A t \in Sides, j \in Ids : Messages(t, j)'
  <2> SUFFICES ASSUME NEW t \in Sides, NEW j \in Ids PROVE Messages(t, j)'
    OBVIOUS
  <2>1. PICK r \in Sides : r = Across(s)
    BY AcrossSide
  <2>2. Messages(r, j)'
    BY <1>12, <2>1
  <2>3. t = s \/ t = r
    BY <2>1, AcrossSide
  <2> QED
    BY <1>11, <2>2, <2>3
<1> QED
  BY <1>8, <1>9, <1>10, <1>13, Established DEF Structure

\* There are two sides.
LEMMA EverySide ==
    ASSUME NEW s \in Sides, \A j \in Ids : Messages(s, j)', NEW r \in Sides, r = Across(s),
           \A j \in Ids : Messages(r, j)'
    PROVE  \A t \in Sides, j \in Ids : Messages(t, j)'
<1>1. \A t \in Sides : t = s \/ t = r
  BY AcrossSide
<1> QED
  BY <1>1

\* One end changes, in what it has received or by closing; the others' messages do not.
LEMMA OthersKept ==
    ASSUME MuxInv, NEW s \in Sides, NEW i \in Ids,
           stream'[s][i].sent = stream[s][i].sent,
           stream[s][i].closed = TRUE => stream'[s][i].closed = TRUE,
           \A t \in Sides, j \in Ids : t # s \/ j # i => stream'[t][j] = stream[t][j] /\ chan'[t][j] = chan[t][j],
           UNCHANGED <<released, reader, out, wire, socket>>
    PROVE  \A t \in Sides, j \in Ids : t # s \/ j # i => Messages(t, j)'
<1> SUFFICES ASSUME NEW t \in Sides, NEW j \in Ids, t # s \/ j # i PROVE Messages(t, j)'
  OBVIOUS
<1>1. Messages(t, j) /\ Across(t) \in Sides
  BY Holds
<1>2. stream'[t][j] = stream[t][j] /\ chan'[t][j] = chan[t][j]
  OBVIOUS
<1>3. Hand(t, j)' = Hand(t, j) /\ (Taking(t, j)' => Taking(t, j)) /\ Flowing(Across(t))' = Flowing(Across(t))
  BY <1>2 DEF Hand, Taking, Flowing
<1>4. /\ stream'[Across(t)][j].sent = stream[Across(t)][j].sent
      /\ stream[Across(t)][j].closed = TRUE => stream'[Across(t)][j].closed = TRUE
  <2>1. CASE Across(t) = s /\ j = i
    BY <2>1
  <2>2. CASE Across(t) # s \/ j # i
    <3>1. stream'[Across(t)][j] = stream[Across(t)][j]
      BY <1>1, <2>2
    <3> QED
      BY <3>1
  <2> QED
    BY <2>1, <2>2
<1> QED
  BY <1>1, <1>2, <1>3, <1>4, Kept

\* finish.
LEMMA FinishKept ==
    ASSUME MuxInv, NEW s \in Sides, NEW i \in Ids, Finish(s, i)
    PROVE  MuxInv'
<1> DEFINE f == [id |-> i, what |-> <<stream[s][i].opener, FIN>>]
<1>1. /\ MuxTypes /\ stream[s][i] \in End /\ stream[s][i].st = "open" /\ stream[s][i].closed = FALSE
      /\ stream \in [Sides -> [Ids -> End]] /\ stream[s][i].opener = Opener(i) /\ Opener(i) \in Sides
  <2>1. stream[s][i].st = "open" /\ ~stream[s][i].closed
    BY DEF Finish, Live
  <2> QED
    BY <2>1, HeldEnd
<1>2. f \in Frame /\ f.id = i /\ f.what[1] = Opener(i) /\ f.what[2] = FIN
  <2>1. <<stream[s][i].opener, FIN>> \in What
    BY <1>1 DEF What, Sides, FIN
  <2> QED
    BY <1>1, <2>1 DEF Frame
<1>3. UNCHANGED <<nextId, opening, table, chan, acceptQueue, released, reader, writer, wire, socket>>
  BY DEF Finish
<1>4. /\ stream' \in [Sides -> [Ids -> End]]
      /\ stream'[s][i] = [stream[s][i] EXCEPT !.closed = TRUE]
      /\ \A t \in Sides, j \in Ids : t # s \/ j # i => stream'[t][j] = stream[t][j]
  <2> DEFINE e == [stream[s][i] EXCEPT !.closed = TRUE]
  <2>1. stream' = [stream EXCEPT ![s][i] = e]
    BY DEF Finish
  <2>2. e \in End
    BY <1>1, EndEdits
  <2> HIDE DEF e
  <2>3. /\ stream' \in [Sides -> [Ids -> End]] /\ stream'[s][i] = e
        /\ \A t \in Sides, j \in Ids : t # s \/ j # i => stream'[t][j] = stream[t][j]
    BY <1>1, <2>1, <2>2, Entry
  <2> QED
    BY <2>3 DEF e
<1>5. /\ stream'[s][i].st = "open" /\ stream'[s][i].opener = stream[s][i].opener
      /\ stream'[s][i].got = stream[s][i].got /\ stream'[s][i].eof = stream[s][i].eof
      /\ stream'[s][i].closed = TRUE /\ stream'[s][i].sent = stream[s][i].sent
  BY <1>1, <1>4 DEF End
<1> HIDE DEF f
<1>6. /\ \A t \in Sides, j \in Ids : stream[t][j].st # "none" => stream'[t][j].st # "none"
      /\ \A t \in Sides, j \in Ids : stream[t][j].closed = TRUE => stream'[t][j].closed = TRUE
  BY <1>4, <1>5
<1>7. \A t \in Sides : IdsRight(t)' /\ EndsRight(t)' /\ AcceptRight(t)' /\ TasksRight(t)'
  BY <1>1, <1>3, <1>4, <1>5, StreamStep
<1>8. CASE writer[s] = "ended"
  <2>1. out' = out
    BY <1>8 DEF Finish, PutFrame
  <2>2. MuxTypes'
    BY <1>1, <1>3, <1>4, <2>1 DEF MuxTypes
  <2>3. ASSUME NEW t \in Sides PROVE FramesRight(t)'
    BY <1>1, <1>3, <1>6, <2>1, Holds, FramesKept
  <2>4. \A t \in Sides, j \in Ids : t # s \/ j # i => Messages(t, j)'
    <3>1. \A t \in Sides, j \in Ids : t # s \/ j # i => stream'[t][j] = stream[t][j] /\ chan'[t][j] = chan[t][j]
      BY <1>3, <1>4
    <3>2. UNCHANGED <<released, reader, out, wire, socket>>
      BY <1>3, <2>1
    <3> QED
      BY <1>5, <3>1, <3>2, OthersKept
  <2>5. Messages(s, i)'
    <3>1. UNCHANGED <<chan, released, reader, socket>> /\ Flowing(Across(s))' = Flowing(Across(s))
      BY <1>3, <2>1 DEF Flowing
    <3>2. /\ stream'[s][i].got = stream[s][i].got /\ stream'[s][i].eof = stream[s][i].eof
          /\ stream'[s][i].st = stream[s][i].st
      BY <1>1, <1>5
    <3>3. \A t \in Sides, k \in Ids : t # s \/ k # i => stream'[t][k] = stream[t][k]
      BY <1>4
    <3> QED
      BY <3>1, <3>2, <3>3, SenderKept
  <2>6. \A t \in Sides, j \in Ids : Messages(t, j)'
    BY <2>4, <2>5
  <2> QED
    BY <1>7, <2>2, <2>3, <2>6, Established DEF Structure
<1>9. CASE writer[s] # "ended"
  <2>1. out' = [out EXCEPT ![s] = Append(@, f)]
    BY <1>9 DEF Finish, PutFrame, f
  <2>2. /\ out' \in [Sides -> Seq(Frame)]
        /\ socket = "up" => Flowing(s)' = Append(Flowing(s), f)
        /\ socket # "up" => Flowing(s)' = Flowing(s)
        /\ Flowing(Across(s))' = Flowing(Across(s))
    BY <1>1, <1>2, <1>3, <2>1, FlowPut
  <2>3. MuxTypes'
    BY <1>1, <1>3, <1>4, <2>2 DEF MuxTypes
  <2>4. \A t \in Sides : FramesRight(t)'
    <3>1. PICK g \in Frame : g = f
      BY <1>2
    <3>2. Owned(s, g)'
      BY <1>2, <1>5, <3>1 DEF Owned
    <3>3. \A t \in Sides : FramesRight(t)
      BY Holds
    <3> QED
      BY <1>1, <1>3, <1>6, <2>1, <3>1, <3>2, <3>3, PutOwned
  <2>5. ASSUME NEW j \in Ids PROVE Messages(s, j)'
    <3>1. UNCHANGED <<chan, released, reader, socket>> /\ Flowing(Across(s))' = Flowing(Across(s))
      BY <1>3, <2>2
    <3>2. /\ stream'[s][i].got = stream[s][i].got /\ stream'[s][i].eof = stream[s][i].eof
          /\ stream'[s][i].st = stream[s][i].st
      BY <1>1, <1>5
    <3>3. \A t \in Sides, k \in Ids : t # s \/ k # i => stream'[t][k] = stream[t][k]
      BY <1>4
    <3> QED
      BY <3>1, <3>2, <3>3, SenderKept
  <2>6. PICK r \in Sides : r = Across(s) /\ r # s /\ Across(r) = s
    BY AcrossSide
  <2>7. ASSUME NEW j \in Ids PROVE Messages(r, j)'
    <3>1. stream'[r][j] = stream[r][j] /\ chan'[r][j] = chan[r][j] /\ Hand(r, j)' = Hand(r, j)
      BY <1>3, <1>4, <2>6 DEF Hand
    <3>2. /\ socket = "up" => Flowing(Across(r))' = Append(Flowing(Across(r)), f)
          /\ socket # "up" => Flowing(Across(r))' = Flowing(Across(r))
      BY <2>2, <2>6
    <3>3. CASE j # i
      <4>1. stream'[Across(r)][j] = stream[Across(r)][j] /\ f.id # j
        BY <1>2, <1>4, <2>6, <3>3
      <4> QED
        BY <1>2, <1>3, <2>6, <3>1, <3>2, <4>1, BesideKept
    <3>4. CASE j = i
      <4>1. Messages(r, i) /\ (Taking(r, i)' => Taking(r, i))
        BY <1>3, <3>1, <3>4, Holds DEF Taking
      <4>2. ~(stream[r][i].eof = TRUE /\ socket = "up")
        BY <1>1, <2>6, <4>1 DEF Messages, Received
      <4>3. Received(r, i)'
        BY <1>3, <1>5, <2>6, <3>1, <3>4, <4>1, <4>2 DEF Messages, Received
      <4>4. ASSUME Taking(r, i)' PROVE Arriving(r, i)'
        <5> DEFINE g == Len(stream[r][i].got)
                   eof == stream[r][i].eof
                   c == chan[r][i]
                   h == Hand(r, i)
                   w == reader[r].what
                   q == Flowing(s)
                   n == stream[s][i].sent
                   d == stream[s][i].closed
        <5>1. WayTypes(i, g, c, h, w, q, n) /\ Way(i, g, eof, c, h, w, q, n, d, socket)
          BY <1>1, <2>6, <4>1, <4>4, WayTyped DEF Messages, Arriving
        <5>2. \A p \in 1 .. Len(q) : q[p].id = i => q[p].what[2] # FIN
          BY <1>1, NotFinished
        <5>3. d = FALSE /\ ~(eof = TRUE /\ socket = "up") /\ h \in {0, 1}
          BY <1>1, <4>2, <5>1 DEF WayTypes
        <5> HIDE DEF g, eof, c, h, w, q, n, d
        <5>4. CASE socket = "up"
          <6>1. Way(i, g, eof, c, h, w, Append(q, f), n, TRUE, socket)
            BY <1>2, <5>1, <5>2, <5>3, <5>4, WayFinished
          <6> QED
            BY <1>1, <1>3, <1>5, <2>2, <2>6, <3>1, <3>4, <5>4, <6>1 DEF Arriving, g, eof, c, h, w, q, n, d
        <5>5. CASE socket # "up"
          <6>1. Way(i, g, eof, c, h, w, q, n, TRUE, socket)
            BY <5>1, <5>3, <5>5 DEF Way
          <6> QED
            BY <1>1, <1>3, <1>5, <2>2, <2>6, <3>1, <3>4, <5>5, <6>1 DEF Arriving, g, eof, c, h, w, q, n, d
        <5> QED
          BY <5>4, <5>5
      <4> QED
        BY <3>4, <4>3, <4>4 DEF Messages
    <3> QED
      BY <3>3, <3>4
  <2>8. \A t \in Sides, j \in Ids : Messages(t, j)'
    BY <2>5, <2>6, <2>7, EverySide
  <2> QED
    BY <1>7, <2>3, <2>4, <2>8, Established DEF Structure
<1> QED
  BY <1>8, <1>9

\* The WebSocketStream is dropped.
LEMMA DropStreamKept ==
    ASSUME MuxInv, NEW s \in Sides, NEW i \in Ids, DropStream(s, i)
    PROVE  MuxInv'
<1>1. MuxTypes /\ stream[s][i] \in End /\ stream[s][i].st = "open" /\ stream \in [Sides -> [Ids -> End]]
  BY HeldEnd DEF DropStream
<1>2. UNCHANGED <<nextId, opening, table, acceptQueue, released, reader, writer, out, wire, socket>>
  BY DEF DropStream
<1>3. /\ stream' \in [Sides -> [Ids -> End]]
      /\ stream'[s][i] = [stream[s][i] EXCEPT !.st = "dropped"]
      /\ \A t \in Sides, j \in Ids : t # s \/ j # i => stream'[t][j] = stream[t][j]
  <2> DEFINE e == [stream[s][i] EXCEPT !.st = "dropped"]
  <2>1. stream' = [stream EXCEPT ![s][i] = e]
    BY DEF DropStream
  <2>2. e \in End
    BY <1>1, EndEdits
  <2> HIDE DEF e
  <2>3. /\ stream' \in [Sides -> [Ids -> End]] /\ stream'[s][i] = e
        /\ \A t \in Sides, j \in Ids : t # s \/ j # i => stream'[t][j] = stream[t][j]
    BY <1>1, <2>1, <2>2, Entry
  <2> QED
    BY <2>3 DEF e
<1>4. /\ chan' \in [Sides -> [Ids -> Seq(What)]]
      /\ \A t \in Sides, j \in Ids : t # s \/ j # i => chan'[t][j] = chan[t][j]
  <2>1. chan' = [chan EXCEPT ![s][i] = <<>>]
    BY DEF DropStream
  <2>2. chan \in [Sides -> [Ids -> Seq(What)]] /\ <<>> \in Seq(What)
    BY <1>1 DEF MuxTypes
  <2> QED
    BY <2>1, <2>2, Entry
<1>5. /\ stream'[s][i].st = "dropped" /\ stream'[s][i].opener = stream[s][i].opener
      /\ stream'[s][i].got = stream[s][i].got /\ stream'[s][i].eof = stream[s][i].eof
      /\ stream'[s][i].closed = stream[s][i].closed /\ stream'[s][i].sent = stream[s][i].sent
  BY <1>1, <1>3 DEF End
<1>6. MuxTypes'
  BY <1>1, <1>2, <1>3, <1>4 DEF MuxTypes
<1>7. \A t \in Sides : IdsRight(t)' /\ EndsRight(t)' /\ AcceptRight(t)' /\ TasksRight(t)'
  <2>1. stream'[s][i].st # "none" /\ stream'[s][i].opener = stream[s][i].opener
    BY <1>5
  <2>2. UNCHANGED <<nextId, opening, table, acceptQueue, released, reader, writer, wire, socket>>
    BY <1>2
  <2> QED
    BY <1>1, <1>3, <1>4, <2>1, <2>2, StreamStep, ZenonT(60)
<1>8. ASSUME NEW t \in Sides PROVE FramesRight(t)'
  <2>1. /\ \A j \in Ids : stream[t][j].st # "none" => stream'[t][j].st # "none"
        /\ \A j \in Ids : stream[t][j].closed = TRUE => stream'[t][j].closed = TRUE
    BY <1>3, <1>5
  <2> QED
    BY <1>1, <1>2, <2>1, Holds, FramesKept
<1>9. \A t \in Sides, j \in Ids : t # s \/ j # i => Messages(t, j)'
  <2>1. \A t \in Sides, j \in Ids : t # s \/ j # i => stream'[t][j] = stream[t][j] /\ chan'[t][j] = chan[t][j]
    BY <1>3, <1>4
  <2>2. UNCHANGED <<released, reader, out, wire, socket>>
    BY <1>2
  <2>3. stream'[s][i].sent = stream[s][i].sent /\ (stream[s][i].closed = TRUE => stream'[s][i].closed = TRUE)
    BY <1>5
  <2> QED
    BY <2>1, <2>2, <2>3, OthersKept
<1>10. Messages(s, i)'
  <2>1. ~Taking(s, i)'
    BY <1>5 DEF Taking
  <2>2. stream'[Across(s)][i] = stream[Across(s)][i]
    BY <1>3, AcrossSide
  <2>3. Received(s, i)
    BY Holds
  <2>4. Received(s, i)'
    BY <1>2, <1>5, <2>3, <2>2 DEF Received
  <2> QED
    BY <2>1, <2>4 DEF Messages
<1> QED
  BY <1>6, <1>7, <1>8, <1>9, <1>10, Established DEF Structure

\* What RecvMessage does whatever it receives: one end and its channel change.
LEMMA ReceiverStep ==
    ASSUME MuxInv, NEW s \in Sides, NEW i \in Ids, NEW e \in End, NEW z \in Seq(What),
           stream[s][i].st = "open", stream' = [stream EXCEPT ![s][i] = e], chan' = [chan EXCEPT ![s][i] = z],
           e.st = "open", e.opener = stream[s][i].opener, e.sent = stream[s][i].sent,
           stream[s][i].closed = TRUE => e.closed = TRUE,
           UNCHANGED <<nextId, opening, table, acceptQueue, released, reader, writer, out, wire, socket>>,
           stream'[s][i] = e /\ chan'[s][i] = z => Messages(s, i)'
    PROVE  MuxInv'
<1>1. MuxTypes /\ stream \in [Sides -> [Ids -> End]] /\ chan \in [Sides -> [Ids -> Seq(What)]]
  BY Holds DEF MuxTypes
<1>2. /\ stream' \in [Sides -> [Ids -> End]] /\ stream'[s][i] = e
      /\ \A t \in Sides, j \in Ids : t # s \/ j # i => stream'[t][j] = stream[t][j]
  BY <1>1, Entry
<1>3. /\ chan' \in [Sides -> [Ids -> Seq(What)]] /\ chan'[s][i] = z
      /\ \A t \in Sides, j \in Ids : t # s \/ j # i => chan'[t][j] = chan[t][j]
  BY <1>1, Entry
<1>4. MuxTypes'
  BY <1>1, <1>2, <1>3 DEF MuxTypes
<1>5. \A t \in Sides : IdsRight(t)' /\ EndsRight(t)' /\ AcceptRight(t)' /\ TasksRight(t)'
  <2>1. stream'[s][i].st # "none" /\ stream'[s][i].opener = stream[s][i].opener
    BY <1>2
  <2>2. UNCHANGED <<nextId, opening, table, acceptQueue, released, reader, writer, wire, socket>>
    OBVIOUS
  <2> QED
    BY <1>2, <1>3, <2>1, <2>2, StreamStep, SMTT(60)
<1>6. ASSUME NEW t \in Sides PROVE FramesRight(t)'
  <2>1. /\ \A j \in Ids : stream[t][j].st # "none" => stream'[t][j].st # "none"
        /\ \A j \in Ids : stream[t][j].closed = TRUE => stream'[t][j].closed = TRUE
    BY <1>2
  <2> QED
    BY <1>1, <2>1, Holds, FramesKept
<1>7. \A t \in Sides, j \in Ids : t # s \/ j # i => Messages(t, j)'
  <2>1. \A t \in Sides, j \in Ids : t # s \/ j # i => stream'[t][j] = stream[t][j] /\ chan'[t][j] = chan[t][j]
    BY <1>2, <1>3
  <2>2. UNCHANGED <<released, reader, out, wire, socket>>
    OBVIOUS
  <2>3. stream'[s][i].sent = stream[s][i].sent /\ (stream[s][i].closed = TRUE => stream'[s][i].closed = TRUE)
    BY <1>2
  <2> QED
    BY <2>1, <2>2, <2>3, OthersKept
<1>8. Messages(s, i)'
  BY <1>2, <1>3
<1>9. \A t \in Sides, j \in Ids : Messages(t, j)'
  BY <1>7, <1>8
<1> QED
  BY <1>4, <1>5, <1>6, <1>9, Established DEF Structure

\* recv_message.
LEMMA RecvKept ==
    ASSUME MuxInv, NEW s \in Sides, NEW i \in Ids, RecvMessage(s, i)
    PROVE  MuxInv'
<1> DEFINE me == stream[s][i]
           c == chan[s][i]
           g == Len(me.got)
           h == Hand(s, i)
           w == reader[s].what
           q == Flowing(Across(s))
           n == stream[Across(s)][i].sent
           d == stream[Across(s)][i].closed
<1>1. /\ MuxTypes /\ me \in End /\ me.st = "open" /\ me.closed = FALSE /\ stream \in [Sides -> [Ids -> End]]
      /\ me.got \in Seq(What) /\ g \in Nat
  <2>1. stream[s][i].st = "open" /\ ~stream[s][i].closed
    BY DEF RecvMessage, Live
  <2> QED
    BY <2>1, HeldEnd
<1>2. UNCHANGED <<nextId, opening, table, acceptQueue, released, reader, writer, out, wire, socket>>
  BY DEF RecvMessage
<1>3. WayTypes(i, g, c, h, w, q, n) /\ Way(i, g, me.eof, c, h, w, q, n, d, socket) /\ Received(s, i)
  <2>1. Taking(s, i)
    BY <1>1 DEF Taking
  <2>2. Arriving(s, i) /\ Received(s, i)
    BY <2>1, Holds
  <2> QED
    BY <1>1, <2>2, WayTyped DEF Arriving
<1>4. Hand(s, i)' = h /\ Flowing(Across(s))' = q /\ reader'[s].what = w
  BY <1>2 DEF Hand, Flowing
<1>5. Across(s) \in Sides /\ Across(s) # s /\ c \in Seq(What) /\ chan \in [Sides -> [Ids -> Seq(What)]]
  BY <1>1, AcrossSide DEF MuxTypes
<1>6. CASE c # <<>> /\ chan' = [chan EXCEPT ![s][i] = Tail(@)]
           /\ stream' = [stream EXCEPT ![s][i] =
                        IF Head(c)[2] = FIN THEN [me EXCEPT !.closed = TRUE, !.eof = TRUE]
                                            ELSE [me EXCEPT !.got = Append(me.got, Head(c))]]
  <2>1. Head(c) = c[1] /\ c[1] \in What /\ Tail(c) \in Seq(What)
    <3>1. Len(c) \in Nat /\ Len(c) # 0
      BY <1>5, <1>6, EmptySeq, LenProperties
    <3>2. 1 \in 1 .. Len(c)
      BY <3>1
    <3> QED
      BY <1>5, <1>6, <3>1, <3>2, HeadTailProperties
  <2>2. chan' = [chan EXCEPT ![s][i] = Tail(c)]
    BY <1>6
  <2>3. CASE c[1][2] = FIN
    <3> DEFINE e == [me EXCEPT !.closed = TRUE, !.eof = TRUE]
    <3>1. e \in End
      BY <1>1, EndEdits
    <3>2. /\ e.st = "open" /\ e.opener = me.opener /\ e.sent = me.sent /\ e.closed = TRUE /\ e.eof = TRUE
          /\ e.got = me.got
      BY <1>1 DEF End
    <3>3. stream' = [stream EXCEPT ![s][i] = e]
      BY <1>6, <2>1, <2>3
    <3>4. /\ Way(i, g, TRUE, Tail(c), h, w, q, n, d, socket)
          /\ socket = "up" => d = TRUE /\ g = n
      <4> HIDE DEF g, h, w, q, n, d, c, me
      <4> QED
        BY <1>3, <1>6, <2>3, WayOver
    <3>5. stream'[Across(s)][i] = stream[Across(s)][i]
      BY <1>1, <1>5, <3>1, <3>3, Entry
    <3> HIDE DEF e
    <3>6. ASSUME stream'[s][i] = e, chan'[s][i] = Tail(c) PROVE Messages(s, i)'
      <4>1. Received(s, i)'
        BY <1>2, <1>3, <3>2, <3>4, <3>5, <3>6 DEF Received
      <4>2. Arriving(s, i)'
        BY <1>2, <1>4, <3>2, <3>4, <3>5, <3>6 DEF Arriving
      <4> QED
        BY <4>1, <4>2 DEF Messages
    <3> QED
      BY <1>1, <1>2, <2>1, <2>2, <3>1, <3>2, <3>3, <3>6, ReceiverStep
  <2>4. CASE c[1][2] # FIN
    <3> DEFINE e == [me EXCEPT !.got = Append(me.got, c[1])]
    <3>1. e \in End
      BY <1>1, <2>1, EndEdits
    <3>2. /\ e.st = "open" /\ e.opener = me.opener /\ e.sent = me.sent /\ e.closed = FALSE /\ e.eof = me.eof
          /\ e.got = Append(me.got, c[1])
      BY <1>1 DEF End
    <3>3. stream' = [stream EXCEPT ![s][i] = e]
      <4>1. Head(c)[2] # FIN
        BY <2>1, <2>4
      <4>2. stream' = [stream EXCEPT ![s][i] = [me EXCEPT !.got = Append(me.got, Head(c))]]
        BY <1>6, <4>1
      <4> QED
        BY <2>1, <4>2
    <3>4. Way(i, g + 1, me.eof, Tail(c), h, w, q, n, d, socket) /\ c[1] = <<Opener(i), g + 1>> /\ g + 1 <= n
      <4> HIDE DEF g, h, w, q, n, d, c, me
      <4> QED
        BY <1>3, <1>6, <2>4, WayGot
    <3>5. stream'[Across(s)][i] = stream[Across(s)][i]
      BY <1>1, <1>5, <3>1, <3>3, Entry
    <3>6. /\ Len(Append(me.got, c[1])) = g + 1 /\ Append(me.got, c[1])[g + 1] = c[1]
          /\ \A k \in 1 .. g : Append(me.got, c[1])[k] = me.got[k]
      BY <1>1, <2>1, AppendProperties
    <3>7. /\ \A k \in 1 .. g : me.got[k] = <<Opener(i), k>>
          /\ me.eof = TRUE /\ socket = "up" => d = TRUE /\ g = n
      BY <1>3 DEF Received
    <3>8. ~(me.eof = TRUE /\ socket = "up")
      <4>1. n \in Nat
        BY <1>3 DEF WayTypes
      <4> QED
        BY <1>1, <3>4, <3>7, <4>1
    <3> HIDE DEF e
    <3>9. ASSUME stream'[s][i] = e, chan'[s][i] = Tail(c) PROVE Messages(s, i)'
      <4>1. Len(stream'[s][i].got) = g + 1 /\ stream'[s][i].eof = me.eof
        BY <3>2, <3>6, <3>9
      <4>2. \A k \in 1 .. g + 1 : stream'[s][i].got[k] = <<Opener(i), k>>
        <5> HIDE DEF g, me, c
        <5>1. \A k \in 1 .. g + 1 : k \in 1 .. g \/ k = g + 1
          BY <1>1
        <5> QED
          BY <3>2, <3>4, <3>6, <3>7, <3>9, <5>1
      <4>3. Received(s, i)'
        BY <1>2, <3>4, <3>5, <3>8, <4>1, <4>2 DEF Received
      <4>4. Arriving(s, i)'
        BY <1>2, <1>4, <3>4, <3>5, <3>9, <4>1 DEF Arriving
      <4> QED
        BY <4>3, <4>4 DEF Messages
    <3> QED
      BY <1>1, <1>2, <2>1, <2>2, <3>1, <3>2, <3>3, <3>9, ReceiverStep
  <2> QED
    BY <2>3, <2>4
<1>7. CASE stream' = [stream EXCEPT ![s][i].closed = TRUE] /\ chan' = chan
  <2> DEFINE e == [me EXCEPT !.closed = TRUE]
  <2>1. e \in End
    BY <1>1, EndEdits
  <2>2. /\ e.st = "open" /\ e.opener = me.opener /\ e.sent = me.sent /\ e.closed = TRUE /\ e.eof = me.eof
        /\ e.got = me.got
    BY <1>1 DEF End
  <2>3. stream' = [stream EXCEPT ![s][i] = e]
    BY <1>7
  <2>4. chan' = [chan EXCEPT ![s][i] = c]
    BY <1>5, <1>7
  <2>5. stream'[Across(s)][i] = stream[Across(s)][i]
    BY <1>1, <1>5, <2>1, <2>3, Entry
  <2> HIDE DEF e
  <2>6. ASSUME stream'[s][i] = e, chan'[s][i] = c PROVE Messages(s, i)'
    <3>1. Received(s, i)'
      BY <1>2, <1>3, <2>2, <2>5, <2>6 DEF Received
    <3>2. Arriving(s, i)'
      BY <1>2, <1>3, <1>4, <2>2, <2>5, <2>6 DEF Arriving
    <3> QED
      BY <3>1, <3>2 DEF Messages
  <2> QED
    BY <1>1, <1>2, <1>5, <2>1, <2>2, <2>3, <2>4, <2>6, ReceiverStep
<1> QED
  BY <1>6, <1>7 DEF RecvMessage

(***************************************************************************)
(* The two tasks, and the socket.                                          *)
(***************************************************************************)
\* The ends are as they were, and so is what comes to them.
LEMMA FlowIdle ==
    ASSUME MuxInv, UNCHANGED <<chan, stream, released, socket>>,
           \A t \in Sides : Flowing(t)' = Flowing(t),
           \A t \in Sides, j \in Ids : Hand(t, j)' = Hand(t, j),
           \A t \in Sides, j \in Ids : Hand(t, j) = 1 => reader'[t].what = reader[t].what
    PROVE  \A t \in Sides, j \in Ids : Messages(t, j)'
<1> SUFFICES ASSUME NEW t \in Sides, NEW j \in Ids PROVE Messages(t, j)'
  OBVIOUS
<1>1. Messages(t, j) /\ Across(t) \in Sides
  BY Holds
<1>2. PICK r \in Sides : r = Across(t)
  BY <1>1
<1>3. Flowing(r)' = Flowing(r)
  BY <1>2
<1>4. Flowing(Across(t))' = Flowing(Across(t))
  BY <1>2, <1>3 DEF Flowing
<1>5. Taking(t, j)' => Taking(t, j)
  BY DEF Taking
<1> QED
  BY <1>1, <1>4, <1>5, Kept

\* Fewer frames, each of which was there or has been owned.
LEMMA FramesMoved ==
    ASSUME MuxTypes, MuxTypes', NEW t \in Sides, UNCHANGED stream,
           \A p \in 1 .. Len(out'[t]) : Owned(t, out'[t][p]),
           \A p \in 1 .. Len(wire'[t]) : Owned(t, wire'[t][p])
    PROVE  FramesRight(t)'
  BY DEF FramesRight, Owned

\* The writer task sends a frame, or ends.
LEMMA WriterKept ==
    ASSUME MuxInv, NEW s \in Sides, WriterTask(s)
    PROVE  MuxInv'
<1>1. UNCHANGED <<nextId, opening, table, chan, stream, acceptQueue, released, reader, socket>>
  BY DEF WriterTask
<1>2. /\ MuxTypes /\ out \in [Sides -> Seq(Frame)] /\ wire \in [Sides -> Seq(Frame)]
      /\ out[s] \in Seq(Frame) /\ out[s] # <<>> /\ wire[s] \in Seq(Frame)
  BY Holds DEF WriterTask, MuxTypes
<1>3. /\ Tail(out[s]) \in Seq(Frame) /\ Len(out[s]) \in Nat /\ Len(out[s]) >= 1
      /\ Len(Tail(out[s])) = Len(out[s]) - 1 /\ \A p \in 1 .. Len(out[s]) - 1 : Tail(out[s])[p] = out[s][p + 1]
      /\ Head(out[s]) = out[s][1] /\ Head(out[s]) \in Frame
  BY <1>2, FrameTaken
<1>4. \A t \in Sides, j \in Ids : Hand(t, j)' = Hand(t, j) /\ reader'[t].what = reader[t].what
  BY <1>1 DEF Hand
<1>5. ASSUME NEW t \in Sides PROVE IdsRight(t)' /\ EndsRight(t)' /\ AcceptRight(t)'
  BY <1>1, Holds, IdsSame, EndsSame, AcceptSame
<1>6. \A t \in Sides : FramesRight(t) /\ TasksRight(t)
  BY Holds
<1>7. CASE socket = "up"
  <2>1. wire' = [wire EXCEPT ![s] = Append(@, Head(out[s]))] /\ out' = [out EXCEPT ![s] = Tail(@)] /\ writer' = writer
    BY <1>7 DEF WriterTask
  <2>2. Append(wire[s], Head(out[s])) \in Seq(Frame)
    BY <1>2, <1>3, AppendProperties
  <2>3. /\ wire' \in [Sides -> Seq(Frame)] /\ out' \in [Sides -> Seq(Frame)]
        /\ wire'[s] = Append(wire[s], Head(out[s])) /\ out'[s] = Tail(out[s])
        /\ \A t \in Sides : t # s => wire'[t] = wire[t] /\ out'[t] = out[t]
    BY <1>2, <1>3, <2>1, <2>2
  <2>4. MuxTypes'
    BY <1>1, <1>2, <2>1, <2>3 DEF MuxTypes
  <2>5. ASSUME NEW t \in Sides PROVE FramesRight(t)'
    <3>1. CASE t # s
      <4>1. wire'[t] = wire[t] /\ out'[t] = out[t] /\ FramesRight(t)
        BY <1>6, <2>3, <3>1
      <4> QED
        BY <1>1, <4>1 DEF FramesRight, Owned
    <3>2. CASE t = s
      <4>1. ASSUME NEW p \in 1 .. Len(out'[s]) PROVE Owned(s, out'[s][p])
        <5>1. p + 1 \in 1 .. Len(out[s]) /\ out'[s][p] = out[s][p + 1]
          BY <1>3, <2>3
        <5> QED
          BY <1>6, <5>1 DEF FramesRight
      <4>2. ASSUME NEW p \in 1 .. Len(wire'[s]) PROVE Owned(s, wire'[s][p])
        <5>1. /\ Len(wire[s]) \in Nat /\ Len(wire'[s]) = Len(wire[s]) + 1
              /\ wire'[s][Len(wire[s]) + 1] = out[s][1] /\ \A k \in 1 .. Len(wire[s]) : wire'[s][k] = wire[s][k]
          BY <1>2, <1>3, <2>3, AppendProperties, LenProperties
        <5>2. CASE p \in 1 .. Len(wire[s])
          BY <1>6, <5>1, <5>2 DEF FramesRight
        <5>3. CASE p = Len(wire[s]) + 1
          <6>1. 1 \in 1 .. Len(out[s])
            BY <1>3
          <6> QED
            BY <1>6, <5>1, <5>3, <6>1 DEF FramesRight
        <5> QED
          BY <5>1, <5>2, <5>3
      <4> QED
        BY <1>1, <1>2, <2>4, <3>2, <4>1, <4>2, FramesMoved
    <3> QED
      BY <3>1, <3>2
  <2>6. ASSUME NEW t \in Sides PROVE TasksRight(t)'
    <3>1. reader[t].st \notin {"telling", "ended"} /\ writer[t] # "ended"
      BY <1>6, <1>7 DEF TasksRight
    <3> QED
      BY <1>1, <1>6, <2>1, <3>1 DEF TasksRight
  <2>7. ASSUME NEW t \in Sides PROVE Flowing(t)' = Flowing(t)
    <3>1. CASE t # s
      <4>1. wire'[t] = wire[t] /\ out'[t] = out[t]
        BY <2>3, <3>1
      <4> QED
        BY <1>1, <4>1 DEF Flowing
    <3>2. CASE t = s
      <4>1. \A a, b \in Seq(Frame) : b # <<>> => Append(a, Head(b)) \o Tail(b) = a \o b
        <5> SUFFICES ASSUME NEW a \in Seq(Frame), NEW b \in Seq(Frame), b # <<>>
                     PROVE  Append(a, Head(b)) \o Tail(b) = a \o b
          OBVIOUS
        <5>1. b = <<Head(b)>> \o Tail(b) /\ Head(b) \in Frame /\ Tail(b) \in Seq(Frame)
          BY HeadTailProperties
        <5>2. Append(a, Head(b)) = a \o <<Head(b)>>
          BY <5>1
        <5>3. PICK k \in Frame : k = Head(b)
          BY <5>1
        <5>4. <<k>> \in Seq(Frame)
          OBVIOUS
        <5>5. PICK x \in Seq(Frame) : x = <<Head(b)>>
          BY <5>3, <5>4
        <5>6. PICK y \in Seq(Frame) : y = Tail(b)
          BY <5>1
        <5>7. (a \o x) \o y = a \o (x \o y)
          OBVIOUS
        <5> QED
          BY <5>1, <5>2, <5>5, <5>6, <5>7
      <4>2. wire'[s] \o out'[s] = wire[s] \o out[s]
        BY <1>2, <2>3, <4>1
      <4> QED
        BY <1>1, <1>7, <3>2, <4>2 DEF Flowing
    <3> QED
      BY <3>1, <3>2
  <2>8. \A t \in Sides, j \in Ids : Messages(t, j)'
    BY <1>1, <1>4, <2>7, FlowIdle
  <2> QED
    BY <1>5, <2>4, <2>5, <2>6, <2>8, Established DEF Structure
<1>8. CASE socket # "up"
  <2>1. wire' = wire /\ out' = [out EXCEPT ![s] = <<>>] /\ writer' = [writer EXCEPT ![s] = "ended"]
    BY <1>8 DEF WriterTask
  <2>2. socket = "down" /\ <<>> \in Seq(Frame) /\ writer \in [Sides -> {"running", "ended"}]
    BY <1>2, <1>8 DEF MuxTypes
  <2>3. /\ out' \in [Sides -> Seq(Frame)] /\ writer' \in [Sides -> {"running", "ended"}]
        /\ out'[s] = <<>> /\ \A t \in Sides : t # s => out'[t] = out[t]
    BY <1>2, <2>1, <2>2
  <2>4. MuxTypes'
    BY <1>1, <1>2, <2>1, <2>3 DEF MuxTypes
  <2>5. ASSUME NEW t \in Sides PROVE FramesRight(t)'
    <3>1. \A p \in 1 .. Len(out'[t]) : Owned(t, out'[t][p])
      <4>1. CASE t = s
        <5>1. Len(out'[t]) = 0
          BY <2>3, <4>1
        <5> QED
          BY <5>1
      <4>2. CASE t # s
        BY <1>6, <2>3, <4>2 DEF FramesRight
      <4> QED
        BY <4>1, <4>2
    <3>2. \A p \in 1 .. Len(wire'[t]) : Owned(t, wire'[t][p])
      BY <1>6, <2>1 DEF FramesRight
    <3> QED
      BY <1>1, <1>2, <2>4, <3>1, <3>2, FramesMoved
  <2>6. ASSUME NEW t \in Sides PROVE TasksRight(t)'
    BY <1>1, <1>6, <2>1, <2>2 DEF TasksRight
  <2>7. ASSUME NEW t \in Sides PROVE Flowing(t)' = Flowing(t)
    BY <1>1, <1>8, <2>1 DEF Flowing
  <2>8. \A t \in Sides, j \in Ids : Messages(t, j)'
    BY <1>1, <1>4, <2>7, FlowIdle
  <2> QED
    BY <1>5, <2>4, <2>5, <2>6, <2>8, Established DEF Structure
<1> QED
  BY <1>7, <1>8

\* The reader takes the first frame off the socket.
LEMMA FlowTake ==
    ASSUME MuxTypes, NEW o \in Sides, wire[o] # <<>>, wire' = [wire EXCEPT ![o] = Tail(@)],
           UNCHANGED <<out, socket>>
    PROVE  /\ wire' \in [Sides -> Seq(Frame)] /\ wire'[o] = Tail(wire[o])
           /\ \A t \in Sides : t # o => wire'[t] = wire[t] /\ Flowing(t)' = Flowing(t)
           /\ Flowing(o) # <<>> /\ Flowing(o)[1] = Head(wire[o]) /\ Flowing(o)' = Tail(Flowing(o))
           /\ Head(wire[o]) = wire[o][1] /\ Head(wire[o]) \in Frame /\ 1 \in 1 .. Len(wire[o])
           /\ \A p \in 1 .. Len(Tail(wire[o])) : p + 1 \in 1 .. Len(wire[o]) /\ Tail(wire[o])[p] = wire[o][p + 1]
<1>1. wire \in [Sides -> Seq(Frame)] /\ wire[o] \in Seq(Frame) /\ out[o] \in Seq(Frame)
  BY DEF MuxTypes
<1>2. /\ Tail(wire[o]) \in Seq(Frame) /\ Len(wire[o]) \in Nat /\ Len(wire[o]) >= 1
      /\ Len(Tail(wire[o])) = Len(wire[o]) - 1
      /\ \A p \in 1 .. Len(wire[o]) - 1 : Tail(wire[o])[p] = wire[o][p + 1]
      /\ Head(wire[o]) = wire[o][1] /\ wire[o][1] \in Frame
  BY <1>1, FrameTaken
<1>3. /\ wire' \in [Sides -> Seq(Frame)] /\ wire'[o] = Tail(wire[o])
      /\ \A t \in Sides : t # o => wire'[t] = wire[t]
  BY <1>1, <1>2
<1>4. ASSUME NEW t \in Sides, t # o PROVE Flowing(t)' = Flowing(t)
  BY <1>3, <1>4 DEF Flowing
<1>5. \A a, b \in Seq(Frame) : a # <<>> =>
         a \o b # <<>> /\ (a \o b)[1] = Head(a) /\ Tail(a) \o b = Tail(a \o b)
  <2> SUFFICES ASSUME NEW a \in Seq(Frame), NEW b \in Seq(Frame), a # <<>>
               PROVE  a \o b # <<>> /\ (a \o b)[1] = Head(a) /\ Tail(a) \o b = Tail(a \o b)
    OBVIOUS
  <2>1. PICK x \in Frame, y \in Seq(Frame) : x = Head(a) /\ y = Tail(a) /\ a = <<x>> \o y /\ x = a[1]
    <3>1. Head(a) = a[1] /\ a[1] \in Frame /\ Tail(a) \in Seq(Frame)
      BY FrameTaken
    <3>2. a = <<Head(a)>> \o Tail(a)
      BY HeadTailProperties
    <3> QED
      BY <3>1, <3>2
  <2>2. a \o b = <<x>> \o (y \o b) /\ y \o b \in Seq(Frame)
    <3>1. <<x>> \in Seq(Frame)
      OBVIOUS
    <3>2. \A u, v, z \in Seq(Frame) : (u \o v) \o z = u \o (v \o z)
      OBVIOUS
    <3> QED
      BY <2>1, <3>1, <3>2, ConcatProperties
  <2>3. \A v \in Seq(Frame) : <<x>> \o v # <<>> /\ (<<x>> \o v)[1] = x /\ Tail(<<x>> \o v) = v
    OBVIOUS
  <2> QED
    BY <2>1, <2>2, <2>3
<1>6. /\ Flowing(o) # <<>> /\ Flowing(o)[1] = Head(wire[o]) /\ Flowing(o)' = Tail(Flowing(o))
  <2>1. CASE socket = "up"
    <3>1. Flowing(o) = wire[o] \o out[o] /\ Flowing(o)' = Tail(wire[o]) \o out[o]
      BY <1>3, <2>1 DEF Flowing
    <3> QED
      BY <1>1, <1>5, <3>1
  <2>2. CASE socket # "up"
    BY <1>2, <1>3, <2>2 DEF Flowing
  <2> QED
    BY <2>1, <2>2
<1>7. \A p \in 1 .. Len(Tail(wire[o])) : p + 1 \in 1 .. Len(wire[o]) /\ Tail(wire[o])[p] = wire[o][p + 1]
  BY <1>2
<1>8. 1 \in 1 .. Len(wire[o])
  BY <1>2
<1> QED
  BY <1>2, <1>3, <1>4, <1>6, <1>7, <1>8

\* A frame that comes from the other side, and whose stream it is.
LEMMA TakenFrame ==
    ASSUME MuxInv, NEW s \in Sides, wire[Across(s)] # <<>>
    PROVE  LET f == Head(wire[Across(s)]) IN
           /\ f \in Frame /\ f.id \in Ids /\ f.what \in What /\ f.what = <<Opener(f.id), f.what[2]>>
           /\ f.what[2] = FIN => stream[Across(s)][f.id].closed = TRUE
           /\ f.id \in table[Opener(f.id)]
           /\ f.id \notin table[s] => Opener(f.id) = Across(s) /\ stream[s][f.id].st = "none" /\ chan[s][f.id] = <<>>
<1> DEFINE f == Head(wire[Across(s)])
<1>1. Across(s) \in Sides /\ MuxTypes /\ wire[Across(s)] \in Seq(Frame)
  BY Holds, FlowTyped
<1>2. PICK o \in Sides : o = Across(s)
  BY <1>1
<1>3. f = wire[o][1] /\ f \in Frame /\ 1 \in 1 .. Len(wire[o])
  BY <1>1, <1>2, FrameTaken
<1>4. Owned(o, f)
  BY <1>3, Holds DEF FramesRight
<1> HIDE DEF f
<1>5. f.id \in Ids /\ f.what \in What
  BY <1>3 DEF Frame
<1>6. stream[o][f.id].st # "none" /\ f.what[1] = Opener(f.id) /\ (f.what[2] = FIN => stream[o][f.id].closed = TRUE)
  BY <1>4 DEF Owned
<1>7. f.what = <<Opener(f.id), f.what[2]>>
  <2>1. f.what = <<f.what[1], f.what[2]>>
    BY <1>5 DEF What
  <2> QED
    BY <1>6, <2>1
<1>8. f.id \in table[o]
  BY <1>5, <1>6, Holds DEF EndsRight, EndRight
<1>9. f.id \in table[Opener(f.id)]
  BY <1>8, Holds DEF IdsRight
<1>10. f.id \notin table[s] => Opener(f.id) = o /\ stream[s][f.id].st = "none" /\ chan[s][f.id] = <<>>
  <2>1. EndRight(s, f.id)
    BY <1>5, Holds DEF EndsRight
  <2>2. Opener(f.id) = s \/ Opener(f.id) = o
    BY <1>2, AcrossSide
  <2> QED
    BY <1>9, <2>1, <2>2 DEF EndRight
<1> QED
  BY <1>2, <1>3, <1>5, <1>6, <1>7, <1>9, <1>10 DEF f

\* The reader task takes a frame: of a stream that it knows, of a new one, or one to pass over.
LEMMA ReaderKept ==
    ASSUME MuxInv, NEW s \in Sides, ReaderTask(s)
    PROVE  MuxInv'
<1>1. PICK o \in Sides : o = Across(s) /\ o # s /\ Across(o) = s
  BY AcrossSide
<1>2. wire[o] # <<>> /\ reader[s].st = "reading" /\ reader[s].id = 0
  BY <1>1, Holds DEF ReaderTask, TasksRight
<1>3. PICK f \in Frame : f = Head(wire[o])
  BY <1>1, <1>2, TakenFrame
<1>4. PICK i \in Ids : i = f.id
  BY <1>1, <1>2, <1>3, TakenFrame
<1>5. /\ f.what \in What /\ f.what = <<Opener(i), f.what[2]>> /\ i \in table[Opener(i)]
      /\ f.what[2] = FIN => stream[o][i].closed = TRUE
      /\ i \notin table[s] => Opener(i) = o /\ stream[s][i].st = "none" /\ chan[s][i] = <<>>
  BY <1>1, <1>2, <1>3, <1>4, TakenFrame
<1>6. UNCHANGED <<nextId, opening, stream, acceptQueue, released, writer, out, socket>>
  BY DEF ReaderTask
<1>7. wire' = [wire EXCEPT ![o] = Tail(@)]
  BY <1>1 DEF ReaderTask
<1>8. MuxTypes /\ reader \in [Sides -> ReaderState] /\ reader[s] \in ReaderState /\ table \in [Sides -> SUBSET Ids]
      /\ chan \in [Sides -> [Ids -> Seq(What)]]
  BY Holds DEF MuxTypes
<1>9. /\ wire' \in [Sides -> Seq(Frame)] /\ wire'[o] = Tail(wire[o]) /\ wire'[s] = wire[s]
      /\ Flowing(s)' = Flowing(s) /\ Flowing(o) # <<>> /\ Flowing(o)[1] = f /\ Flowing(o)' = Tail(Flowing(o))
      /\ \A p \in 1 .. Len(wire'[o]) : p + 1 \in 1 .. Len(wire[o]) /\ wire'[o][p] = wire[o][p + 1]
  <2>1. UNCHANGED <<out, socket>>
    BY <1>6
  <2>2. /\ wire' \in [Sides -> Seq(Frame)] /\ wire'[o] = Tail(wire[o])
        /\ \A t \in Sides : t # o => wire'[t] = wire[t] /\ Flowing(t)' = Flowing(t)
        /\ Flowing(o) # <<>> /\ Flowing(o)[1] = Head(wire[o]) /\ Flowing(o)' = Tail(Flowing(o))
        /\ \A p \in 1 .. Len(Tail(wire[o])) : p + 1 \in 1 .. Len(wire[o]) /\ Tail(wire[o])[p] = wire[o][p + 1]
    BY <1>2, <1>7, <1>8, <2>1, FlowTake, Zenon
  <2> QED
    BY <1>1, <1>3, <2>2, Zenon
<1> DEFINE new == i \notin table[s] /\ f.what[2] # FIN
<1>10. /\ table' = [table EXCEPT ![s] = IF new THEN @ \cup {i} ELSE @]
       /\ chan' = [chan EXCEPT ![s][i] = IF new THEN <<f.what>> ELSE @]
       /\ reader' = [reader EXCEPT ![s] =
              IF i \in table[s] THEN [@ EXCEPT !.st = "sending", !.id = i, !.what = f.what]
              ELSE IF new THEN [@ EXCEPT !.st = "announcing", !.id = i] ELSE @]
  BY <1>1, <1>3, <1>4 DEF ReaderTask
<1>11. /\ table' \in [Sides -> SUBSET Ids] /\ table'[o] = table[o]
       /\ new => table'[s] = table[s] \cup {i}
       /\ ~new => table'[s] = table[s]
  <2> HIDE DEF new
  <2> QED
    BY <1>1, <1>8, <1>10
<1>12. /\ chan' \in [Sides -> [Ids -> Seq(What)]]
       /\ chan'[s][i] = IF new THEN <<f.what>> ELSE chan[s][i]
       /\ \A t \in Sides, j \in Ids : t # s \/ j # i => chan'[t][j] = chan[t][j]
  <2> DEFINE z == IF new THEN <<f.what>> ELSE chan[s][i]
  <2>1. <<f.what>> \in Seq(What) /\ chan[s][i] \in Seq(What)
    BY <1>5, <1>8
  <2>2. z \in Seq(What) /\ chan' = [chan EXCEPT ![s][i] = z]
    BY <1>10, <2>1
  <2>3. z = IF new THEN <<f.what>> ELSE chan[s][i]
    OBVIOUS
  <2> HIDE DEF z, new
  <2>4. /\ chan' \in [Sides -> [Ids -> Seq(What)]] /\ chan'[s][i] = z
        /\ \A t \in Sides, j \in Ids : t # s \/ j # i => chan'[t][j] = chan[t][j]
    BY <1>8, <2>2, Entry
  <2> QED
    BY <2>3, <2>4
<1>13. /\ reader' \in [Sides -> ReaderState] /\ reader'[o] = reader[o]
       /\ i \in table[s] => reader'[s].st = "sending" /\ reader'[s].id = i /\ reader'[s].what = f.what
       /\ new => reader'[s].st = "announcing" /\ reader'[s].id = i
       /\ ~new /\ i \notin table[s] => reader'[s] = reader[s]
  <2>1. /\ [reader[s] EXCEPT !.st = "sending", !.id = i, !.what = f.what] \in ReaderState
        /\ [reader[s] EXCEPT !.st = "announcing", !.id = i] \in ReaderState
    BY <1>5, <1>8 DEF ReaderState
  <2>2. CASE i \in table[s]
    <3>1. reader' = [reader EXCEPT ![s] = [reader[s] EXCEPT !.st = "sending", !.id = i, !.what = f.what]]
      BY <1>10, <2>2
    <3> QED
      BY <1>1, <1>8, <2>1, <2>2, <3>1 DEF ReaderState
  <2>3. CASE new
    <3>1. reader' = [reader EXCEPT ![s] = [reader[s] EXCEPT !.st = "announcing", !.id = i]]
      BY <1>10, <2>3
    <3> QED
      BY <1>1, <1>8, <2>1, <2>3, <3>1 DEF ReaderState
  <2>4. CASE ~new /\ i \notin table[s]
    <3>1. reader' = [reader EXCEPT ![s] = reader[s]]
      BY <1>10, <2>4
    <3> QED
      BY <1>1, <1>8, <2>4, <3>1
  <2> QED
    BY <2>2, <2>3, <2>4
<1>14. MuxTypes'
  BY <1>6, <1>8, <1>9, <1>11, <1>12, <1>13 DEF MuxTypes
<1>15. \A t \in Sides : table[t] \subseteq table'[t]
  <2>1. \A t \in Sides : t = s \/ t = o
    BY <1>1, AcrossSide
  <2> QED
    BY <1>11, <2>1
<1>16. \A t \in Sides : t = s \/ t = o
  BY <1>1, AcrossSide
<1>17. ASSUME NEW t \in Sides PROVE IdsRight(t)'
  <2>1. IdsRight(t) /\ nextId'[t] = nextId[t] /\ opening'[t] = opening[t] /\ released'[t] = released[t]
    BY <1>6, Holds
  <2>2. \A j \in table[t] : j \in table'[Opener(j)] /\ (Opener(j) = t => j < nextId[t])
    BY <1>15, <2>1, AcrossSide DEF IdsRight
  <2>3. CASE t = s /\ new
    <3>1. Opener(i) = o /\ i \in table'[Opener(i)]
      BY <1>5, <1>15, <2>3, AcrossSide
    <3>2. opening[s] # 0 => opening[s] # i
      <4>1. opening[s] # 0 => opening[s] % 2 = FirstId(s) % 2
        BY <2>1, <2>3 DEF IdsRight
      <4> QED
        BY <1>1, <3>1, <4>1, DrawnBy
    <3> QED
      BY <1>1, <1>11, <2>1, <2>2, <2>3, <3>1, <3>2 DEF IdsRight
  <2>4. CASE ~(t = s /\ new)
    <3>1. table'[t] = table[t]
      BY <1>11, <1>16, <2>4
    <3> QED
      BY <2>1, <2>2, <3>1 DEF IdsRight
  <2> QED
    BY <2>3, <2>4
<1>18. ASSUME NEW t \in Sides PROVE EndsRight(t)'
  <2> SUFFICES ASSUME NEW j \in Ids PROVE EndRight(t, j)'
    BY DEF EndsRight
  <2>1. EndRight(t, j) /\ stream'[t][j] = stream[t][j] /\ table[t] \subseteq table'[t]
    BY <1>6, <1>15, Holds DEF EndsRight
  <2>2. j \notin table'[t] => chan'[t][j] = chan[t][j]
    BY <1>11, <1>12
  <2> QED
    BY <2>1, <2>2 DEF EndRight
<1>19. ASSUME NEW t \in Sides PROVE FramesRight(t)'
  <2>1. FramesRight(t)
    BY Holds
  <2>2. \A p \in 1 .. Len(out'[t]) : Owned(t, out'[t][p])
    BY <1>6, <2>1 DEF FramesRight
  <2>3. \A p \in 1 .. Len(wire'[t]) : Owned(t, wire'[t][p])
    BY <1>9, <1>16, <2>1 DEF FramesRight
  <2> QED
    BY <1>6, <1>8, <1>14, <2>2, <2>3, FramesMoved
<1>20. \A t \in Sides, j \in Ids : Waiting(t, j) => Waiting(t, j)'
  BY <1>6, <1>15 DEF Waiting
<1>21. AcceptRight(o)'
  <2>1. AcceptRight(o) /\ reader'[o] = reader[o]
    BY <1>13, Holds
  <2> QED
    BY <1>6, <1>20, <2>1, Announced, AcceptKept
<1>22. AcceptRight(s)'
  <2>1. CASE new
    <3>1. i \in table'[s] /\ stream'[s][i].st = "none" /\ Opener(i) = Across(s)
      BY <1>1, <1>5, <1>6, <1>11, <2>1
    <3>2. Waiting(s, i)'
      BY <3>1 DEF Waiting
    <3>3. \A p \in 1 .. Len(acceptQueue[s]) : acceptQueue[s][p] \in Ids /\ Waiting(s, acceptQueue[s][p])
      BY Holds, Announced DEF AcceptRight
    <3>4. \A p \in 1 .. Len(acceptQueue[s]) : acceptQueue[s][p] # i
      BY <2>1, <3>3 DEF Waiting
    <3>5. ASSUME NEW p \in 1 .. Len(acceptQueue'[s]) PROVE Waiting(s, acceptQueue[s][p])'
      <4>1. PICK j \in Ids : j = acceptQueue[s][p] /\ Waiting(s, j)
        BY <1>6, <3>3
      <4>2. Waiting(s, j)'
        BY <1>20, <4>1
      <4> QED
        BY <1>6, <4>1, <4>2 DEF Waiting
    <3>6. reader'[s].id = i /\ Waiting(s, reader[s].id)'
      BY <1>13, <2>1, <3>2 DEF Waiting
    <3>7. AcceptRight(s)
      BY Holds
    <3> QED
      BY <1>6, <3>4, <3>5, <3>6, <3>7 DEF AcceptRight
  <2>2. CASE ~new
    <3>1. reader'[s].st # "announcing"
      BY <1>2, <1>13, <2>2
    <3>2. AcceptRight(s)
      BY Holds
    <3> QED
      BY <1>6, <1>20, <3>1, <3>2, Announced, AcceptKept
  <2> QED
    BY <2>1, <2>2
<1>23. TasksRight(o)'
  BY <1>1, <1>6, <1>9, <1>11, <1>13, Holds DEF TasksRight
<1>24. TasksRight(s)'
  <2>1. TasksRight(s)
    BY Holds
  <2>2. reader'[s].st \in {"reading", "sending", "announcing"} /\ (reader'[s].st = "reading" => reader'[s].id = 0)
    BY <1>2, <1>13
  <2>3. reader'[s].st = "sending" => reader'[s].id \in table'[s]
    BY <1>2, <1>13, <1>15
  <2> QED
    BY <1>6, <2>1, <2>2, <2>3 DEF TasksRight
<1>25. ASSUME NEW j \in Ids PROVE Messages(o, j)'
  <2>1. Messages(o, j)
    BY Holds
  <2>2. chan'[o][j] = chan[o][j] /\ reader'[o] = reader[o] /\ Flowing(Across(o))' = Flowing(Across(o))
    BY <1>1, <1>9, <1>12, <1>13 DEF Flowing
  <2>3. Hand(o, j)' = Hand(o, j) /\ (Taking(o, j)' => Taking(o, j))
    BY <1>6, <2>2 DEF Hand, Taking
  <2> QED
    BY <1>6, <2>1, <2>2, <2>3, Kept
<1>26. ASSUME NEW j \in Ids PROVE Messages(s, j)'
  <2> DEFINE g == Len(stream[s][j].got)
             eof == stream[s][j].eof
             c == chan[s][j]
             h == Hand(s, j)
             w == reader[s].what
             w2 == reader'[s].what
             q == Flowing(o)
             n == stream[o][j].sent
             d == stream[o][j].closed
  <2>1. Received(s, j) /\ Received(s, j)' /\ (Taking(s, j)' => Taking(s, j))
    <3>1. Received(s, j)
      BY Holds
    <3>2. Received(s, j)'
      BY <1>6, <3>1 DEF Received
    <3> QED
      BY <1>6, <3>1, <3>2 DEF Taking
  <2>2. ASSUME Taking(s, j)' PROVE Arriving(s, j)'
    <3>1. WayTypes(j, g, c, h, w, q, n) /\ Way(j, g, eof, c, h, w, q, n, d, socket)
      <4>1. Arriving(s, j)
        BY <2>1, <2>2, Holds
      <4> QED
        BY <1>1, <1>8, <4>1, WayTyped DEF Arriving
    <3>2. h = 0 /\ q # <<>> /\ q[1] = f /\ g <= n
      BY <1>1, <1>2, <1>9, <2>1 DEF Hand, Received
    <3>3. ASSUME NEW h2, NEW c2, Way(j, g, eof, c2, h2, w2, Tail(q), n, d, socket), h2 = Hand(s, j)', c2 = chan'[s][j]
          PROVE  Arriving(s, j)'
      BY <1>1, <1>6, <1>9, <3>3 DEF Arriving
    <3>4. CASE j # i
      <4>1. Way(j, g, eof, c, h, w, Tail(q), n, d, socket)
        <5> HIDE DEF g, eof, c, h, w, q, n, d
        <5> QED
          BY <1>4, <3>1, <3>2, <3>4, WayPassed
      <4>2. Way(j, g, eof, c, h, w2, Tail(q), n, d, socket)
        <5> HIDE DEF g, eof, c, h, w, q, n, d, w2
        <5> QED
          BY <3>2, <4>1, WayHandless
      <4>3. h = Hand(s, j)' /\ c = chan'[s][j]
        BY <1>2, <1>12, <1>13, <3>2, <3>4 DEF Hand
      <4> QED
        BY <3>3, <4>2, <4>3
    <3>5. CASE j = i /\ i \in table[s]
      <4>1. Way(j, g, eof, c, 1, q[1].what, Tail(q), n, d, socket)
        <5>1. q[1].id = j /\ (q[1].what[2] = FIN => d = TRUE) /\ q[1].what = <<Opener(j), q[1].what[2]>>
          BY <1>4, <1>5, <3>2, <3>5
        <5> HIDE DEF g, eof, c, h, w, q, n, d
        <5> QED
          BY <3>1, <3>2, <5>1, WayTaken
      <4>2. q[1].what = w2 /\ 1 = Hand(s, j)' /\ c = chan'[s][j]
        BY <1>12, <1>13, <3>2, <3>5 DEF Hand
      <4> QED
        BY <3>3, <4>1, <4>2
    <3>6. CASE j = i /\ new
      <4>1. Way(j, g, eof, <<q[1].what>>, 0, w2, Tail(q), n, d, socket)
        <5>1. /\ q[1].id = j /\ q[1].what[2] # FIN /\ q[1].what = <<Opener(j), q[1].what[2]>> /\ c = <<>>
          BY <1>4, <1>5, <3>2, <3>6
        <5> HIDE DEF g, eof, c, h, w, q, n, d, w2
        <5> QED
          BY <3>1, <3>2, <5>1, WayNew
      <4>2. 0 = Hand(s, j)' /\ <<q[1].what>> = chan'[s][j]
        BY <1>12, <1>13, <3>2, <3>6 DEF Hand
      <4> QED
        BY <3>3, <4>1, <4>2
    <3>7. CASE j = i /\ i \notin table[s] /\ ~new
      <4>1. Way(j, g, eof, c, h, w2, Tail(q), n, d, socket)
        <5>1. q[1].id = j /\ q[1].what[2] = FIN /\ c = <<>>
          BY <1>4, <1>5, <3>2, <3>7
        <5> HIDE DEF g, eof, c, h, w, q, n, d, w2
        <5> QED
          BY <3>1, <3>2, <5>1, WaySkipped
      <4>2. h = Hand(s, j)' /\ c = chan'[s][j]
        BY <1>12, <1>13, <3>7 DEF Hand
      <4> QED
        BY <3>3, <4>1, <4>2
    <3> QED
      BY <3>4, <3>5, <3>6, <3>7
  <2> QED
    BY <2>1, <2>2 DEF Messages
<1>27. \A t \in Sides, j \in Ids : Messages(t, j)'
  BY <1>1, <1>25, <1>26, EverySide
<1>28. ASSUME NEW t \in Sides PROVE Structure(t)'
  BY <1>16, <1>17, <1>18, <1>19, <1>21, <1>22, <1>23, <1>24 DEF Structure
<1> QED
  BY <1>14, <1>27, <1>28, Established

\* The reader's own steps move no frame and no end.
LEMMA ReaderStep ==
    ASSUME MuxInv, NEW s \in Sides,
           UNCHANGED <<nextId, opening, table, stream, released, writer, out, wire, socket>>,
           NEW r \in ReaderState, reader' = [reader EXCEPT ![s] = r],
           chan' \in [Sides -> [Ids -> Seq(What)]], acceptQueue' \in [Sides -> Seq(Ids)],
           \A t \in Sides, j \in Ids : j \notin table[t] => chan'[t][j] = chan[t][j],
           \A t \in Sides : t # s => acceptQueue'[t] = acceptQueue[t],
           r.st = "reading" => r.id = 0,
           r.st \notin {"sending", "announcing"},
           r.st = "telling" => r.id \in table[s] \cup {0} /\ r.todo \subseteq table[s],
           r.st \in {"telling", "ended"} => socket = "down" /\ wire[Across(s)] = <<>>,
           acceptQueue'[s] = acceptQueue[s] \/ AcceptRight(s)',
           \A t \in Sides, j \in Ids : Messages(t, j)'
    PROVE  MuxInv'
<1>1. reader \in [Sides -> ReaderState] /\ MuxTypes
  BY Holds DEF MuxTypes
<1>2. reader' \in [Sides -> ReaderState] /\ reader'[s] = r /\ \A t \in Sides : t # s => reader'[t] = reader[t]
  BY <1>1
<1>3. MuxTypes'
  BY <1>1, <1>2 DEF MuxTypes
<1>4. ASSUME NEW t \in Sides PROVE IdsRight(t)' /\ FramesRight(t)'
  BY Holds, IdsSame, FramesSame
<1>5. ASSUME NEW t \in Sides PROVE EndsRight(t)'
  <2> SUFFICES ASSUME NEW j \in Ids PROVE EndRight(t, j)'
    BY DEF EndsRight
  <2>1. EndRight(t, j)
    BY Holds DEF EndsRight
  <2> QED
    BY <2>1 DEF EndRight
<1>6. \A t \in Sides, j \in Ids : Waiting(t, j) => Waiting(t, j)'
  BY DEF Waiting
<1>7. ASSUME NEW t \in Sides PROVE AcceptRight(t)'
  <2>1. AcceptRight(t)
    BY Holds
  <2>2. CASE acceptQueue'[t] = acceptQueue[t]
    <3>1. reader'[t].st = "announcing" => reader[t].st = "announcing" /\ reader'[t].id = reader[t].id
      BY <1>2
    <3> QED
      BY <1>6, <2>1, <2>2, <3>1, Announced, AcceptKept
  <2>3. CASE acceptQueue'[t] # acceptQueue[t]
    BY <2>3
  <2> QED
    BY <2>2, <2>3
<1>8. ASSUME NEW t \in Sides PROVE TasksRight(t)'
  <2>1. TasksRight(t)
    BY Holds
  <2>2. CASE t = s
    BY <1>2, <2>1, <2>2 DEF TasksRight
  <2>3. CASE t # s
    <3>1. reader'[t] = reader[t]
      BY <1>2, <2>3
    <3> QED
      BY <2>1, <3>1 DEF TasksRight
  <2> QED
    BY <2>2, <2>3
<1> QED
  BY <1>3, <1>4, <1>5, <1>7, <1>8, Established DEF Structure

\* The reader's hand, when it holds nothing before and after a step.
LEMMA NoHand ==
    ASSUME MuxInv, NEW s \in Sides, NEW r \in ReaderState, reader' = [reader EXCEPT ![s] = r],
           reader[s].st # "sending", r.st # "sending"
    PROVE  /\ \A t \in Sides, j \in Ids : Hand(t, j)' = Hand(t, j)
           /\ \A t \in Sides, j \in Ids : Hand(t, j) = 1 => reader'[t].what = reader[t].what
<1>1. reader \in [Sides -> ReaderState]
  BY Holds DEF MuxTypes
<1>2. reader'[s] = r /\ \A t \in Sides : t # s => reader'[t] = reader[t]
  BY <1>1
<1> SUFFICES ASSUME NEW t \in Sides, NEW j \in Ids
             PROVE  Hand(t, j)' = Hand(t, j) /\ (Hand(t, j) = 1 => reader'[t].what = reader[t].what)
  OBVIOUS
<1>3. CASE t = s
  BY <1>2, <1>3 DEF Hand
<1>4. CASE t # s
  BY <1>2, <1>4 DEF Hand
<1> QED
  BY <1>3, <1>4

\* The reader task between two frames.
LEMMA ReadingState ==
    Reading \in ReaderState /\ Reading.st = "reading" /\ Reading.id = 0
  BY DEF Reading, ReaderState, What, FIN

\* The reader task finds the socket lost.
LEMMA EndsKept ==
    ASSUME MuxInv, NEW s \in Sides, ReaderEnds(s)
    PROVE  MuxInv'
<1> DEFINE r == [reader[s] EXCEPT !.st = "telling", !.todo = table[s]]
<1>1. /\ MuxTypes /\ reader[s] \in ReaderState /\ table[s] \subseteq Ids /\ reader[s].st = "reading" /\ reader[s].id = 0
      /\ chan \in [Sides -> [Ids -> Seq(What)]] /\ acceptQueue \in [Sides -> Seq(Ids)]
  BY Holds DEF ReaderEnds, MuxTypes, TasksRight
<1>2. r \in ReaderState /\ r.st = "telling" /\ r.id = 0 /\ r.todo = table[s]
  BY <1>1 DEF ReaderState
<1>3. UNCHANGED <<nextId, opening, table, chan, stream, acceptQueue, released, writer, out, wire, socket>>
  BY DEF ReaderEnds
<1>4. reader' = [reader EXCEPT ![s] = r] /\ socket = "down" /\ wire[Across(s)] = <<>>
  BY DEF ReaderEnds
<1> HIDE DEF r
<1>5. \A t \in Sides, j \in Ids : Messages(t, j)'
  <2>1. /\ \A t \in Sides, j \in Ids : Hand(t, j)' = Hand(t, j)
        /\ \A t \in Sides, j \in Ids : Hand(t, j) = 1 => reader'[t].what = reader[t].what
    BY <1>1, <1>2, <1>4, NoHand
  <2> QED
    BY <1>3, <2>1, Idle
<1> QED
  BY <1>1, <1>2, <1>3, <1>4, <1>5, ReaderStep

\* The reader task queues a new stream to be accepted.
LEMMA AnnounceKept ==
    ASSUME MuxInv, NEW s \in Sides, Announce(s)
    PROVE  MuxInv'
<1> DEFINE a == acceptQueue[s]
<1>1. /\ MuxTypes /\ reader[s].st = "announcing" /\ reader[s].id \in Ids /\ a \in Seq(Ids)
      /\ chan \in [Sides -> [Ids -> Seq(What)]] /\ acceptQueue \in [Sides -> Seq(Ids)] /\ Len(a) \in Nat
  <2>1. a \in Seq(Ids) /\ MuxTypes /\ chan \in [Sides -> [Ids -> Seq(What)]] /\ acceptQueue \in [Sides -> Seq(Ids)]
    BY Holds DEF MuxTypes
  <2>2. reader[s].st = "announcing"
    BY DEF Announce
  <2>3. reader[s].id \in Ids
    BY <2>2, Announced
  <2> QED
    BY <2>1, <2>2, <2>3, LenProperties
<1>2. UNCHANGED <<nextId, opening, table, chan, stream, released, writer, out, wire, socket>>
  BY DEF Announce
<1>3. reader' = [reader EXCEPT ![s] = Reading]
  BY DEF Announce
<1>4. \A t \in Sides, j \in Ids : Messages(t, j)'
  <2>1. /\ \A t \in Sides, j \in Ids : Hand(t, j)' = Hand(t, j)
        /\ \A t \in Sides, j \in Ids : Hand(t, j) = 1 => reader'[t].what = reader[t].what
    BY <1>1, <1>3, ReadingState, NoHand
  <2> QED
    BY <1>2, <2>1, Idle
<1>5. PICK i \in Ids : i = reader[s].id
  BY <1>1
<1>6. /\ acceptQueue' \in [Sides -> Seq(Ids)] /\ \A t \in Sides : t # s => acceptQueue'[t] = acceptQueue[t]
      /\ acceptQueue'[s] = IF released[s] THEN a ELSE Append(a, i)
  <2>1. acceptQueue' = [acceptQueue EXCEPT ![s] = IF released[s] THEN a ELSE Append(a, i)]
    BY <1>5 DEF Announce
  <2>2. Append(a, i) \in Seq(Ids)
    BY <1>1, AppendProperties
  <2> HIDE DEF a
  <2> QED
    BY <1>1, <2>1, <2>2
<1>7. acceptQueue'[s] = acceptQueue[s] \/ AcceptRight(s)'
  <2>1. CASE released[s]
    BY <1>6, <2>1
  <2>2. CASE ~released[s]
    <3>1. PICK z \in Seq(Ids) : z = Append(a, i) /\ acceptQueue'[s] = z
      BY <1>1, <1>6, <2>2, AppendProperties
    <3>2. Len(z) = Len(a) + 1 /\ z[Len(a) + 1] = i /\ \A p \in 1 .. Len(a) : z[p] = a[p]
      BY <1>1, <3>1, AppendProperties
    <3>3. /\ \A p \in 1 .. Len(a) : Waiting(s, a[p]) /\ a[p] # i
          /\ \A p, q \in 1 .. Len(a) : a[p] = a[q] => p = q
          /\ Waiting(s, i)
      BY <1>1, <1>5, Holds DEF AcceptRight
    <3> HIDE DEF a
    <3>4. \A p \in 1 .. Len(z) : p \in 1 .. Len(a) \/ p = Len(a) + 1
      BY <1>1, <3>2
    <3>5. \A p \in 1 .. Len(z) : Waiting(s, z[p])
      BY <3>2, <3>3, <3>4
    <3>6. \A p, q \in 1 .. Len(z) : z[p] = z[q] => p = q
      BY <3>2, <3>3, <3>4
    <3>7. ASSUME NEW p \in 1 .. Len(z) PROVE Waiting(s, z[p])'
      BY <1>2, <3>5 DEF Waiting
    <3>8. reader'[s].st = "reading"
      BY <1>1, <1>3, ReadingState DEF MuxTypes
    <3> QED
      BY <1>2, <2>2, <3>1, <3>6, <3>7, <3>8 DEF AcceptRight, Waiting
  <2> QED
    BY <2>1, <2>2
<1> QED
  BY <1>1, <1>2, <1>3, <1>4, <1>6, <1>7, ReadingState, ReaderStep

\* What the reader puts into a channel, if the end takes it.
LEMMA ChannelPut ==
    ASSUME MuxTypes, NEW s \in Sides, NEW i \in Ids, NEW x \in What, PutInChannel(s, i, x)
    PROVE  /\ chan' \in [Sides -> [Ids -> Seq(What)]]
           /\ Taking(s, i) => chan'[s][i] = Append(chan[s][i], x)
           /\ \A t \in Sides, j \in Ids : t # s \/ j # i => chan'[t][j] = chan[t][j]
<1> DEFINE dropped == stream[s][i].st = "dropped" \/ (stream[s][i].st = "none" /\ released[s])
           z == IF dropped THEN chan[s][i] ELSE Append(chan[s][i], x)
<1>1. chan \in [Sides -> [Ids -> Seq(What)]] /\ chan[s][i] \in Seq(What) /\ Append(chan[s][i], x) \in Seq(What)
  BY AppendProperties DEF MuxTypes
<1>2. z \in Seq(What)
  BY <1>1
<1>3. chan' = [chan EXCEPT ![s][i] = z]
  BY DEF PutInChannel
<1>4. Taking(s, i) => z = Append(chan[s][i], x)
  BY DEF Taking
<1> HIDE DEF z
<1>5. /\ chan' \in [Sides -> [Ids -> Seq(What)]] /\ chan'[s][i] = z
      /\ \A t \in Sides, j \in Ids : t # s \/ j # i => chan'[t][j] = chan[t][j]
  BY <1>1, <1>2, <1>3, Entry
<1> QED
  BY <1>4, <1>5

\* The reader hands something to one stream: the others' messages stay.
LEMMA HandedKept ==
    ASSUME MuxInv, NEW s \in Sides, NEW i \in Ids,
           UNCHANGED <<stream, released, out, wire, socket>>,
           NEW r \in ReaderState, reader' = [reader EXCEPT ![s] = r], r.st # "sending",
           reader[s].st = "sending" => reader[s].id = i,
           \A t \in Sides, j \in Ids : t # s \/ j # i => chan'[t][j] = chan[t][j],
           Taking(s, i) => Arriving(s, i)'
    PROVE  \A t \in Sides, j \in Ids : Messages(t, j)'
<1>1. reader \in [Sides -> ReaderState]
  BY Holds DEF MuxTypes
<1>2. reader'[s] = r /\ \A t \in Sides : t # s => reader'[t] = reader[t]
  BY <1>1
<1>3. ASSUME NEW t \in Sides, NEW j \in Ids, t # s \/ j # i PROVE Messages(t, j)'
  <2>1. Messages(t, j) /\ chan'[t][j] = chan[t][j]
    BY <1>3, Holds
  <2>2. Taking(t, j)' => Taking(t, j)
    BY DEF Taking
  <2>3. Flowing(Across(t))' = Flowing(Across(t))
    BY DEF Flowing
  <2>4. Hand(t, j)' = Hand(t, j) /\ (Hand(t, j) = 1 => reader'[t].what = reader[t].what)
    <3>1. CASE t = s
      BY <1>2, <1>3, <3>1 DEF Hand
    <3>2. CASE t # s
      BY <1>2, <3>2 DEF Hand
    <3> QED
      BY <3>1, <3>2
  <2> QED
    BY <2>1, <2>2, <2>3, <2>4, Kept
<1>4. Messages(s, i)'
  <2>1. Received(s, i)
    BY Holds
  <2>2. Received(s, i)'
    BY <2>1 DEF Received
  <2>3. Taking(s, i)' => Taking(s, i)
    BY DEF Taking
  <2> QED
    BY <2>2, <2>3 DEF Messages
<1> QED
  BY <1>3, <1>4

\* The reader task puts the message in its hand into the channel of the stream.
LEMMA DeliverKept ==
    ASSUME MuxInv, NEW s \in Sides, Deliver(s)
    PROVE  MuxInv'
<1>1. /\ MuxTypes /\ reader[s].st = "sending" /\ reader[s].id \in table[s] /\ reader[s] \in ReaderState
      /\ table[s] \subseteq Ids /\ reader \in [Sides -> ReaderState] /\ acceptQueue \in [Sides -> Seq(Ids)]
  BY Holds DEF Deliver, MuxTypes, TasksRight
<1>2. PICK i \in Ids : i = reader[s].id
  BY <1>1
<1>3. reader[s].what \in What
  BY <1>1 DEF ReaderState
<1>4. UNCHANGED <<nextId, opening, table, stream, acceptQueue, released, writer, out, wire, socket>>
  BY DEF Deliver
<1>5. reader' = [reader EXCEPT ![s] = Reading]
  BY DEF Deliver
<1>6. /\ chan' \in [Sides -> [Ids -> Seq(What)]]
      /\ Taking(s, i) => chan'[s][i] = Append(chan[s][i], reader[s].what)
      /\ \A t \in Sides, j \in Ids : t # s \/ j # i => chan'[t][j] = chan[t][j]
  <2>1. PutInChannel(s, i, reader[s].what)
    BY <1>2 DEF Deliver
  <2> QED
    BY <1>1, <1>3, <2>1, ChannelPut
<1>7. ASSUME Taking(s, i) PROVE Arriving(s, i)'
  <2> DEFINE g == Len(stream[s][i].got)
             eof == stream[s][i].eof
             c == chan[s][i]
             h == Hand(s, i)
             w == reader[s].what
             w2 == reader'[s].what
             q == Flowing(Across(s))
             n == stream[Across(s)][i].sent
             d == stream[Across(s)][i].closed
  <2>1. WayTypes(i, g, c, h, w, q, n) /\ Way(i, g, eof, c, h, w, q, n, d, socket)
    <3>1. Arriving(s, i)
      BY <1>7, Holds
    <3> QED
      BY <1>1, <3>1, WayTyped DEF Arriving
  <2>2. h = 1
    BY <1>1, <1>2 DEF Hand
  <2>3. Way(i, g, eof, Append(c, w), 0, w2, q, n, d, socket)
    <3> HIDE DEF g, eof, c, h, w, q, n, d, w2
    <3> QED
      BY <2>1, <2>2, WayDelivered
  <2>4. Hand(s, i)' = 0
    BY <1>1, <1>5, ReadingState DEF Hand
  <2>5. Flowing(Across(s))' = q
    BY <1>4 DEF Flowing
  <2> QED
    BY <1>4, <1>6, <1>7, <2>3, <2>4, <2>5 DEF Arriving
<1>8. \A t \in Sides, j \in Ids : Messages(t, j)'
  BY <1>1, <1>2, <1>4, <1>5, <1>6, <1>7, ReadingState, HandedKept
<1>9. \A t \in Sides, j \in Ids : j \notin table[t] => chan'[t][j] = chan[t][j]
  BY <1>1, <1>2, <1>6
<1> QED
  BY <1>1, <1>4, <1>5, <1>6, <1>8, <1>9, ReadingState, ReaderStep

\* The reader task tells one stream after another that the socket is lost.
LEMMA TellKept ==
    ASSUME MuxInv, NEW s \in Sides, Tell(s)
    PROVE  MuxInv'
<1>1. /\ MuxTypes /\ reader[s].st = "telling" /\ reader[s].id \in table[s] \cup {0} /\ reader[s] \in ReaderState
      /\ reader[s].todo \subseteq table[s] /\ socket = "down" /\ wire[Across(s)] = <<>>
      /\ table[s] \subseteq Ids /\ reader \in [Sides -> ReaderState] /\ acceptQueue \in [Sides -> Seq(Ids)]
      /\ chan \in [Sides -> [Ids -> Seq(What)]]
  BY Holds DEF Tell, MuxTypes, TasksRight
<1>2. UNCHANGED <<nextId, opening, table, stream, acceptQueue, released, writer, out, wire, socket>>
  BY DEF Tell
<1>3. ASSUME NEW r \in ReaderState, reader' = [reader EXCEPT ![s] = r], chan' = chan, r.st \in {"telling", "ended"},
             r.id \in table[s] \cup {0}, r.todo \subseteq table[s]
      PROVE  MuxInv'
  <2>1. \A t \in Sides, j \in Ids : Messages(t, j)'
    <3>1. /\ \A t \in Sides, j \in Ids : Hand(t, j)' = Hand(t, j)
          /\ \A t \in Sides, j \in Ids : Hand(t, j) = 1 => reader'[t].what = reader[t].what
      BY <1>1, <1>3, NoHand
    <3> QED
      BY <1>2, <1>3, <3>1, Idle
  <2> QED
    BY <1>1, <1>2, <1>3, <2>1, ReaderStep
<1>4. CASE reader[s].id = 0 /\ reader[s].todo = {}
  <2> DEFINE r == [reader[s] EXCEPT !.st = "ended"]
  <2>1. r \in ReaderState /\ r.st = "ended" /\ r.id = reader[s].id /\ r.todo = reader[s].todo
    BY <1>1 DEF ReaderState
  <2>2. reader' = [reader EXCEPT ![s] = r] /\ chan' = chan
    BY <1>4 DEF Tell
  <2> HIDE DEF r
  <2> QED
    BY <1>1, <1>3, <2>1, <2>2
<1>5. CASE reader[s].id = 0 /\ reader[s].todo # {}
  <2>1. PICK i \in reader[s].todo : reader' = [reader EXCEPT ![s] = [@ EXCEPT !.id = i, !.todo = reader[s].todo \ {i}]]
    BY <1>5 DEF Tell
  <2> DEFINE r == [reader[s] EXCEPT !.id = i, !.todo = reader[s].todo \ {i}]
  <2>2. r \in ReaderState /\ r.st = "telling" /\ r.id = i /\ r.todo = reader[s].todo \ {i}
    BY <1>1 DEF ReaderState
  <2>3. reader' = [reader EXCEPT ![s] = r] /\ chan' = chan
    BY <1>5, <2>1 DEF Tell
  <2> HIDE DEF r
  <2> QED
    BY <1>1, <1>3, <2>2, <2>3
<1>6. CASE reader[s].id # 0
  <2>1. PICK i \in Ids : i = reader[s].id /\ i \in table[s]
    BY <1>1, <1>6
  <2> DEFINE r == [reader[s] EXCEPT !.id = 0]
             x == <<"nobody", FIN>>
  <2>2. r \in ReaderState /\ r.st = "telling" /\ r.id = 0 /\ r.todo = reader[s].todo
    BY <1>1 DEF ReaderState
  <2>3. reader' = [reader EXCEPT ![s] = r]
    BY <1>6 DEF Tell
  <2>4. x \in What /\ x[2] = FIN
    BY DEF What, FIN
  <2>5. PutInChannel(s, i, x)
    BY <1>6, <2>1 DEF Tell
  <2> HIDE DEF r, x
  <2>6. /\ chan' \in [Sides -> [Ids -> Seq(What)]]
        /\ Taking(s, i) => chan'[s][i] = Append(chan[s][i], x)
        /\ \A t \in Sides, j \in Ids : t # s \/ j # i => chan'[t][j] = chan[t][j]
    BY <1>1, <2>4, <2>5, ChannelPut
  <2>7. ASSUME Taking(s, i) PROVE Arriving(s, i)'
    <3> DEFINE g == Len(stream[s][i].got)
               eof == stream[s][i].eof
               c == chan[s][i]
               h == Hand(s, i)
               w == reader[s].what
               w2 == reader'[s].what
               q == Flowing(Across(s))
               n == stream[Across(s)][i].sent
               d == stream[Across(s)][i].closed
    <3>1. WayTypes(i, g, c, h, w, q, n) /\ Way(i, g, eof, c, h, w, q, n, d, socket)
      <4>1. Arriving(s, i)
        BY <2>7, Holds
      <4> QED
        BY <1>1, <4>1, WayTyped DEF Arriving
    <3>2. h = 0 /\ q = <<>>
      BY <1>1 DEF Hand, Flowing
    <3>3. Way(i, g, eof, Append(c, x), h, w, q, n, d, socket)
      <4> HIDE DEF g, eof, c, h, w, q, n, d, w2
      <4> QED
        BY <1>1, <2>4, <3>1, <3>2, WayTold
    <3>4. Way(i, g, eof, Append(c, x), h, w2, q, n, d, socket)
      <4> HIDE DEF g, eof, c, h, w, q, n, d, w2
      <4> QED
        BY <3>2, <3>3, WayHandless
    <3>5. Hand(s, i)' = h
      BY <1>1, <2>2, <2>3, <3>2 DEF Hand
    <3>6. Flowing(Across(s))' = q
      BY <1>2 DEF Flowing
    <3> QED
      BY <1>2, <2>6, <2>7, <3>4, <3>5, <3>6 DEF Arriving
  <2>8. \A t \in Sides, j \in Ids : Messages(t, j)'
    BY <1>1, <1>2, <2>2, <2>3, <2>6, <2>7, HandedKept
  <2>9. \A t \in Sides, j \in Ids : j \notin table[t] => chan'[t][j] = chan[t][j]
    BY <2>1, <2>6
  <2> QED
    BY <1>1, <1>2, <2>2, <2>3, <2>6, <2>8, <2>9, ReaderStep
<1> QED
  BY <1>4, <1>5, <1>6

\* The socket is lost, and the frames that wait for the writer with it.
LEMMA LoseKept ==
    ASSUME MuxInv, LoseLink
    PROVE  MuxInv'
<1>1. UNCHANGED <<nextId, opening, table, chan, stream, acceptQueue, released, reader, writer, out>>
  BY DEF LoseLink
<1>2. PICK n \in [Sides -> 0 .. 2] :
          (\A s \in Sides : n[s] <= Len(wire[s])) /\ wire' = [s \in Sides |-> SubSeq(wire[s], 1, n[s])]
  BY DEF LoseLink
<1>3. socket = "up" /\ socket' = "down"
  BY DEF LoseLink
<1>4. ASSUME NEW t \in Sides
      PROVE  /\ MuxTypes /\ wire[t] \in Seq(Frame) /\ out[t] \in Seq(Frame) /\ n[t] \in 0 .. Len(wire[t])
             /\ wire'[t] = SubSeq(wire[t], 1, n[t]) /\ wire'[t] \in Seq(Frame) /\ Len(wire'[t]) = n[t]
             /\ \A p \in 1 .. n[t] : p \in 1 .. Len(wire[t]) /\ wire'[t][p] = wire[t][p]
             /\ n[t] \in 0 .. Len(Flowing(t)) /\ Flowing(t)' = SubSeq(Flowing(t), 1, n[t])
  <2>1. MuxTypes /\ wire[t] \in Seq(Frame) /\ out[t] \in Seq(Frame) /\ Len(wire[t]) \in Nat
    BY Holds, FlowTyped
  <2>2. n[t] \in 0 .. Len(wire[t]) /\ wire'[t] = SubSeq(wire[t], 1, n[t])
    <3>1. n[t] \in 0 .. 2 /\ n[t] <= Len(wire[t])
      BY <1>2
    <3>2. wire'[t] = SubSeq(wire[t], 1, n[t])
      BY <1>2
    <3> QED
      BY <2>1, <3>1, <3>2
  <2>3. n[t] \in Nat /\ n[t] <= Len(wire[t])
    BY <2>1, <2>2
  <2>4. /\ wire'[t] \in Seq(Frame) /\ Len(wire'[t]) = n[t]
        /\ \A p \in 1 .. n[t] : p \in 1 .. Len(wire[t]) /\ wire'[t][p] = wire[t][p]
    BY <2>1, <2>2
  <2>5. Flowing(t) = wire[t] \o out[t] /\ Flowing(t)' = SubSeq(wire[t], 1, n[t])
    BY <1>3, <2>2 DEF Flowing
  <2>6. \A a, b \in Seq(Frame), k \in Nat : k <= Len(a) => k \in 0 .. Len(a \o b) /\ SubSeq(a \o b, 1, k) = SubSeq(a, 1, k)
    <3> SUFFICES ASSUME NEW a \in Seq(Frame), NEW b \in Seq(Frame), NEW k \in Nat, k <= Len(a)
                 PROVE  k \in 0 .. Len(a \o b) /\ SubSeq(a \o b, 1, k) = SubSeq(a, 1, k)
      OBVIOUS
    <3>1. Len(a) \in Nat /\ Len(b) \in Nat /\ Len(a \o b) = Len(a) + Len(b) /\ a \o b \in Seq(Frame)
      BY LenProperties, ConcatProperties
    <3>2. k \in 0 .. Len(a \o b)
      BY <3>1
    <3> DEFINE u == SubSeq(a \o b, 1, k)
               v == SubSeq(a, 1, k)
    <3>3. u \in Seq(Frame) /\ v \in Seq(Frame) /\ Len(u) = k /\ Len(v) = k
      BY <3>1, <3>2
    <3>4. ASSUME NEW p \in 1 .. k PROVE u[p] = v[p]
      <4>1. u[p] = (a \o b)[p] /\ v[p] = a[p]
        BY <3>1, <3>2
      <4>2. (a \o b)[p] = a[p]
        BY <3>1, ConcatProperties
      <4> QED
        BY <4>1, <4>2
    <3> HIDE DEF u, v
    <3>5. u = v
      BY <3>3, <3>4, SeqEqual
    <3> QED
      BY <3>2, <3>5 DEF u, v
  <2>7. n[t] \in 0 .. Len(wire[t] \o out[t]) /\ SubSeq(wire[t] \o out[t], 1, n[t]) = SubSeq(wire[t], 1, n[t])
    BY <2>1, <2>6, <2>3
  <2> QED
    BY <2>1, <2>2, <2>4, <2>5, <2>7
<1>5. MuxTypes'
  <2>1. wire' \in [Sides -> Seq(Frame)]
    BY <1>2, <1>4
  <2>2. MuxTypes
    BY DEF MuxInv
  <2> QED
    BY <1>1, <1>3, <2>1, <2>2 DEF MuxTypes
<1>6. ASSUME NEW t \in Sides PROVE IdsRight(t)' /\ EndsRight(t)' /\ AcceptRight(t)'
  BY <1>1, Holds, IdsSame, EndsSame, AcceptSame
<1>7. ASSUME NEW t \in Sides PROVE FramesRight(t)'
  <2>1. FramesRight(t) /\ MuxTypes
    BY Holds
  <2>2. \A p \in 1 .. Len(out'[t]) : Owned(t, out'[t][p])
    BY <1>1, <2>1 DEF FramesRight
  <2>3. \A p \in 1 .. Len(wire'[t]) : Owned(t, wire'[t][p])
    BY <1>4, <2>1 DEF FramesRight
  <2> QED
    BY <1>1, <1>5, <2>1, <2>2, <2>3, FramesMoved
<1>8. ASSUME NEW t \in Sides PROVE TasksRight(t)'
  <2>1. TasksRight(t)
    BY Holds
  <2>2. reader[t].st \notin {"telling", "ended"} /\ writer[t] # "ended"
    BY <1>3, <2>1 DEF TasksRight
  <2> QED
    BY <1>1, <2>1, <2>2 DEF TasksRight
<1>9. ASSUME NEW t \in Sides, NEW j \in Ids PROVE Messages(t, j)'
  <2>1. Received(t, j) /\ Across(t) \in Sides /\ MuxTypes
    BY Holds
  <2>2. Received(t, j)'
    BY <1>1, <1>3, <2>1 DEF Received
  <2>3. ASSUME Taking(t, j)' PROVE Arriving(t, j)'
    <3> DEFINE g == Len(stream[t][j].got)
               eof == stream[t][j].eof
               c == chan[t][j]
               h == Hand(t, j)
               w == reader[t].what
               q == Flowing(Across(t))
               k == stream[Across(t)][j].sent
               d == stream[Across(t)][j].closed
               m == n[Across(t)]
    <3>1. WayTypes(j, g, c, h, w, q, k) /\ Way(j, g, eof, c, h, w, q, k, d, socket)
      <4>1. Taking(t, j)
        BY <1>1, <2>3 DEF Taking
      <4>2. Arriving(t, j)
        BY <4>1, Holds
      <4> QED
        BY <2>1, <4>2, WayTyped DEF Arriving
    <3>2. m \in 0 .. Len(q) /\ Flowing(Across(t))' = SubSeq(q, 1, m)
      <4>1. PICK o \in Sides : o = Across(t)
        BY <2>1
      <4>2. n[o] \in 0 .. Len(Flowing(o)) /\ Flowing(o)' = SubSeq(Flowing(o), 1, n[o])
        BY <1>4
      <4> QED
        BY <4>1, <4>2 DEF Flowing
    <3>3. Way(j, g, eof, c, h, w, SubSeq(q, 1, m), k, d, "down")
      <4> HIDE DEF g, eof, c, h, w, q, k, d, m
      <4> QED
        BY <3>1, <3>2, WayLost
    <3>4. Hand(t, j)' = h
      BY <1>1 DEF Hand
    <3> QED
      BY <1>1, <1>3, <3>2, <3>3, <3>4 DEF Arriving
  <2> QED
    BY <2>2, <2>3 DEF Messages
<1> QED
  BY <1>5, <1>6, <1>7, <1>8, <1>9, Established DEF Structure

(***************************************************************************)
(* The multiplexer carries the messages of every stream whole.             *)
(***************************************************************************)
LEMMA MuxInvInit == MuxInit => MuxInv
<1> SUFFICES ASSUME MuxInit PROVE MuxInv
  OBVIOUS
<1>1. MuxTypes
  <2>1. NoEnd \in End
    BY DEF NoEnd, End
  <2>2. \A s \in Sides : FirstId(s) \in Nat
    BY DEF FirstId
  <2> QED
    BY <2>1, <2>2, ReadingState DEF MuxInit, MuxTypes
<1>2. ASSUME NEW s \in Sides, NEW i \in Ids
      PROVE  /\ stream[s][i] = NoEnd /\ chan[s][i] = <<>> /\ reader[s] = Reading /\ table[s] = {}
             /\ out[s] = <<>> /\ wire[s] = <<>> /\ acceptQueue[s] = <<>> /\ opening[s] = 0
             /\ nextId[s] = FirstId(s) /\ writer[s] = "running"
  BY DEF MuxInit
<1>3. Len(<<>>) = 0
  OBVIOUS
<1>4. ASSUME NEW s \in Sides PROVE Structure(s)
  <2>0. /\ reader[s] = Reading /\ table[s] = {} /\ opening[s] = 0 /\ nextId[s] = FirstId(s) /\ writer[s] = "running"
        /\ out[s] = <<>> /\ wire[s] = <<>> /\ acceptQueue[s] = <<>>
    BY DEF MuxInit
  <2>1. IdsRight(s)
    BY <2>0 DEF IdsRight
  <2>2. EndsRight(s)
    BY <1>2 DEF EndsRight, EndRight, NoEnd
  <2>3. FramesRight(s)
    BY <1>3, <2>0 DEF FramesRight
  <2>4. AcceptRight(s)
    BY <1>3, <2>0, ReadingState DEF AcceptRight
  <2>5. TasksRight(s)
    BY <2>0, ReadingState DEF TasksRight
  <2> QED
    BY <2>1, <2>2, <2>3, <2>4, <2>5 DEF Structure
<1>5. ASSUME NEW s \in Sides, NEW i \in Ids PROVE Messages(s, i)
  <2>1. Across(s) \in Sides
    BY AcrossSide
  <2>2. /\ stream[s][i].got = <<>> /\ stream[s][i].eof = FALSE /\ stream[Across(s)][i].sent = 0
        /\ stream[Across(s)][i].closed = FALSE /\ chan[s][i] = <<>>
    BY <1>2, <2>1 DEF NoEnd
  <2>3. Flowing(Across(s)) = <<>>
    <3>1. wire[Across(s)] = <<>> /\ out[Across(s)] = <<>>
      BY <2>1 DEF MuxInit
    <3> QED
      BY <3>1 DEF Flowing
  <2>4. Hand(s, i) = 0
    BY <1>2, ReadingState DEF Hand
  <2>5. Received(s, i)
    BY <1>3, <2>2 DEF Received
  <2>6. Absent(Flowing(Across(s)), i)
    BY <1>3, <2>3 DEF Absent
  <2>7. Series(Flowing(Across(s)), i, 0 + 0 + 0, 0) /\ Complete(Flowing(Across(s)), i, 0 + 0 + 0, 0)
    BY <2>6, SeriesOver DEF Complete
  <2>8. Arriving(s, i)
    <3>1. Len(stream[s][i].got) = 0 /\ Len(chan[s][i]) = 0
      BY <1>3, <2>2
    <3> QED
      BY <2>2, <2>4, <2>6, <2>7, <3>1 DEF Arriving, Way
  <2> QED
    BY <2>5, <2>8 DEF Messages
<1> QED
  BY <1>1, <1>4, <1>5 DEF MuxInv

\* Every step of the two sides keeps the invariant.
LEMMA MuxInvStep == MuxInv /\ [MuxNext]_muxVars => MuxInv'
<1> SUFFICES ASSUME MuxInv, [MuxNext]_muxVars PROVE MuxInv'
  OBVIOUS
<1>1. CASE LoseLink
  BY <1>1, LoseKept
<1>2. ASSUME NEW s \in Sides, open_stream(s) \/ close_connection(s) PROVE MuxInv'
  BY <1>2, OpenKept, WaitCloseKept
<1>3. ASSUME NEW s \in Sides, NEW i \in Ids,
             SendMessage(s, i) \/ Finish(s, i) \/ RecvMessage(s, i) \/ DropStream(s, i)
      PROVE  MuxInv'
  BY <1>3, SendKept, FinishKept, RecvKept, DropStreamKept
<1>4. ASSUME NEW s \in Sides,
             Register(s) \/ AcceptStream(s) \/ Accepted(s) \/ DropConnection(s) \/ WriterTask(s)
      PROVE  MuxInv'
  BY <1>4, RegisterKept, WaitCloseKept, AcceptedKept, DropConnectionKept, WriterKept
<1>5. ASSUME NEW s \in Sides, ReaderTask(s) \/ Deliver(s) \/ Announce(s) \/ ReaderEnds(s) \/ Tell(s)
      PROVE  MuxInv'
  BY <1>5, ReaderKept, DeliverKept, AnnounceKept, EndsKept, TellKept
<1>6. CASE Calls
  BY <1>1, <1>2, <1>3, <1>6 DEF Calls
<1>7. ASSUME NEW s \in Sides, Goes(s) PROVE MuxInv'
  BY <1>3, <1>4, <1>5, <1>7 DEF Goes
<1>8. CASE UNCHANGED muxVars
  <2>1. UNCHANGED <<nextId, opening, table, chan, stream, acceptQueue, released, reader, writer, out, wire, socket>>
    BY <1>8 DEF muxVars
  <2>2. MuxTypes'
    BY <2>1 DEF MuxInv, MuxTypes
  <2>3. ASSUME NEW t \in Sides PROVE Structure(t)'
    BY <2>1, Holds, IdsSame, EndsSame, FramesSame, AcceptSame, TasksSame DEF Structure
  <2>4. \A t \in Sides, j \in Ids : Messages(t, j)'
    BY <2>1, Idle DEF Hand
  <2> QED
    BY <2>2, <2>3, <2>4, Established
<1> QED
  BY <1>6, <1>7, <1>8 DEF MuxNext

\* The invariant says what has to be shown.
LEMMA MuxInvIntact == MuxInv => MuxIntact
<1> SUFFICES ASSUME MuxInv, NEW s \in Sides, NEW i \in Ids, stream[s][i].st # "none"
             PROVE  /\ \A k \in 1 .. Len(stream[s][i].got) : stream[s][i].got[k] = <<stream[s][i].opener, k>>
                    /\ Len(stream[s][i].got) <= stream[Across(s)][i].sent
                    /\ stream[Across(s)][i].st # "none" => stream[Across(s)][i].opener = stream[s][i].opener
                    /\ stream[s][i].eof /\ socket = "up" =>
                          stream[Across(s)][i].closed /\ Len(stream[s][i].got) = stream[Across(s)][i].sent
  BY DEF MuxIntact
<1>1. Received(s, i) /\ EndRight(s, i) /\ Across(s) \in Sides
  BY Holds DEF EndsRight
<1>2. EndRight(Across(s), i) /\ stream[s][i] \in End /\ stream[Across(s)][i] \in End
  <2>1. EndRight(Across(s), i)
    BY <1>1, Holds DEF EndsRight
  <2>2. stream \in [Sides -> [Ids -> End]]
    BY Holds DEF MuxTypes
  <2> QED
    BY <1>1, <2>1, <2>2
<1>3. stream[s][i].opener = Opener(i) /\ (stream[Across(s)][i].st # "none" => stream[Across(s)][i].opener = Opener(i))
  BY <1>1, <1>2 DEF EndRight
<1>4. stream[s][i].eof \in BOOLEAN /\ stream[Across(s)][i].closed \in BOOLEAN
  BY <1>2 DEF End
<1> QED
  BY <1>1, <1>3, <1>4 DEF Received

\* What an end of a multiplexed stream receives is what the other end sent, from the first
\* message on, and it is told of an end only behind the last (WebSocketConnection).
LEMMA MuxRight == MuxSpec => []MuxIntact
<1>1. MuxSpec => []MuxInv
  BY MuxInvInit, MuxInvStep, PTL DEF MuxSpec
<1> QED
  BY <1>1, MuxInvIntact, PTL

\* What is received over a transport is what was sent: the two ends of an id never belong
\* to different conversations and no message of one is lost, repeated or told to another;
\* and the codec puts the messages together again however the bytes are cut
\* (reader_task, open_stream, recv_message, QuicStream::recv_message).
THEOREM CarriedRight == MuxSpec /\ TsSpec => []CarriedIntact
  BY MuxRight, StreamRight, PTL DEF CarriedIntact
=============================================================================
