---------------------------- MODULE RelayControl ----------------------------
(***************************************************************************)
(* The relay's control plane for tunnels                                   *)
(* (crates/localup-control/src/handler.rs, TunnelHandler).                 *)
(*                                                                         *)
(* Every control connection is served by a handler of its own.  Handlers   *)
(* run concurrently and share the route registry, the connection manager   *)
(* and the port pool.  All three are keyed by route or by the id the       *)
(* client presents (localup_id), never by connection, and a client that    *)
(* reconnects presents the same id.                                        *)
(*                                                                         *)
(* One action is one operation on shared state: the registry's maps are    *)
(* concurrent maps, so another handler may run between `exists', `lookup', *)
(* `unregister' and the two halves of `register'.  The port pool is one    *)
(* lock and is used here through its promise, module PortLease.            *)
(***************************************************************************)
EXTENDS PortLease, Sequences, FiniteSets

CONSTANTS
    Conn,          \* control connections, each served by one handler
    Quic,          \* those whose transport is QUIC
    Slot,          \* route keys: exact hosts and SNI names, and wildcards
    Parent,        \* an exact name -> the wildcard that covers it, if any
    Custom,        \* custom domains, which may turn out not to be registered
    Endpoints,     \* id -> the endpoints its client asks for, in order (a generated
                   \* host name is of the id and the client's address, which stays)
    Overlap,       \* may a client return before its old handler has ended?
    NoTunnel, NoConn, NoSlot

Endpoint == [proto : {"http", "tls"}, slot : Slot] \cup [proto : {"tcp"}, slot : {NoSlot}]

ASSUME RelayAssumption ==
    /\ Quic \subseteq Conn /\ Custom \subseteq Slot
    /\ Parent \in [Slot -> Slot \cup {NoSlot}] /\ NoSlot \notin Slot
    /\ Endpoints \in [Tunnel -> Seq(Endpoint)]
    /\ Overlap \in BOOLEAN
    /\ NoTunnel \notin Tunnel /\ NoConn \notin Conn

VARIABLES
    routes,        \* slot -> the id it leads to (RouteRegistry)
    connections,   \* id -> its connection (TunnelConnectionManager)
    pc,            \* where each handler is
    tunnel,        \* the id each connection presented
    step,          \* which endpoint each handler is at
    gone           \* connections whose client has left them

handlerVars == <<pc, tunnel, step>>
vars == <<routes, connections, lease, pc, tunnel, step, gone>>

Failed == {"rejected", "broken"}
Over == {"idle", "closed"} \cup Failed

Init ==
    /\ routes = [k \in Slot |-> NoTunnel]
    /\ connections = [t \in Tunnel |-> NoConn]
    /\ LeaseInit
    /\ pc = [c \in Conn |-> "idle"]
    /\ tunnel = [c \in Conn |-> NoTunnel]
    /\ step = [c \in Conn |-> 0]
    /\ gone = {}

Goto(c, l) == pc' = [pc EXCEPT ![c] = l] /\ UNCHANGED <<tunnel, step>>

At(c) == Endpoints[tunnel[c]][step[c]]

\* Fault: one endpoint too many.
Advance_OneTooMany(c, more, after) ==
    /\ pc' = [pc EXCEPT ![c] = IF step[c] <= Len(Endpoints[tunnel[c]]) THEN more ELSE after]
    /\ step' = [step EXCEPT ![c] = @ + 1]
    /\ UNCHANGED tunnel

\* The handler moves to its next endpoint: there it continues at `more', and
\* after the last one at `after'.
Advance(c, more, after) ==
    /\ pc' = [pc EXCEPT ![c] = IF step[c] < Len(Endpoints[tunnel[c]]) THEN more ELSE after]
    /\ step' = [step EXCEPT ![c] = @ + 1]
    /\ UNCHANGED tunnel

-----------------------------------------------------------------------------
(***************************************************************************)
(* The connection arrives.  A client uses one connection at a time: it     *)
(* opens a new one when it has given up the last, which the relay may not  *)
(* have noticed yet.                                                       *)
(***************************************************************************)
ClientReady(t) ==
    \A d \in Conn : tunnel[d] = t => d \in gone /\ (Overlap \/ pc[d] \in Over)

Connect(c, t) ==
    /\ pc[c] = "idle" /\ ClientReady(t)
    /\ \/ pc' = [pc EXCEPT ![c] = IF Endpoints[t] = <<>> THEN "manage" ELSE "register"]
       \/ pc' = [pc EXCEPT ![c] = "rejected"]            \* the token is refused
    /\ tunnel' = [tunnel EXCEPT ![c] = t]
    /\ step' = [step EXCEPT ![c] = 1]
    /\ UNCHANGED <<routes, connections, lease, gone>>

\* The client closes the connection, crashes or loses the network.
ClientLeaves(c) ==
    /\ pc[c] # "idle" /\ c \notin gone
    /\ gone' = gone \cup {c}
    /\ UNCHANGED <<routes, connections, lease, handlerVars>>

-----------------------------------------------------------------------------
(***************************************************************************)
(* register_route, for an HTTP or HTTPS endpoint: look whether the slot is *)
(* taken; if so look up by whom; take it over from oneself; register.      *)
(***************************************************************************)
Exists(c) ==
    /\ pc[c] = "register" /\ At(c).proto = "http"
    /\ \/ Goto(c, IF routes[At(c).slot] # NoTunnel THEN "lookup" ELSE "absent")
       \/ At(c).slot \in Custom /\ Goto(c, "rejected")   \* not a registered domain
    /\ UNCHANGED <<routes, connections, lease, gone>>

\* RouteRegistry::lookup falls back to the wildcard that covers the name.
lookup(k) ==
    IF routes[k] # NoTunnel \/ Parent[k] = NoSlot THEN routes[k] ELSE routes[Parent[k]]

Lookup(c) ==
    /\ pc[c] = "lookup"
    /\ LET holder == lookup(At(c).slot)
       IN  Goto(c, IF holder = NoTunnel THEN "absent"
                   ELSE IF holder = tunnel[c] THEN "replace" ELSE "rejected")
    /\ UNCHANGED <<routes, connections, lease, gone>>

Replace(c) ==
    /\ pc[c] = "replace"
    /\ routes' = [routes EXCEPT ![At(c).slot] = NoTunnel]
    /\ Goto(c, "absent")
    /\ UNCHANGED <<connections, lease, gone>>

\* RouteRegistry::register is a test and an insertion.  A TLS endpoint starts
\* here: it has no takeover.
ContainsKey(c) ==
    /\ pc[c] = "absent" \/ (pc[c] = "register" /\ At(c).proto = "tls")
    /\ Goto(c, IF routes[At(c).slot] # NoTunnel THEN "rejected" ELSE "insert")
    /\ UNCHANGED <<routes, connections, lease, gone>>

Insert(c) ==
    /\ pc[c] = "insert"
    /\ routes' = [routes EXCEPT ![At(c).slot] = tunnel[c]]
    /\ Advance(c, "register", "manage")
    /\ UNCHANGED <<connections, lease, gone>>

\* A TCP endpoint leases a port, or is refused one.
Allocate(c) ==
    /\ pc[c] = "register" /\ At(c).proto = "tcp"
    /\ \/ (Grant(tunnel[c]) \/ Renew(tunnel[c])) /\ Advance(c, "register", "manage")
       \/ lease[tunnel[c]] = NoLease /\ Goto(c, "rejected") /\ UNCHANGED lease
    /\ UNCHANGED <<routes, connections, gone>>

\* Fault: the connection of an earlier handler is kept.
Manage_KeepFirst(c) ==
    /\ pc[c] = "manage"
    /\ connections' = IF connections[tunnel[c]] = NoConn
                      THEN [connections EXCEPT ![tunnel[c]] = c] ELSE connections
    /\ Goto(c, "reply")
    /\ UNCHANGED <<routes, lease, gone>>

\* Only a QUIC connection enters the connection manager.
Manage(c) ==
    /\ pc[c] = "manage"
    /\ connections' = IF c \in Quic THEN [connections EXCEPT ![tunnel[c]] = c] ELSE connections
    /\ Goto(c, "reply")
    /\ UNCHANGED <<routes, lease, gone>>

\* Sending Connected fails only when the client is not there any more.
Reply(c) ==
    /\ pc[c] = "reply"
    /\ Goto(c, "serving") \/ (c \in gone /\ Goto(c, "broken"))
    /\ UNCHANGED <<routes, connections, lease, gone>>

-----------------------------------------------------------------------------
(***************************************************************************)
(* The heartbeat ends when the client is gone: its Disconnect arrives, the *)
(* stream closes or fails, or a pong is missed.  Then the handler cleans   *)
(* up, by id and by slot.                                                  *)
(***************************************************************************)
\* Fault: only streams that report their closing are noticed (no pong timeout).
HeartbeatEnds_NoTimeout(c) ==
    /\ pc[c] = "serving" /\ c \in gone \ Quic
    /\ Goto(c, "leaving")
    /\ UNCHANGED <<routes, connections, lease, gone>>

HeartbeatEnds(c) ==
    /\ pc[c] = "serving" /\ c \in gone
    /\ Goto(c, "leaving")
    /\ UNCHANGED <<routes, connections, lease, gone>>

\* Fault: the connection manager keeps the connection.
UnregisterConnection_Keep(c) ==
    /\ pc[c] = "leaving"
    /\ pc' = [pc EXCEPT ![c] = IF Endpoints[tunnel[c]] = <<>> THEN "closed" ELSE "unroute"]
    /\ step' = [step EXCEPT ![c] = 1]
    /\ UNCHANGED <<routes, connections, lease, tunnel, gone>>

UnregisterConnection(c) ==
    /\ pc[c] = "leaving"
    /\ connections' = [connections EXCEPT ![tunnel[c]] = NoConn]
    /\ pc' = [pc EXCEPT ![c] = IF Endpoints[tunnel[c]] = <<>> THEN "closed" ELSE "unroute"]
    /\ step' = [step EXCEPT ![c] = 1]
    /\ UNCHANGED <<routes, lease, tunnel, gone>>

\* Fault: the route stays, for the client's return, as its port does.
UnregisterRoute_Kept(c) ==
    /\ pc[c] = "unroute" /\ At(c).proto # "tcp"
    /\ Advance(c, "unroute", "closed")
    /\ UNCHANGED <<routes, connections, lease, gone>>

UnregisterRoute(c) ==
    /\ pc[c] = "unroute" /\ At(c).proto # "tcp"
    /\ routes' = [routes EXCEPT ![At(c).slot] = NoTunnel]
    /\ Advance(c, "unroute", "closed")
    /\ UNCHANGED <<connections, lease, gone>>

\* Fault: the port is not deallocated.
Deallocate_Forgotten(c) ==
    /\ pc[c] = "unroute" /\ At(c).proto = "tcp"
    /\ Advance(c, "unroute", "closed")
    /\ UNCHANGED <<routes, connections, lease, gone>>

Deallocate(c) ==
    /\ pc[c] = "unroute" /\ At(c).proto = "tcp"
    /\ Release(tunnel[c])
    /\ Advance(c, "unroute", "closed")
    /\ UNCHANGED <<routes, connections, gone>>

\* The periodic task of the port pool.
ReservationsLapse ==
    /\ \E ts \in SUBSET Tunnel \ {{}} : Lapse(ts)
    /\ UNCHANGED <<routes, connections, handlerVars, gone>>

-----------------------------------------------------------------------------
Handler(c) ==
    \/ Exists(c) \/ Lookup(c) \/ Replace(c) \/ ContainsKey(c) \/ Insert(c)
    \/ Allocate(c) \/ Manage(c) \/ Reply(c)
    \/ HeartbeatEnds(c) \/ UnregisterConnection(c) \/ UnregisterRoute(c) \/ Deallocate(c)

Next ==
    \/ \E c \in Conn : Handler(c) \/ ClientLeaves(c)
    \/ \E c \in Conn, t \in Tunnel : Connect(c, t)
    \/ ReservationsLapse

Spec == Init /\ [][Next]_vars

\* The runtime schedules every handler.
FairSpec == Spec /\ \A c \in Conn : WF_vars(Handler(c))
-----------------------------------------------------------------------------
Label == {"idle", "register", "lookup", "replace", "absent", "insert", "manage", "reply",
          "serving", "leaving", "unroute", "closed", "rejected", "broken"}

\* The shared maps and the handlers' local state have their types, and a
\* handler that works on an endpoint has one to work on.
TypeOK ==
    /\ routes \in [Slot -> Tunnel \cup {NoTunnel}]
    /\ connections \in [Tunnel -> Conn \cup {NoConn}]
    /\ lease \in [Tunnel -> Lease \cup {NoLease}]
    /\ pc \in [Conn -> Label]
    /\ tunnel \in [Conn -> Tunnel \cup {NoTunnel}]
    /\ step \in [Conn -> Nat]
    /\ gone \subseteq Conn
    /\ \A c \in Conn :
         /\ tunnel[c] = NoTunnel <=> pc[c] = "idle"
         /\ pc[c] \in {"register", "lookup", "replace", "absent", "insert", "unroute"} =>
               step[c] \in 1 .. Len(Endpoints[tunnel[c]])
         /\ pc[c] \in {"lookup", "replace", "absent", "insert"} => At(c).proto # "tcp"

\* The endpoints a handler has taken and not yet given back.  A handler that
\* failed never gives back what it took.
Taken(c) ==
    CASE pc[c] \in {"idle", "closed"} -> {}
      [] pc[c] \in {"manage", "reply", "serving", "leaving", "broken"} -> 1 .. Len(Endpoints[tunnel[c]])
      [] pc[c] = "unroute" -> step[c] .. Len(Endpoints[tunnel[c]])
      [] OTHER -> 1 .. step[c] - 1

Takes(c, t, proto, k) ==
    tunnel[c] = t /\ \E i \in Taken(c) : Endpoints[t][i].proto \in proto /\ Endpoints[t][i].slot = k

\* A route leads to a tunnel only while some handler of that tunnel has taken
\* it, or because a handler of that tunnel failed: however handlers of the
\* same id overlap, orderly ends leave no route behind.
RoutesAccounted ==
    \A k \in Slot : routes[k] # NoTunnel => \E c \in Conn : Takes(c, routes[k], {"http", "tls"}, k)

\* The same of the port pool: an active lease has a handler, or one that failed.
LeasesAccounted ==
    \A t \in Tunnel : lease[t].state = "Active" => \E c \in Conn : Takes(c, t, {"tcp"}, NoSlot)

\* The connection manager never hands out the connection of a handler that has
\* ended in order, nor of another tunnel.
ConnectionsAccounted ==
    \A t \in Tunnel : connections[t] # NoConn =>
        /\ tunnel[connections[t]] = t
        /\ pc[connections[t]] \in {"reply", "serving", "leaving", "broken"}

\* However handlers overlap and whichever of them fail, what the relay holds for a tunnel
\* has a handler that answers for it: routes, leased ports and the registered connection.
Accounted == RoutesAccounted /\ LeasesAccounted /\ ConnectionsAccounted

\* What was registered for connection c leads to it: the routes, the lease, and the
\* connection on file.
OnFile(c) ==
    /\ \A i \in DOMAIN Endpoints[tunnel[c]] :
         LET e == Endpoints[tunnel[c]][i]
         IN  IF e.proto = "tcp" THEN lease[tunnel[c]].state = "Active"
                                ELSE routes[e.slot] = tunnel[c]
    /\ c \in Quic => connections[tunnel[c]] = c

\* A client that was told Connected, and has not left, can be reached: its
\* routes lead to it, its port is leased, its connection is the one on file.
Reachable == \A c \in Conn : pc[c] = "serving" /\ c \notin gone => OnFile(c)

\* "Automatic reconnection with port/subdomain preservation" (README.md): a client that
\* came back and was told Connected can be reached once the handlers of its earlier
\* connections have run to their end.
ReconnectionPreserves ==
    \A c \in Conn :
        /\ pc[c] = "serving" /\ c \notin gone
        /\ \A d \in Conn \ {c} : tunnel[d] = tunnel[c] => pc[d] = "closed"
        => OnFile(c)

\* A handler whose client is gone ends: a vanished client does not keep its
\* handler for ever.
HandlersEnd == \A c \in Conn : (c \in gone) ~> (pc[c] \in Over)
=============================================================================
