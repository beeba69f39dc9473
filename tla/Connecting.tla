----------------------------- MODULE Connecting -----------------------------
(***************************************************************************)
(* TunnelConnector::connect: the way from a configuration to a registered  *)
(* tunnel.  A relay is named or chosen (RelayDiscovery::select_relay), the  *)
(* transports it offers are looked for on its ports and one is selected    *)
(* (TransportDiscoverer), the relay is dialled, a control stream opened,   *)
(* Connect sent and the answer awaited.  Only the TCP connections of the   *)
(* discovery are given a time limit.                                       *)
(***************************************************************************)
EXTENDS Integers, Sequences, SequencesExt, FiniteSets, FiniteSetsExt

CONSTANTS
    Relays,         \* relays of the embedded configuration, in its order: 1 .. n
    PortsToTry,     \* ports the discovery tries (8 in the code)
    MaxOffered      \* endpoints in a relay's discovery response

ASSUME ConnectingBounds == Relays \in Nat \ {0} /\ PortsToTry \in Nat \ {0} /\ MaxOffered \in Nat

Transports == {"quic", "websocket", "h2"}
None == "none"

VARIABLES
    relays,     \* what the configuration says of each relay
    policy,     \* the selection policy and the preferred region
    preferred,  \* preferred_transport
    cpc,        \* where connect is
    tries,      \* fetches made: port by port, HTTPS and then HTTP
    offer,      \* the discovery response: endpoints in the relay's order
    selected,   \* the relay select_relay has found, until its address is resolved
    chosen,     \* the transport selected: protocol and endpoint
    result      \* what connect returned

connectVars == <<relays, policy, preferred, cpc, tries, offer, selected, chosen, result>>

RelayInfo == [active : BOOLEAN, region : {"here", "there"}, fits : BOOLEAN,
              priority : 1 .. 2, capacity : 1 .. 2]
Policy == [only_active : BOOLEAN, prefer_same_region : BOOLEAN, consider_capacity : BOOLEAN,
           region : {"here", None}]
Endpoints == [protocol : Transports, enabled : BOOLEAN]
Offers == UNION {[1 .. n -> Endpoints] : n \in 0 .. MaxOffered}

ConnectingInit ==
    /\ cpc \in {"select_relay", "resolve"}
    /\ IF cpc = "resolve"
         THEN relays = <<>> /\ policy = None
         ELSE relays \in [1 .. Relays -> RelayInfo] /\ policy \in Policy
    /\ preferred \in IF cpc = "resolve" THEN Transports \cup {None} ELSE {None}
    /\ tries = 0 /\ offer = <<>> /\ selected = 0
    /\ chosen = [protocol |-> None, at |-> 0]
    /\ result = None

-----------------------------------------------------------------------------
(* RelayDiscovery::select_relay *)

\* The relays the policy admits: active if it asks for that, with the tags it asks
\* for and an endpoint of the protocol (fits).
Admitted(r) == relays[r].fits /\ (policy.only_active => relays[r].active)
Admissible == {r \in 1 .. Relays : Admitted(r)}

\* Those of the preferred region, if the policy prefers them and there are any.
InRegion == {r \in Admissible : relays[r].region = policy.region}
Candidates ==
    IF policy.region # None /\ policy.prefer_same_region /\ InRegion # {}
      THEN InRegion ELSE Admissible

\* Fault: the relay with less capacity comes first.
SortsBefore_LessCapacity(a, b) ==
    \/ relays[a].priority < relays[b].priority
    \/ /\ relays[a].priority = relays[b].priority /\ policy.consider_capacity
       /\ relays[a].capacity < relays[b].capacity

\* The comparison of sort_by: priority, then capacity where it counts.
SortsBefore(a, b) ==
    \/ relays[a].priority < relays[b].priority
    \/ /\ relays[a].priority = relays[b].priority /\ policy.consider_capacity
       /\ relays[a].capacity > relays[b].capacity

\* The first after a stable sort.
FirstSorted(S) ==
    CHOOSE r \in S : \A o \in S \ {r} : SortsBefore(r, o) \/ (~SortsBefore(o, r) /\ r < o)

SelectRelay ==
    /\ cpc = "select_relay"
    /\ IF Candidates = {}
         THEN /\ cpc' = "returned" /\ result' = "no_relay"
              /\ UNCHANGED selected
         ELSE /\ selected' = FirstSorted(Candidates)
              /\ cpc' = "resolve"
              /\ UNCHANGED result
    /\ UNCHANGED <<relays, policy, preferred, tries, offer, chosen>>

\* parse_relay_address: an address that does not parse or resolve ends it.  The embedded
\* configuration has done its part.
Resolve(ok) ==
    /\ cpc = "resolve"
    /\ IF ok THEN cpc' = "discover" /\ UNCHANGED result
             ELSE cpc' = "returned" /\ result' = "bad_address"
    /\ relays' = <<>> /\ policy' = None /\ selected' = 0
    /\ UNCHANGED <<preferred, tries, offer, chosen>>

-----------------------------------------------------------------------------
(* TransportDiscoverer *)

\* What a port of the relay's host may do with a request for the well-known path.
\* black_hole: the TCP connection is not answered; mute: it is, and nothing else.
PortManners == {"refused", "black_hole", "mute", "bad_answer", "answer"}

\* fetch_discovery and fetch_discovery_http, and the loop of discover around them:
\* whatever fails, the next is tried, and after the last QUIC alone is assumed.
NextTry == IF tries + 1 < 2 * PortsToTry THEN "discover" ELSE "select"
QuicOnly == <<[protocol |-> "quic", enabled |-> TRUE]>>

Fetch(manner) ==
    /\ cpc = "discover"
    /\ \/ /\ manner \in {"refused", "bad_answer"}
          /\ tries' = tries + 1 /\ cpc' = NextTry
          /\ offer' = IF NextTry = "select" THEN QuicOnly ELSE offer
       \/ manner = "black_hole" /\ cpc' = "connecting" /\ UNCHANGED <<tries, offer>>
       \/ manner = "mute" /\ cpc' = "reading" /\ UNCHANGED <<tries, offer>>
       \/ /\ manner = "answer"
          /\ offer' \in Offers /\ cpc' = "select" /\ UNCHANGED tries
    /\ UNCHANGED <<relays, policy, preferred, selected, chosen, result>>

\* Fault: the TCP connection of the discovery has no time limit.
FetchTimeout_Never == FALSE /\ UNCHANGED connectVars

\* The time limit on the TCP connection.
FetchTimeout ==
    /\ cpc = "connecting"
    /\ tries' = tries + 1 /\ cpc' = NextTry
    /\ offer' = IF NextTry = "select" THEN QuicOnly ELSE offer
    /\ UNCHANGED <<relays, policy, preferred, selected, chosen, result>>

\* The other end gives up on a connection on which nothing is said.
MutePortCloses ==
    /\ cpc = "reading"
    /\ tries' = tries + 1 /\ cpc' = NextTry
    /\ offer' = IF NextTry = "select" THEN QuicOnly ELSE offer
    /\ UNCHANGED <<relays, policy, preferred, selected, chosen, result>>

Priority(p) == CASE p = "quic" -> 100 [] p = "websocket" -> 50 [] p = "h2" -> 25

\* find_transport: the first endpoint of the protocol that is enabled.
FindTransport(p) == SelectInSeq(offer, LAMBDA e : e.protocol = p /\ e.enabled)

\* sorted_transports and best_transport: the first of the enabled ones by priority.
EnabledOffers == {k \in DOMAIN offer : offer[k].enabled}
\* Fault: the first transport of the response is taken.
BestTransport_Listed == IF EnabledOffers = {} THEN 0 ELSE Min(EnabledOffers)
BestTransport ==
    IF EnabledOffers = {} THEN 0
    ELSE CHOOSE k \in EnabledOffers :
            \A o \in EnabledOffers \ {k} :
                \/ Priority(offer[k].protocol) > Priority(offer[o].protocol)
                \/ Priority(offer[k].protocol) = Priority(offer[o].protocol) /\ k < o

\* select_best; without any transport connect falls back to QUIC at the relay's address.
SelectBest ==
    LET k == IF preferred # None /\ FindTransport(preferred) # 0
               THEN FindTransport(preferred) ELSE BestTransport
    IN IF k = 0 THEN [protocol |-> "quic", at |-> 0] ELSE [protocol |-> offer[k].protocol, at |-> k]

SelectTransport ==
    /\ cpc = "select"
    /\ chosen' = SelectBest
    /\ cpc' = "dial"
    /\ UNCHANGED <<relays, policy, preferred, tries, offer, selected, result>>

-----------------------------------------------------------------------------
(* connect: the connection, the control stream, Connect and its answer *)

Answers == {"connected", "auth_failed", "route_taken", "rejected", "unexpected", "closed"}

Dial(ok) ==
    /\ cpc = "dial"
    /\ IF chosen.protocol # "websocket" /\ ok
         THEN cpc' = "open_control" /\ UNCHANGED result
         ELSE cpc' = "returned" /\ result' = "dial_failed"
    /\ UNCHANGED <<relays, policy, preferred, tries, offer, selected, chosen>>

\* An HTTP/2 stream is open when the relay has answered for it.
OpenControl(ok) ==
    /\ cpc = "open_control"
    /\ IF ok THEN cpc' = "awaiting" /\ UNCHANGED result
             ELSE cpc' = "returned" /\ result' = "no_control_stream"
    /\ UNCHANGED <<relays, policy, preferred, tries, offer, selected, chosen>>

\* The answer to Connect, or the end of the connection.
Answered(a) ==
    /\ cpc = "awaiting"
    /\ cpc' = "returned"
    /\ result' = CASE a = "connected" -> "tunnel"
                   [] a = "auth_failed" -> "auth_failed"
                   [] OTHER -> "connect_failed"
    /\ UNCHANGED <<relays, policy, preferred, tries, offer, selected, chosen>>

ConnectingNext ==
    \/ SelectRelay \/ FetchTimeout \/ MutePortCloses \/ SelectTransport
    \/ \E m \in PortManners : Fetch(m)
    \/ \E ok \in BOOLEAN : Resolve(ok) \/ Dial(ok) \/ OpenControl(ok)
    \/ \E a \in Answers : Answered(a)

\* Where connect waits without a time limit: for an answer of a port that has accepted it,
\* for the relay's answer to Connect, and over HTTP/2 for both handshakes and for the
\* response that opens a stream.  (QUIC gives an idle handshake up and opens a stream by
\* itself.)
WaitsUnlimited ==
    cpc \in {"reading", "awaiting"} \/ (chosen.protocol = "h2" /\ cpc \in {"dial", "open_control"})

\* connect goes on by itself anywhere else.
ConnectingGoes == ~WaitsUnlimited /\ ConnectingNext

ConnectingSpec == ConnectingInit /\ [][ConnectingNext]_connectVars
-----------------------------------------------------------------------------
\* Whatever the order of the configuration and of the relay's response, connect
\* goes to a relay the policy admits that no other candidate beats, and over
\* the preferred transport or the best of those enabled, never one that is
\* disabled (RelayDiscovery::select_relay, TransportDiscoverer::select_best).
ChosenIsBest ==
    /\ selected # 0 =>
          /\ Admitted(selected)
          /\ policy.region # None /\ policy.prefer_same_region /\ relays[selected].region # policy.region
                => InRegion = {}
          /\ \A o \in Admissible :
                \/ relays[selected].region = policy.region /\ relays[o].region # policy.region
                \/ relays[selected].priority < relays[o].priority
                \/ /\ relays[selected].priority = relays[o].priority
                   /\ policy.consider_capacity => relays[selected].capacity >= relays[o].capacity
    /\ chosen.at # 0 =>
          /\ offer[chosen.at].enabled /\ chosen.protocol = offer[chosen.at].protocol
          /\ chosen.protocol # preferred =>
                \A k \in EnabledOffers :
                    /\ offer[k].protocol # preferred
                    /\ Priority(offer[k].protocol) <= Priority(chosen.protocol)

\* connect returns, however the ports it tries behave, unless it comes to one of
\* the waits without a time limit (fetch_discovery after the TCP connection,
\* H2Connector::connect, H2ClientConnection::open_stream, recv_message in
\* connect).
ConnectReturns == (cpc # "returned") ~> (cpc = "returned" \/ WaitsUnlimited)
=============================================================================
