---------------------------- MODULE MCRelayState ----------------------------
(***************************************************************************)
(* What the relay keeps beside its connections, and its start-up: routes,  *)
(* TCP endpoints, domains with their certificates, accounts, the views of  *)
(* traffic.  The parts share no state, and a behaviour is one of one of    *)
(* them.                                                                   *)
(***************************************************************************)
EXTENDS Domains, Accounts, Traffic, RelayStart, RouteRegistry, TcpProxy, TLC

CONSTANTS d1, w1, c1, c2, c3, r1, r2, r3, i1, i2, t1, t2

VARIABLE part

MCParent == (d1 :> w1) @@ (w1 :> NoDomain)
\* Between them the three calls can be any two uploads, completions and changes at once.
MCOps == (c1 :> {"initiate", "request", "upload"}) @@ (c2 :> {"complete", "upload"})
           @@ (c3 :> {"restart", "cancel", "delete"})

\* A name under a pattern, two patterns one of which is a subdomain of the other's base
\* domain in text only, and a text that is no pattern.
MCName == {<<"b", ".", "a", ".", "b">>}
MCPattern == {<<"*", ".", "a", ".", "b">>, <<"*", ".", "b", "a", ".", "b">>, <<"*", ".", "a">>}

\* Two tunnels on a range of two ports, hashed to the same port.
MCTunnel == {t1, t2}
MCHash == (t1 :> 0) @@ (t2 :> 2)

vars == <<part, domainVars, accountVars, trafficVars, capturedVars, startVars, routeVars, tcpVars>>

\* A part that takes no steps starts in one state.
Init ==
    /\ part \in {"domains", "accounts", "traffic", "captured", "start", "routes", "tcp"}
    /\ part = "start" \/ program = "cli"
    /\ part = "tcp" \/ bound = {}
    /\ part = "accounts" \/ checks = "database"
    /\ DomainsInit /\ AccountsInit /\ TrafficInit /\ CapturedInit /\ StartInit /\ RoutesInit /\ TcpInit

Only(p, A) ==
    /\ part = p /\ A
    /\ UNCHANGED part
    /\ p # "domains" => UNCHANGED domainVars
    /\ p # "accounts" => UNCHANGED accountVars
    /\ p # "traffic" => UNCHANGED trafficVars
    /\ p # "captured" => UNCHANGED capturedVars
    /\ p # "start" => UNCHANGED startVars
    /\ p # "routes" => UNCHANGED routeVars
    /\ p # "tcp" => UNCHANGED tcpVars

Next ==
    \/ Only("domains", DomainsNext) \/ Only("accounts", AccountsNext) \/ Only("traffic", TrafficNext)
    \/ Only("captured", CapturedNext)
    \/ Only("start", StartNext) \/ Only("routes", RoutesNext) \/ Only("tcp", TcpNext)

Spec == Init /\ [][Next]_vars
=============================================================================
