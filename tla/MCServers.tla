----------------------------- MODULE MCServers -----------------------------
(***************************************************************************)
(* What a visitor meets: the HTTP and HTTPS servers, and the TCP and TLS   *)
(* servers.  A visitor of either HTTP server, with any flaw, may send two  *)
(* requests on its connection, and the client comes back once, now with an *)
(* authenticator; or a connection is proxied byte by byte.  A behaviour is *)
(* one of the two.                                                         *)
(***************************************************************************)
EXTENDS HttpTunnel, StreamProxy, TLC

CONSTANT v1
MCVisitor == {v1}
MCGuarded == <<FALSE, TRUE>>
\* Only requests without a flaw get as far as a second one.
MCScenarios ==
    [MCVisitor -> [server : Servers, flaw : {"none"}, requests : {2}]
                  \cup [server : Servers, flaw : Flaws \ {"none"}, requests : {1}]]

VARIABLE part

vars == <<part, httpVars, streamVars>>

\* A part that takes no steps starts in one state.
Init ==
    /\ part \in {"http", "proxied"}
    /\ part = "http" \/ visitor = [v \in Visitor |->
          [server |-> "http", flaw |-> "none", budget |-> 2,
           side |-> "open", sent |-> 0, eager |-> FALSE, inbox |-> <<>>, answers |-> <<>>]]
    /\ part = "proxied" \/ kind = "tcp"
    /\ HttpInit /\ StreamInit

InHttp(A) == part = "http" /\ A /\ UNCHANGED <<part, streamVars>>
InProxied(A) == part = "proxied" /\ A /\ UNCHANGED <<part, httpVars>>

Next == InHttp(HttpNext) \/ InProxied(StreamNext)

\* Tasks that are ready run; an end of a proxied connection reads what arrives, and shuts
\* its side once it has read the end of the other's.
Fair ==
    /\ \A v \in Visitor : WF_vars(InHttp(RelayStep(v)))
    /\ \A t \in Task : WF_vars(InProxied(Move(t)))
    /\ WF_vars(InProxied(SendConnect \/ Refuse \/ ConnectNotSent \/ SaveConnection))
    /\ WF_vars(InProxied(RelayEnds))
    /\ WF_vars(InProxied(ConnectLocal \/ LocalRefused))
    /\ WF_vars(InProxied(ClientEnds))
    /\ \A e \in SocketEnd : /\ WF_vars(InProxied(Read(e)))
                            /\ WF_vars(InProxied(saw[e] = "eof" /\ Shut(e)))

Spec == Init /\ [][Next]_vars /\ Fair
-----------------------------------------------------------------------------
\* A visit comes to its end: a request that waits for the tunnel is answered or released,
\* and whatever ends a proxied connection ends all of it.
VisitsEnd == AwaitEnds /\ AllEnds
=============================================================================
