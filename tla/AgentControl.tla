---------------------------- MODULE AgentControl ----------------------------
(***************************************************************************)
(* The relay's control plane for reverse tunnels: agents register and are  *)
(* found by the address they forward to, reverse-tunnel clients ask for an *)
(* agent, and streams of an accepted tunnel are opened on the agent        *)
(* connection it was given (handle_agent_connection,                       *)
(* handle_reverse_localup_request and handle_reverse_stream of             *)
(* crates/localup-control/src/handler.rs, AgentRegistry,                   *)
(* AgentConnectionManager), with the agent's own checks on a ForwardRequest*)
(* (crates/localup-agent/src/agent.rs).                                    *)
(*                                                                         *)
(* The registry and the connection manager are two maps under two locks,   *)
(* both keyed by agent id.  One action is one operation on one of them.    *)
(***************************************************************************)
EXTENDS Naturals, FiniteSets

CONSTANTS
    Agent, Address,
    Conn,          \* agent connections, each served by one handler
    Quic,          \* those whose transport is QUIC
    Client,        \* reverse-tunnel clients
    Wants,         \* client -> [agent, address] it asks for
    NoAddress, NoConn, NoAgent

ASSUME AgentAssumption ==
    /\ Quic \subseteq Conn
    /\ Wants \in [Client -> [agent : Agent, address : Address]]
    /\ NoAddress \notin Address /\ NoConn \notin Conn /\ NoAgent \notin Agent

VARIABLES
    agents,            \* AgentRegistry: agent -> its target address
    agentConnections,  \* AgentConnectionManager: agent -> connection
    pc,                \* where each agent handler is
    agent,             \* the id each agent connection presented
    target,            \* the target address it presented
    gone,              \* agent connections whose agent has left them
    early,             \* agents that came back before an old handler had ended
    request,           \* where each client's request is
    via,               \* the agent connection an accepted tunnel was given
    forwarded          \* streams accepted by an agent: [client, conn]

agentVars == <<pc, agent, target, early>>
clientVars == <<request, via, forwarded>>
vars == <<agents, agentConnections, pc, agent, target, gone, early, request, via, forwarded>>

Init ==
    /\ agents = [x \in Agent |-> NoAddress]
    /\ agentConnections = [x \in Agent |-> NoConn]
    /\ pc = [c \in Conn |-> "idle"]
    /\ agent = [c \in Conn |-> NoAgent]
    /\ target = [c \in Conn |-> NoAddress]
    /\ gone = {} /\ early = {}
    /\ request = [r \in Client |-> "idle"]
    /\ via = [r \in Client |-> NoConn]
    /\ forwarded = {}

Over == {"idle", "closed", "failed"}

Goto(c, l) == pc' = [pc EXCEPT ![c] = l] /\ UNCHANGED <<agent, target, early>>

-----------------------------------------------------------------------------
(***************************************************************************)
(* An agent connection.  An agent runs one connection at a time, may come  *)
(* back with another target address, and may do so before the relay has    *)
(* noticed that the last connection is lost.                               *)
(***************************************************************************)
AgentReady(x) == \A d \in Conn : agent[d] = x => d \in gone

AgentRegister(c, x, addr) ==
    /\ pc[c] = "idle" /\ AgentReady(x)
    /\ pc' = [pc EXCEPT ![c] = "register"] \/ pc' = [pc EXCEPT ![c] = "failed"]  \* bad token
    /\ agent' = [agent EXCEPT ![c] = x]
    /\ target' = [target EXCEPT ![c] = addr]
    /\ early' = IF \E d \in Conn : agent[d] = x /\ pc[d] \notin Over THEN early \cup {x} ELSE early
    /\ UNCHANGED <<agents, agentConnections, gone, clientVars>>

AgentLeaves(c) ==
    /\ pc[c] # "idle" /\ c \notin gone
    /\ gone' = gone \cup {c}
    /\ UNCHANGED <<agents, agentConnections, agentVars, clientVars>>

RegisterOrReplace(c) ==
    /\ pc[c] = "register"
    /\ agents' = [agents EXCEPT ![agent[c]] = target[c]]
    /\ Goto(c, "announce")
    /\ UNCHANGED <<agentConnections, gone, clientVars>>

\* Fault: the agents of that address are removed.
Unregister_ByAddress(c) ==
    agents' = [x \in Agent |-> IF agents[x] = target[c] THEN NoAddress ELSE agents[x]]

Unregister(c) == agents' = [agents EXCEPT ![agent[c]] = NoAddress]

\* Fault: a failed announcement leaves the agent listed.
Announce_NoCleanup(c) ==
    /\ pc[c] = "announce"
    /\ Goto(c, "store") \/ (c \in gone /\ Goto(c, "failed"))
    /\ UNCHANGED <<agents, agentConnections, gone, clientVars>>

\* AgentRegistered is sent before the connection is stored.
Announce(c) ==
    /\ pc[c] = "announce"
    /\ \/ Goto(c, "store") /\ UNCHANGED agents
       \/ c \in gone /\ Unregister(c) /\ Goto(c, "failed")
    /\ UNCHANGED <<agentConnections, gone, clientVars>>

StoreConnection(c) ==
    /\ pc[c] = "store"
    /\ IF c \in Quic
       THEN /\ agentConnections' = [agentConnections EXCEPT ![agent[c]] = c]
            /\ Goto(c, "serving") /\ UNCHANGED agents
       ELSE Unregister(c) /\ Goto(c, "failed") /\ UNCHANGED agentConnections
    /\ UNCHANGED <<gone, clientVars>>

HeartbeatEnds(c) ==
    /\ pc[c] = "serving" /\ c \in gone
    /\ Goto(c, "leaving")
    /\ UNCHANGED <<agents, agentConnections, gone, clientVars>>

UnregisterAgent(c) ==
    /\ pc[c] = "leaving"
    /\ Unregister(c) /\ Goto(c, "unstore")
    /\ UNCHANGED <<agentConnections, gone, clientVars>>

DropConnection(c) ==
    /\ pc[c] = "unstore"
    /\ agentConnections' = [agentConnections EXCEPT ![agent[c]] = NoConn]
    /\ Goto(c, "closed")
    /\ UNCHANGED <<agents, gone, clientVars>>

-----------------------------------------------------------------------------
(***************************************************************************)
(* A reverse-tunnel request.                                               *)
(***************************************************************************)
\* find_by_address returns whichever matching agent the map yields first; an
\* agent other than the one asked for is a refusal.
FindAgent(r) ==
    /\ request[r] = "idle"
    /\ LET found == {x \in Agent : agents[x] = Wants[r].address}
       IN  \/ found = {} /\ request' = [request EXCEPT ![r] = "refused"]
           \/ \E x \in found :
                request' = [request EXCEPT ![r] = IF x = Wants[r].agent THEN "found" ELSE "mismatch"]
    /\ UNCHANGED <<agents, agentConnections, agentVars, gone, via, forwarded>>

GetConnection(r) ==
    /\ request[r] = "found"
    /\ LET c == agentConnections[Wants[r].agent]
       IN  /\ request' = [request EXCEPT ![r] = IF c = NoConn THEN "refused" ELSE "accepted"]
           /\ via' = [via EXCEPT ![r] = c]
    /\ UNCHANGED <<agents, agentConnections, agentVars, gone, forwarded>>

\* Fault: the agent forwards wherever the relay says.
ForwardStream_Anywhere(r) ==
    /\ request[r] = "accepted" /\ via[r] \notin gone
    /\ forwarded' = forwarded \cup {[client |-> r, conn |-> via[r]]}
    /\ UNCHANGED <<agents, agentConnections, agentVars, gone, request, via>>

\* A stream of the tunnel: a ForwardRequest on the connection the tunnel was
\* given when it was accepted.  The agent forwards to its own target only; a
\* ForwardReject closes the stream.
ForwardStream(r) ==
    /\ request[r] = "accepted" /\ via[r] \notin gone
    /\ IF Wants[r].address = target[via[r]]
       THEN forwarded' = forwarded \cup {[client |-> r, conn |-> via[r]]}
       ELSE UNCHANGED forwarded
    /\ UNCHANGED <<agents, agentConnections, agentVars, gone, request, via>>

\* A refused or abandoned client tries again.
Retry(r) ==
    /\ request[r] # "idle"
    /\ request' = [request EXCEPT ![r] = "idle"]
    /\ via' = [via EXCEPT ![r] = NoConn]
    /\ UNCHANGED <<agents, agentConnections, agentVars, gone, forwarded>>

-----------------------------------------------------------------------------
Handler(c) ==
    \/ RegisterOrReplace(c) \/ Announce(c) \/ StoreConnection(c)
    \/ HeartbeatEnds(c) \/ UnregisterAgent(c) \/ DropConnection(c)

Next ==
    \/ \E c \in Conn, x \in Agent, addr \in Address : AgentRegister(c, x, addr)
    \/ \E c \in Conn : Handler(c) \/ AgentLeaves(c)
    \/ \E r \in Client : FindAgent(r) \/ GetConnection(r) \/ ForwardStream(r) \/ Retry(r)

Spec == Init /\ [][Next]_vars
-----------------------------------------------------------------------------
\* An agent stays listed only while a handler of that agent is at work: no
\* failure path leaves an agent behind that nobody serves.
AgentsAccounted ==
    \A x \in Agent : agents[x] # NoAddress =>
        \E c \in Conn : agent[c] = x /\ target[c] = agents[x]
                        /\ pc[c] \in {"announce", "store", "serving", "leaving"}

\* A tunnel is only ever given a connection of the agent it asked for, the
\* connection manager never holds one whose handler has ended, and traffic is
\* forwarded only by the agent and to the address asked for, even when the agent
\* came back with another target between the lookup in the registry, the lookup
\* of the connection and the stream.
ForwardsToTarget ==
    /\ \A r \in Client : via[r] # NoConn => agent[via[r]] = Wants[r].agent /\ via[r] \in Quic
    /\ \A x \in Agent : agentConnections[x] # NoConn =>
          agent[agentConnections[x]] = x /\ pc[agentConnections[x]] \in {"serving", "leaving", "unstore"}
    /\ \A f \in forwarded :
          agent[f.conn] = Wants[f.client].agent /\ target[f.conn] = Wants[f.client].address

\* An agent that is connected can be found and reached, whatever the other
\* agents do, if it has never come back before the relay had noticed that it was
\* gone.  (An early return is undone by the old handler's unregister.)
AgentReachable ==
    \A c \in Conn : pc[c] = "serving" /\ c \notin gone /\ agent[c] \notin early =>
        agents[agent[c]] = target[c] /\ agentConnections[agent[c]] = c

\* The registry of agents is right in both directions: who is listed is served by a handler
\* of its own, and who is connected is listed and can be reached.
AgentsRight == AgentsAccounted /\ AgentReachable
=============================================================================
