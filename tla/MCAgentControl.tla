--------------------------- MODULE MCAgentControl ---------------------------
(***************************************************************************)
(* Reverse tunnels: two agents, two target addresses, and a client that    *)
(* asks for one agent at one address; one connection of an accepted        *)
(* tunnel; a command and an agent that lose their connections.  The        *)
(* three do not share state, and a behaviour is one of them.               *)
(***************************************************************************)
EXTENDS AgentControl, ReverseStream, ReverseControl, TLC

CONSTANTS a1, a2, x, y, c1, c2, c3, r1, Parts

MCWants == r1 :> [agent |-> a1, address |-> x]
MCSpaces == [net : {"lan", "wan"}, port : {21, 22}]
MCPorts == {[start |-> 22, end |-> 22]}

VARIABLE part

mcVars == <<part, vars, streamVars, controlVars>>

MCInit ==
    /\ part \in Parts
    /\ Init /\ StreamInit /\ ControlInit
    /\ part # "agent" => holder = "command"

InRegistry(A) == part = "registry" /\ A /\ UNCHANGED <<part, streamVars, controlVars>>
InStream(A) == part = "stream" /\ A /\ UNCHANGED <<part, vars, controlVars>>
InClient(A) == part = "client" /\ A /\ UNCHANGED <<part, vars, streamVars>>
InAgent(A) == part = "agent" /\ A /\ UNCHANGED <<part, vars, streamVars>>

\* c1 and c2 are interchangeable: c1 is used first.  The second agent is there to compete
\* for the address the client asks for.
InOrder ==
    /\ pc'[c2] # "idle" => pc'[c1] # "idle"
    /\ \A c \in Conn : agent'[c] = a2 => target'[c] = x

MCNext ==
    \/ InRegistry(Next /\ InOrder) \/ InStream(StreamNext) \/ InClient(ClientNext) \/ InAgent(AgentNext)

\* The runtime polls what is ready; an end of a connection reads what arrives, and shuts
\* its side once it has read the end of the other's.
Fair ==
    /\ WF_mcVars(InStream(SettingUp)) /\ \A t \in Hop : WF_mcVars(InStream(Task(t)))
    /\ \A e \in Side : WF_mcVars(InStream(Receives(e))) /\ WF_mcVars(InStream(e \in heard /\ ShutsDown(e)))
    /\ WF_mcVars(InClient(ClientTasks)) /\ WF_mcVars(InAgent(AgentTasks))

MCSpec == MCInit /\ [][MCNext]_mcVars /\ Fair
=============================================================================
