--------------------------- MODULE ReverseControl ---------------------------
(***************************************************************************)
(* What runs around the connections of a reverse tunnel:                   *)
(*                                                                         *)
(*  - `localup connect' and the ReverseTunnelClient it makes, with the     *)
(*    task that reads the control stream and the local server (main.rs,    *)
(*    reverse_tunnel.rs), and the two tasks of the relay for that tunnel   *)
(*    (handler.rs);                                                        *)
(*  - an agent, with its heartbeat task, the loop that accepts streams and *)
(*    its local listener (agent.rs), run as a command that ends with it or *)
(*    by the agent server, which starts it again (agent-server server.rs), *)
(*    and the agents that register with that server.                       *)
(***************************************************************************)
EXTENDS Naturals

CONSTANTS
    MaxAttempts,    \* bound: how often a connection to the relay is attempted
    Spaces,         \* the targets an agent may register at an agent server: [net, port]
    AllowedCidrs,   \* the address ranges allowed there
    AllowedPorts    \* and the port ranges, [start, end]

ASSUME ControlAssumption == MaxAttempts \in Nat

VARIABLES
    cmd,         \* the command: [at, tries, pause]
    link,        \* its connection to the relay: "none", "up", "lost"
    reader,      \* the client's control-stream task
    closed,      \* has it told the local server
    server,      \* the local server
    relayCtl,    \* the relay's control-stream task
    relayAcc,    \* the relay's task that accepts the tunnel's streams
    holder,      \* who runs the agent: "command" or "server"
    ag,          \* the agent: [at, tries, pause, running, active]
    alink,       \* its connection to the relay
    beat,        \* its heartbeat task
    listener,    \* its local listener
    guest        \* an agent at the agent server: [at, target]

clientSide == <<cmd, link, reader, closed, server, relayCtl, relayAcc>>
agentSide == <<holder, ag, alink, beat, listener, guest>>
controlVars == <<clientSide, agentSide>>

InitialBackoff == 1
MaxBackoff == 60
NextBackoff(b) == IF 2 * b > MaxBackoff THEN MaxBackoff ELSE 2 * b

ControlInit ==
    /\ cmd = [at |-> "connecting", tries |-> 0, pause |-> InitialBackoff]
    /\ link = "none" /\ reader = "none" /\ closed = FALSE /\ server = "none"
    /\ relayCtl = "none" /\ relayAcc = "none"
    /\ holder \in {"command", "server"}
    /\ ag = [at |-> "off", tries |-> 0, pause |-> InitialBackoff, running |-> FALSE, active |-> FALSE]
    /\ alink = "none" /\ beat = "none" /\ listener = "none"
    /\ guest = [at |-> "away", target |-> CHOOSE s \in Spaces : TRUE]

-----------------------------------------------------------------------------
(***************************************************************************)
(* The command and its tunnel.                                             *)
(***************************************************************************)
\* connect: reach the relay, send ReverseTunnelRequest, be accepted within ten seconds,
\* bind the local address, start the local server and the task that reads the control stream.
Established ==
    /\ cmd.at = "connecting"
    /\ cmd' = [cmd EXCEPT !.at = "up", !.tries = @ + 1]
    /\ link' = "up" /\ reader' = "running" /\ closed' = FALSE /\ server' = "running"
    /\ relayCtl' = "running" /\ relayAcc' = "running"
    /\ UNCHANGED agentSide

\* The relay is not reached, refuses, does not answer, or the local address is taken.
NotEstablished ==
    /\ cmd.at = "connecting" /\ cmd.tries < MaxAttempts
    /\ cmd' = [cmd EXCEPT !.at = "backoff", !.tries = @ + 1]
    /\ UNCHANGED <<link, reader, closed, server, relayCtl, relayAcc, agentSide>>

BackoffOver ==
    /\ cmd.at = "backoff"
    /\ cmd' = [cmd EXCEPT !.at = "connecting", !.pause = NextBackoff(@)]
    /\ UNCHANGED <<link, reader, closed, server, relayCtl, relayAcc, agentSide>>

LinkLost ==
    /\ link = "up"
    /\ link' = "lost"
    /\ UNCHANGED <<cmd, reader, closed, server, relayCtl, relayAcc, agentSide>>

\* The control stream is closed or fails.  (A pong that cannot be sent would end the reader
\* in silence, but this relay sends a reverse client no pings.)
ReaderEnds ==
    /\ reader = "running" /\ link = "lost"
    /\ reader' = "done" /\ closed' = TRUE
    /\ UNCHANGED <<cmd, link, server, relayCtl, relayAcc, agentSide>>

\* The server keeps a sender of its own channel: the message alone ends it, or the end of
\* the client that holds the shutdown channel.
ServerEnds ==
    /\ server = "running" /\ (closed \/ cmd.at = "exited")
    /\ server' = "stopped"
    /\ UNCHANGED <<cmd, link, reader, closed, relayCtl, relayAcc, agentSide>>

RelayControlEnds ==
    /\ relayCtl = "running" /\ link = "lost"
    /\ relayCtl' = "done"
    /\ UNCHANGED <<cmd, link, reader, closed, server, relayAcc, agentSide>>

RelayAcceptEnds ==
    /\ relayAcc = "running" /\ link = "lost"
    /\ relayAcc' = "done"
    /\ UNCHANGED <<cmd, link, reader, closed, server, relayCtl, agentSide>>

\* The command leaves its wait by Ctrl-C alone: wait() returns once the sender has been
\* taken out of shutdown_tx, which only close() does, and both consume the client.
CtrlCConnect ==
    /\ cmd.at = "up"
    /\ cmd' = [cmd EXCEPT !.at = "exited"] /\ link' = "lost"
    /\ UNCHANGED <<reader, closed, server, relayCtl, relayAcc, agentSide>>

-----------------------------------------------------------------------------
(***************************************************************************)
(* The agent.                                                              *)
(***************************************************************************)
Stopped == [ag EXCEPT !.at = "over", !.running = FALSE, !.active = FALSE]

Start ==
    /\ ag.at = "off"
    /\ ag' = [ag EXCEPT !.at = "connecting", !.running = TRUE]
    /\ UNCHANGED <<holder, alink, beat, listener, guest, clientSide>>

ConnectToRelay ==
    /\ ag.at = "connecting"
    /\ \/ ag' = [ag EXCEPT !.at = "registering"] /\ alink' = "up"
       \/ ag' = Stopped /\ UNCHANGED alink
    /\ UNCHANGED <<holder, beat, listener, guest, clientSide>>

\* AgentRegistered, or AgentRejected, Disconnect or the end of the stream.
RegisterWithRelay ==
    /\ ag.at = "registering"
    /\ \/ alink = "up" /\ ag' = [ag EXCEPT !.at = "serving", !.active = TRUE] /\ beat' = "running"
       \/ ag' = Stopped /\ UNCHANGED beat
    /\ UNCHANGED <<holder, alink, listener, guest, clientSide>>

AgentLinkLost ==
    /\ alink = "up"
    /\ alink' = "lost"
    /\ UNCHANGED <<holder, ag, beat, listener, guest, clientSide>>

\* accept_stream fails, and start returns at once; or it says that the connection is
\* closed, and the heartbeat task is waited for.
AcceptLoopEnds ==
    /\ ag.at = "serving" /\ alink = "lost"
    /\ ag' = Stopped \/ ag' = [ag EXCEPT !.at = "joining"]
    /\ UNCHANGED <<holder, alink, beat, listener, guest, clientSide>>

\* Fault: the heartbeat task looks at the flag alone.
HeartbeatTaskEnds_ByFlag ==
    /\ beat = "running" /\ ~ag.running
    /\ beat' = "done"
    /\ UNCHANGED <<holder, ag, alink, listener, guest, clientSide>>

\* The control stream fails, or a tick finds that the agent is not running.
HeartbeatTaskEnds ==
    /\ beat = "running" /\ (alink = "lost" \/ ~ag.running)
    /\ beat' = "done"
    /\ UNCHANGED <<holder, ag, alink, listener, guest, clientSide>>

HeartbeatJoined ==
    /\ ag.at = "joining" /\ beat = "done"
    /\ ag' = Stopped
    /\ UNCHANGED <<holder, alink, beat, listener, guest, clientSide>>

\* The command ends on Ctrl-C with stop(), which closes the connection.
CtrlCAgent ==
    /\ holder = "command" /\ ag.at \notin {"off", "over", "exited"}
    /\ ag' = [ag EXCEPT !.at = "exited", !.running = FALSE] /\ alink' = IF alink = "up" THEN "lost" ELSE alink
    /\ UNCHANGED <<holder, beat, listener, guest, clientSide>>

\* The agent server makes a new agent after a pause; a successful Agent::new, which needs
\* no connection, has reset the pause to the first one.
RestartAgent ==
    /\ holder = "server" /\ ag.at = "over" /\ ag.tries < MaxAttempts
    /\ ag' = [at |-> "off", tries |-> ag.tries + 1, pause |-> InitialBackoff, running |-> FALSE, active |-> FALSE]
    /\ alink' = "none" /\ beat' = "none"
    /\ UNCHANGED <<holder, listener, guest, clientSide>>

\* The local listener goes on while the agent runs, whether or not the relay is connected.
StartLocalListener ==
    /\ holder = "command" /\ listener = "none"
    /\ listener' = "listening"
    /\ UNCHANGED <<holder, ag, alink, beat, guest, clientSide>>

LocalListenerStops ==
    /\ listener = "listening" /\ ~ag.running
    /\ listener' = "stopped"
    /\ UNCHANGED <<holder, ag, alink, beat, guest, clientSide>>

-----------------------------------------------------------------------------
(***************************************************************************)
(* Agents at an agent server.                                              *)
(***************************************************************************)
IsAllowed(s) ==
    /\ AllowedCidrs = {} \/ s.net \in AllowedCidrs
    /\ AllowedPorts = {} \/ \E r \in AllowedPorts : r.start <= s.port /\ s.port <= r.end

HandleGuest ==
    /\ holder = "server" /\ guest.at = "away"
    /\ \E s \in Spaces :
         guest' = [at |-> IF IsAllowed(s) THEN "registered" ELSE "rejected", target |-> s]
    /\ UNCHANGED <<holder, ag, alink, beat, listener, clientSide>>

\* Pings are answered until the control stream ends.
GuestEnds ==
    /\ guest.at = "registered"
    /\ guest' = [guest EXCEPT !.at = "ended"]
    /\ UNCHANGED <<holder, ag, alink, beat, listener, clientSide>>

-----------------------------------------------------------------------------
ClientTasks == Established \/ NotEstablished \/ BackoffOver \/ ReaderEnds \/ ServerEnds \/ RelayControlEnds \/ RelayAcceptEnds
AgentTasks == Start \/ ConnectToRelay \/ RegisterWithRelay \/ AcceptLoopEnds \/ HeartbeatTaskEnds
              \/ HeartbeatJoined \/ RestartAgent \/ LocalListenerStops

ClientNext == ClientTasks \/ LinkLost \/ CtrlCConnect
AgentNext == AgentTasks \/ AgentLinkLost \/ CtrlCAgent \/ StartLocalListener \/ HandleGuest \/ GuestEnds

-----------------------------------------------------------------------------
\* When a reverse tunnel's connection is lost, everything that served it stops: the local
\* server does not go on accepting programs it cannot serve, the relay keeps no task of the
\* tunnel; and an agent that has lost its relay returns from start, so that whoever runs it
\* can start it again, although it waits for its heartbeat task first.
LossIsNoticed ==
    /\ link = "lost" ~> (server # "running" /\ relayCtl # "running" /\ relayAcc # "running")
    /\ (alink = "lost" /\ ag.at = "serving") ~> ag.at \in {"over", "off", "exited"}

\* "Try to connect with automatic reconnection on disconnect" (localup-cli
\* main.rs:1982): a command that has lost its tunnel connects again, unless it is ended.
ReconnectsOnDisconnect == (link = "lost" /\ cmd.at = "up") ~> cmd.at # "up"
=============================================================================
