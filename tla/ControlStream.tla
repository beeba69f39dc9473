--------------------------- MODULE ControlStream ---------------------------
(***************************************************************************)
(* One session on the control stream, after Connected: the relay's         *)
(* heartbeat (handle_client_connection, crates/localup-control), the       *)
(* client's control task and accept loop (TunnelConnection::run and        *)
(* disconnect, crates/localup-client) and the shutdown sequence of the CLI *)
(* around them.                                                            *)
(*                                                                         *)
(* Each direction of the stream is a reliable queue until the connection   *)
(* closes; what is still queued then is lost.  Timers are nondeterministic:*)
(* a slow peer and a slow network look alike.  The relay never closes a    *)
(* connection: QUIC closes it with its last handle, and the tasks of the   *)
(* visitors have handles too; an HTTP/2 connection is its driver task's.   *)
(***************************************************************************)
EXTENDS Naturals, Sequences, SequencesExt

VARIABLES
    transport,     \* what carries the session: "quic" or "h2"
    visitors,      \* whether tasks of the relay's visitors have handles of the connection
    link,          \* "up" or "closed"
    toClient,      \* messages on their way to the client
    toRelay,       \* messages on their way to the relay
    relayLoop,     \* "serving", "ended" (cleaning up), "dropped" (returned)
    waiting,       \* waiting_for_pong
    control,       \* the client's control task
    accept,        \* the client's accept loop: "unstarted", "accepting", "returned"
    signal,        \* the shutdown channel: "none", "stored", "sent", "taken"
    app            \* the CLI: "active", "stopping", "exited"

relayVars == <<relayLoop, waiting>>
clientVars == <<control, accept, signal, app>>
held == <<transport, visitors>>
controlVars == <<held, link, toClient, toRelay, relayLoop, waiting, control, accept, signal, app>>

ControlInit ==
    /\ transport \in {"quic", "h2"} /\ visitors = FALSE
    /\ link = "up" /\ toClient = <<>> /\ toRelay = <<>>
    /\ relayLoop = "serving" /\ waiting = FALSE
    /\ control = "unstarted" /\ accept = "unstarted"
    /\ signal = "none" /\ app = "active"

\* Sending on a closed connection is an error for the sender.
SendToClient(m) == link = "up" /\ toClient' = Append(toClient, m)
SendToRelay(m) == link = "up" /\ toRelay' = Append(toRelay, m)

Incoming(queue, m) == link = "up" /\ queue # <<>> /\ Head(queue) = m

-----------------------------------------------------------------------------
(***************************************************************************)
(* The relay.                                                              *)
(***************************************************************************)
\* Fault: the interval is not disabled while a pong is outstanding.
SendPing_Always ==
    /\ relayLoop = "serving" /\ Len(toClient) < 2
    /\ SendToClient("Ping")
    /\ waiting' = TRUE
    /\ UNCHANGED <<held, link, toRelay, relayLoop, clientVars>>

SendPing ==
    /\ relayLoop = "serving" /\ ~waiting
    /\ SendToClient("Ping")
    /\ waiting' = TRUE
    /\ UNCHANGED <<held, link, toRelay, relayLoop, clientVars>>

PongTimeout ==
    /\ relayLoop = "serving" /\ waiting
    /\ relayLoop' = "ended"
    /\ UNCHANGED <<held, link, toClient, toRelay, waiting, clientVars>>

ReceivePong ==
    /\ relayLoop = "serving" /\ Incoming(toRelay, "Pong")
    /\ toRelay' = Tail(toRelay)
    /\ waiting' = FALSE
    /\ UNCHANGED <<held, link, toClient, relayLoop, clientVars>>

ReceiveDisconnect ==
    /\ relayLoop = "serving" /\ Incoming(toRelay, "Disconnect")
    /\ toRelay' = Tail(toRelay)
    /\ SendToClient("DisconnectAck")
    /\ relayLoop' = "ended"
    /\ UNCHANGED <<held, link, waiting, clientVars>>

\* Fault: the closing of the stream is only noticed by sending.
RelaySeesClose_OnlySending ==
    /\ relayLoop = "serving" /\ link = "closed" /\ ~waiting
    /\ relayLoop' = "ended"
    /\ UNCHANGED <<held, link, toClient, toRelay, waiting, clientVars>>

\* The stream ends or fails, or the next ping cannot be sent.
RelaySeesClose ==
    /\ relayLoop = "serving" /\ link = "closed"
    /\ relayLoop' = "ended"
    /\ UNCHANGED <<held, link, toClient, toRelay, waiting, clientVars>>

\* Closing the connection drops what is queued in either direction.
Close == link' = "closed" /\ toClient' = <<>> /\ toRelay' = <<>>

\* The handler has cleaned up and returns; its handle of the connection goes.
RelayReturns ==
    /\ relayLoop = "ended"
    /\ relayLoop' = "dropped"
    /\ IF transport = "quic" /\ ~visitors THEN Close ELSE UNCHANGED <<link, toClient, toRelay>>
    /\ UNCHANGED <<held, waiting, clientVars>>

\* A visitor's task takes the connection of the registered tunnel (the connection manager
\* has QUIC connections only).
VisitorComes ==
    /\ transport = "quic" /\ link = "up" /\ relayLoop # "dropped"
    /\ ~visitors /\ visitors' = TRUE
    /\ UNCHANGED <<transport, link, toClient, toRelay, relayVars, clientVars>>

\* The last of these tasks ends; its handle may be the last one.
VisitorGoes ==
    /\ visitors /\ visitors' = FALSE
    /\ IF relayLoop = "dropped" THEN Close ELSE UNCHANGED <<link, toClient, toRelay>>
    /\ UNCHANGED <<transport, relayVars, clientVars>>

\* The heartbeat has dropped its stream.  QUIC finishes it behind what was sent, HTTP/2
\* resets it and may lose that.
StreamGone == relayLoop # "serving"
StreamReset ==
    /\ transport = "h2" /\ StreamGone
    /\ toClient # <<>> /\ toClient' = <<>>
    /\ UNCHANGED <<held, link, toRelay, relayVars, clientVars>>

-----------------------------------------------------------------------------
(***************************************************************************)
(* The client.                                                             *)
(***************************************************************************)
\* run() stores the sender of the shutdown channel and starts the two loops.
RunStarts ==
    /\ accept = "unstarted" /\ app # "exited"
    /\ accept' = "accepting" /\ control' = "running"
    /\ signal' = IF signal = "none" THEN "stored" ELSE signal
    /\ UNCHANGED <<held, link, toClient, toRelay, relayVars, app>>

\* Ctrl-C.  disconnect() takes the sender and uses it; before run() has stored
\* it there is none, and the call only logs a warning.
CtrlC ==
    /\ app = "active"
    /\ app' = "stopping"
    /\ signal' = IF signal = "stored" THEN "sent" ELSE signal
    /\ UNCHANGED <<held, link, toClient, toRelay, relayVars, control, accept>>

\* A pong that cannot be sent ends the control task.
AnswerPing ==
    /\ control = "running" /\ Incoming(toClient, "Ping")
    /\ toClient' = Tail(toClient)
    /\ \/ SendToRelay("Pong") /\ UNCHANGED control
       \/ StreamGone /\ control' = "failed" /\ UNCHANGED toRelay
    /\ UNCHANGED <<held, link, relayVars, accept, signal, app>>

SendDisconnect ==
    /\ control = "running" /\ signal = "sent"
    /\ signal' = "taken"
    /\ \/ SendToRelay("Disconnect") /\ control' = "awaiting"
       \/ (link = "closed" \/ StreamGone) /\ control' = "failed" /\ UNCHANGED toRelay
    /\ UNCHANGED <<held, link, toClient, relayVars, accept, app>>

\* One message is read after Disconnect, whatever it is.
ReceiveAck ==
    /\ control = "awaiting" /\ link = "up" /\ toClient # <<>>
    /\ control' = IF Head(toClient) = "DisconnectAck" THEN "acknowledged" ELSE "unexpected"
    /\ toClient' = Tail(toClient)
    /\ UNCHANGED <<held, link, toRelay, relayVars, accept, signal, app>>

AckTimeout ==
    /\ control = "awaiting"
    /\ control' = "timedOut"
    /\ UNCHANGED <<held, link, toClient, toRelay, relayVars, accept, signal, app>>

\* The stream has ended or failed.
ControlSeesClose ==
    /\ control \in {"running", "awaiting"}
    /\ link = "closed" \/ (StreamGone /\ toClient = <<>>)
    /\ control' = "failed"
    /\ UNCHANGED <<held, link, toClient, toRelay, relayVars, accept, signal, app>>

\* Fault: the loop asks the control task, not the connection.
AcceptSeesClose_ByControl ==
    /\ accept = "accepting" /\ link = "closed" /\ control = "running"
    /\ accept' = "returned"
    /\ UNCHANGED <<held, link, toClient, toRelay, relayVars, control, signal, app>>

\* accept_stream fails once a QUIC connection is closed.  For HTTP/2 it ends at once: its
\* channel lost its only sender when the connection was made.
AcceptSeesClose ==
    /\ accept = "accepting"
    /\ link = "closed" \/ transport = "h2"
    /\ accept' = "returned"
    /\ UNCHANGED <<held, link, toClient, toRelay, relayVars, control, signal, app>>

\* run() has returned and the caller drops its handles, the sender of the shutdown channel
\* with them; the control task takes a channel without senders for a shutdown.
DropHandles ==
    /\ accept = "returned" /\ signal = "stored"
    /\ signal' = "sent"
    /\ UNCHANGED <<held, link, toClient, toRelay, relayVars, control, accept, app>>

\* The control task was the last user of the client's connection.
ClientDrops ==
    /\ link = "up" /\ accept = "returned" /\ control \notin {"running", "awaiting"}
    /\ Close
    /\ UNCHANGED <<held, relayVars, clientVars>>

\* After Ctrl-C the CLI waits for run() to return, five seconds at most; then
\* the process is gone and its sockets with it.
Exit ==
    /\ app = "stopping"
    /\ app' = "exited"
    /\ Close
    /\ UNCHANGED <<held, relayVars, control, accept, signal>>

\* The network fails for long enough that both ends give the connection up.
LinkFails ==
    /\ link = "up"
    /\ Close
    /\ UNCHANGED <<held, relayVars, clientVars>>

-----------------------------------------------------------------------------
RelayStep == SendPing \/ ReceivePong \/ ReceiveDisconnect \/ RelaySeesClose \/ RelayReturns
ClientStep ==
    \/ RunStarts \/ AnswerPing \/ SendDisconnect \/ ReceiveAck \/ ControlSeesClose
    \/ AcceptSeesClose \/ DropHandles \/ ClientDrops

ControlNext ==
    \/ RelayStep \/ PongTimeout \/ VisitorComes \/ VisitorGoes \/ StreamReset
    \/ ClientStep \/ AckTimeout \/ CtrlC \/ Exit \/ LinkFails

ControlSpec == ControlInit /\ [][ControlNext]_controlVars
-----------------------------------------------------------------------------
\* The pings on their way to the client and the pongs on their way back.
Places(queue, m) == {i \in DOMAIN queue : queue[i] = m}
InFlight == ({"Ping"} \X Places(toClient, "Ping")) \cup ({"Pong"} \X Places(toRelay, "Pong"))

\* The heartbeat has one ping or its pong in flight while the relay waits, and
\* none otherwise: a stale pong never answers a later ping, however the two
\* ends interleave.
OneHeartbeat == relayLoop = "serving" => \A a, b \in InFlight : waiting /\ a = b

\* Ctrl-C ends the session at both ends, even if it arrives before run() has
\* stored the shutdown sender, if the acknowledgment is lost, or if the relay
\* has stopped reading.
ShutdownEndsBoth == (app = "stopping") ~> (app = "exited" /\ relayLoop = "dropped")

\* When the relay drops the session, the client's accept loop returns, which is
\* what makes the caller reconnect: a client does not wait on a dead session,
\* unless tasks of visitors still hold the connection open.  These have no time
\* limit, and as long as one is left the client stays in a session without a
\* tunnel: its control task has ended and nothing listens to that.
DropIsNoticed ==
    (relayLoop = "dropped" /\ ~visitors /\ accept = "accepting") ~> (accept = "returned" \/ app = "exited")
=============================================================================
