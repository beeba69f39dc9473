------------------------------ MODULE MCTunnel ------------------------------
(***************************************************************************)
(* The life of a client's tunnel, part by part: it connects and retries,   *)
(* it keeps a control stream, and these run over listeners, streams and a  *)
(* multiplexer of the transport crates.  The parts share no state here     *)
(* (what a lower one promises is an assumption of the one above), and a    *)
(* behaviour is one of one of them.                                        *)
(***************************************************************************)
EXTENDS Session, Connecting, Carrier, Listeners

CONSTANTS k1, k2

VARIABLE part

Part == {"control", "reconnect", "connecting", "mux", "stream", "listener"}

vars == <<part, controlVars, reconnectVars, connectVars, muxVars, tsVars, listenerVars>>

\* A part that takes no steps starts in one state.  The two ends of a QUIC stream do the
\* same, so that the client opens it.
Init ==
    /\ part \in Part
    /\ part = "control" \/ transport = "quic"
    /\ part = "connecting" \/ (cpc = "resolve" /\ preferred = None)
    /\ part = "stream" \/ carrier = "quic"
    /\ opener = "client"
    /\ part = "listener" \/ (listener = "quic" /\ manner = [k \in Knocker |-> "sound"])
    /\ ControlInit /\ ReconnectInit /\ ConnectingInit /\ MuxInit /\ TsInit /\ ListenersInit

Only(p, A) ==
    /\ part = p /\ A
    /\ UNCHANGED part
    /\ p # "control" => UNCHANGED controlVars
    /\ p # "reconnect" => UNCHANGED reconnectVars
    /\ p # "connecting" => UNCHANGED connectVars
    /\ p # "mux" => UNCHANGED muxVars
    /\ p # "stream" => UNCHANGED tsVars
    /\ p # "listener" => UNCHANGED listenerVars

\* The two sides of a multiplexed connection do the same: the client opens first.
ClientFirst == nextId'["server"] # FirstId("server") => nextId'["client"] # FirstId("client")

Next ==
    \/ Only("control", ControlNext) \/ Only("reconnect", ReconnectNext)
    \/ Only("connecting", ConnectingNext) \/ Only("mux", MuxNext /\ ClientFirst)
    \/ Only("stream", TsNext) \/ Only("listener", ListenersNext)

\* The relay's handler and the client's control task run when they are ready, timers that
\* are armed fire, a shutdown signal that is pending in a select is taken.  Nothing makes
\* a visitor leave.
ControlFair ==
    /\ WF_vars(Only("control", ReceivePong \/ ReceiveDisconnect \/ RelaySeesClose \/ RelayReturns))
    /\ WF_vars(Only("control", RunStarts \/ AnswerPing \/ ReceiveAck \/ AckTimeout \/ ControlSeesClose))
    /\ WF_vars(Only("control", SendDisconnect))
    /\ WF_vars(Only("control", DropHandles \/ ClientDrops))
    /\ WF_vars(Only("control", AcceptSeesClose)) /\ WF_vars(Only("control", Exit))

\* So do the loop of attempts and the task of the tunnel.  Nothing makes an attempt to
\* connect or a session end, or Ctrl+C be pressed.
ReconnectFair ==
    /\ WF_vars(Only("reconnect", Delay \/ CancelDelay \/ Disconnect \/ LeaveTimeout))
    /\ WF_vars(Only("reconnect", SessionRuns))

\* The runtime polls connect, whoever receives from a stream, a listener, and the tasks of
\* each side of a multiplexed connection.  (In a behaviour one of the parts takes steps, so
\* that fairness of the disjunction is fairness of each.)
TransportFair ==
    /\ WF_vars(\/ Only("connecting", ConnectingGoes) \/ Only("stream", TsGoes)
               \/ Only("listener", ListenersGo) \/ Only("mux", Goes("client")))
    /\ WF_vars(Only("mux", Goes("server")))

Spec == Init /\ [][Next]_vars /\ ControlFair /\ ReconnectFair /\ TransportFair
-----------------------------------------------------------------------------
\* Nobody waits for ever on a transport that is gone or for a peer that fails: receivers are
\* told, sound peers are accepted, and connect returns, but for the waits without a limit
\* that the parts of this property name.
WaitsEnd ==
    LossIsTold /\ ReceivingEnds /\ KnockIsAnswered /\ (part = "connecting" => ConnectReturns)
=============================================================================
