----------------------------- MODULE Reconnect -----------------------------
(***************************************************************************)
(* The command line client that keeps one tunnel up in the foreground      *)
(* (crates/localup-cli, run_standalone): its loop of attempts, the task    *)
(* that runs the connected tunnel (TunnelClient::wait), and the task that  *)
(* turns Ctrl+C into a cancellation.                                       *)
(***************************************************************************)
EXTENDS Backoff

CONSTANT MaxAttempts        \* bound: failed attempts in a row

ASSUME ReconnectAssumption == MaxAttempts \in Nat

VARIABLES
    phase,         \* "delay", "connecting", "serving", "leaving", "exited"
    attempt,       \* reconnect_attempt, a u32
    waited,        \* seconds waited before the present attempt
    cancel,        \* the cancellation: "none", "sent", "taken"
    session        \* the task that runs the tunnel: "none", "spawned" (it has not
                   \* stored its shutdown channel yet), "running", "told"

reconnectVars == <<phase, attempt, waited, cancel, session>>

ReconnectInit ==
    /\ phase = "delay" /\ attempt = 0 /\ waited = 0
    /\ cancel = "none" /\ session = "none"

\* Ctrl+C can be pressed once: the task that waits for it ends.
Cancel ==
    /\ cancel = "none" /\ phase # "exited"
    /\ cancel' = "sent"
    /\ UNCHANGED <<phase, attempt, waited, session>>

\* The loop breaks, and the process ends with what is left in it.
Leave ==
    /\ phase' = "exited"
    /\ session' = "none"

\* The delay is slept through; if it is zero a cancellation is looked for first.
Delay ==
    /\ phase = "delay"
    /\ BackoffSeconds(attempt) = 0 => cancel # "sent"
    /\ waited' = BackoffSeconds(attempt)
    /\ phase' = "connecting"
    /\ UNCHANGED <<attempt, cancel, session>>

\* The cancellation ends the sleep, or is found when there is none.
CancelDelay ==
    /\ phase = "delay" /\ cancel = "sent"
    /\ cancel' = "taken"
    /\ Leave
    /\ UNCHANGED <<attempt, waited>>

\* The client connects and spawns the task of the tunnel.
ConnectSucceeds ==
    /\ phase = "connecting"
    /\ phase' = "serving" /\ attempt' = 0 /\ session' = "spawned"
    /\ UNCHANGED <<waited, cancel>>

\* A recoverable error; the loop looks for a cancellation before it goes on.
ConnectFails ==
    /\ phase = "connecting" /\ attempt < MaxAttempts
    /\ attempt' = attempt + 1
    /\ IF cancel = "sent"
       THEN cancel' = "taken" /\ Leave
       ELSE phase' = "delay" /\ UNCHANGED <<cancel, session>>
    /\ UNCHANGED waited

\* AuthenticationFailed or ConfigError.
ConnectRefused ==
    /\ phase = "connecting"
    /\ Leave
    /\ UNCHANGED <<attempt, waited, cancel>>

\* TunnelConnection::run stores the sender that disconnect uses.
SessionRuns ==
    /\ session = "spawned"
    /\ session' = "running"
    /\ UNCHANGED <<phase, attempt, waited, cancel>>

\* The task ends: the connection is lost, or the relay has acknowledged the
\* disconnection.  The loop starts over if it was not told to leave.
SessionEnds ==
    /\ session \in {"running", "told"}
    /\ session' = "none"
    /\ phase' = IF phase = "serving" THEN "delay" ELSE "exited"
    /\ UNCHANGED <<attempt, waited, cancel>>

\* Disconnect tells the session, if that has stored its channel.
Disconnect ==
    /\ phase = "serving" /\ cancel = "sent"
    /\ cancel' = "taken" /\ phase' = "leaving"
    /\ session' = IF session = "running" THEN "told" ELSE session
    /\ UNCHANGED <<attempt, waited>>

\* Fault: the client waits for the session without a limit.
LeaveTimeout_None ==
    /\ phase = "leaving" /\ session = "none"
    /\ Leave
    /\ UNCHANGED <<attempt, waited, cancel>>

\* Five seconds later the client leaves anyway.
LeaveTimeout ==
    /\ phase = "leaving"
    /\ Leave
    /\ UNCHANGED <<attempt, waited, cancel>>

Connects == ConnectSucceeds \/ ConnectFails \/ ConnectRefused

ReconnectNext ==
    \/ Cancel \/ Delay \/ CancelDelay
    \/ Connects
    \/ SessionRuns \/ SessionEnds
    \/ Disconnect \/ LeaveTimeout

ReconnectSpec == ReconnectInit /\ [][ReconnectNext]_reconnectVars
-----------------------------------------------------------------------------
\* Ctrl+C ends the client, in whichever phase it is pressed, unless an attempt
\* to connect never ends: TunnelClient::connect has no time limit, and nothing
\* looks for the cancellation meanwhile.
ConnectHangs == <>[](phase = "connecting")
CtrlCEnds == ConnectHangs \/ ((cancel = "sent") ~> (phase = "exited"))

\* A client that has failed waits before it tries again ("exponential: 1s, 2s, 4s,
\* 8s, 16s, max 30s"), up to the last attempt whose power of two fits in 64 bits:
\* from the 65th failure in a row on it does not wait at all.
RetriesPaced == phase = "connecting" /\ attempt \in 1 .. Width => waited >= 1
=============================================================================
