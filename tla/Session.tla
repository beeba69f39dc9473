------------------------------ MODULE Session ------------------------------
(***************************************************************************)
(* What the command line client promises of its tunnel as a whole: the     *)
(* control stream of the session that is up (ControlStream) and the loop   *)
(* around it that gets the next one (Reconnect).                           *)
(***************************************************************************)
EXTENDS ControlStream, Reconnect

\* Neither the heartbeat nor the retries run ahead: no stale pong answers a later ping, and
\* a failed attempt is followed by a pause.
Paced == OneHeartbeat /\ RetriesPaced

\* Ctrl+C ends the session at both ends, and the program.
CtrlCObeyed == ShutdownEndsBoth /\ CtrlCEnds
=============================================================================
