------------------------------ MODULE MCDaemon ------------------------------
(* Small instances of the daemon: the TunnelStore holds every tunnel.        *)
EXTENDS Daemon

CONSTANTS a, b

MCStored == [t \in Tunnel |-> 1]

\* The loop and the runners are tasks of a runtime that runs what is ready; an
\* attempt to connect ends, and so does a session told to disconnect.
Fair ==
    /\ WF_daemonVars(Loop) /\ WF_daemonVars(\E t \in Tunnel : StartNext(t))
    /\ WF_daemonVars(\E i \in DOMAIN runs : SessionCloses(i))
    /\ WF_daemonVars(\E i \in DOMAIN runs : Runner(i))

Spec == DaemonSpec /\ Fair
=============================================================================
