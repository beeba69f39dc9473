----------------------------- MODULE MCDesktop -----------------------------
(***************************************************************************)
(* The desktop application and the daemons it and the command line talk    *)
(* to: three commands at any moments of a tunnel in the application or in  *)
(* its daemon; a connection to that daemon; and the address at which the   *)
(* command line's daemons are reached.  A behaviour is one of the three.   *)
(***************************************************************************)
EXTENDS Desktop, MetricsFeed, Ipc

VARIABLE part

vars == <<part, deskVars, feedVars, ipcVars>>

\* A part that takes no steps starts in one state.
Init ==
    /\ part \in {"tunnel", "feed", "address"}
    /\ part = "tunnel" \/ (host = "app" /\ valid = TRUE)
    /\ part = "feed" \/ channel = "none"
    /\ part = "address" \/ os = "unix"
    /\ DesktopInit /\ FeedInit /\ IpcInit

InTunnel(A) == part = "tunnel" /\ A /\ UNCHANGED <<part, feedVars, ipcVars>>
InFeed(A) == part = "feed" /\ A /\ UNCHANGED <<part, deskVars, ipcVars>>
AtAddress(A) == part = "address" /\ A /\ UNCHANGED <<part, deskVars, feedVars>>

Next == InTunnel(DesktopNext) \/ InFeed(FeedNext) \/ AtAddress(IpcNext)

\* The runtime polls tasks, commands, both ends of the connection and the server of the
\* address; nobody need connect or give a command.
Fair ==
    /\ \A r \in DeskTask : WF_vars(InTunnel(Told(r) \/ Panics(r) \/ Dies(r)))
    /\ \A c \in DeskCommand : WF_vars(InTunnel(CommandStep(c)))
    /\ WF_vars(InFeed(FeedServer)) /\ WF_vars(InFeed(FeedUser))
    /\ \A p \in Process : WF_vars(AtAddress(Accept(p) \/ Serve(p)))
    /\ \A c \in Caller : WF_vars(AtAddress(Ask(c) \/ HungUp(c)))

Spec == Init /\ [][Next]_vars /\ Fair
-----------------------------------------------------------------------------
\* Whoever calls a daemon is answered or told that it is gone: a command at the address,
\* and the application that asks for metrics.
CallsEnd == CallEnds /\ SubscriptionAnswered
=============================================================================
