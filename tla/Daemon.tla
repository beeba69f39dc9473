------------------------------- MODULE Daemon -------------------------------
(***************************************************************************)
(* The daemon of the command line client (crates/localup-cli/daemon.rs):   *)
(* it keeps one runner per tunnel of the project file, and obeys commands  *)
(* that other processes send to its IPC server.                            *)
(*                                                                         *)
(* A run is one call of run_tunnel.  Its session is the connected          *)
(* TunnelClient, which lives in a task of its own (client.wait()), so that *)
(* it may outlive the run that spawned it.  Stopping a tunnel sends the    *)
(* runner a cancellation and aborts it: the runner acts on the             *)
(* cancellation only if another thread polls it between the two.           *)
(***************************************************************************)
EXTENDS Backoff, Sequences

CONSTANTS
    Tunnel,        \* names of tunnels
    Config,        \* the configurations a tunnel may be given, numbered
    Stored,        \* tunnel -> its configuration in the TunnelStore, or Off
    Enabled,       \* the tunnels that are enabled there
    MaxRequests,   \* bound: commands and edits of the project file
    MaxAttempts    \* bound: failed attempts in a row

Off == 0           \* a tunnel that is missing, or disabled in the project file
Bad == 99          \* an entry that cannot be converted to a configuration

ASSUME DaemonAssumption ==
    /\ Config \subseteq Nat \ {Off, Bad}
    /\ Stored \in [Tunnel -> Config \cup {Off}] /\ Enabled \subseteq Tunnel
    /\ MaxRequests \in Nat /\ MaxAttempts \in Nat

VARIABLES
    file,          \* the project file: tunnel -> configuration, Off or Bad
    cache,         \* project_tunnels: tunnel -> configuration or Off
    handle,        \* tunnels: tunnel -> its run, 0 if it has no TunnelHandle
    status,        \* the status in the handle, "none" without one
    runs,          \* the runs so far, in the order they started
    queue,         \* commands sent to the main loop
    todo,          \* what the present command still has to start, Off if nothing
    daemon,        \* "running", "stopping" (the loop has ended), "exited"
    requests       \* number of requests and edits so far

daemonVars == <<file, cache, handle, status, runs, queue, todo, daemon, requests>>

Entry == Config \cup {Off, Bad}
Nothing == [t \in Tunnel |-> Off]

\* The tunnels of an entry list that can be started.
Valid(entries) == [t \in Tunnel |-> IF entries[t] = Bad THEN Off ELSE entries[t]]

NewRun(t, c) == [tunnel |-> t, config |-> c, phase |-> "connecting", attempt |-> 0, session |-> "none"]

\* A run whose task has not ended.
Live(r) == r.phase \in {"connecting", "serving", "failed", "waiting"}

Command ==
    [op : {"StartTunnel", "StopTunnel", "ReloadTunnel"}, name : Tunnel]
        \cup [op : {"Reload", "Shutdown"}]

\* The daemon loads the project file or, if there is none, the TunnelStore, and
\* starts what it finds enabled there.
DaemonInit ==
    /\ \/ file \in [Tunnel -> Entry] /\ cache = Valid(file) /\ todo = Valid(file)
       \/ file = Nothing /\ cache = Nothing
          /\ todo = [t \in Tunnel |-> IF t \in Enabled THEN Stored[t] ELSE Off]
    /\ handle = [t \in Tunnel |-> 0] /\ status = [t \in Tunnel |-> "none"]
    /\ runs = <<>> /\ queue = <<>> /\ daemon = "running" /\ requests = 0

-----------------------------------------------------------------------------
(***************************************************************************)
(* The command loop.                                                       *)
(***************************************************************************)
\* Fault: a tunnel that has a handle is started again.
start_tunnel_Again(t, c) ==
    /\ runs' = Append(runs, NewRun(t, c))
    /\ handle' = [handle EXCEPT ![t] = Len(runs) + 1]
    /\ status' = [status EXCEPT ![t] = "Starting"]

\* A tunnel that has a handle is "already running".
start_tunnel(t, c) ==
    IF handle[t] # 0
    THEN UNCHANGED <<runs, handle, status>>
    ELSE /\ runs' = Append(runs, NewRun(t, c))
         /\ handle' = [handle EXCEPT ![t] = Len(runs) + 1]
         /\ status' = [status EXCEPT ![t] = "Starting"]

\* A run that is cancelled and aborted: what it counted is gone.  Its session
\* stays; it has been told to disconnect if the runner was polled in between.
Halted(r, told) ==
    IF r.phase = "serving"
    THEN [r EXCEPT !.phase = "aborted", !.attempt = 0, !.session = IF told THEN "told" ELSE @]
    ELSE IF Live(r) THEN [r EXCEPT !.phase = "aborted", !.attempt = 0] ELSE r

\* stop_tunnel for each tunnel of S that has a handle.
stop_tunnels(S) ==
    /\ \E told \in SUBSET {t \in S : handle[t] # 0} :
         runs' = [i \in DOMAIN runs |-> IF runs[i].tunnel \in S /\ handle[runs[i].tunnel] = i
                                        THEN Halted(runs[i], runs[i].tunnel \in told) ELSE runs[i]]
    /\ handle' = [t \in Tunnel |-> IF t \in S THEN 0 ELSE handle[t]]
    /\ status' = [t \in Tunnel |-> IF t \in S THEN "none" ELSE status[t]]

\* The loop takes its next command.
Takes(op) ==
    /\ daemon = "running" /\ todo = Nothing
    /\ queue # <<>> /\ Head(queue).op = op
    /\ queue' = Tail(queue)

\* StartTunnel looks in the cache of the project file, then in the TunnelStore,
\* where it does not ask whether the tunnel is enabled.
StartTunnel ==
    /\ Takes("StartTunnel")
    /\ LET t == Head(queue).name
           c == IF cache[t] # Off THEN cache[t] ELSE Stored[t]
       IN  IF c # Off THEN start_tunnel(t, c) ELSE UNCHANGED <<runs, handle, status>>
    /\ UNCHANGED <<file, cache, todo, daemon, requests>>

StopTunnel ==
    /\ Takes("StopTunnel")
    /\ stop_tunnels({Head(queue).name})
    /\ UNCHANGED <<file, cache, todo, daemon, requests>>

\* ReloadTunnel reads the file again, stops the tunnel, waits 100 ms and starts it.
ReloadTunnel ==
    /\ Takes("ReloadTunnel")
    /\ LET t == Head(queue).name
       IN  IF file[t] \in Config
           THEN /\ cache' = [cache EXCEPT ![t] = file[t]]
                /\ stop_tunnels({t})
                /\ todo' = [Nothing EXCEPT ![t] = file[t]]
           ELSE UNCHANGED <<cache, runs, handle, status, todo>>
    /\ UNCHANGED <<file, daemon, requests>>

\* Reload stops the tunnels that are not in the file any more, and goes through
\* those that are.
Reload ==
    /\ Takes("Reload")
    /\ cache' = [t \in Tunnel |-> IF file[t] \in Config THEN file[t] ELSE cache[t]]
    /\ stop_tunnels({t \in Tunnel : file[t] = Off})
    /\ todo' = Valid(file)
    /\ UNCHANGED <<file, daemon, requests>>

\* The file cannot be read or parsed: nothing happens.
ReloadFails ==
    /\ Takes("Reload") \/ Takes("ReloadTunnel")
    /\ UNCHANGED <<file, cache, handle, status, runs, todo, daemon, requests>>

\* At startup, in Reload and in ReloadTunnel: the next tunnel to start.
StartNext(t) ==
    /\ daemon = "running" /\ todo[t] # Off
    /\ start_tunnel(t, todo[t])
    /\ todo' = [todo EXCEPT ![t] = Off]
    /\ UNCHANGED <<file, cache, queue, daemon, requests>>

\* Fault: the loop goes on after Shutdown.
Shutdown_GoesOn ==
    /\ Takes("Shutdown")
    /\ stop_tunnels(Tunnel)
    /\ UNCHANGED <<file, cache, todo, daemon, requests>>

\* Shutdown ends the loop, and all tunnels are stopped.
Shutdown ==
    /\ Takes("Shutdown")
    /\ daemon' = "stopping"
    /\ stop_tunnels(Tunnel)
    /\ UNCHANGED <<file, cache, todo, requests>>

\* Ctrl+C while the loop waits for a command.
CtrlC ==
    /\ daemon = "running" /\ todo = Nothing
    /\ daemon' = "stopping"
    /\ stop_tunnels(Tunnel)
    /\ UNCHANGED <<file, cache, queue, todo, requests>>

\* run returns, and the process ends with all that is left in it.
Exit ==
    /\ daemon = "stopping"
    /\ daemon' = "exited"
    /\ runs' = [i \in DOMAIN runs |-> [runs[i] EXCEPT !.session = "none"]]
    /\ UNCHANGED <<file, cache, handle, status, queue, todo, requests>>

-----------------------------------------------------------------------------
(***************************************************************************)
(* run_tunnel: the run i, and its session.                                 *)
(***************************************************************************)
\* Fault: the status of a tunnel is not updated once it is reconnecting.
update_status_Sticky(t, s) ==
    status' = IF handle[t] # 0 /\ status[t] # "Reconnecting" THEN [status EXCEPT ![t] = s] ELSE status

update_status(t, s) ==
    status' = IF handle[t] # 0 THEN [status EXCEPT ![t] = s] ELSE status

Step(i, r) == runs' = [runs EXCEPT ![i] = r]

\* Everything but the runs and the status in the handles.
runnerUnchanged == UNCHANGED <<file, cache, handle, queue, todo, daemon, requests>>

ConnectSucceeds(i) ==
    /\ daemon # "exited" /\ runs[i].phase = "connecting"
    /\ Step(i, [runs[i] EXCEPT !.phase = "serving", !.attempt = 0, !.session = "up"])
    /\ update_status(runs[i].tunnel, "Connected")
    /\ runnerUnchanged

ConnectFails(i) ==
    /\ daemon # "exited" /\ runs[i].phase = "connecting" /\ runs[i].attempt < MaxAttempts
    /\ Step(i, [runs[i] EXCEPT !.phase = "failed", !.attempt = @ + 1])
    /\ update_status(runs[i].tunnel, "Failed")
    /\ runnerUnchanged

\* A non-recoverable error: the token or the configuration is refused.
ConnectRefused(i) ==
    /\ daemon # "exited" /\ runs[i].phase = "connecting"
    /\ Step(i, [runs[i] EXCEPT !.phase = "refused", !.attempt = 0])
    /\ update_status(runs[i].tunnel, "Failed")
    /\ runnerUnchanged

\* The head of the loop: wait before the next attempt, unless the delay is zero.
Wait(i) ==
    /\ daemon # "exited" /\ runs[i].phase = "failed"
    /\ IF BackoffSeconds(runs[i].attempt) > 0
       THEN /\ Step(i, [runs[i] EXCEPT !.phase = "waiting"])
            /\ update_status(runs[i].tunnel, "Reconnecting")
       ELSE Step(i, [runs[i] EXCEPT !.phase = "connecting"]) /\ UNCHANGED status
    /\ runnerUnchanged

WaitOver(i) ==
    /\ daemon # "exited" /\ runs[i].phase = "waiting"
    /\ Step(i, [runs[i] EXCEPT !.phase = "connecting"])
    /\ UNCHANGED status /\ runnerUnchanged

\* The connection to the relay is lost.  Of a run that is serving the loop starts
\* over, without a delay.
SessionLost(i) ==
    /\ daemon # "exited" /\ runs[i].session # "none"
    /\ Step(i, [runs[i] EXCEPT !.session = "none",
                               !.phase = IF @ = "serving" THEN "connecting" ELSE @])
    /\ UNCHANGED status /\ runnerUnchanged

\* A session that has been told to disconnect does.
SessionCloses(i) ==
    /\ daemon # "exited" /\ runs[i].session = "told"
    /\ Step(i, [runs[i] EXCEPT !.session = "none"])
    /\ UNCHANGED status /\ runnerUnchanged

-----------------------------------------------------------------------------
(***************************************************************************)
(* The outside: requests to the IPC server, and edits of the project file. *)
(***************************************************************************)
Request(c) ==
    /\ daemon = "running" /\ requests < MaxRequests
    /\ requests' = requests + 1 /\ queue' = Append(queue, c)
    /\ UNCHANGED <<file, cache, handle, status, runs, todo, daemon>>

EditFile ==
    /\ requests < MaxRequests
    /\ requests' = requests + 1
    /\ \E t \in Tunnel, e \in Entry : file' = [file EXCEPT ![t] = e]
    /\ UNCHANGED <<cache, handle, status, runs, queue, todo, daemon>>

-----------------------------------------------------------------------------
Loop == StartTunnel \/ StopTunnel \/ ReloadTunnel \/ Reload \/ ReloadFails \/ Shutdown \/ Exit

Runner(i) ==
    ConnectSucceeds(i) \/ ConnectFails(i) \/ ConnectRefused(i) \/ Wait(i) \/ WaitOver(i)

DaemonNext ==
    \/ Loop \/ CtrlC \/ \E t \in Tunnel : StartNext(t)
    \/ \E i \in DOMAIN runs : Runner(i) \/ SessionLost(i) \/ SessionCloses(i)
    \/ \E c \in Command : Request(c)
    \/ EditFile

DaemonSpec == DaemonInit /\ [][DaemonNext]_daemonVars
-----------------------------------------------------------------------------
\* No runner outlives its handle, so that a tunnel has at most one, whatever
\* sequence of commands starts, stops and reloads it (stop_tunnel aborts the
\* task it removes).
OneRunner == \A i \in DOMAIN runs : Live(runs[i]) => handle[runs[i].tunnel] = i

\* What `localup daemon status' shows is what the tunnel's runner does (update_status), with
\* one exception: while it connects, the runner shows what it did before.  So Connected is
\* shown of a tunnel that is up or has just been lost, and of no other.
StatusFollows ==
    \A t \in Tunnel : handle[t] # 0 =>
        LET r == runs[handle[t]]
        IN  /\ r.phase = "serving" => status[t] = "Connected"
            /\ r.phase = "waiting" => status[t] = "Reconnecting"
            /\ r.phase \in {"failed", "refused"} => status[t] = "Failed"
            /\ r.phase = "connecting" /\ r.attempt = 0 => status[t] \in {"Starting", "Connected"}
            /\ r.phase = "connecting" /\ r.attempt > 0 => status[t] \in {"Reconnecting", "Failed"}

\* Whatever sequence of commands starts, stops and reloads tunnels, each has one runner at
\* most, the one its handle names, and the status shown is what that runner does, or did
\* before it began to connect.
RunnersKept == OneRunner /\ StatusFollows

\* A Shutdown request is obeyed, whatever is queued before it.
ShutdownObeyed == (\E j \in DOMAIN queue : queue[j].op = "Shutdown") ~> (daemon = "exited")

\* The daemon exits once its tunnels have been disconnected ("Stop all running
\* tunnels gracefully", docs/daemon.md).
ExitsGracefully == [][ Exit => \A i \in DOMAIN runs : runs[i].session = "none" ]_daemonVars
=============================================================================
