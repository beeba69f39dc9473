------------------------------ MODULE Desktop ------------------------------
(***************************************************************************)
(* A tunnel of the desktop application: commands of the window and of the  *)
(* tray (commands/tunnels.rs, tray.rs), the task that runs the tunnel in   *)
(* the application (state/app_state.rs), and the application's own daemon  *)
(* with the same commands and a task of its own (daemon/service.rs).       *)
(*                                                                         *)
(* Commands run concurrently; each takes its locks one after the other.    *)
(* A task is stopped by a one-shot channel and by aborting it.  A sender   *)
(* that is dropped wakes the task too, unless the task has already asked   *)
(* the channel without waiting: then waiting for it panics.                *)
(***************************************************************************)
EXTENDS Integers

CONSTANTS
    MaxCommands,  \* bound: commands given
    MaxRunners    \* bound: tasks started

ASSUME DesktopAssumption == MaxCommands \in Nat /\ MaxRunners \in Nat

DeskCommand == 1..MaxCommands     \* numbered in the order they are given
DeskTask == 1..MaxRunners

VARIABLES
    host,         \* the tunnel runs in the "app" or in the "daemon"
    valid,        \* its protocol is one the client knows
    shown,        \* its status; "none" without an entry
    store,        \* the task whose session the metrics are of, 0 for none
    keptHandle,   \* the task whose handle and sender are kept, 0 for none
    lock,         \* the command that holds the handles' lock, 0 for none
    runner,       \* the tasks
    command,      \* the commands in progress
    odd           \* history: which of the races below have happened

deskVars == <<host, valid, shown, store, keptHandle, lock, runner, command, odd>>

NoCommand == 0
Alive(r) == runner[r].at \notin {"none", "end"}

DesktopInit ==
    /\ host \in {"app", "daemon"} /\ valid \in BOOLEAN
    /\ shown = "none" /\ store = 0 /\ keptHandle = 0 /\ lock = NoCommand
    /\ runner = [r \in DeskTask |-> [at |-> "none", signal |-> "open", cut |-> FALSE]]
    /\ command = [c \in DeskCommand |-> [op |-> "none", at |-> "idle", run |-> 0]]
    /\ odd = {}

-----------------------------------------------------------------------------
(***************************************************************************)
(* Commands.                                                               *)
(***************************************************************************)
Proceed(c, l) == command' = [command EXCEPT ![c].at = l]

Give(c, op, l) ==
    /\ command[c].at = "idle" /\ \A d \in 1..(c - 1) : command[d].at # "idle"
    /\ command' = [command EXCEPT ![c] = [op |-> op, at |-> l, run |-> 0]]
    /\ UNCHANGED <<host, valid, shown, store, keptHandle, lock, runner, odd>>

Running == shown \in {"connected", "connecting"}

\* The tunnel's entry of the tray's menu offers what the menu showed last.
FromTray(c) ==
    host = "app" /\ (Give(c, "tray", IF valid THEN "mark" ELSE "done") \/ Give(c, "traystop", "stop"))

\* "Start all" asks for the status first.
StartAll(c) ==
    host = "app" /\ Give(c, "tray", IF ~Running /\ valid THEN "mark" ELSE "done")

FromWindow(c) ==
    host = "app" /\ (Give(c, "start", "check") \/ Give(c, "stop", "stop"))

\* With the application; the window's commands are taken meanwhile.
AutoStart(c) ==
    host = "app" /\ c = 1 /\ Give(c, "tray", IF valid THEN "mark" ELSE "done")

DaemonRequest(c) ==
    /\ host = "daemon"
    /\ Give(c, "start", "check") \/ Give(c, "stop", "stop") \/ Give(c, "shutdown", "stop")

CheckInApp(c) ==
    /\ command[c].at = "check" /\ host = "app"
    /\ Proceed(c, IF Running THEN "done" ELSE "mark")
    /\ UNCHANGED <<host, valid, shown, store, keptHandle, lock, runner, odd>>

CheckInDaemon(c) ==
    /\ command[c].at = "check" /\ host = "daemon"
    /\ Proceed(c, IF Running \/ ~valid THEN "done" ELSE "spawn")
    /\ UNCHANGED <<host, valid, shown, store, keptHandle, lock, runner, odd>>

\* History: the command meets another in the middle of starting or stopping the tunnel.
Crowding(c) ==
    IF \E d \in DeskCommand \ {c} : command[d].at \in {"mark", "spawn", "keep", "abort", "status", "metrics"}
    THEN odd \cup {"crowd"} ELSE odd

\* It starts the tunnel although it has a task.
Doubling(c) == Crowding(c) \cup (IF \E r \in DeskTask : Alive(r) THEN {"crowd"} ELSE {})

\* The status first; then a protocol that is not known ends the window's command.
Mark(c) ==
    /\ command[c].at = "mark"
    /\ shown' = "connecting"
    /\ Proceed(c, IF valid THEN "spawn" ELSE "done")
    /\ odd' = Doubling(c)
    /\ UNCHANGED <<host, valid, store, keptHandle, lock, runner>>

Spawn(c) ==
    /\ command[c].at = "spawn"
    /\ \E r \in DeskTask :
         /\ runner[r].at = "none" /\ \A q \in 1..(r - 1) : runner[q].at # "none"
         /\ runner' = [runner EXCEPT ![r].at = "wake"]
         /\ command' = [command EXCEPT ![c].at = "keep", ![c].run = r]
    /\ odd' = Doubling(c)
    /\ UNCHANGED <<host, valid, shown, store, keptHandle, lock>>

Dropped(r) == IF runner[r].signal = "open" THEN "closed" ELSE runner[r].signal

\* The handle takes the place of an older one, whose sender is dropped.
Keep(c) ==
    /\ command[c].at = "keep" /\ lock = NoCommand
    /\ runner' = IF keptHandle = 0 THEN runner ELSE [runner EXCEPT ![keptHandle].signal = Dropped(keptHandle)]
    /\ keptHandle' = command[c].run
    /\ Proceed(c, "done")
    /\ UNCHANGED <<host, valid, lock, odd>>

KeepInApp(c) == host = "app" /\ Keep(c) /\ UNCHANGED <<shown, store>>

\* The daemon keeps status and metrics with the handle.
KeepInDaemon(c) == host = "daemon" /\ Keep(c) /\ shown' = "connecting" /\ store' = 0

\* Abort: the task ends where it waits, or after the step it is in.
AbortOf(r) ==
    {[runner EXCEPT ![r].at = "end", ![r].signal = "sent"],
     [runner EXCEPT ![r].cut = TRUE, ![r].signal = "sent"]}

\* stop_tunnel_internal: the signal, 100 ms with the lock held, the abort, the status,
\* and, from the window only, the metrics.
TakeHandle(c) ==
    /\ command[c].at = "stop" /\ host = "app" /\ lock = NoCommand
    /\ IF keptHandle = 0
       THEN Proceed(c, "status") /\ UNCHANGED <<keptHandle, lock, runner>>
       ELSE /\ runner' = [runner EXCEPT ![keptHandle].signal = "sent"]
            /\ lock' = c /\ keptHandle' = 0
            /\ command' = [command EXCEPT ![c].at = "abort", ![c].run = keptHandle]
    /\ odd' = Crowding(c)
    /\ UNCHANGED <<host, valid, shown, store>>

Abort(c) ==
    /\ command[c].at = "abort"
    /\ runner' \in IF Alive(command[c].run) THEN AbortOf(command[c].run) ELSE {runner}
    /\ lock' = NoCommand
    /\ Proceed(c, "status")
    /\ UNCHANGED <<host, valid, shown, store, keptHandle, odd>>

ShowStopped(c) ==
    /\ command[c].at = "status"
    /\ shown' = "disconnected"
    /\ Proceed(c, IF command[c].op = "stop" THEN "metrics" ELSE "done")
    /\ UNCHANGED <<host, valid, store, keptHandle, lock, runner, odd>>

DropMetrics(c) ==
    /\ command[c].at = "metrics"
    /\ store' = 0
    /\ Proceed(c, "done")
    /\ UNCHANGED <<host, valid, shown, keptHandle, lock, runner, odd>>

\* The daemon's StopTunnel and DeleteTunnel, and Shutdown, under one lock: entry,
\* signal and abort.
StopInDaemon(c) ==
    /\ command[c].at = "stop" /\ host = "daemon"
    /\ runner' \in IF keptHandle # 0 /\ Alive(keptHandle) THEN AbortOf(keptHandle) ELSE {runner}
    /\ keptHandle' = 0 /\ shown' = "none" /\ store' = 0
    /\ Proceed(c, IF command[c].op = "shutdown" THEN "exit" ELSE "done")
    /\ odd' = Crowding(c)
    /\ UNCHANGED <<host, valid, lock>>

\* 100 ms after Shutdown the process exits, whatever was started meanwhile.
ProcessExits(c) ==
    /\ command[c].at = "exit"
    /\ runner' = [r \in DeskTask |-> [runner[r] EXCEPT !.at = "end"]]
    /\ command' = [d \in DeskCommand |-> [op |-> "none", at |-> "done", run |-> 0]]
    /\ keptHandle' = 0 /\ shown' = "none" /\ store' = 0
    /\ UNCHANGED <<host, valid, lock, odd>>

CommandGiven(c) ==
    FromTray(c) \/ StartAll(c) \/ FromWindow(c) \/ AutoStart(c) \/ DaemonRequest(c)

CommandStep(c) ==
    \/ CheckInApp(c) \/ CheckInDaemon(c) \/ Mark(c) \/ Spawn(c) \/ KeepInApp(c) \/ KeepInDaemon(c)
    \/ TakeHandle(c) \/ Abort(c) \/ ShowStopped(c) \/ DropMetrics(c) \/ StopInDaemon(c) \/ ProcessExits(c)

-----------------------------------------------------------------------------
(***************************************************************************)
(* The task of a tunnel: run_tunnel in the application, run_tunnel_task in *)
(* the daemon.                                                             *)
(***************************************************************************)
\* What races a step takes part in: it comes after the abort, or, in the daemon, finds
\* no entry of its own yet.
Oddities(r) ==
    odd \cup (IF runner[r].cut THEN {"late"} ELSE {})
        \cup (IF host = "daemon" /\ keptHandle # r /\ ~runner[r].cut THEN {"early"} ELSE {})

Go(r, l, signal) ==
    /\ runner' = [runner EXCEPT ![r].at = IF runner[r].cut THEN "end" ELSE l, ![r].signal = signal]
    /\ odd' = Oddities(r)
    /\ UNCHANGED <<host, valid, keptHandle, lock, command>>

\* update_tunnel_status and set_tunnel_metrics of the daemon: only of an entry that exists.
Show(s) == shown' = IF host = "daemon" /\ shown = "none" THEN shown ELSE s
KeepMetrics(r) == store' = IF host = "daemon" /\ shown = "none" THEN store ELSE r

\* The end on request; the daemon leaves the metrics to the entry.
Finish(r, signal) ==
    /\ Show("disconnected")
    /\ store' = IF host = "app" THEN 0 ELSE store
    /\ Go(r, "end", signal)

\* try_recv: an empty channel stays, a closed one is used up.
Asked(r) == IF runner[r].signal = "closed" THEN "spent" ELSE runner[r].signal

\* After the backoff: asked to stop, or the next attempt, which only the application shows.
Wake(r) ==
    /\ runner[r].at = "wake"
    /\ IF runner[r].signal = "sent" THEN Finish(r, "sent")
       ELSE UNCHANGED store /\ Go(r, "connecting", Asked(r))

WakeInApp(r) == host = "app" /\ Wake(r) /\ (runner[r].signal # "sent" => Show("connecting"))
WakeInDaemon(r) == host = "daemon" /\ Wake(r) /\ (runner[r].signal # "sent" => UNCHANGED shown)

Connected(r) ==
    /\ runner[r].at = "connecting"
    /\ KeepMetrics(r) /\ Show("connected")
    /\ Go(r, "serving", runner[r].signal)

ConnectedInApp(r) == host = "app" /\ Connected(r)
ConnectedInDaemon(r) == host = "daemon" /\ Connected(r)

\* An error that cannot be recovered from ends the task, else it asks the channel again.
AttemptFails(r) ==
    /\ runner[r].at = "connecting"
    /\ \/ /\ Show("error")
          /\ store' = IF host = "app" THEN 0 ELSE store
          /\ Go(r, "end", runner[r].signal)
       \/ runner[r].signal = "sent" /\ Finish(r, "sent")
       \/ /\ runner[r].signal # "sent"
          /\ Show("error") /\ UNCHANGED store
          /\ Go(r, "wake", Asked(r))

FailsInApp(r) == host = "app" /\ AttemptFails(r)
FailsInDaemon(r) == host = "daemon" /\ AttemptFails(r)

\* The session ends by itself.
Lost(r) ==
    /\ runner[r].at = "serving" /\ runner[r].signal # "spent"
    /\ UNCHANGED store
    /\ Go(r, "wake", runner[r].signal)

\* Fault: a lost session goes on being shown as connected.
LostInApp_StillShown(r) == host = "app" /\ Lost(r) /\ UNCHANGED shown

LostInApp(r) == host = "app" /\ Lost(r) /\ Show("disconnected")

\* The daemon goes on showing it as connected.
LostInDaemon(r) == host = "daemon" /\ Lost(r) /\ UNCHANGED shown

\* Fault: only a message ends the session, not a dropped sender.
Told_BySendOnly(r) ==
    /\ runner[r].at = "serving" /\ runner[r].signal = "sent"
    /\ Finish(r, "sent")

Told(r) ==
    /\ runner[r].at = "serving" /\ runner[r].signal \in {"sent", "closed"}
    /\ Finish(r, "sent")

\* "called after complete": the task ends, and with it its session.
Panics(r) ==
    /\ runner[r].at = "serving" /\ runner[r].signal = "spent"
    /\ Go(r, "end", "spent")
    /\ UNCHANGED <<shown, store>>

Dies(r) ==
    /\ Alive(r) /\ runner[r].cut
    /\ runner' = [runner EXCEPT ![r].at = "end"]
    /\ UNCHANGED <<host, valid, shown, store, keptHandle, lock, command, odd>>

RunnerStep(r) ==
    \/ WakeInApp(r) \/ WakeInDaemon(r) \/ ConnectedInApp(r) \/ ConnectedInDaemon(r)
    \/ FailsInApp(r) \/ FailsInDaemon(r) \/ LostInApp(r) \/ LostInDaemon(r)
    \/ Told(r) \/ Panics(r) \/ Dies(r)

DesktopNext ==
    \/ \E c \in DeskCommand : CommandGiven(c) \/ CommandStep(c)
    \/ \E r \in DeskTask : RunnerStep(r)

DesktopSpec == DesktopInit /\ [][DesktopNext]_deskVars
-----------------------------------------------------------------------------
Serving(r) == runner[r].at = "serving"

\* The status and the metrics that are shown are those of the tunnel's one task: it is
\* shown as connected exactly when that task has a session, whose metrics are kept.
\* The exceptions are the races of `odd': a tunnel started again while an old task is
\* waiting to retry (tunnels.rs:541), a step that overtakes the abort (tunnels.rs:632),
\* a session before the daemon has stored its entry (service.rs:518); and the daemon
\* shows a session that it is trying to replace as connected (service.rs:795).
ShownTrue ==
    odd = {} =>
      /\ shown = "connected" => \E r \in DeskTask : \/ Serving(r) /\ store = r
                                                    \/ host = "daemon" /\ Alive(r) /\ keptHandle = r
                                                    \/ \E c \in DeskCommand : command[c].at = "status"
      /\ \A r \in DeskTask : Serving(r) => \/ shown = "connected" /\ store = r
                                           \/ runner[r].signal = "sent"

\* A session that nobody has the handle of any more ends, so that a tunnel that was
\* stopped or started again does not go on in the background.
Stray(r) == Serving(r) /\ keptHandle # r /\ \A c \in DeskCommand : command[c].run # r \/ command[c].at = "done"
StrayEnds == \A r \in DeskTask : Stray(r) ~> ~Serving(r)
=============================================================================
