-------------------------------- MODULE Ipc --------------------------------
(***************************************************************************)
(* How commands reach the daemon of the command line (localup-cli ipc.rs): *)
(* a socket file on Unix, a fixed local port on Windows.  A daemon that    *)
(* starts looks whether another one answers before it takes the address;   *)
(* one that cannot have it runs without ("Status queries will not work").  *)
(* A daemon serves one connection after the other.                         *)
(***************************************************************************)
EXTENDS Naturals, Sequences

CONSTANTS
    MaxDaemons,    \* bound: daemons started, one after the other or at once
    MaxCallers    \* bound: commands that connect

ASSUME IpcAssumption == MaxDaemons \in Nat /\ MaxCallers \in Nat

Process == 1..MaxDaemons
Caller == 1..MaxCallers

VARIABLES
    os,          \* "unix" or "windows"
    socketFile,    \* the daemon that made the file at the socket's path, 0 without a file
    proc,        \* the daemons: [at, conn: the command being served, backlog]
    caller,         \* the commands: [at, to: the daemon it is connected to]
    mixed        \* history: two daemons were taking the address at once

ipcVars == <<os, socketFile, proc, caller, mixed>>

Listening(p) == proc[p].at = "serving"

IpcInit ==
    /\ os \in {"unix", "windows"} /\ socketFile = 0 /\ mixed = FALSE
    /\ proc = [p \in Process |-> [at |-> "off", conn |-> 0, backlog |-> <<>>]]
    /\ caller = [c \in Caller |-> [at |-> "idle", to |-> 0]]

-----------------------------------------------------------------------------
(***************************************************************************)
(* The daemons.                                                            *)
(***************************************************************************)
Proceeds(p, l) == proc' = [proc EXCEPT ![p].at = l]

\* The two races of bind_to: between the look and the removal, and between the look and
\* the binding.
Mixing(p) == mixed \/ \E q \in Process \ {p} : proc[q].at \in {"remove", "bind"}

\* Fault: a socket file is taken for stale without asking.
Look_NoConnect(p) ==
    /\ proc[p].at = "off" /\ os = "unix"
    /\ Proceeds(p, IF socketFile = 0 THEN "bind" ELSE "remove")
    /\ mixed' = Mixing(p)
    /\ UNCHANGED <<os, socketFile, caller>>

Look(p) ==
    /\ proc[p].at = "off" /\ os = "unix"
    /\ Proceeds(p, IF socketFile = 0 THEN "bind" ELSE IF Listening(socketFile) THEN "deaf" ELSE "remove")
    /\ mixed' = Mixing(p)
    /\ UNCHANGED <<os, socketFile, caller>>

\* remove_file fails when another daemon was faster.
RemoveStale(p) ==
    /\ proc[p].at = "remove"
    /\ Proceeds(p, IF socketFile = 0 THEN "deaf" ELSE "bind")
    /\ socketFile' = 0
    /\ UNCHANGED <<os, caller, mixed>>

Bind(p) ==
    /\ proc[p].at = "bind" /\ os = "unix"
    /\ Proceeds(p, IF socketFile = 0 THEN "serving" ELSE "deaf")
    /\ socketFile' = IF socketFile = 0 THEN p ELSE socketFile
    /\ UNCHANGED <<os, caller, mixed>>

\* On Windows the system lets one process have the port; the file only names it.
BindPort(p) ==
    /\ proc[p].at = "off" /\ os = "windows"
    /\ IF \E q \in Process : Listening(q)
       THEN Proceeds(p, "deaf") /\ UNCHANGED socketFile
       ELSE Proceeds(p, "serving") /\ socketFile' = p
    /\ UNCHANGED <<os, caller, mixed>>

\* Drop removes the file at the path, whoever made it.
Quit(p) ==
    /\ proc[p].at \in {"serving", "deaf"}
    /\ socketFile' = IF Listening(p) THEN 0 ELSE socketFile
    /\ proc' = [proc EXCEPT ![p] = [at |-> "gone", conn |-> 0, backlog |-> <<>>]]
    /\ UNCHANGED <<os, caller, mixed>>

\* A daemon that is killed leaves its file.
Crash(p) ==
    /\ Listening(p)
    /\ proc' = [proc EXCEPT ![p] = [at |-> "gone", conn |-> 0, backlog |-> <<>>]]
    /\ UNCHANGED <<os, socketFile, caller, mixed>>

Accept(p) ==
    /\ Listening(p) /\ proc[p].conn = 0 /\ proc[p].backlog # <<>>
    /\ proc' = [proc EXCEPT ![p].conn = Head(proc[p].backlog), ![p].backlog = Tail(@)]
    /\ UNCHANGED <<os, socketFile, caller, mixed>>

\* Fault: a connection that closes without a request ends the server.
Serve_StopsOnError(p) ==
    /\ Listening(p) /\ proc[p].conn # 0
    /\ caller[proc[p].conn].at = "asked"
    /\ proc' = [proc EXCEPT ![p].conn = 0]
    /\ caller' = [caller EXCEPT ![proc[p].conn].at = "answered"]
    /\ UNCHANGED <<os, socketFile, mixed>>

\* The request is awaited, answered, and the next connection accepted.
Serve(p) ==
    /\ Listening(p) /\ proc[p].conn # 0
    /\ \/ /\ caller[proc[p].conn].at = "asked"
          /\ caller' = [caller EXCEPT ![proc[p].conn].at = "answered"]
       \/ caller[proc[p].conn].at = "left" /\ UNCHANGED caller
    /\ proc' = [proc EXCEPT ![p].conn = 0]
    /\ UNCHANGED <<os, socketFile, mixed>>

-----------------------------------------------------------------------------
(***************************************************************************)
(* The commands.                                                           *)
(***************************************************************************)
Reached == IF os = "unix" THEN {p \in Process : socketFile = p /\ Listening(p)}
           ELSE {p \in Process : Listening(p)}

Connect(c) ==
    /\ caller[c].at = "idle" /\ \A d \in 1..(c - 1) : caller[d].at # "idle"
    /\ \/ \E p \in Reached :
            /\ caller' = [caller EXCEPT ![c] = [at |-> "connected", to |-> p]]
            /\ proc' = [proc EXCEPT ![p].backlog = Append(@, c)]
       \/ Reached = {} /\ caller' = [caller EXCEPT ![c].at = "failed"] /\ UNCHANGED proc
    /\ UNCHANGED <<os, socketFile, mixed>>

\* The request follows the connection, unless the command is interrupted.
Ask(c) ==
    /\ caller[c].at = "connected"
    /\ \E l \in {"asked", "left"} : caller' = [caller EXCEPT ![c].at = l]
    /\ UNCHANGED <<os, socketFile, proc, mixed>>

HungUp(c) ==
    /\ caller[c].at = "asked" /\ ~Listening(caller[c].to)
    /\ caller' = [caller EXCEPT ![c].at = "failed"]
    /\ UNCHANGED <<os, socketFile, proc, mixed>>

IpcNext ==
    \/ \E p \in Process : \/ Look(p) \/ RemoveStale(p) \/ Bind(p) \/ BindPort(p) \/ Quit(p) \/ Crash(p)
                          \/ Accept(p) \/ Serve(p)
    \/ \E c \in Caller : Connect(c) \/ Ask(c) \/ HungUp(c)

IpcSpec == IpcInit /\ [][IpcNext]_ipcVars
-----------------------------------------------------------------------------
\* Daemons that do not start at the same moment never take the address from each other:
\* the one that listens is the one commands reach, stale files of killed daemons
\* notwithstanding (ipc.rs:261-277).
AddressKept == ~mixed => \A p \in Process : Listening(p) => Reached = {p}

\* A command that has connected ends: it is answered, or told that the daemon is gone,
\* although the daemon serves one connection at a time and others may be interrupted
\* before they ask (daemon.rs:462).
CallEnds == \A c \in Caller : caller[c].at \in {"connected", "asked"} ~> caller[c].at \notin {"connected", "asked"}
=============================================================================
