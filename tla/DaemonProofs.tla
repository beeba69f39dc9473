---------------------------- MODULE DaemonProofs ----------------------------
(***************************************************************************)
(* Proofs about the daemon, for every set of tunnels and configurations,   *)
(* every sequence of commands and every outcome of the connection          *)
(* attempts; about the address at which it is reached; about the relay and *)
(* the transport an attempt to connect chooses; and about what the desktop *)
(* application, with a daemon of its own, shows of a tunnel.               *)
(***************************************************************************)
EXTENDS Daemon, Ipc, Connecting, Desktop, SequenceTheorems, WellFoundedInduction, TLAPS

USE DaemonAssumption

Phase == {"connecting", "serving", "failed", "waiting", "refused", "aborted"}

\* What the status in a handle may say.
Shown == {"none", "Starting", "Connected", "Reconnecting", "Failed"}

\* A run that serves has failed no more since, one that waits has failed.
Run == {r \in [tunnel : Tunnel, config : Config, phase : Phase, attempt : Nat, session : {"none", "up", "told"}] :
           /\ r.phase = "serving" => r.attempt = 0
           /\ r.phase \in {"failed", "waiting"} => r.attempt > 0}

\* What the daemon reads: the file, its cache, the commands and what is to be started.
InputsOK ==
    /\ file \in [Tunnel -> Entry] /\ cache \in [Tunnel -> Config \cup {Off}]
    /\ todo \in [Tunnel -> Config \cup {Off}] /\ queue \in Seq(Command)

\* A handle names a run of its tunnel.
HandlesOK ==
    /\ runs \in Seq(Run)
    /\ handle \in [Tunnel -> Nat] /\ status \in [Tunnel -> Shown]
    /\ \A t \in Tunnel : handle[t] # 0 => handle[t] \in DOMAIN runs /\ runs[handle[t]].tunnel = t

\* What the status must say of a run.
Follows(r, s) ==
    /\ r.phase = "serving" => s = "Connected"
    /\ r.phase = "waiting" => s = "Reconnecting"
    /\ r.phase \in {"failed", "refused"} => s = "Failed"
    /\ r.phase = "connecting" /\ r.attempt = 0 => s \in {"Starting", "Connected"}
    /\ r.phase = "connecting" /\ r.attempt > 0 => s \in {"Reconnecting", "Failed"}

Kept == HandlesOK /\ RunnersKept

\* A function on the indices of a sequence, with values of its kind, is one too.
LEMMA SameLength ==
    ASSUME NEW S, NEW s \in Seq(S), NEW g, g = [i \in DOMAIN s |-> g[i]],
           \A i \in DOMAIN s : g[i] \in S
    PROVE  g \in Seq(S) /\ DOMAIN g = DOMAIN s
<1>1. DOMAIN s = 1 .. Len(s) /\ Len(s) \in Nat
  OBVIOUS
<1>2. g \in [1 .. Len(s) -> S]
  BY <1>1
<1> QED
  BY <1>1, <1>2, SeqDef

\* Starting a tunnel.
LEMMA StartKeeps ==
    ASSUME Kept, NEW t \in Tunnel, NEW c \in Config, start_tunnel(t, c)
    PROVE  Kept'
<1>0. HandlesOK /\ OneRunner /\ StatusFollows
  BY DEF Kept, RunnersKept
<1>1. CASE handle[t] # 0
  BY <1>0, <1>1 DEF start_tunnel, Kept, RunnersKept, HandlesOK, OneRunner, StatusFollows
<1>2. CASE handle[t] = 0
  <2>1. /\ runs' = Append(runs, NewRun(t, c))
        /\ handle' = [handle EXCEPT ![t] = Len(runs) + 1]
        /\ status' = [status EXCEPT ![t] = "Starting"]
    BY <1>2 DEF start_tunnel
  <2>2. NewRun(t, c) \in Run
    BY DEF NewRun, Run, Phase
  <2>3. /\ runs \in Seq(Run) /\ Len(runs) \in Nat /\ DOMAIN runs = 1 .. Len(runs)
        /\ runs' \in Seq(Run) /\ DOMAIN runs' = 1 .. Len(runs) + 1
        /\ runs'[Len(runs) + 1] = NewRun(t, c)
        /\ \A i \in DOMAIN runs : runs'[i] = runs[i]
    BY <1>0, <2>1, <2>2 DEF HandlesOK
  <2>4. HandlesOK'
    BY <1>0, <2>1, <2>3 DEF HandlesOK, NewRun, Shown
  <2>5. OneRunner'
    <3> SUFFICES ASSUME NEW i \in DOMAIN runs', Live(runs'[i])
                 PROVE  handle'[runs'[i].tunnel] = i
      BY DEF OneRunner, Live
    <3>1. CASE i = Len(runs) + 1
      BY <1>0, <2>1, <2>3, <3>1 DEF NewRun, HandlesOK
    <3>2. CASE i \in DOMAIN runs
      <4>1. runs'[i] = runs[i] /\ handle[runs[i].tunnel] = i /\ i # 0 /\ runs[i].tunnel \in Tunnel
        <5>1. runs'[i] = runs[i] /\ runs[i] \in Run /\ i # 0
          BY <2>3, <3>2
        <5> QED
          BY <1>0, <3>2, <5>1 DEF OneRunner, Run
      <4> QED
        BY <1>0, <1>2, <2>1, <4>1 DEF HandlesOK
    <3> QED
      BY <2>3, <3>1, <3>2
  <2>6. StatusFollows'
    <3> SUFFICES ASSUME NEW u \in Tunnel, handle'[u] # 0
                 PROVE  Follows(runs'[handle'[u]], status'[u])
      BY DEF StatusFollows, Follows
    <3>1. CASE u = t
      BY <1>0, <2>1, <2>3, <3>1 DEF NewRun, HandlesOK, Follows
    <3>2. CASE u # t
      BY <1>0, <2>1, <2>3, <3>2 DEF HandlesOK, StatusFollows, Follows
    <3> QED
      BY <3>1, <3>2
  <2> QED
    BY <2>4, <2>5, <2>6 DEF Kept, RunnersKept
<1> QED
  BY <1>1, <1>2

\* Stopping tunnels.
LEMMA StopKeeps ==
    ASSUME Kept, NEW S \in SUBSET Tunnel, stop_tunnels(S)
    PROVE  Kept'
<1>0. HandlesOK /\ OneRunner /\ StatusFollows
  BY DEF Kept, RunnersKept
<1>1. PICK told \in SUBSET {t \in S : handle[t] # 0} :
         runs' = [i \in DOMAIN runs |-> IF runs[i].tunnel \in S /\ handle[runs[i].tunnel] = i
                                        THEN Halted(runs[i], runs[i].tunnel \in told) ELSE runs[i]]
  BY DEF stop_tunnels
<1>2. /\ handle' = [t \in Tunnel |-> IF t \in S THEN 0 ELSE handle[t]]
      /\ status' = [t \in Tunnel |-> IF t \in S THEN "none" ELSE status[t]]
  BY DEF stop_tunnels
<1>3. ASSUME NEW r \in Run, NEW b \in BOOLEAN
      PROVE  Halted(r, b) \in Run /\ Halted(r, b).tunnel = r.tunnel /\ ~Live(Halted(r, b))
  BY DEF Halted, Live, Run, Phase
<1>4. ASSUME NEW i \in DOMAIN runs
      PROVE  /\ runs[i] \in Run /\ runs'[i] \in Run /\ runs'[i].tunnel = runs[i].tunnel
             /\ runs[i].tunnel \in S /\ handle[runs[i].tunnel] = i => ~Live(runs'[i])
             /\ ~(runs[i].tunnel \in S /\ handle[runs[i].tunnel] = i) => runs'[i] = runs[i]
  <2>1. runs[i] \in Run
    BY <1>0 DEF HandlesOK
  <2>2. CASE runs[i].tunnel \in S /\ handle[runs[i].tunnel] = i
    <3>1. runs'[i] = Halted(runs[i], runs[i].tunnel \in told)
      BY <1>1, <2>2
    <3>2. (runs[i].tunnel \in told) \in BOOLEAN
      OBVIOUS
    <3> QED
      BY <1>3, <2>1, <2>2, <3>1, <3>2, ZenonT(60)
  <2>3. CASE ~(runs[i].tunnel \in S /\ handle[runs[i].tunnel] = i)
    BY <1>1, <2>1, <2>3
  <2> QED
    BY <2>2, <2>3
<1>5. runs' \in Seq(Run) /\ DOMAIN runs' = DOMAIN runs
  <2>1. runs' = [i \in DOMAIN runs |-> runs'[i]]
    BY <1>1
  <2> QED
    BY <1>0, <1>4, <2>1, SameLength DEF HandlesOK
<1>6. HandlesOK'
  BY <1>0, <1>2, <1>4, <1>5 DEF HandlesOK, Shown
<1>7. OneRunner'
  <2> SUFFICES ASSUME NEW i \in DOMAIN runs, Live(runs'[i])
               PROVE  handle'[runs'[i].tunnel] = i
    BY <1>5 DEF OneRunner, Live
  <2>1. runs'[i] = runs[i] /\ handle[runs[i].tunnel] = i /\ runs[i].tunnel \notin S
    BY <1>0, <1>4 DEF OneRunner
  <2> QED
    BY <1>2, <1>4, <2>1 DEF Run
<1>8. StatusFollows'
  <2> SUFFICES ASSUME NEW u \in Tunnel, handle'[u] # 0
               PROVE  Follows(runs'[handle'[u]], status'[u])
    BY DEF StatusFollows, Follows
  <2>1. u \notin S /\ handle'[u] = handle[u] /\ status'[u] = status[u] /\ handle[u] # 0
    BY <1>2
  <2>2. handle[u] \in DOMAIN runs /\ runs[handle[u]].tunnel = u
    BY <1>0, <2>1 DEF HandlesOK
  <2>3. runs'[handle[u]] = runs[handle[u]]
    BY <1>4, <2>1, <2>2
  <2> QED
    BY <1>0, <2>1, <2>3 DEF StatusFollows, Follows
<1> QED
  BY <1>6, <1>7, <1>8 DEF Kept, RunnersKept

\* A step of one run, or of its session.
LEMMA RunKeeps ==
    ASSUME Kept, NEW i \in DOMAIN runs, NEW r \in Run, Step(i, r), r.tunnel = runs[i].tunnel,
           UNCHANGED handle, status' \in [Tunnel -> Shown],
           \A t \in Tunnel : t # r.tunnel => status'[t] = status[t],
           Live(r) => Live(runs[i]),
           Live(runs[i]) \/ UNCHANGED status,
           handle[r.tunnel] = i => Follows(r, status'[r.tunnel])
    PROVE  Kept'
<1>0. HandlesOK /\ OneRunner /\ StatusFollows
  BY DEF Kept, RunnersKept
<1>1. /\ runs \in Seq(Run) /\ DOMAIN runs = 1 .. Len(runs) /\ runs' = [runs EXCEPT ![i] = r]
  BY <1>0 DEF HandlesOK, Step
<1>2. /\ runs' \in Seq(Run) /\ DOMAIN runs' = DOMAIN runs
      /\ runs'[i] = r /\ \A j \in DOMAIN runs : j # i => runs'[j] = runs[j]
  BY <1>1, ExceptSeq
<1>3. HandlesOK'
  BY <1>0, <1>2 DEF HandlesOK
<1>4. OneRunner'
  BY <1>0, <1>2 DEF OneRunner, Live
<1>5. StatusFollows'
  <2> SUFFICES ASSUME NEW u \in Tunnel, handle[u] # 0
               PROVE  Follows(runs'[handle[u]], status'[u])
    BY DEF StatusFollows, Follows
  <2>1. handle[u] \in DOMAIN runs /\ runs[handle[u]].tunnel = u
    BY <1>0 DEF HandlesOK
  <2>2. CASE handle[u] = i
    BY <1>2, <2>1, <2>2
  <2>3. CASE handle[u] # i
    <3>1. runs'[handle[u]] = runs[handle[u]] /\ status'[u] = status[u]
      BY <1>0, <1>2, <2>1, <2>3 DEF OneRunner
    <3> QED
      BY <1>0, <3>1 DEF StatusFollows, Follows
  <2> QED
    BY <2>2, <2>3
<1> QED
  BY <1>3, <1>4, <1>5 DEF Kept, RunnersKept

\* What a run that has a handle shows when it changes its status.
LEMMA StatusKeeps ==
    ASSUME Kept, NEW i \in DOMAIN runs, NEW r \in Run, Step(i, r), r.tunnel = runs[i].tunnel,
           UNCHANGED handle, NEW s \in Shown, update_status(r.tunnel, s), Live(runs[i]), Follows(r, s)
    PROVE  Kept'
<1>0. HandlesOK /\ OneRunner
  BY DEF Kept, RunnersKept
<1>1. i # 0 /\ handle[r.tunnel] = i /\ r.tunnel \in Tunnel
  BY <1>0 DEF HandlesOK, OneRunner, Run
<1>2. status' = [status EXCEPT ![r.tunnel] = s]
  BY <1>1 DEF update_status
<1>3. status' \in [Tunnel -> Shown] /\ status'[r.tunnel] = s /\ \A t \in Tunnel : t # r.tunnel => status'[t] = status[t]
  BY <1>0, <1>1, <1>2 DEF HandlesOK
<1> QED
  BY <1>3, RunKeeps

\* The next command is one of the protocol.
LEMMA TakesCommand ==
    ASSUME InputsOK, NEW op, Takes(op)
    PROVE  /\ Head(queue) \in Command /\ Head(queue).op = op /\ queue' \in Seq(Command)
           /\ op \in {"StartTunnel", "StopTunnel", "ReloadTunnel"} => Head(queue).name \in Tunnel
<1>1. /\ Head(queue) \in Command /\ Head(queue).op = op /\ queue' \in Seq(Command)
  BY HeadTailProperties DEF InputsOK, Takes
<1> QED
  BY <1>1 DEF Command

\* Whatever sequence of commands starts, stops and reloads tunnels, each has one
\* runner at most, and the status shown is what that runner does, or did before it
\* began to connect.
THEOREM RunnersRight == DaemonSpec => []RunnersKept
<1> DEFINE Inv == InputsOK /\ Kept
<1>1. DaemonInit => Inv
  <2> SUFFICES ASSUME DaemonInit PROVE Inv
    OBVIOUS
  <2>1. InputsOK
    BY DEF DaemonInit, InputsOK, Entry, Valid, Nothing, Off, Bad
  <2>2. HandlesOK
    BY DEF DaemonInit, HandlesOK, Shown
  <2>3. RunnersKept
    BY DEF DaemonInit, RunnersKept, OneRunner, StatusFollows
  <2> QED
    BY <2>1, <2>2, <2>3 DEF Kept
<1>2. Inv /\ [DaemonNext]_daemonVars => Inv'
  <2>0. SUFFICES ASSUME InputsOK, Kept, [DaemonNext]_daemonVars PROVE Inv'
    OBVIOUS
  <2> DEFINE Good == Inv'
  <2>1. ASSUME UNCHANGED <<runs, handle, status>> PROVE Kept'
    BY <2>0, <2>1 DEF Kept, HandlesOK, RunnersKept, OneRunner, StatusFollows
  <2>2. ASSUME StartTunnel PROVE Good
    <3>1. Head(queue).name \in Tunnel /\ queue' \in Seq(Command)
      BY <2>0, <2>2, TakesCommand DEF StartTunnel
    <3>2. InputsOK'
      BY <2>0, <2>2, <3>1 DEF StartTunnel, InputsOK
    <3> DEFINE t == Head(queue).name
               c == IF cache[t] # Off THEN cache[t] ELSE Stored[t]
    <3>3. c \in Config \cup {Off}
      BY <2>0, <3>1 DEF InputsOK
    <3>4. IF c # Off THEN start_tunnel(t, c) ELSE UNCHANGED <<runs, handle, status>>
      BY <2>2 DEF StartTunnel
    <3> HIDE DEF t, c
    <3>5. t \in Tunnel
      BY <3>1 DEF t
    <3>6. Kept'
      BY <2>0, <2>1, <3>3, <3>4, <3>5, StartKeeps
    <3> QED
      BY <3>2, <3>6
  <2>3. ASSUME StopTunnel PROVE Good
    <3>1. Head(queue).name \in Tunnel /\ queue' \in Seq(Command)
      BY <2>0, <2>3, TakesCommand DEF StopTunnel
    <3>2. InputsOK'
      BY <2>0, <2>3, <3>1 DEF StopTunnel, InputsOK
    <3>3. Kept'
      BY <2>0, <2>3, <3>1, StopKeeps DEF StopTunnel
    <3> QED
      BY <3>2, <3>3
  <2>4. ASSUME ReloadTunnel PROVE Good
    <3>1. Head(queue).name \in Tunnel /\ queue' \in Seq(Command)
      BY <2>0, <2>4, TakesCommand DEF ReloadTunnel
    <3>2. InputsOK'
      BY <2>0, <2>4, <3>1 DEF ReloadTunnel, InputsOK, Nothing
    <3>3. CASE file[Head(queue).name] \in Config
      <4>1. stop_tunnels({Head(queue).name})
        BY <2>4, <3>3 DEF ReloadTunnel
      <4> QED
        BY <2>0, <3>1, <3>2, <4>1, StopKeeps
    <3>4. CASE file[Head(queue).name] \notin Config
      BY <2>1, <2>4, <3>2, <3>4 DEF ReloadTunnel
    <3> QED
      BY <3>3, <3>4
  <2>5. ASSUME Reload PROVE Good
    <3>1. queue' \in Seq(Command)
      BY <2>0, <2>5, TakesCommand DEF Reload
    <3>2. InputsOK'
      BY <2>0, <2>5, <3>1 DEF Reload, InputsOK, Valid, Entry
    <3>3. stop_tunnels({t \in Tunnel : file[t] = Off})
      BY <2>5 DEF Reload
    <3>4. Kept'
      BY <2>0, <3>3, StopKeeps
    <3> QED
      BY <3>2, <3>4
  <2>6. ASSUME ReloadFails PROVE Good
    <3>1. queue' \in Seq(Command)
      BY <2>0, <2>6, TakesCommand DEF ReloadFails
    <3> QED
      BY <2>0, <2>1, <2>6, <3>1 DEF ReloadFails, InputsOK
  <2>7. ASSUME Shutdown PROVE Good
    <3>1. queue' \in Seq(Command)
      BY <2>0, <2>7, TakesCommand DEF Shutdown
    <3>2. Kept'
      BY <2>0, <2>7, StopKeeps DEF Shutdown
    <3> QED
      BY <2>0, <2>7, <3>1, <3>2 DEF Shutdown, InputsOK
  <2>8. ASSUME CtrlC PROVE Good
    <3>1. Kept'
      BY <2>0, <2>8, StopKeeps DEF CtrlC
    <3> QED
      BY <2>0, <2>8, <3>1 DEF CtrlC, InputsOK
  <2>9. ASSUME NEW t \in Tunnel, StartNext(t) PROVE Good
    <3>1. todo[t] \in Config
      BY <2>0, <2>9 DEF StartNext, InputsOK
    <3>2. Kept'
      BY <2>0, <2>9, <3>1, StartKeeps DEF StartNext
    <3> QED
      BY <2>0, <2>9, <3>2 DEF StartNext, InputsOK
  <2>10. ASSUME Exit PROVE Good
    <3>1. /\ runs' = [i \in DOMAIN runs |-> [runs[i] EXCEPT !.session = "none"]]
          /\ UNCHANGED <<handle, status>> /\ HandlesOK /\ RunnersKept
      BY <2>0, <2>10 DEF Exit, Kept
    <3>2. ASSUME NEW i \in DOMAIN runs
          PROVE  /\ runs'[i] \in Run /\ runs'[i].tunnel = runs[i].tunnel
                 /\ runs'[i].phase = runs[i].phase /\ runs'[i].attempt = runs[i].attempt
      <4>1. runs[i] \in Run
        BY <3>1 DEF HandlesOK
      <4> QED
        BY <3>1, <4>1 DEF Run
    <3>3. runs' \in Seq(Run) /\ DOMAIN runs' = DOMAIN runs
      <4>1. runs' = [i \in DOMAIN runs |-> runs'[i]] /\ runs \in Seq(Run)
        BY <3>1 DEF HandlesOK
      <4> QED
        BY <3>2, <4>1, SameLength
    <3>4. HandlesOK'
      BY <3>1, <3>2, <3>3 DEF HandlesOK
    <3>5. RunnersKept'
      <4>1. OneRunner'
        BY <3>1, <3>2, <3>3 DEF RunnersKept, OneRunner, Live
      <4>2. ASSUME NEW t \in Tunnel, handle[t] # 0 
            PROVE  runs'[handle[t]].phase = runs[handle[t]].phase /\ runs'[handle[t]].attempt = runs[handle[t]].attempt
        BY <3>1, <3>2, <4>2 DEF HandlesOK
      <4>3. StatusFollows'
        BY <3>1, <4>2 DEF RunnersKept, StatusFollows
      <4> QED
        BY <4>1, <4>3 DEF RunnersKept
    <3> QED
      BY <2>0, <2>10, <3>4, <3>5 DEF Exit, InputsOK, Kept
  <2>11. ASSUME NEW i \in DOMAIN runs, Runner(i) \/ SessionLost(i) \/ SessionCloses(i) PROVE Good
    <3>1. InputsOK'
      BY <2>0, <2>11 DEF Runner, ConnectSucceeds, ConnectFails, ConnectRefused, Wait, WaitOver,
                         SessionLost, SessionCloses, runnerUnchanged, InputsOK
    <3>2. UNCHANGED handle
      BY <2>11 DEF Runner, ConnectSucceeds, ConnectFails, ConnectRefused, Wait, WaitOver,
                   SessionLost, SessionCloses, runnerUnchanged
    <3>3. runs[i] \in Run /\ status \in [Tunnel -> Shown] /\ StatusFollows /\ i # 0
      BY <2>0 DEF Kept, HandlesOK, RunnersKept
    <3>4. runs[i].tunnel \in Tunnel /\ (handle[runs[i].tunnel] = i => Follows(runs[i], status[runs[i].tunnel]))
      BY <3>3 DEF StatusFollows, Follows, Run
    <3>5. ASSUME NEW r \in Run, Step(i, r), UNCHANGED status, r.tunnel = runs[i].tunnel,
                 r.phase = runs[i].phase \/ (r.phase = "connecting" /\ Live(runs[i])),
                 r.attempt = runs[i].attempt
          PROVE  Kept'
      <4>1. Live(r) => Live(runs[i])
        BY <3>5 DEF Live
      <4>2. handle[r.tunnel] = i => Follows(r, status'[r.tunnel])
        BY <3>3, <3>4, <3>5 DEF Follows, Run, Live
      <4> QED
        BY <2>0, <3>2, <3>3, <3>5, <4>1, <4>2, RunKeeps
    <3>6. CASE ConnectSucceeds(i)
      <4> DEFINE r == [runs[i] EXCEPT !.phase = "serving", !.attempt = 0, !.session = "up"]
      <4>1. r \in Run /\ r.tunnel = runs[i].tunnel /\ Live(runs[i]) /\ Follows(r, "Connected")
        BY <3>3, <3>6 DEF ConnectSucceeds, Run, Phase, Live, Follows
      <4>2. Step(i, r) /\ update_status(r.tunnel, "Connected")
        BY <3>6, <4>1 DEF ConnectSucceeds
      <4> HIDE DEF r
      <4>3. Kept'
        BY <2>0, <3>2, <4>1, <4>2, StatusKeeps DEF Shown
      <4> QED
        BY <3>1, <4>3
    <3>7. CASE ConnectFails(i)
      <4> DEFINE r == [runs[i] EXCEPT !.phase = "failed", !.attempt = @ + 1]
      <4>1. r \in Run /\ r.tunnel = runs[i].tunnel /\ Live(runs[i]) /\ Follows(r, "Failed")
        <5>1. runs[i].attempt + 1 \in Nat /\ runs[i].phase = "connecting"
          BY <3>3, <3>7 DEF ConnectFails, Run
        <5>2. r = [runs[i] EXCEPT !.phase = "failed", !.attempt = runs[i].attempt + 1]
          OBVIOUS
        <5>3. /\ r.phase = "failed" /\ r.attempt = runs[i].attempt + 1 /\ r.attempt > 0
              /\ r.tunnel = runs[i].tunnel
          BY <3>3, <5>1, <5>2 DEF Run
        <5>4. r \in [tunnel : Tunnel, config : Config, phase : Phase, attempt : Nat, session : {"none", "up", "told"}]
          BY <3>3, <5>1, <5>2 DEF Run, Phase
        <5>5. r \in Run
          <6> HIDE DEF r
          <6> QED
            BY <5>3, <5>4 DEF Run
        <5> QED
          BY <5>1, <5>3, <5>5 DEF Live, Follows
      <4>2. Step(i, r) /\ update_status(r.tunnel, "Failed")
        BY <3>7, <4>1 DEF ConnectFails
      <4> HIDE DEF r
      <4>3. Kept'
        BY <2>0, <3>2, <4>1, <4>2, StatusKeeps DEF Shown
      <4> QED
        BY <3>1, <4>3
    <3>8. CASE ConnectRefused(i)
      <4> DEFINE r == [runs[i] EXCEPT !.phase = "refused", !.attempt = 0]
      <4>1. r \in Run /\ r.tunnel = runs[i].tunnel /\ Live(runs[i]) /\ Follows(r, "Failed")
        BY <3>3, <3>8 DEF ConnectRefused, Run, Phase, Live, Follows
      <4>2. Step(i, r) /\ update_status(r.tunnel, "Failed")
        BY <3>8, <4>1 DEF ConnectRefused
      <4> HIDE DEF r
      <4>3. Kept'
        BY <2>0, <3>2, <4>1, <4>2, StatusKeeps DEF Shown
      <4> QED
        BY <3>1, <4>3
    <3>9. CASE Wait(i)
      <4>1. CASE BackoffSeconds(runs[i].attempt) > 0
        <5> DEFINE r == [runs[i] EXCEPT !.phase = "waiting"]
        <5>1. r \in Run /\ r.tunnel = runs[i].tunnel /\ Live(runs[i]) /\ Follows(r, "Reconnecting")
          BY <3>3, <3>9 DEF Wait, Run, Phase, Live, Follows
        <5>2. Step(i, r) /\ update_status(r.tunnel, "Reconnecting")
          BY <3>9, <4>1, <5>1 DEF Wait
        <5> HIDE DEF r
        <5>3. Kept'
          BY <2>0, <3>2, <5>1, <5>2, StatusKeeps DEF Shown
        <5> QED
          BY <3>1, <5>3
      <4>2. CASE ~(BackoffSeconds(runs[i].attempt) > 0)
        <5> DEFINE r == [runs[i] EXCEPT !.phase = "connecting"]
        <5>1. /\ r \in Run /\ r.tunnel = runs[i].tunnel /\ r.phase = "connecting" /\ Live(runs[i])
              /\ r.attempt = runs[i].attempt
          BY <3>3, <3>9 DEF Wait, Run, Phase, Live
        <5>2. Step(i, r) /\ UNCHANGED status
          BY <3>9, <4>2 DEF Wait
        <5> HIDE DEF r
        <5> QED
          BY <3>1, <3>5, <5>1, <5>2
      <4> QED
        BY <4>1, <4>2
    <3>10. CASE WaitOver(i)
      <4> DEFINE r == [runs[i] EXCEPT !.phase = "connecting"]
      <4>1. /\ r \in Run /\ r.tunnel = runs[i].tunnel /\ r.phase = "connecting" /\ Live(runs[i])
            /\ r.attempt = runs[i].attempt
        BY <3>3, <3>10 DEF WaitOver, Run, Phase, Live
      <4>2. Step(i, r) /\ UNCHANGED status
        BY <3>10 DEF WaitOver
      <4> HIDE DEF r
      <4> QED
        BY <3>1, <3>5, <4>1, <4>2
    <3>11. CASE SessionLost(i)
      <4> DEFINE r == [runs[i] EXCEPT !.session = "none", !.phase = IF @ = "serving" THEN "connecting" ELSE @]
      <4>1. /\ r \in Run /\ r.tunnel = runs[i].tunnel /\ r.attempt = runs[i].attempt
            /\ r.phase = runs[i].phase \/ (r.phase = "connecting" /\ Live(runs[i]))
        BY <3>3 DEF Run, Phase, Live
      <4>2. Step(i, r) /\ UNCHANGED status
        BY <3>11 DEF SessionLost
      <4> HIDE DEF r
      <4> QED
        BY <3>1, <3>5, <4>1, <4>2
    <3>12. CASE SessionCloses(i)
      <4> DEFINE r == [runs[i] EXCEPT !.session = "none"]
      <4>1. /\ r \in Run /\ r.tunnel = runs[i].tunnel
            /\ r.phase = runs[i].phase /\ r.attempt = runs[i].attempt
        BY <3>3 DEF Run
      <4>2. Step(i, r) /\ UNCHANGED status
        BY <3>12 DEF SessionCloses
      <4> HIDE DEF r
      <4> QED
        BY <3>1, <3>5, <4>1, <4>2
    <3> QED
      BY <2>11, <3>6, <3>7, <3>8, <3>9, <3>10, <3>11, <3>12 DEF Runner
  <2>12. ASSUME NEW c \in Command, Request(c) PROVE Good
    <3>1. Kept' /\ UNCHANGED <<file, cache, todo>> /\ queue' = Append(queue, c)
      BY <2>1, <2>12 DEF Request
    <3> QED
      BY <2>0, <3>1 DEF InputsOK
  <2>13. ASSUME EditFile PROVE Good
    <3>1. Kept'
      BY <2>1, <2>13 DEF EditFile
    <3> QED
      BY <2>0, <2>13, <3>1 DEF EditFile, InputsOK
  <2>14. ASSUME UNCHANGED daemonVars PROVE Good
    BY <2>0, <2>1, <2>14 DEF daemonVars, InputsOK
  <2>15. Good
    <3> HIDE DEF Good
    <3> QED
      BY <2>0, <2>2, <2>3, <2>4, <2>5, <2>6, <2>7, <2>8, <2>9, <2>10, <2>11, <2>12, <2>13, <2>14
         DEF DaemonNext, Loop
  <2> QED
    BY <2>15
<1>3. Inv => RunnersKept
  BY DEF Kept
<1> HIDE DEF Inv
<1> QED
  BY <1>1, <1>2, <1>3, PTL DEF DaemonSpec

-----------------------------------------------------------------------------
(***************************************************************************)
(* The address at which commands reach the daemon.                         *)
(***************************************************************************)
USE IpcAssumption

Claiming(p) == proc[p].at \in {"remove", "bind"}

IpcTypes ==
    /\ os \in {"unix", "windows"} /\ socketFile \in {0} \cup Process /\ mixed \in BOOLEAN
    /\ proc \in [Process -> [at : {"off", "remove", "bind", "serving", "deaf", "gone"},
                             conn : {0} \cup Caller, backlog : Seq(Caller)]]

\* Unless two daemons were taking the address at once, the one that takes it has found no
\* other listening, and the file is that of the one that listens.
FileKept ==
    os = "unix" /\ ~mixed =>
      /\ \A p \in Process : Listening(p) => socketFile = p
      /\ \A p \in Process : proc[p].at = "bind" => socketFile = 0
      /\ \A p, q \in Process : Claiming(p) /\ Listening(q) => FALSE
      /\ \A p, q \in Process : Claiming(p) /\ Claiming(q) => p = q

\* The port of Windows is given to one process.
PortKept == os = "windows" => \A p, q \in Process : Listening(p) /\ Listening(q) => p = q

IpcInv == IpcTypes /\ FileKept /\ PortKept

\* What only serves the commands moves no daemon to another place.
LEMMA ServingKeeps ==
    ASSUME IpcInv, IpcTypes', UNCHANGED <<os, socketFile, mixed>>, \A q \in Process : proc'[q].at = proc[q].at
    PROVE  IpcInv'
BY DEF IpcInv, FileKept, PortKept, Listening, Claiming

\* One daemon moves to another place.
LEMMA ProceedsTypes ==
    ASSUME IpcTypes, NEW p \in Process, NEW l \in {"off", "remove", "bind", "serving", "deaf", "gone"}, Proceeds(p, l)
    PROVE  /\ proc' \in [Process -> [at : {"off", "remove", "bind", "serving", "deaf", "gone"},
                                     conn : {0} \cup Caller, backlog : Seq(Caller)]]
           /\ proc'[p].at = l /\ \A q \in Process : q # p => proc'[q] = proc[q]
BY DEF IpcTypes, Proceeds

\* A daemon that looks at the address finds it free, taken, or left by one that is gone.
LEMMA LookKeeps ==
    ASSUME IpcInv, NEW p \in Process, Look(p)
    PROVE  IpcInv'
<1> DEFINE l == IF socketFile = 0 THEN "bind" ELSE IF Listening(socketFile) THEN "deaf" ELSE "remove"
<1>0. IpcTypes /\ FileKept /\ os = "unix" /\ proc[p].at = "off"
  BY DEF IpcInv, Look
<1>1. Proceeds(p, l) /\ mixed' = Mixing(p) /\ UNCHANGED <<os, socketFile>>
  BY DEF Look
<1>2. /\ proc' \in [Process -> [at : {"off", "remove", "bind", "serving", "deaf", "gone"},
                                conn : {0} \cup Caller, backlog : Seq(Caller)]]
      /\ proc'[p].at = l /\ \A q \in Process : q # p => proc'[q] = proc[q]
  BY <1>0, <1>1, ProceedsTypes
<1>3. IpcTypes'
  BY <1>0, <1>1, <1>2 DEF IpcTypes, Mixing
<1>4. ASSUME ~mixed'
      PROVE  ~mixed /\ \A q \in Process : q # p => ~Claiming(q)
  BY <1>1, <1>4 DEF Mixing, Claiming
<1>5. FileKept'
  <2> SUFFICES ASSUME ~mixed'
               PROVE  /\ \A q \in Process : Listening(q)' => socketFile = q
                      /\ \A q \in Process : proc'[q].at = "bind" => socketFile = 0
                      /\ \A q, r \in Process : Claiming(q)' /\ Listening(r)' => FALSE
                      /\ \A q, r \in Process : Claiming(q)' /\ Claiming(r)' => q = r
    BY <1>1 DEF FileKept
  <2>1. /\ \A q \in Process : Listening(q) => socketFile = q
        /\ \A q \in Process : q # p => ~Claiming(q)
    BY <1>0, <1>4 DEF FileKept
  <2>2. \A q \in Process : Listening(q)' <=> Listening(q)
    BY <1>0, <1>2 DEF Listening
  <2>3. \A q \in Process : Claiming(q)' => q = p
    BY <2>1, <1>2 DEF Claiming
  <2>4. \A q \in Process : Claiming(p)' => ~Listening(q)
    <3>1. 0 \notin Process
      BY DEF Process
    <3>2. Claiming(p)' => socketFile = 0 \/ ~Listening(socketFile)
      BY <1>2 DEF Claiming
    <3> QED
      BY <3>1, <3>2, <2>1
  <2>5. \A q \in Process : proc'[q].at = "bind" => socketFile = 0
    BY <2>3, <1>2 DEF Claiming
  <2> QED
    BY <2>1, <2>2, <2>3, <2>4, <2>5
<1> QED
  BY <1>0, <1>1, <1>3, <1>5 DEF IpcInv, PortKept

\* A stale file is removed.
LEMMA RemoveStaleKeeps ==
    ASSUME IpcInv, NEW p \in Process, RemoveStale(p)
    PROVE  IpcInv'
<1> DEFINE l == IF socketFile = 0 THEN "deaf" ELSE "bind"
<1>0. IpcTypes /\ FileKept /\ PortKept /\ proc[p].at = "remove"
  BY DEF IpcInv, RemoveStale
<1>1. Proceeds(p, l) /\ socketFile' = 0 /\ UNCHANGED <<os, mixed>>
  BY DEF RemoveStale
<1>2. /\ proc' \in [Process -> [at : {"off", "remove", "bind", "serving", "deaf", "gone"},
                                conn : {0} \cup Caller, backlog : Seq(Caller)]]
      /\ proc'[p].at = l /\ \A q \in Process : q # p => proc'[q] = proc[q]
  BY <1>0, <1>1, ProceedsTypes
<1>3. IpcTypes'
  BY <1>0, <1>1, <1>2 DEF IpcTypes
<1>4. \A q \in Process : (Listening(q)' <=> Listening(q)) /\ (Claiming(q)' => Claiming(q))
  BY <1>0, <1>2 DEF Listening, Claiming
<1> QED
  BY <1>0, <1>1, <1>3, <1>4 DEF IpcInv, FileKept, PortKept, Claiming

\* The daemon that looked takes the address.
LEMMA BindKeeps ==
    ASSUME IpcInv, NEW p \in Process, Bind(p)
    PROVE  IpcInv'
<1> DEFINE l == IF socketFile = 0 THEN "serving" ELSE "deaf"
<1>0. IpcTypes /\ FileKept /\ os = "unix" /\ proc[p].at = "bind"
  BY DEF IpcInv, Bind
<1>1. Proceeds(p, l) /\ socketFile' = (IF socketFile = 0 THEN p ELSE socketFile) /\ UNCHANGED <<os, mixed>>
  BY DEF Bind
<1>2. /\ proc' \in [Process -> [at : {"off", "remove", "bind", "serving", "deaf", "gone"},
                                conn : {0} \cup Caller, backlog : Seq(Caller)]]
      /\ proc'[p].at = l /\ \A q \in Process : q # p => proc'[q] = proc[q]
  BY <1>0, <1>1, ProceedsTypes
<1>3. IpcTypes'
  BY <1>0, <1>1, <1>2 DEF IpcTypes
<1>4. FileKept'
  <2> SUFFICES ASSUME ~mixed
               PROVE  /\ \A q \in Process : Listening(q)' => socketFile' = q
                      /\ \A q \in Process : ~Claiming(q)'
    BY <1>1 DEF FileKept, Claiming
  <2>1. socketFile = 0 /\ \A q \in Process : q # p => ~Claiming(q) /\ ~Listening(q)
    BY <1>0 DEF FileKept, Claiming
  <2> QED
    BY <2>1, <1>1, <1>2 DEF Claiming, Listening
<1> QED
  BY <1>0, <1>1, <1>3, <1>4 DEF IpcInv, PortKept

\* On Windows the daemon asks for the port.
LEMMA BindPortKeeps ==
    ASSUME IpcInv, NEW p \in Process, BindPort(p)
    PROVE  IpcInv'
<1> DEFINE l == IF \E q \in Process : Listening(q) THEN "deaf" ELSE "serving"
<1>0. IpcTypes /\ PortKept /\ os = "windows" /\ UNCHANGED <<os, mixed>>
  BY DEF IpcInv, BindPort
<1>1. Proceeds(p, l) /\ socketFile' \in {p, socketFile}
  BY DEF BindPort
<1>2. /\ proc' \in [Process -> [at : {"off", "remove", "bind", "serving", "deaf", "gone"},
                                conn : {0} \cup Caller, backlog : Seq(Caller)]]
      /\ proc'[p].at = l /\ \A q \in Process : q # p => proc'[q] = proc[q]
  BY <1>0, <1>1, ProceedsTypes
<1>3. IpcTypes'
  BY <1>0, <1>1, <1>2 DEF IpcTypes
<1>4. PortKept'
  BY <1>0, <1>2 DEF PortKept, Listening
<1> QED
  BY <1>0, <1>3, <1>4 DEF IpcInv, FileKept

\* A daemon that quits takes the file with it, one that crashes leaves it.
LEMMA QuitKeeps ==
    ASSUME IpcInv, NEW p \in Process, Quit(p) \/ Crash(p)
    PROVE  IpcInv'
<1>0. IpcTypes /\ FileKept /\ PortKept /\ UNCHANGED <<os, mixed>>
  BY DEF IpcInv, Quit, Crash
<1>1. /\ proc' = [proc EXCEPT ![p] = [at |-> "gone", conn |-> 0, backlog |-> <<>>]]
      /\ socketFile' = socketFile \/ (Listening(p) /\ socketFile' = 0)
  BY DEF Quit, Crash
<1>2. IpcTypes'
  BY <1>0, <1>1 DEF IpcTypes
<1>3. \A q \in Process : /\ q # p => proc'[q] = proc[q]
                         /\ Listening(q)' => Listening(q) /\ q # p
                         /\ Claiming(q)' => Claiming(q) /\ q # p
  BY <1>0, <1>1 DEF IpcTypes, Listening, Claiming
<1>4. FileKept'
  BY <1>0, <1>1, <1>3 DEF FileKept, Claiming
<1> QED
  BY <1>0, <1>2, <1>3, <1>4 DEF IpcInv, PortKept

\* Commands and those who serve them leave the address alone.
LEMMA CallsKeep ==
    ASSUME IpcInv,
           (\E p \in Process : Accept(p) \/ Serve(p)) \/ (\E c \in Caller : Connect(c) \/ Ask(c) \/ HungUp(c))
    PROVE  IpcInv'
<1>0. IpcTypes
  BY DEF IpcInv
<1>1. ASSUME NEW p \in Process, NEW k \in {0} \cup Caller, NEW b \in Seq(Caller),
             proc' = [proc EXCEPT ![p].conn = k, ![p].backlog = b], UNCHANGED <<os, socketFile, mixed>>
      PROVE  IpcInv'
  <2>1. IpcTypes' /\ \A q \in Process : proc'[q].at = proc[q].at
    BY <1>0, <1>1 DEF IpcTypes
  <2> QED
    BY <2>1, <1>1, ServingKeeps
<1>2. ASSUME proc' = proc, UNCHANGED <<os, socketFile, mixed>>
      PROVE  IpcInv'
  BY <1>2, <1>0, ServingKeeps DEF IpcTypes
<1>3. \A p \in Process : proc[p].backlog \in Seq(Caller) /\ proc[p].conn \in {0} \cup Caller
  BY <1>0 DEF IpcTypes
<1>4. ASSUME NEW p \in Process, Accept(p)
      PROVE  IpcInv'
  <2>1. PICK s \in Seq(Caller) : s = proc[p].backlog /\ s # <<>>
    BY <1>3, <1>4 DEF Accept
  <2>2. Head(s) \in Caller /\ Tail(s) \in Seq(Caller)
    BY <2>1
  <2>3. proc' = [proc EXCEPT ![p].conn = Head(s), ![p].backlog = Tail(s)]
    BY <2>1, <1>0, <1>4 DEF Accept, IpcTypes
  <2> QED
    BY <2>2, <2>3, <1>1, <1>4 DEF Accept
<1>5. ASSUME NEW p \in Process, Serve(p)
      PROVE  IpcInv'
  <2>1. proc' = [proc EXCEPT ![p].conn = 0, ![p].backlog = proc[p].backlog]
    BY <1>0, <1>5 DEF Serve, IpcTypes
  <2> QED
    BY <2>1, <1>1, <1>3, <1>5 DEF Serve
<1>6. ASSUME NEW c \in Caller, Connect(c)
      PROVE  IpcInv'
  <2>1. CASE proc' = proc
    BY <2>1, <1>2, <1>6 DEF Connect
  <2>2. ASSUME NEW p \in Process, proc' = [proc EXCEPT ![p].backlog = Append(@, c)]
        PROVE  IpcInv'
    <3>1. Append(proc[p].backlog, c) \in Seq(Caller)
      BY <1>3
    <3>2. proc' = [proc EXCEPT ![p].conn = proc[p].conn, ![p].backlog = Append(proc[p].backlog, c)]
      BY <1>0, <2>2 DEF IpcTypes
    <3> QED
      BY <3>1, <3>2, <1>1, <1>3, <1>6 DEF Connect
  <2> QED
    BY <2>1, <2>2, <1>6 DEF Connect, Reached
<1>7. ASSUME NEW c \in Caller, Ask(c) \/ HungUp(c)
      PROVE  IpcInv'
  BY <1>7, <1>2 DEF Ask, HungUp
<1> QED
  BY <1>4, <1>5, <1>6, <1>7

\* However many daemons are started, stopped and killed, and whatever files they leave,
\* the one that listens is the one commands reach, unless two were taking the address at
\* the same moment.
THEOREM AddressRight == IpcSpec => []AddressKept
<1>1. IpcInit => IpcInv
  <2> SUFFICES ASSUME IpcInit PROVE IpcInv
    OBVIOUS
  <2>1. \A p \in Process : proc[p].at = "off"
    BY DEF IpcInit
  <2>2. IpcTypes
    <3>1. <<>> \in Seq(Caller)
      OBVIOUS
    <3> QED
      BY <3>1 DEF IpcInit, IpcTypes
  <2> QED
    BY <2>1, <2>2 DEF IpcInv, FileKept, PortKept, Listening, Claiming
<1>2. IpcInv /\ [IpcNext]_ipcVars => IpcInv'
  <2> SUFFICES ASSUME IpcInv, [IpcNext]_ipcVars PROVE IpcInv'
    OBVIOUS
  <2>1. CASE UNCHANGED ipcVars
    BY <2>1 DEF ipcVars, IpcInv, IpcTypes, FileKept, PortKept, Listening, Claiming
  <2> QED
    BY <2>1, LookKeeps, RemoveStaleKeeps, BindKeeps, BindPortKeeps, QuitKeeps, CallsKeep DEF IpcNext
<1>3. IpcInv => AddressKept
  BY DEF IpcInv, IpcTypes, FileKept, PortKept, AddressKept, Reached
<1> QED
  BY <1>1, <1>2, <1>3, PTL DEF IpcSpec

(***************************************************************************)
(* The choice of a relay and of a transport.                               *)
(***************************************************************************)
USE ConnectingBounds

\* A set of naturals has a least element.
LEMMA LeastNumber ==
    ASSUME NEW T \in SUBSET Nat, T # {}
    PROVE  \E x \in T : \A y \in T : x <= y
<1> DEFINE R == {ss \in Nat \X Nat : ss[1] < ss[2]}
<1>1. IsWellFoundedOn(R, Nat)
  BY NatLessThanWellFounded, Zenon DEF OpToRel
<1>2. PICK x \in T : \A y \in T : ~(<<y, x>> \in R)
  <2> HIDE DEF R
  <2> QED
    BY <1>1, WFMin
<1>3. \A y \in T : ~(y < x)
  BY <1>2
<1> QED
  BY <1>3

\* Of things that are ranked there is a first one: of those with the least rank, the one
\* that comes first.
LEMMA FirstRanked ==
    ASSUME NEW K \in SUBSET Nat, K # {}, NEW rank \in [K -> Nat]
    PROVE  \E k \in K : \A o \in K \ {k} : rank[k] < rank[o] \/ (rank[k] = rank[o] /\ k < o)
<1> DEFINE T == {rank[k] : k \in K}
<1>1. T \in SUBSET Nat /\ T # {}
  <2>1. PICK k \in K : TRUE
    OBVIOUS
  <2>2. rank[k] \in T
    BY <2>1
  <2>3. \A x \in T : x \in Nat
    OBVIOUS
  <2> QED
    BY <2>2, <2>3
<1>2. PICK m \in T : \A y \in T : m <= y
  <2> HIDE DEF T
  <2> QED
    BY <1>1, LeastNumber
<1>3. PICK k \in {x \in K : rank[x] = m} : \A y \in {x \in K : rank[x] = m} : k <= y
  BY <1>2, LeastNumber
<1>4. ASSUME NEW o \in K \ {k}
      PROVE  rank[k] < rank[o] \/ (rank[k] = rank[o] /\ k < o)
  <2>1. rank[k] = m /\ m <= rank[o] /\ rank[o] \in Nat /\ k \in Nat /\ o \in Nat /\ m \in Nat
    BY <1>2, <1>3
  <2>2. CASE rank[o] = m
    BY <1>3, <2>1, <2>2
  <2>3. CASE rank[o] # m
    BY <2>1, <2>3
  <2> QED
    BY <2>2, <2>3
<1> QED
  BY <1>3, <1>4

\* The configuration and the discovery response have their types, and a transport is
\* chosen only after the response.
ConnectTypes ==
    /\ cpc = "select_relay" => relays \in [1 .. Relays -> RelayInfo] /\ policy \in Policy
    /\ preferred \in Transports \cup {None}
    /\ offer \in Seq(Endpoints)
    /\ chosen.at # 0 => cpc \in {"dial", "open_control", "awaiting", "returned"}

\* The inductive invariant.
ConnectInv == ConnectTypes /\ ChosenIsBest

\* The relay that comes first after the sort beats every other candidate.
LEMMA FirstIsBest ==
    ASSUME relays \in [1 .. Relays -> RelayInfo], policy \in Policy,
           NEW S \in SUBSET (1 .. Relays), S # {}
    PROVE  /\ FirstSorted(S) \in S
           /\ \A o \in S : LET r == FirstSorted(S)
                           IN  \/ relays[r].priority < relays[o].priority
                               \/ /\ relays[r].priority = relays[o].priority
                                  /\ policy.consider_capacity => relays[r].capacity >= relays[o].capacity
<1> DEFINE rank == [r \in S |-> 3 * relays[r].priority - (IF policy.consider_capacity THEN relays[r].capacity ELSE 0)]
<1>1. \A r \in S : /\ relays[r].priority \in {1, 2} /\ relays[r].capacity \in {1, 2}
                   /\ rank[r] = 3 * relays[r].priority - (IF policy.consider_capacity THEN relays[r].capacity ELSE 0)
  BY DEF RelayInfo
<1>2. rank \in [S -> Nat]
  BY <1>1
<1>3. \A a, b \in S : SortsBefore(a, b) <=> rank[a] < rank[b]
  BY <1>1 DEF SortsBefore
<1>4. \E k \in S : \A o \in S \ {k} : rank[k] < rank[o] \/ (rank[k] = rank[o] /\ k < o)
  <2> HIDE DEF rank
  <2>1. S \in SUBSET Nat
    OBVIOUS
  <2> QED
    BY <1>2, <2>1, FirstRanked
<1>5. \E r \in S : \A o \in S \ {r} : SortsBefore(r, o) \/ (~SortsBefore(o, r) /\ r < o)
  <2>1. PICK k \in S : \A o \in S \ {k} : rank[k] < rank[o] \/ (rank[k] = rank[o] /\ k < o)
    BY <1>4
  <2>2. ASSUME NEW o \in S \ {k}
        PROVE  SortsBefore(k, o) \/ (~SortsBefore(o, k) /\ k < o)
    <3> HIDE DEF rank
    <3>1. rank[k] \in Nat /\ rank[o] \in Nat
      BY <1>2
    <3> QED
      BY <1>3, <2>1, <3>1
  <2> QED
    BY <2>2
<1>6. PICK r \in S : r = FirstSorted(S) /\ \A o \in S \ {r} : SortsBefore(r, o) \/ (~SortsBefore(o, r) /\ r < o)
  BY <1>5 DEF FirstSorted
<1>7. ASSUME NEW o \in S
      PROVE  \/ relays[r].priority < relays[o].priority
             \/ /\ relays[r].priority = relays[o].priority
                /\ policy.consider_capacity => relays[r].capacity >= relays[o].capacity
  <2>1. CASE o = r
    BY <1>1, <2>1
  <2>2. CASE o # r
    BY <1>1, <1>6, <2>2 DEF SortsBefore
  <2> QED
    BY <2>1, <2>2
<1> QED
  BY <1>6, <1>7

\* An endpoint that is enabled is one of the response.
LEMMA EnabledEndpoint ==
    ASSUME offer \in Seq(Endpoints), NEW k \in EnabledOffers
    PROVE  k \in Nat /\ offer[k].enabled /\ offer[k].protocol \in Transports
<1>1. k \in 1 .. Len(offer) /\ offer[k].enabled
  BY DEF EnabledOffers
<1>2. offer[k] \in Endpoints
  BY <1>1, ElementOfSeq
<1> QED
  BY <1>1, <1>2 DEF Endpoints

\* find_transport finds an enabled endpoint of the protocol if there is one.
LEMMA FoundTransport ==
    ASSUME offer \in Seq(Endpoints), NEW p
    PROVE  /\ FindTransport(p) # 0 => /\ FindTransport(p) \in EnabledOffers
                                      /\ offer[FindTransport(p)].protocol = p
           /\ FindTransport(p) = 0 => \A k \in EnabledOffers : offer[k].protocol # p
<1> DEFINE I == {i \in 1 .. Len(offer) : offer[i].protocol = p /\ offer[i].enabled}
<1>1. FindTransport(p) = IF I # {} THEN Min(I) ELSE 0
  BY DEF FindTransport, SelectInSeq
<1>2. I \in SUBSET Nat /\ \A i \in I : i # 0
  BY ElementOfSeq
<1>3. DOMAIN offer = 1 .. Len(offer)
  OBVIOUS
<1>4. \A i \in I : i \in EnabledOffers /\ offer[i].protocol = p
  BY <1>3 DEF EnabledOffers
<1>5. \A k \in EnabledOffers : offer[k].protocol = p => k \in I
  BY <1>3 DEF EnabledOffers
<1>6. I # {} => Min(I) \in I
  <2> HIDE DEF I
  <2> QED
    BY <1>2, LeastNumber DEF Min
<1> HIDE DEF I
<1>7. CASE I = {}
  BY <1>1, <1>5, <1>7
<1>8. CASE I # {}
  BY <1>1, <1>2, <1>4, <1>6, <1>8
<1> QED
  BY <1>7, <1>8

\* best_transport is an enabled endpoint that no other enabled one beats.
LEMMA BestIsBest ==
    ASSUME offer \in Seq(Endpoints)
    PROVE  /\ EnabledOffers = {} => BestTransport = 0
           /\ EnabledOffers # {} =>
                 /\ BestTransport \in EnabledOffers
                 /\ \A k \in EnabledOffers :
                       Priority(offer[k].protocol) <= Priority(offer[BestTransport].protocol)
<1>1. CASE EnabledOffers = {}
  BY <1>1 DEF BestTransport
<1>2. CASE EnabledOffers # {}
  <2> DEFINE rank == [k \in EnabledOffers |-> 100 - Priority(offer[k].protocol)]
  <2>1. \A k \in EnabledOffers : k \in Nat /\ Priority(offer[k].protocol) \in {25, 50, 100}
    BY EnabledEndpoint DEF Priority, Transports
  <2>2. rank \in [EnabledOffers -> Nat] /\ \A k \in EnabledOffers : rank[k] = 100 - Priority(offer[k].protocol)
    BY <2>1
  <2> HIDE DEF rank
  <2>3. PICK k \in EnabledOffers : \A o \in EnabledOffers \ {k} : rank[k] < rank[o] \/ (rank[k] = rank[o] /\ k < o)
    BY <1>2, <2>1, <2>2, FirstRanked, ZenonT(60)
  <2>4. \A o \in EnabledOffers \ {k} :
            \/ Priority(offer[k].protocol) > Priority(offer[o].protocol)
            \/ Priority(offer[k].protocol) = Priority(offer[o].protocol) /\ k < o
    BY <2>1, <2>2, <2>3
  <2>5. PICK b \in EnabledOffers :
           /\ b = BestTransport
           /\ \A o \in EnabledOffers \ {b} :
                 \/ Priority(offer[b].protocol) > Priority(offer[o].protocol)
                 \/ Priority(offer[b].protocol) = Priority(offer[o].protocol) /\ b < o
    BY <1>2, <2>4 DEF BestTransport
  <2>6. ASSUME NEW o \in EnabledOffers
        PROVE  Priority(offer[o].protocol) <= Priority(offer[b].protocol)
    <3>1. CASE o = b
      BY <2>1, <3>1
    <3>2. CASE o # b
      BY <2>1, <2>5, <3>2
    <3> QED
      BY <3>1, <3>2
  <2> QED
    BY <1>2, <2>5, <2>6
<1> QED
  BY <1>1, <1>2

\* What ChosenIsBest says of the relay, and of the transport.
RelayBest ==
    selected # 0 =>
          /\ Admitted(selected)
          /\ policy.region # None /\ policy.prefer_same_region /\ relays[selected].region # policy.region
                => InRegion = {}
          /\ \A o \in Admissible :
                \/ relays[selected].region = policy.region /\ relays[o].region # policy.region
                \/ relays[selected].priority < relays[o].priority
                \/ /\ relays[selected].priority = relays[o].priority
                   /\ policy.consider_capacity => relays[selected].capacity >= relays[o].capacity

TransportBest ==
    chosen.at # 0 =>
          /\ offer[chosen.at].enabled /\ chosen.protocol = offer[chosen.at].protocol
          /\ chosen.protocol # preferred =>
                \A k \in EnabledOffers :
                    /\ offer[k].protocol # preferred
                    /\ Priority(offer[k].protocol) <= Priority(chosen.protocol)

\* ChosenIsBest is these two.
LEMMA BestParts == ChosenIsBest <=> RelayBest /\ TransportBest
  BY DEF ChosenIsBest, RelayBest, TransportBest

\* The relay that select_relay takes.
LEMMA SelectedBest ==
    ASSUME relays \in [1 .. Relays -> RelayInfo], policy \in Policy, Candidates # {},
           NEW r, r = FirstSorted(Candidates)
    PROVE  /\ Admitted(r)
           /\ policy.region # None /\ policy.prefer_same_region /\ relays[r].region # policy.region
                => InRegion = {}
           /\ \A o \in Admissible :
                \/ relays[r].region = policy.region /\ relays[o].region # policy.region
                \/ relays[r].priority < relays[o].priority
                \/ /\ relays[r].priority = relays[o].priority
                   /\ policy.consider_capacity => relays[r].capacity >= relays[o].capacity
<1>1. /\ Admissible \subseteq 1 .. Relays /\ InRegion \subseteq Admissible
      /\ \A o \in Admissible : Admitted(o)
      /\ \A o \in Admissible : o \in InRegion <=> relays[o].region = policy.region
  BY DEF Admissible, InRegion
<1>2. \/ Candidates = InRegion
      \/ Candidates = Admissible /\ (policy.region # None /\ policy.prefer_same_region => InRegion = {})
  BY DEF Candidates
<1>3. Candidates \in SUBSET (1 .. Relays)
  BY <1>1, <1>2
<1>4. /\ r \in Candidates
      /\ \A o \in Candidates :
                \/ relays[r].priority < relays[o].priority
                \/ /\ relays[r].priority = relays[o].priority
                   /\ policy.consider_capacity => relays[r].capacity >= relays[o].capacity
  BY <1>3, FirstIsBest
<1>5. r \in Admissible
  BY <1>1, <1>2, <1>4
<1>6. CASE Candidates = InRegion
  <2>1. relays[r].region = policy.region
    BY <1>1, <1>4, <1>5, <1>6
  <2>2. ASSUME NEW o \in Admissible, relays[o].region = policy.region
        PROVE  o \in Candidates
    BY <1>1, <1>6, <2>2
  <2> QED
    BY <1>1, <1>4, <1>5, <2>1, <2>2
<1>7. CASE Candidates = Admissible /\ (policy.region # None /\ policy.prefer_same_region => InRegion = {})
  BY <1>1, <1>4, <1>5, <1>7
<1> QED
  BY <1>2, <1>6, <1>7

\* The transport that select_best takes.
LEMMA SelectedTransport ==
    ASSUME offer \in Seq(Endpoints), preferred \in Transports \cup {None},
           NEW c, c = SelectBest, c.at # 0
    PROVE  /\ offer[c.at].enabled /\ c.protocol = offer[c.at].protocol
           /\ c.protocol # preferred =>
                 \A k \in EnabledOffers :
                    /\ offer[k].protocol # preferred
                    /\ Priority(offer[k].protocol) <= Priority(c.protocol)
<1>1. PICK k : /\ k = IF preferred # None /\ FindTransport(preferred) # 0
                        THEN FindTransport(preferred) ELSE BestTransport
               /\ c = IF k = 0 THEN [protocol |-> "quic", at |-> 0]
                               ELSE [protocol |-> offer[k].protocol, at |-> k]
  BY DEF SelectBest
<1>2. k # 0 /\ c.at = k /\ c.protocol = offer[k].protocol
  BY <1>1
<1>3. \A e \in EnabledOffers : offer[e].enabled /\ offer[e].protocol \in Transports
  BY EnabledEndpoint
<1>4. CASE preferred # None /\ FindTransport(preferred) # 0
  <2>1. k = FindTransport(preferred)
    BY <1>1, <1>4
  <2>2. k \in EnabledOffers /\ offer[k].protocol = preferred
    BY <1>4, <2>1, FoundTransport
  <2> QED
    BY <1>2, <1>3, <2>2
<1>5. CASE ~(preferred # None /\ FindTransport(preferred) # 0)
  <2>1. k = BestTransport
    BY <1>1, <1>5
  <2>2. /\ k \in EnabledOffers
        /\ \A o \in EnabledOffers : Priority(offer[o].protocol) <= Priority(offer[k].protocol)
    BY <1>2, <2>1, BestIsBest
  <2>3. ASSUME NEW o \in EnabledOffers
        PROVE  offer[o].protocol # preferred
    <3>1. CASE preferred = None
      BY <1>3, <3>1 DEF None, Transports
    <3>2. CASE FindTransport(preferred) = 0
      BY <3>2, FoundTransport
    <3> QED
      BY <1>5, <3>1, <3>2
  <2> QED
    BY <1>2, <1>3, <2>2, <2>3
<1> QED
  BY <1>4, <1>5

\* Every step of connect keeps its choices the best.
LEMMA ConnectStep ==
    ASSUME ConnectInv, [ConnectingNext]_connectVars
    PROVE  ConnectInv'
<1>1. ConnectTypes /\ RelayBest /\ TransportBest
  BY BestParts DEF ConnectInv
<1>2. RelayBest' /\ TransportBest' => ChosenIsBest'
  BY DEF ChosenIsBest, RelayBest, TransportBest
<1>3. ASSUME UNCHANGED <<relays, policy, selected>>
      PROVE  RelayBest'
  BY <1>1, <1>3 DEF RelayBest, Admitted, InRegion, Admissible
<1>4. ASSUME UNCHANGED <<offer, chosen, preferred>>
      PROVE  TransportBest'
  BY <1>1, <1>4 DEF TransportBest, EnabledOffers
<1>5. CASE UNCHANGED connectVars
  <2>1. UNCHANGED <<relays, policy, preferred, cpc, offer, selected, chosen>>
    BY <1>5 DEF connectVars
  <2> QED
    BY <1>1, <1>3, <1>4, <1>2, <2>1 DEF ConnectInv, ConnectTypes
<1>6. CASE SelectRelay
  <2>1. /\ cpc = "select_relay" /\ cpc' \in {"returned", "resolve"}
        /\ UNCHANGED <<relays, policy, preferred, offer, chosen>>
        /\ \/ selected' = selected
           \/ Candidates # {} /\ selected' = FirstSorted(Candidates)
    BY <1>6 DEF SelectRelay
  <2>2. ConnectTypes'
    BY <1>1, <2>1 DEF ConnectTypes
  <2>3. CASE Candidates # {} /\ selected' = FirstSorted(Candidates)
    <3>1. /\ Admitted(selected')
          /\ policy.region # None /\ policy.prefer_same_region /\ relays[selected'].region # policy.region
                => InRegion = {}
          /\ \A o \in Admissible :
                \/ relays[selected'].region = policy.region /\ relays[o].region # policy.region
                \/ relays[selected'].priority < relays[o].priority
                \/ /\ relays[selected'].priority = relays[o].priority
                   /\ policy.consider_capacity => relays[selected'].capacity >= relays[o].capacity
      BY <1>1, <2>1, <2>3, SelectedBest DEF ConnectTypes
    <3> QED
      BY <1>4, <1>2, <2>1, <2>2, <3>1 DEF ConnectInv, RelayBest, Admitted, InRegion, Admissible
  <2> QED
    BY <1>3, <1>4, <1>2, <2>1, <2>2, <2>3 DEF ConnectInv
<1>7. ASSUME NEW ok \in BOOLEAN, Resolve(ok)
      PROVE  ConnectInv'
  <2>1. /\ cpc = "resolve" /\ cpc' \in {"returned", "discover"} /\ selected' = 0
        /\ UNCHANGED <<preferred, offer, chosen>>
    BY <1>7 DEF Resolve
  <2>2. ConnectTypes'
    BY <1>1, <2>1 DEF ConnectTypes
  <2>3. RelayBest'
    BY <2>1 DEF RelayBest
  <2> QED
    BY <1>4, <1>2, <2>1, <2>2, <2>3 DEF ConnectInv
<1>8. QuicOnly \in Seq(Endpoints) /\ \A o \in Offers : o \in Seq(Endpoints)
  <2>1. QuicOnly \in Seq(Endpoints)
    BY DEF QuicOnly, Endpoints, Transports
  <2>2. ASSUME NEW o \in Offers
        PROVE  o \in Seq(Endpoints)
    <3>1. PICK n \in 0 .. MaxOffered : o \in [1 .. n -> Endpoints]
      BY <2>2 DEF Offers
    <3>2. n \in Nat
      BY <3>1
    <3> QED
      BY <3>1, <3>2, SeqDef
  <2> QED
    BY <2>1, <2>2
<1>9. ASSUME FetchTimeout \/ MutePortCloses \/ \E m \in PortManners : Fetch(m)
      PROVE  ConnectInv'
  <2>1. /\ cpc \in {"discover", "connecting", "reading"}
        /\ cpc' \in {"discover", "select", "connecting", "reading"}
        /\ offer' \in Offers \cup {offer, QuicOnly}
        /\ UNCHANGED <<relays, policy, preferred, selected, chosen>>
    BY <1>9 DEF FetchTimeout, MutePortCloses, Fetch, NextTry
  <2>2. chosen.at = 0
    BY <1>1, <2>1 DEF ConnectTypes
  <2>3. ConnectTypes'
    BY <1>1, <1>8, <2>1, <2>2 DEF ConnectTypes
  <2>4. TransportBest'
    BY <2>1, <2>2 DEF TransportBest
  <2> QED
    BY <1>3, <1>2, <2>1, <2>3, <2>4 DEF ConnectInv
<1>10. CASE SelectTransport
  <2>1. /\ cpc' = "dial" /\ chosen' = SelectBest
        /\ UNCHANGED <<relays, policy, preferred, offer, selected>>
    BY <1>10 DEF SelectTransport
  <2>2. ConnectTypes'
    BY <1>1, <2>1 DEF ConnectTypes
  <2>3. chosen'.at # 0 =>
          /\ offer[chosen'.at].enabled /\ chosen'.protocol = offer[chosen'.at].protocol
          /\ chosen'.protocol # preferred =>
                \A k \in EnabledOffers :
                    /\ offer[k].protocol # preferred
                    /\ Priority(offer[k].protocol) <= Priority(chosen'.protocol)
    BY <1>1, <2>1, SelectedTransport DEF ConnectTypes
  <2>4. TransportBest'
    BY <2>1, <2>3 DEF TransportBest, EnabledOffers
  <2> QED
    BY <1>3, <1>2, <2>1, <2>2, <2>4 DEF ConnectInv
<1>11. ASSUME \/ \E ok \in BOOLEAN : Dial(ok) \/ OpenControl(ok)
             \/ \E a \in Answers : Answered(a)
      PROVE  ConnectInv'
  <2>1. /\ cpc' \in {"open_control", "awaiting", "returned"}
        /\ UNCHANGED <<relays, policy, preferred, offer, selected, chosen>>
    BY <1>11 DEF Dial, OpenControl, Answered
  <2>2. ConnectTypes'
    BY <1>1, <2>1 DEF ConnectTypes
  <2> QED
    BY <1>3, <1>4, <1>2, <2>1, <2>2 DEF ConnectInv
<1> QED
  BY <1>5, <1>6, <1>7, <1>9, <1>10, <1>11 DEF ConnectingNext

\* Whatever relays the configuration has, and whatever endpoints a relay answers with and
\* in which order: connect takes a relay the policy admits that no other candidate beats,
\* and the preferred transport or the best of those enabled.
THEOREM ChoiceRight == ConnectingSpec => []ChosenIsBest
<1>1. ConnectingInit => ConnectInv
  <2>1. ASSUME ConnectingInit
        PROVE  ConnectInv
    <3>1. offer \in Seq(Endpoints) /\ selected = 0 /\ chosen.at = 0
      BY <2>1 DEF ConnectingInit
    <3>2. preferred \in Transports \cup {None}
      BY <2>1 DEF ConnectingInit
    <3>3. cpc = "select_relay" => relays \in [1 .. Relays -> RelayInfo] /\ policy \in Policy
      BY <2>1 DEF ConnectingInit
    <3> QED
      BY <3>1, <3>2, <3>3 DEF ConnectInv, ConnectTypes, ChosenIsBest
  <2> QED
    BY <2>1
<1>2. ConnectInv => ChosenIsBest
  BY DEF ConnectInv
<1> QED
  BY <1>1, <1>2, ConnectStep, PTL DEF ConnectingSpec

(***************************************************************************)
(* The desktop application.                                                *)
(***************************************************************************)
USE DesktopAssumption

\* Where a command is, what it asks for, and the state of a task.
Places == {"idle", "check", "mark", "spawn", "keep", "stop", "abort", "status", "metrics", "exit", "done"}
Ops == {"none", "tray", "traystop", "start", "stop", "shutdown"}
CommandState == [op : Ops, at : Places, run : DeskTask \cup {0}]
TaskState == [at : {"none", "wake", "connecting", "serving", "end"},
              signal : {"open", "closed", "sent", "spent"}, cut : BOOLEAN]

\* The state of the application has its types.
DeskTypes ==
    /\ host \in {"app", "daemon"} /\ valid \in BOOLEAN
    /\ shown \in {"none", "connecting", "connected", "disconnected", "error"}
    /\ store \in DeskTask \cup {0} /\ keptHandle \in DeskTask \cup {0}
    /\ lock \in DeskCommand \cup {0}
    /\ runner \in [DeskTask -> TaskState] /\ command \in [DeskCommand -> CommandState]

\* A command that is in the middle of starting or stopping the tunnel.
Deep(c) == command[c].at \in {"keep", "abort", "status", "metrics"} \/ (host = "app" /\ command[c].at = "spawn")

\* There is one such command at a time, and one task.
OneDeep == \A c, d \in DeskCommand : Deep(c) /\ Deep(d) => c = d
OneAlive == \A q, r \in DeskTask : Alive(q) /\ Alive(r) => q = r

\* A task that was not started has an open channel.
Fresh == \A r \in DeskTask : runner[r].at = "none" => runner[r].signal = "open" /\ ~runner[r].cut

\* A task that was not aborted is in the hands of the handle or of a command, one that
\* was is in nobody's.
Owned ==
    \A r \in DeskTask : Alive(r) =>
        /\ runner[r].cut => keptHandle = 0
        /\ ~runner[r].cut =>
              \/ keptHandle = r
              \/ \E c \in DeskCommand : command[c].at \in {"keep", "abort"} /\ command[c].run = r

\* Its sender was not dropped, and was used only by the command that aborts it.
Signals ==
    \A r \in DeskTask : Alive(r) =>
        /\ runner[r].signal \in {"open", "sent"}
        /\ runner[r].cut => runner[r].signal = "sent"
        /\ runner[r].signal = "sent" /\ ~runner[r].cut =>
              \E c \in DeskCommand : command[c].at = "abort" /\ command[c].run = r

\* What a command that starts the tunnel finds, and one that keeps the handle.
Spawning ==
    \A c \in DeskCommand : host = "app" /\ command[c].at = "spawn" =>
        shown # "connected" /\ \A r \in DeskTask : ~Alive(r)

Keeping ==
    \A c \in DeskCommand : command[c].at = "keep" =>
        /\ command[c].run \in DeskTask /\ keptHandle # command[c].run
        /\ runner[command[c].run].at # "none"
        /\ \A q \in DeskTask : Alive(q) => q = command[c].run /\ ~runner[q].cut

\* What one that aborts the task, and one that has aborted it.
Aborting ==
    \A c \in DeskCommand : command[c].at = "abort" =>
        /\ host = "app" /\ lock = c /\ keptHandle = 0 /\ command[c].run \in DeskTask
        /\ runner[command[c].run].signal = "sent"
        /\ \A r \in DeskTask : Alive(r) => r = command[c].run

Stopping ==
    \A c \in DeskCommand :
        /\ command[c].at \in {"status", "metrics"} => host = "app" /\ \A r \in DeskTask : Alive(r) => runner[r].cut
        /\ command[c].at = "metrics" => shown # "connected"

\* The lock is held by a command that aborts; a handle is that of a task that was started.
Held ==
    /\ lock # 0 => command[lock].at = "abort"
    /\ keptHandle # 0 => runner[keptHandle].at # "none"

\* The daemon shows what it has a handle of, whose task alone goes on.
InDaemon ==
    host = "daemon" =>
        /\ lock = 0 /\ \A c \in DeskCommand : command[c].at \notin {"mark", "abort", "status", "metrics"}
        /\ \A r \in DeskTask : Alive(r) /\ runner[r].cut => shown = "none"
        /\ keptHandle # 0 => shown # "none"
        /\ \A r \in DeskTask : Alive(r) /\ ~runner[r].cut /\ keptHandle # r => runner[r].at = "wake"

\* The application does not show a task that it has aborted.
InApp ==
    host = "app" =>
        /\ \A c \in DeskCommand : command[c].at # "exit"
        /\ \A r \in DeskTask : Alive(r) /\ runner[r].cut =>
              shown # "connected" \/ \E c \in DeskCommand : command[c].at = "status"

\* What ShownTrue says.
ConnectedServes ==
    shown = "connected" => \E r \in DeskTask : \/ Serving(r) /\ store = r
                                               \/ host = "daemon" /\ Alive(r) /\ keptHandle = r
                                               \/ \E c \in DeskCommand : command[c].at = "status"

ServingShown ==
    \A r \in DeskTask : Serving(r) => \/ shown = "connected" /\ store = r
                                      \/ runner[r].signal = "sent"

\* All of it holds as long as none of the races has happened.
Calm ==
    /\ DeskTypes /\ OneDeep /\ OneAlive /\ Fresh /\ Owned /\ Signals /\ Spawning /\ Keeping
    /\ Aborting /\ Stopping /\ Held /\ InDaemon /\ InApp /\ ConnectedServes /\ ServingShown

\* The inductive invariant.
DeskInv == odd = {} => Calm

\* What a command's move changes.
LEMMA CommandMoves ==
    ASSUME command \in [DeskCommand -> CommandState], NEW c \in DeskCommand, NEW l \in Places,
           command' = [command EXCEPT ![c].at = l]
    PROVE  /\ command' \in [DeskCommand -> CommandState]
           /\ command'[c].at = l /\ \A d \in DeskCommand : d # c => command'[d].at = command[d].at
           /\ \A d \in DeskCommand : command'[d].run = command[d].run /\ command'[d].op = command[d].op
  BY DEF CommandState

\* What a task's move changes.
LEMMA TaskMoves ==
    ASSUME runner \in [DeskTask -> TaskState], NEW r \in DeskTask, NEW l \in {"wake", "connecting", "serving", "end"},
           NEW g \in {"open", "closed", "sent", "spent"},
           runner' = [runner EXCEPT ![r].at = l, ![r].signal = g]
    PROVE  /\ runner' \in [DeskTask -> TaskState]
           /\ runner'[r].at = l /\ runner'[r].signal = g /\ runner'[r].cut = runner[r].cut
           /\ \A q \in DeskTask : q # r => runner'[q] = runner[q]
  BY ZenonT(60) DEF TaskState

\* A step of a task that is neither aborted nor ahead of the daemon's entry, and that shows
\* what it does.
LEMMA TaskSteps ==
    ASSUME Calm, NEW r \in DeskTask, Alive(r), ~runner[r].cut, host = "daemon" => keptHandle = r,
           NEW l \in {"wake", "connecting", "serving", "end"},
           runner' = [runner EXCEPT ![r].at = l, ![r].signal = runner[r].signal],
           UNCHANGED <<host, valid, keptHandle, lock, command>>,
           shown' \in {"connecting", "connected", "disconnected", "error"}, store' \in {0, r, store},
           l = "serving" => shown' = "connected" /\ store' = r,
           shown' = "connected" => (l = "serving" /\ store' = r) \/ (host = "daemon" /\ l # "end")
    PROVE  Calm'
<1>1. /\ runner' \in [DeskTask -> TaskState]
      /\ runner'[r].at = l /\ runner'[r].signal = runner[r].signal /\ runner'[r].cut = runner[r].cut
      /\ \A q \in DeskTask : q # r => runner'[q] = runner[q]
  <2>1. runner[r].signal \in {"open", "closed", "sent", "spent"}
    BY DEF Calm, DeskTypes, TaskState
  <2> QED
    BY <2>1, TaskMoves, ZenonT(60) DEF Calm, DeskTypes
<1>2. DeskTypes'
  BY <1>1 DEF Calm, DeskTypes
<1>3. \A q \in DeskTask : q # r => ~Alive(q)
  BY DEF Calm, OneAlive
<1>4. \A q \in DeskTask : Alive(q)' => q = r
  BY <1>1, <1>3 DEF Alive
<1>5. OneDeep' /\ OneAlive' /\ Fresh'
  BY <1>1, <1>4 DEF Calm, OneDeep, Deep, OneAlive, Fresh
<1>6. Owned' /\ Signals'
  BY <1>1, <1>4 DEF Calm, Owned, Signals
<1>7. Spawning' /\ Stopping'
  BY <1>1, <1>4 DEF Calm, Spawning, Stopping
<1>8. Keeping' /\ Aborting'
  <2>1. \A q \in DeskTask : runner'[q].signal = runner[q].signal /\ runner'[q].cut = runner[q].cut
                             /\ (runner[q].at # "none" => runner'[q].at # "none")
    BY <1>1
  <2> QED
    BY <1>4, <2>1, ZenonT(60) DEF Calm, Keeping, Aborting
<1>9. Held'
  <2>1. keptHandle # 0 => keptHandle \in DeskTask
    BY DEF Calm, DeskTypes
  <2> QED
    BY <1>1, <2>1 DEF Calm, Held
<1>10. InDaemon' /\ InApp'
  BY <1>1, <1>4 DEF Calm, InDaemon, InApp
<1>11. ConnectedServes' /\ ServingShown'
  <2>1. ServingShown'
    BY <1>1, <1>3 DEF ServingShown, Serving, Alive
  <2>2. ConnectedServes'
    BY <1>1 DEF ConnectedServes, Serving, Alive
  <2> QED
    BY <2>1, <2>2
<1> QED
  BY <1>2, <1>5, <1>6, <1>7, <1>8, <1>9, <1>10, <1>11 DEF Calm

\* Every step of a task keeps the invariant.
LEMMA TaskKeeps ==
    ASSUME Calm, odd = {}, odd' = {}, NEW r \in DeskTask, RunnerStep(r)
    PROVE  Calm'
<1>1. ASSUME NEW l, NEW g, Go(r, l, g)
      PROVE  /\ ~runner[r].cut /\ (host = "daemon" => keptHandle = r)
             /\ runner' = [runner EXCEPT ![r].at = l, ![r].signal = g]
             /\ UNCHANGED <<host, valid, keptHandle, lock, command>>
  <2>1. ~runner[r].cut
    BY <1>1 DEF Go, Oddities
  <2> QED
    BY <1>1, <2>1 DEF Go, Oddities
<1>2. /\ host \in {"app", "daemon"} /\ shown \in {"none", "connecting", "connected", "disconnected", "error"}
      /\ host = "daemon" /\ keptHandle = r => shown # "none"
      /\ Alive(r) => runner[r].signal \in {"open", "sent"}
  BY DEF Calm, DeskTypes, InDaemon, Signals, DeskTask
<1>3. ASSUME NEW g, Finish(r, g), Alive(r), g = runner[r].signal
      PROVE  Calm'
  <2>1. /\ ~runner[r].cut /\ (host = "daemon" => keptHandle = r)
        /\ runner' = [runner EXCEPT ![r].at = "end", ![r].signal = runner[r].signal]
        /\ UNCHANGED <<host, valid, keptHandle, lock, command>>
    BY <1>1, <1>3 DEF Finish
  <2>2. shown' = "disconnected" /\ store' \in {0, r, store}
    BY <1>2, <1>3, <2>1 DEF Finish, Show
  <2> QED
    BY <1>3, <2>1, <2>2, TaskSteps
<1>4. ASSUME Wake(r),
             \/ host = "app" /\ (runner[r].signal # "sent" => Show("connecting"))
             \/ host = "daemon" /\ (runner[r].signal # "sent" => shown' = shown)
      PROVE  Calm'
  <2>1. Alive(r)
    BY <1>4 DEF Wake, Alive
  <2>2. CASE runner[r].signal = "sent"
    BY <1>3, <1>4, <2>1, <2>2 DEF Wake
  <2>3. CASE runner[r].signal # "sent"
    <3>1. runner[r].signal = "open" /\ Go(r, "connecting", runner[r].signal) /\ store' = store
      BY <1>2, <1>4, <2>1, <2>3 DEF Wake, Asked
    <3>2. /\ ~runner[r].cut /\ (host = "daemon" => keptHandle = r)
          /\ runner' = [runner EXCEPT ![r].at = "connecting", ![r].signal = runner[r].signal]
          /\ UNCHANGED <<host, valid, keptHandle, lock, command>>
      BY <1>1, <3>1
    <3>3. /\ shown' \in {"connecting", "connected", "disconnected", "error"}
          /\ shown' = "connected" => host = "daemon"
      BY <1>2, <1>4, <2>3, <3>2 DEF Show
    <3> QED
      BY <2>1, <3>1, <3>2, <3>3, TaskSteps
  <2> QED
    BY <2>2, <2>3
<1>5. ASSUME Connected(r)
      PROVE  Calm'
  <2>1. Alive(r) /\ Go(r, "serving", runner[r].signal)
    BY <1>5 DEF Connected, Alive
  <2>2. /\ ~runner[r].cut /\ (host = "daemon" => keptHandle = r)
        /\ runner' = [runner EXCEPT ![r].at = "serving", ![r].signal = runner[r].signal]
        /\ UNCHANGED <<host, valid, keptHandle, lock, command>>
    BY <1>1, <2>1
  <2>3. shown' = "connected" /\ store' = r
    BY <1>2, <1>5, <2>2 DEF Connected, Show, KeepMetrics
  <2> QED
    BY <2>1, <2>2, <2>3, TaskSteps
<1>6. ASSUME AttemptFails(r)
      PROVE  Calm'
  <2>1. Alive(r)
    BY <1>6 DEF AttemptFails, Alive
  <2>2. CASE runner[r].signal = "sent" /\ Finish(r, "sent")
    BY <1>3, <2>1, <2>2
  <2>3. ASSUME NEW l \in {"wake", "end"}, Show("error"), store' \in {0, store}, Go(r, l, runner[r].signal)
        PROVE  Calm'
    <3>1. /\ ~runner[r].cut /\ (host = "daemon" => keptHandle = r)
          /\ runner' = [runner EXCEPT ![r].at = l, ![r].signal = runner[r].signal]
          /\ UNCHANGED <<host, valid, keptHandle, lock, command>>
      BY <1>1, <2>3
    <3>2. shown' = "error"
      BY <1>2, <2>3, <3>1 DEF Show
    <3> QED
      BY <2>1, <2>3, <3>1, <3>2, TaskSteps
  <2>4. CASE Show("error") /\ store' \in {0, store} /\ Go(r, "end", runner[r].signal)
    BY <2>3, <2>4
  <2>5. CASE runner[r].signal # "sent" /\ Show("error") /\ store' = store /\ Go(r, "wake", Asked(r))
    <3>1. Asked(r) = runner[r].signal
      BY <1>2, <2>1 DEF Asked
    <3> QED
      BY <2>3, <2>5, <3>1
  <2> QED
    BY <1>6, <2>2, <2>4, <2>5 DEF AttemptFails
<1>7. ASSUME Lost(r), (host = "app" /\ Show("disconnected")) \/ (host = "daemon" /\ shown' = shown)
      PROVE  Calm'
  <2>1. Alive(r) /\ Go(r, "wake", runner[r].signal) /\ store' = store
    BY <1>7 DEF Lost, Alive
  <2>2. /\ ~runner[r].cut /\ (host = "daemon" => keptHandle = r)
        /\ runner' = [runner EXCEPT ![r].at = "wake", ![r].signal = runner[r].signal]
        /\ UNCHANGED <<host, valid, keptHandle, lock, command>>
    BY <1>1, <2>1
  <2>3. /\ shown' \in {"connecting", "connected", "disconnected", "error"}
        /\ shown' = "connected" => host = "daemon"
    BY <1>2, <1>7, <2>2 DEF Show
  <2> QED
    BY <2>1, <2>2, <2>3, TaskSteps
<1>8. ASSUME Told(r)
      PROVE  Calm'
  <2>1. Alive(r) /\ runner[r].signal \in {"sent", "closed"} /\ Finish(r, "sent")
    BY <1>8 DEF Told, Alive
  <2>2. runner[r].signal = "sent"
    BY <1>2, <2>1
  <2> QED
    BY <1>3, <2>1, <2>2
<1>9. ~Panics(r)
  BY <1>2 DEF Panics, Alive
<1>10. ASSUME Dies(r)
       PROVE  Calm'
  <2>1. /\ Alive(r) /\ runner[r].cut /\ runner' = [runner EXCEPT ![r].at = "end"]
        /\ UNCHANGED <<host, valid, shown, store, keptHandle, lock, command>>
    BY <1>10 DEF Dies
  <2>2. /\ runner' \in [DeskTask -> TaskState] /\ runner'[r].at = "end"
        /\ runner'[r].signal = runner[r].signal
        /\ \A q \in DeskTask : q # r => runner'[q] = runner[q]
    BY <2>1 DEF Calm, DeskTypes, TaskState
  <2>3. \A q \in DeskTask : ~Alive(q)'
    BY <2>1, <2>2 DEF Calm, OneAlive, Alive
  <2>4. DeskTypes'
    BY <2>1, <2>2 DEF Calm, DeskTypes
  <2>5. OneDeep' /\ OneAlive' /\ Fresh' /\ Owned' /\ Signals' /\ Spawning' /\ Stopping' /\ InDaemon' /\ InApp'
    BY <2>1, <2>2, <2>3 DEF Fresh, Calm, OneDeep, Deep, OneAlive, Owned, Signals, Spawning, Stopping, InDaemon, InApp
  <2>6. Keeping' /\ Aborting'
    <3>1. \A q \in DeskTask : runner'[q].signal = runner[q].signal /\ (runner[q].at # "none" => runner'[q].at # "none")
      BY <2>2
    <3> QED
      BY <2>1, <2>3, <3>1 DEF Calm, Keeping, Aborting
  <2>7. Held'
    <3>1. keptHandle # 0 => keptHandle \in DeskTask
      BY DEF Calm, DeskTypes
    <3> QED
      BY <2>1, <2>2, <3>1 DEF Calm, Held
  <2>8. ServingShown'
    BY <2>3 DEF ServingShown, Serving, Alive
  <2>9. shown = "connected" => \E c \in DeskCommand : command[c].at = "status"
    BY <1>2, <2>1 DEF Calm, InDaemon, InApp
  <2>10. ConnectedServes'
    BY <2>1, <2>9 DEF ConnectedServes
  <2> QED
    BY <2>4, <2>5, <2>6, <2>7, <2>8, <2>10 DEF Calm
<1> QED
  BY <1>4, <1>5, <1>6, <1>7, <1>8, <1>9, <1>10
  DEF RunnerStep, WakeInApp, WakeInDaemon, ConnectedInApp, ConnectedInDaemon, FailsInApp, FailsInDaemon,
      LostInApp, LostInDaemon

\* A command that is given or that looks at the status enters none of the places the
\* invariant is about, but that before the status is marked or the task started.
LEMMA EnteringKeeps ==
    ASSUME Calm, NEW c \in DeskCommand, command[c].at \in {"idle", "check"},
           command' \in [DeskCommand -> CommandState],
           command'[c].at \in {"check", "mark", "stop", "done"} \/ (host = "daemon" /\ command'[c].at = "spawn"),
           host = "daemon" => command'[c].at # "mark",
           \A d \in DeskCommand : d # c => command'[d] = command[d],
           UNCHANGED <<host, valid, shown, store, keptHandle, lock, runner>>
    PROVE  Calm'
<1>1. \A d \in DeskCommand : \A l \in {"keep", "abort", "status", "metrics", "exit"} :
         /\ command'[d].at = l => d # c
         /\ command[d].at = l => d # c
         /\ command'[d].at = l <=> command[d].at = l
  OBVIOUS
<1>2. \A d \in DeskCommand : Deep(d)' <=> Deep(d)
  BY <1>1 DEF Deep
<1>3. DeskTypes' /\ OneDeep' /\ OneAlive' /\ Fresh'
  BY <1>2 DEF Calm, DeskTypes, OneDeep, OneAlive, Alive, Fresh
<1>4. Owned' /\ Signals'
  <2>1. \A r \in DeskTask : Alive(r)' <=> Alive(r)
    BY DEF Alive
  <2> QED
    BY <1>1, <2>1 DEF Calm, Owned, Signals
<1>5. Spawning' /\ Stopping'
  BY <1>1 DEF Calm, Spawning, Stopping, Alive
<1>6. Keeping' /\ Aborting'
  BY <1>1 DEF Calm, Keeping, Aborting, Alive
<1>7. Held'
  <2>1. lock # 0 => lock \in DeskCommand
    BY DEF Calm, DeskTypes
  <2> QED
    BY <1>1, <2>1 DEF Calm, Held
<1>8. InDaemon' /\ InApp'
  BY <1>1 DEF Calm, InDaemon, InApp, Alive
<1>9. ConnectedServes' /\ ServingShown'
  BY <1>1 DEF Calm, ConnectedServes, ServingShown, Serving, Alive
<1> QED
  BY <1>3, <1>4, <1>5, <1>6, <1>7, <1>8, <1>9 DEF Calm

\* Giving a command keeps the invariant.
LEMMA GivenKeeps ==
    ASSUME Calm, NEW c \in DeskCommand, CommandGiven(c)
    PROVE  Calm'
<1>1. ASSUME NEW op \in Ops, NEW l \in {"mark", "check", "stop", "done"}, Give(c, op, l), host = "daemon" => l # "mark"
      PROVE  Calm'
  <2>1. /\ command[c].at = "idle" /\ command' = [command EXCEPT ![c] = [op |-> op, at |-> l, run |-> 0]]
        /\ UNCHANGED <<host, valid, shown, store, keptHandle, lock, runner>>
    BY <1>1 DEF Give
  <2>2. [op |-> op, at |-> l, run |-> 0] \in CommandState
    BY DEF CommandState, Places
  <2>3. /\ command' \in [DeskCommand -> CommandState] /\ command'[c].at = l
        /\ \A d \in DeskCommand : d # c => command'[d] = command[d]
    BY <2>1, <2>2 DEF Calm, DeskTypes
  <2> QED
    BY <1>1, <2>1, <2>3, EnteringKeeps
<1>2. CASE FromTray(c)
  BY <1>1, <1>2 DEF FromTray, Ops
<1>3. CASE StartAll(c)
  BY <1>1, <1>3 DEF StartAll, Ops
<1>4. CASE FromWindow(c)
  BY <1>1, <1>4 DEF FromWindow, Ops
<1>5. CASE AutoStart(c)
  BY <1>1, <1>5 DEF AutoStart, Ops
<1>6. CASE DaemonRequest(c)
  BY <1>1, <1>6 DEF DaemonRequest, Ops
<1> QED
  BY <1>2, <1>3, <1>4, <1>5, <1>6 DEF CommandGiven

\* The look at the status keeps the invariant.
LEMMA CheckKeeps ==
    ASSUME Calm, NEW c \in DeskCommand, CheckInApp(c) \/ CheckInDaemon(c)
    PROVE  Calm'
<1>1. PICK l \in {"mark", "done", "spawn"} :
         /\ command' = [command EXCEPT ![c].at = l]
         /\ l = "spawn" => host = "daemon"
         /\ l = "mark" => host = "app"
  BY DEF CheckInApp, CheckInDaemon, Proceed
<1>2. command[c].at = "check" /\ UNCHANGED <<host, valid, shown, store, keptHandle, lock, runner>>
  BY DEF CheckInApp, CheckInDaemon
<1>3. /\ command' \in [DeskCommand -> CommandState] /\ command'[c].at = l
      /\ \A d \in DeskCommand : d # c => command'[d] = command[d]
  BY <1>1 DEF Calm, DeskTypes, CommandState, Places
<1> QED
  BY <1>1, <1>2, <1>3, EnteringKeeps

\* Setting the status keeps the invariant.
LEMMA MarkKeeps ==
    ASSUME Calm, odd' = {}, NEW c \in DeskCommand, Mark(c)
    PROVE  Calm'
<1>1. PICK l \in {"spawn", "done"} :
         command' = [command EXCEPT ![c].at = l] /\ command[c].at = "mark" /\ shown' = "connecting"
         /\ UNCHANGED <<host, valid, store, keptHandle, lock, runner>>
  BY DEF Mark, Proceed
<1>2. /\ \A r \in DeskTask : ~Alive(r)
      /\ \A d \in DeskCommand : d # c => command[d].at \notin {"mark", "spawn", "keep", "abort", "status", "metrics"}
  BY DEF Mark, Doubling, Crowding
<1>3. /\ command' \in [DeskCommand -> CommandState] /\ command'[c].at = l
      /\ \A d \in DeskCommand : d # c => command'[d].at = command[d].at
      /\ \A d \in DeskCommand : command'[d].run = command[d].run
  BY <1>1, CommandMoves DEF Calm, DeskTypes, Places
<1>4. \A r \in DeskTask : ~Alive(r)'
  BY <1>1, <1>2 DEF Alive
<1>5. host = "app"
  BY <1>1 DEF Calm, InDaemon, DeskTypes
<1>6. \A d \in DeskCommand : command'[d].at \notin {"keep", "abort", "status", "metrics"}
  BY <1>2, <1>3
<1>7. DeskTypes' /\ OneDeep' /\ OneAlive' /\ Fresh' /\ Owned' /\ Signals'
  BY <1>1, <1>2, <1>3, <1>4, <1>6 DEF Calm, DeskTypes, OneDeep, Deep, OneAlive, Fresh, Owned, Signals
<1>8. Spawning' /\ Keeping' /\ Aborting' /\ Stopping'
  BY <1>1, <1>4, <1>6 DEF Spawning, Keeping, Aborting, Stopping
<1>9. Held'
  <2>1. lock = 0
    BY <1>1, <1>2 DEF Calm, Held, DeskTypes
  <2> QED
    BY <1>1, <2>1 DEF Calm, Held
<1>10. InDaemon' /\ InApp'
  BY <1>1, <1>3, <1>4, <1>5 DEF Calm, InDaemon, InApp
<1>11. ConnectedServes' /\ ServingShown'
  BY <1>1, <1>4 DEF ConnectedServes, ServingShown, Serving, Alive
<1> QED
  BY <1>7, <1>8, <1>9, <1>10, <1>11 DEF Calm

\* Starting the task keeps the invariant.
LEMMA SpawnKeeps ==
    ASSUME Calm, odd' = {}, NEW c \in DeskCommand, Spawn(c)
    PROVE  Calm'
<1>1. PICK r \in DeskTask :
         /\ runner[r].at = "none" /\ runner' = [runner EXCEPT ![r].at = "wake"]
         /\ command' = [command EXCEPT ![c].at = "keep", ![c].run = r]
  BY DEF Spawn
<1>2. command[c].at = "spawn" /\ UNCHANGED <<host, valid, shown, store, keptHandle, lock>>
  BY DEF Spawn
<1>3. /\ \A q \in DeskTask : ~Alive(q)
      /\ \A d \in DeskCommand : d # c => command[d].at \notin {"mark", "spawn", "keep", "abort", "status", "metrics"}
  BY DEF Spawn, Doubling, Crowding
<1>4. /\ command' \in [DeskCommand -> CommandState] /\ command'[c].at = "keep" /\ command'[c].run = r
      /\ \A d \in DeskCommand : d # c => command'[d] = command[d]
  BY <1>1 DEF Calm, DeskTypes, CommandState, Places
<1>5. /\ runner' \in [DeskTask -> TaskState] /\ runner'[r].at = "wake"
      /\ runner'[r].signal = runner[r].signal /\ runner'[r].cut = runner[r].cut
      /\ \A q \in DeskTask : q # r => runner'[q] = runner[q]
  BY <1>1 DEF Calm, DeskTypes, TaskState
<1>6. runner[r].signal = "open" /\ runner[r].cut = FALSE
  BY <1>1 DEF Calm, Fresh
<1>7. \A q \in DeskTask : Alive(q)' => q = r
  BY <1>3, <1>5 DEF Alive
<1>8. keptHandle # r
  BY <1>1 DEF Calm, Held, DeskTask
<1>9. lock = 0
  BY <1>2, <1>3 DEF Calm, Held, DeskTypes
<1>10. shown # "connected"
  <2>1. \A d \in DeskCommand : command[d].at # "status"
    BY <1>2, <1>3
  <2> QED
    BY <1>3, <2>1 DEF Calm, ConnectedServes, Serving, Alive
<1>11. \A d \in DeskCommand : command'[d].at \in {"keep", "abort", "status", "metrics", "spawn", "mark"} => d = c
  BY <1>3, <1>4
<1>12. DeskTypes' /\ OneDeep' /\ OneAlive' /\ Fresh'
  BY <1>1, <1>2, <1>4, <1>5, <1>7, <1>11 DEF Calm, DeskTypes, OneDeep, Deep, OneAlive, Fresh
<1>13. Owned' /\ Signals'
  BY <1>4, <1>5, <1>6, <1>7 DEF Owned, Signals
<1>14. Spawning' /\ Aborting' /\ Stopping'
  BY <1>4, <1>11 DEF Spawning, Aborting, Stopping
<1>15. Keeping'
  BY <1>2, <1>4, <1>5, <1>6, <1>7, <1>8, <1>11 DEF Keeping
<1>16. Held'
  <2>1. keptHandle # 0 => keptHandle \in DeskTask
    BY DEF Calm, DeskTypes
  <2> QED
    BY <1>2, <1>5, <1>9, <2>1 DEF Calm, Held
<1>17. InDaemon' /\ InApp'
  <2>1. InDaemon'
    BY <1>2, <1>4, <1>5, <1>6, <1>7, <1>9, <1>11 DEF Calm, InDaemon
  <2>2. InApp'
    BY <1>2, <1>4, <1>10 DEF Calm, InApp
  <2> QED
    BY <2>1, <2>2
<1>18. ConnectedServes' /\ ServingShown'
  BY <1>2, <1>5, <1>7, <1>10 DEF ConnectedServes, ServingShown, Serving, Alive
<1> QED
  BY <1>12, <1>13, <1>14, <1>15, <1>16, <1>17, <1>18 DEF Calm

\* Keeping the handle keeps the invariant: the task whose sender is dropped is over.
LEMMA KeepKeeps ==
    ASSUME Calm, NEW c \in DeskCommand, KeepInApp(c) \/ KeepInDaemon(c)
    PROVE  Calm'
<1>1. /\ command[c].at = "keep" /\ lock = 0 /\ keptHandle' = command[c].run
      /\ runner' = IF keptHandle = 0 THEN runner ELSE [runner EXCEPT ![keptHandle].signal = Dropped(keptHandle)]
      /\ command' = [command EXCEPT ![c].at = "done"]
      /\ UNCHANGED <<host, valid, lock>>
      /\ \/ host = "app" /\ UNCHANGED <<shown, store>>
         \/ host = "daemon" /\ shown' = "connecting" /\ store' = 0
  BY DEF KeepInApp, KeepInDaemon, Keep, Proceed, NoCommand
<1>2. /\ command[c].run \in DeskTask /\ keptHandle # command[c].run
      /\ runner[command[c].run].at # "none"
      /\ \A q \in DeskTask : Alive(q) => q = command[c].run /\ ~runner[q].cut
  BY <1>1 DEF Calm, Keeping
<1>3. /\ command' \in [DeskCommand -> CommandState] /\ command'[c].at = "done"
      /\ \A d \in DeskCommand : d # c => command'[d].at = command[d].at
      /\ \A d \in DeskCommand : command'[d].run = command[d].run
  BY <1>1, CommandMoves DEF Calm, DeskTypes, Places
<1>4. /\ runner' \in [DeskTask -> TaskState]
      /\ \A q \in DeskTask : runner'[q].at = runner[q].at /\ runner'[q].cut = runner[q].cut
      /\ \A q \in DeskTask : q # keptHandle => runner'[q] = runner[q]
  <2>1. CASE keptHandle = 0
    BY <1>1, <2>1 DEF Calm, DeskTypes
  <2>2. CASE keptHandle # 0
    <3>1. /\ keptHandle \in DeskTask /\ Dropped(keptHandle) \in {"open", "closed", "sent", "spent"}
          /\ runner' = [runner EXCEPT ![keptHandle].signal = Dropped(keptHandle)]
      BY <1>1, <2>2 DEF Calm, DeskTypes, TaskState, Dropped
    <3> QED
      BY <3>1 DEF Calm, DeskTypes, TaskState
  <2> QED
    BY <2>1, <2>2
<1>5. \A q \in DeskTask : /\ Alive(q)' <=> Alive(q)
                          /\ Alive(q) => q = command[c].run /\ runner'[q] = runner[q]
                          /\ Serving(q)' <=> Serving(q)
                          /\ Serving(q) => Alive(q)
  BY <1>2, <1>4 DEF Alive, Serving
<1>6. \A d \in DeskCommand : d # c => ~Deep(d)
  BY <1>1 DEF Calm, OneDeep, Deep
<1>7. \A d \in DeskCommand : command'[d].at \notin {"keep", "abort", "status", "metrics"} /\ ~Deep(d)'
  BY <1>1, <1>3, <1>6 DEF Deep
<1>8. \A r \in DeskTask : Alive(r) => runner[r].signal = "open" /\ ~runner[r].cut
  <2>1. \A d \in DeskCommand : command[d].at # "abort"
    BY <1>1, <1>6 DEF Deep
  <2> QED
    BY <1>2, <2>1 DEF Calm, Signals
<1>9. DeskTypes' /\ OneDeep' /\ OneAlive'
  BY <1>1, <1>2, <1>3, <1>4, <1>5, <1>7 DEF Calm, DeskTypes, OneDeep, OneAlive
<1>10. Fresh'
  <2>1. \A q \in DeskTask : runner'[q].at = "none" => runner'[q] = runner[q]
    BY <1>1, <1>4 DEF Calm, Held, DeskTask
  <2> QED
    BY <2>1 DEF Calm, Fresh
<1>11. Owned' /\ Signals'
  BY <1>1, <1>5, <1>8 DEF Owned, Signals
<1>12. Spawning' /\ Keeping' /\ Aborting' /\ Stopping'
  BY <1>1, <1>7 DEF Spawning, Keeping, Aborting, Stopping, Deep
<1>13. Held'
  BY <1>1, <1>2, <1>4 DEF Held
<1>14. InDaemon' /\ InApp'
  BY <1>1, <1>3, <1>5, <1>7, <1>8 DEF Calm, InDaemon, InApp
<1>15. CASE host = "app"
  <2>1. \A d \in DeskCommand : command[d].at # "status"
    BY <1>1, <1>6 DEF Deep
  <2>2. ConnectedServes'
    BY <1>1, <1>5, <1>15, <2>1 DEF Calm, ConnectedServes
  <2>3. ServingShown'
    BY <1>1, <1>5, <1>15 DEF Calm, ServingShown
  <2> QED
    BY <1>9, <1>10, <1>11, <1>12, <1>13, <1>14, <2>2, <2>3 DEF Calm
<1>16. CASE host = "daemon"
  <2>1. \A q \in DeskTask : ~Serving(q)
    BY <1>2, <1>5, <1>8, <1>16 DEF Calm, InDaemon, Serving
  <2>2. ConnectedServes' /\ ServingShown'
    BY <1>1, <1>5, <1>16, <2>1 DEF ConnectedServes, ServingShown
  <2> QED
    BY <1>9, <1>10, <1>11, <1>12, <1>13, <1>14, <2>2 DEF Calm
<1> QED
  BY <1>15, <1>16 DEF Calm, DeskTypes

\* Taking the handle, and giving the signal, keeps the invariant.
LEMMA TakeKeeps ==
    ASSUME Calm, odd' = {}, NEW c \in DeskCommand, TakeHandle(c)
    PROVE  Calm'
<1>1. /\ command[c].at = "stop" /\ host = "app" /\ lock = 0
      /\ UNCHANGED <<host, valid, shown, store>>
      /\ \A d \in DeskCommand : d # c => command[d].at \notin {"mark", "spawn", "keep", "abort", "status", "metrics"}
  BY DEF TakeHandle, Crowding, NoCommand
<1>2. \A d \in DeskCommand : command[d].at \notin {"spawn", "keep", "abort", "status", "metrics"}
  BY <1>1
<1>3. \A r \in DeskTask : Alive(r) /\ ~runner[r].cut => keptHandle = r
  BY <1>2 DEF Calm, Owned
<1>4. \A r \in DeskTask : Alive(r) /\ runner[r].cut => shown # "connected" /\ runner[r].signal = "sent"
  BY <1>1, <1>2 DEF Calm, InApp, Signals
<1>5. shown = "connected" => \E r \in DeskTask : Serving(r) /\ store = r
  BY <1>1, <1>2 DEF Calm, ConnectedServes
<1>6. CASE keptHandle = 0
  <2>1. command' = [command EXCEPT ![c].at = "status"] /\ UNCHANGED <<keptHandle, lock, runner>>
    BY <1>6 DEF TakeHandle, Proceed
  <2>2. /\ command' \in [DeskCommand -> CommandState] /\ command'[c].at = "status"
        /\ \A d \in DeskCommand : d # c => command'[d].at = command[d].at
        /\ \A d \in DeskCommand : command'[d].run = command[d].run
    BY <2>1, CommandMoves DEF Calm, DeskTypes, Places
  <2>3. \A d \in DeskCommand : command'[d].at \in {"spawn", "keep", "abort", "status", "metrics"} => d = c
    BY <1>2, <2>2
  <2>4. \A r \in DeskTask : (Alive(r)' <=> Alive(r)) /\ (Serving(r)' <=> Serving(r)) /\ (Alive(r) => runner[r].cut)
    BY <1>3, <1>6, <2>1 DEF Alive, Serving, DeskTask
  <2>5. DeskTypes' /\ OneDeep' /\ OneAlive' /\ Fresh'
    BY <1>1, <2>1, <2>2, <2>3, <2>4 DEF Calm, DeskTypes, OneDeep, Deep, OneAlive, Fresh
  <2>6. Owned' /\ Signals'
    BY <1>4, <1>6, <2>1, <2>4 DEF Owned, Signals
  <2>7. Spawning' /\ Keeping' /\ Aborting' /\ Stopping'
    BY <1>1, <2>1, <2>2, <2>3, <2>4 DEF Spawning, Keeping, Aborting, Stopping
  <2>8. Held' /\ InDaemon' /\ InApp'
    BY <1>1, <1>6, <2>1, <2>2, <2>4 DEF Calm, Held, InDaemon, InApp
  <2>9. ConnectedServes' /\ ServingShown'
    BY <1>1, <1>5, <2>1, <2>4 DEF Calm, ConnectedServes, ServingShown
  <2> QED
    BY <2>5, <2>6, <2>7, <2>8, <2>9 DEF Calm
<1>7. CASE keptHandle # 0
  <2>1. /\ runner' = [runner EXCEPT ![keptHandle].signal = "sent"] /\ lock' = c /\ keptHandle' = 0
        /\ command' = [command EXCEPT ![c].at = "abort", ![c].run = keptHandle]
        /\ keptHandle \in DeskTask
    BY <1>7 DEF TakeHandle, Calm, DeskTypes
  <2>2. /\ command' \in [DeskCommand -> CommandState] /\ command'[c].at = "abort" /\ command'[c].run = keptHandle
        /\ \A d \in DeskCommand : d # c => command'[d] = command[d]
    BY <2>1 DEF Calm, DeskTypes, CommandState, Places
  <2>3. /\ runner' \in [DeskTask -> TaskState] /\ runner'[keptHandle].signal = "sent"
        /\ runner'[keptHandle].cut = runner[keptHandle].cut /\ runner'[keptHandle].at = runner[keptHandle].at
        /\ \A q \in DeskTask : q # keptHandle => runner'[q] = runner[q]
    BY <2>1 DEF Calm, DeskTypes, TaskState
  <2>4. \A d \in DeskCommand : command'[d].at \in {"spawn", "keep", "abort", "status", "metrics"} => d = c
    BY <1>2, <2>2
  <2>5. \A r \in DeskTask : (Alive(r)' <=> Alive(r)) /\ (Serving(r)' <=> Serving(r)) /\ runner'[r].cut = runner[r].cut
                            /\ runner'[r].at = runner[r].at
    BY <2>3 DEF Alive, Serving
  <2>6. DeskTypes' /\ OneDeep' /\ OneAlive'
    BY <1>1, <2>1, <2>2, <2>3, <2>4, <2>5 DEF Calm, DeskTypes, OneDeep, Deep, OneAlive
  <2>7. Fresh'
    BY <1>7, <2>1, <2>3 DEF Calm, Fresh, Held
  <2>8. Owned' /\ Signals'
    <3>1. Owned'
      BY <1>3, <2>1, <2>2, <2>5 DEF Owned
    <3>2. Signals'
      BY <1>3, <1>4, <2>2, <2>3, <2>5 DEF Signals, Calm
    <3> QED
      BY <3>1, <3>2
  <2>9. Spawning' /\ Keeping' /\ Stopping'
    BY <2>2, <2>4 DEF Spawning, Keeping, Stopping
  <2>10. \A r \in DeskTask : Alive(r) => r = keptHandle
    <3>1. ASSUME NEW r \in DeskTask, Alive(r), runner[r].cut
          PROVE  r = keptHandle
      BY <1>1, <1>7, <2>1, <3>1 DEF Calm, Owned
    <3> QED
      BY <1>3, <3>1
  <2>11. Aborting'
    BY <1>1, <2>1, <2>2, <2>3, <2>4, <2>5, <2>10 DEF Aborting
  <2>12. Held' /\ InDaemon' /\ InApp'
    BY <1>1, <1>4, <2>1, <2>2, <2>5 DEF Calm, Held, InDaemon, InApp
  <2>13. ConnectedServes' /\ ServingShown'
    BY <1>1, <1>5, <2>1, <2>3, <2>5 DEF Calm, ConnectedServes, ServingShown
  <2> QED
    BY <2>6, <2>7, <2>8, <2>9, <2>11, <2>12, <2>13 DEF Calm
<1> QED
  BY <1>6, <1>7

\* The abort keeps the invariant.
LEMMA AbortKeeps ==
    ASSUME Calm, NEW c \in DeskCommand, Abort(c)
    PROVE  Calm'
<1>1. /\ command[c].at = "abort" /\ lock' = 0 /\ command' = [command EXCEPT ![c].at = "status"]
      /\ runner' \in IF Alive(command[c].run) THEN AbortOf(command[c].run) ELSE {runner}
      /\ UNCHANGED <<host, valid, shown, store, keptHandle>>
  BY DEF Abort, Proceed, NoCommand
<1>2. /\ host = "app" /\ keptHandle = 0 /\ command[c].run \in DeskTask
      /\ \A r \in DeskTask : Alive(r) => r = command[c].run
  BY <1>1 DEF Calm, Aborting
<1>3. /\ command' \in [DeskCommand -> CommandState] /\ command'[c].at = "status"
      /\ \A d \in DeskCommand : d # c => command'[d].at = command[d].at
      /\ \A d \in DeskCommand : command'[d].run = command[d].run
  BY <1>1, CommandMoves DEF Calm, DeskTypes, Places
<1>4. \A d \in DeskCommand : command'[d].at \in {"spawn", "keep", "abort", "status", "metrics"} => d = c
  BY <1>1, <1>2, <1>3 DEF Calm, OneDeep, Deep
<1>5. /\ runner' \in [DeskTask -> TaskState]
      /\ \A q \in DeskTask : q # command[c].run => runner'[q] = runner[q]
      /\ \A q \in DeskTask : runner'[q].at = "none" => runner'[q] = runner[q]
      /\ \A q \in DeskTask : Alive(q)' => Alive(q) /\ runner'[q].cut /\ runner'[q].signal = "sent"
  <2>1. CASE ~Alive(command[c].run)
    <3>1. runner' = runner
      BY <1>1, <2>1
    <3>2. \A q \in DeskTask : ~Alive(q)'
      BY <1>2, <2>1, <3>1 DEF Alive
    <3> QED
      BY <3>1, <3>2 DEF Calm, DeskTypes
  <2>2. CASE Alive(command[c].run) /\ runner' = [runner EXCEPT ![command[c].run].at = "end", ![command[c].run].signal = "sent"]
    <3>1. PICK k \in DeskTask : k = command[c].run
      BY <1>2
    <3>2. runner \in [DeskTask -> TaskState] /\ runner' = [runner EXCEPT ![k].at = "end", ![k].signal = "sent"]
      BY <2>2, <3>1 DEF Calm, DeskTypes
    <3>3. /\ runner' \in [DeskTask -> TaskState] /\ runner'[k].at = "end"
          /\ \A q \in DeskTask : q # k => runner'[q] = runner[q]
      BY <3>2, ZenonT(60) DEF TaskState
    <3> QED
      BY <1>2, <3>1, <3>3 DEF Alive
  <2>3. CASE Alive(command[c].run) /\ runner' = [runner EXCEPT ![command[c].run].cut = TRUE, ![command[c].run].signal = "sent"]
    <3>1. PICK k \in DeskTask : k = command[c].run
      BY <1>2
    <3>2. runner \in [DeskTask -> TaskState] /\ runner' = [runner EXCEPT ![k].cut = TRUE, ![k].signal = "sent"]
      BY <2>3, <3>1 DEF Calm, DeskTypes
    <3>3. /\ runner' \in [DeskTask -> TaskState] /\ runner'[k].at = runner[k].at
          /\ runner'[k].cut /\ runner'[k].signal = "sent"
          /\ \A q \in DeskTask : q # k => runner'[q] = runner[q]
      BY <3>2 DEF TaskState
    <3> QED
      BY <1>2, <2>3, <3>1, <3>3 DEF Alive
  <2> QED
    BY <1>1, <2>1, <2>2, <2>3 DEF AbortOf
<1>6. DeskTypes' /\ OneDeep' /\ OneAlive' /\ Fresh'
  BY <1>1, <1>3, <1>4, <1>5 DEF Calm, DeskTypes, OneDeep, Deep, OneAlive, Fresh
<1>7. Owned' /\ Signals'
  BY <1>1, <1>2, <1>5 DEF Owned, Signals
<1>8. Spawning' /\ Keeping' /\ Aborting' /\ Stopping'
  BY <1>1, <1>2, <1>3, <1>4, <1>5 DEF Spawning, Keeping, Aborting, Stopping
<1>9. Held' /\ InDaemon' /\ InApp'
  BY <1>1, <1>2, <1>3 DEF Calm, Held, InDaemon, InApp
<1>10. ConnectedServes'
  BY <1>2, <1>3 DEF ConnectedServes
<1>11. ServingShown'
  BY <1>5 DEF ServingShown, Serving, Alive
<1> QED
  BY <1>6, <1>7, <1>8, <1>9, <1>10, <1>11 DEF Calm

\* Showing that the tunnel is stopped, and forgetting its metrics, keeps the invariant.
LEMMA StoppedKeeps ==
    ASSUME Calm, NEW c \in DeskCommand, ShowStopped(c) \/ DropMetrics(c)
    PROVE  Calm'
<1>1. PICK l \in {"metrics", "done"} : command' = [command EXCEPT ![c].at = l]
  BY DEF ShowStopped, DropMetrics, Proceed
<1>2. /\ UNCHANGED <<host, valid, keptHandle, lock, runner>>
      /\ store' \in {0, store}
      /\ \/ command[c].at = "status" /\ shown' = "disconnected"
         \/ command[c].at = "metrics" /\ shown' = shown
  BY DEF ShowStopped, DropMetrics
<1>3. /\ host = "app" /\ shown' # "connected" /\ shown' \in {"none", "connecting", "connected", "disconnected", "error"}
      /\ \A r \in DeskTask : Alive(r) => runner[r].cut
  BY <1>2 DEF Calm, Stopping, DeskTypes
<1>4. /\ command' \in [DeskCommand -> CommandState] /\ command'[c].at = l
      /\ \A d \in DeskCommand : d # c => command'[d].at = command[d].at
      /\ \A d \in DeskCommand : command'[d].run = command[d].run
  BY <1>1, CommandMoves DEF Calm, DeskTypes, Places
<1>5. \A d \in DeskCommand : command'[d].at \in {"spawn", "keep", "abort", "status", "metrics"} => d = c /\ l = "metrics"
  BY <1>2, <1>3, <1>4 DEF Calm, OneDeep, Deep
<1>6. \A r \in DeskTask : (Alive(r)' <=> Alive(r)) /\ (Serving(r)' <=> Serving(r)) /\ (Serving(r) => Alive(r))
  BY <1>2 DEF Alive, Serving
<1>7. DeskTypes' /\ OneDeep' /\ OneAlive' /\ Fresh'
  BY <1>2, <1>3, <1>4, <1>5, <1>6 DEF Calm, DeskTypes, OneDeep, Deep, OneAlive, Fresh
<1>8. Owned' /\ Signals'
  BY <1>2, <1>3, <1>6 DEF Calm, Owned, Signals
<1>9. Spawning' /\ Keeping' /\ Aborting' /\ Stopping'
  BY <1>2, <1>3, <1>4, <1>5, <1>6 DEF Spawning, Keeping, Aborting, Stopping
<1>10. Held'
  <2>1. lock = 0
    BY <1>2, <1>3 DEF Calm, Held, OneDeep, Deep, DeskTypes
  <2> QED
    BY <1>2, <2>1 DEF Calm, Held
<1>11. InDaemon' /\ InApp'
  BY <1>2, <1>3, <1>4, <1>6 DEF Calm, InDaemon, InApp
<1>12. ConnectedServes'
  BY <1>3 DEF ConnectedServes
<1>13. ServingShown'
  BY <1>2, <1>3, <1>6 DEF Calm, ServingShown, Signals
<1> QED
  BY <1>7, <1>8, <1>9, <1>10, <1>11, <1>12, <1>13 DEF Calm

\* Stopping the tunnel in the daemon keeps the invariant.
LEMMA DaemonStopKeeps ==
    ASSUME Calm, odd' = {}, NEW c \in DeskCommand, StopInDaemon(c)
    PROVE  Calm'
<1>1. /\ command[c].at = "stop" /\ host = "daemon" /\ keptHandle' = 0 /\ shown' = "none" /\ store' = 0
      /\ UNCHANGED <<host, valid, lock>>
      /\ runner' \in IF keptHandle # 0 /\ Alive(keptHandle) THEN AbortOf(keptHandle) ELSE {runner}
      /\ \A d \in DeskCommand : d # c => command[d].at \notin {"mark", "spawn", "keep", "abort", "status", "metrics"}
  BY DEF StopInDaemon, Crowding
<1>2. PICK l \in {"exit", "done"} : command' = [command EXCEPT ![c].at = l]
  BY DEF StopInDaemon, Proceed
<1>3. /\ command' \in [DeskCommand -> CommandState] /\ command'[c].at = l
      /\ \A d \in DeskCommand : d # c => command'[d].at = command[d].at
      /\ \A d \in DeskCommand : command'[d].run = command[d].run
  BY <1>2, CommandMoves DEF Calm, DeskTypes, Places
<1>4. \A d \in DeskCommand : command'[d].at \notin {"mark", "spawn", "keep", "abort", "status", "metrics"}
  BY <1>1, <1>3
<1>5. \A r \in DeskTask : Alive(r) => (runner[r].cut /\ runner[r].signal = "sent") \/ keptHandle = r
  <2>1. \A d \in DeskCommand : command[d].at \notin {"keep", "abort"}
    BY <1>1
  <2> QED
    BY <2>1 DEF Calm, Owned, Signals
<1>6. /\ runner' \in [DeskTask -> TaskState]
      /\ \A q \in DeskTask : q # keptHandle => runner'[q] = runner[q]
      /\ \A q \in DeskTask : runner'[q].at = "none" => runner'[q] = runner[q]
      /\ \A q \in DeskTask : Alive(q)' => Alive(q) /\ runner'[q].cut /\ runner'[q].signal = "sent"
  <2>1. CASE ~(keptHandle # 0 /\ Alive(keptHandle))
    <3>1. runner' = runner
      BY <1>1, <2>1
    <3>2. \A q \in DeskTask : Alive(q)' => Alive(q) /\ q # keptHandle
      BY <2>1, <3>1 DEF Alive, DeskTask
    <3> QED
      BY <1>5, <3>1, <3>2 DEF Calm, DeskTypes
  <2>2. CASE keptHandle # 0 /\ Alive(keptHandle)
    <3>1. keptHandle \in DeskTask /\ \A q \in DeskTask : Alive(q) => q = keptHandle
      BY <2>2 DEF Calm, DeskTypes, OneAlive
    <3>2. CASE runner' = [runner EXCEPT ![keptHandle].at = "end", ![keptHandle].signal = "sent"]
      <4>1. /\ runner' \in [DeskTask -> TaskState] /\ runner'[keptHandle].at = "end"
            /\ \A q \in DeskTask : q # keptHandle => runner'[q] = runner[q]
        BY <3>1, <3>2, ZenonT(60) DEF Calm, DeskTypes, TaskState
      <4> QED
        BY <3>1, <4>1 DEF Alive
    <3>3. CASE runner' = [runner EXCEPT ![keptHandle].cut = TRUE, ![keptHandle].signal = "sent"]
      <4>1. /\ runner' \in [DeskTask -> TaskState] /\ runner'[keptHandle].at = runner[keptHandle].at
            /\ runner'[keptHandle].cut /\ runner'[keptHandle].signal = "sent"
            /\ \A q \in DeskTask : q # keptHandle => runner'[q] = runner[q]
        BY <3>1, <3>3 DEF Calm, DeskTypes, TaskState
      <4> QED
        BY <2>2, <3>1, <4>1 DEF Alive
    <3> QED
      BY <1>1, <2>2, <3>2, <3>3 DEF AbortOf
  <2> QED
    BY <2>1, <2>2
<1>7. DeskTypes' /\ OneDeep' /\ OneAlive' /\ Fresh'
  BY <1>1, <1>3, <1>4, <1>6 DEF Calm, DeskTypes, OneDeep, Deep, OneAlive, Fresh
<1>8. Owned' /\ Signals'
  BY <1>1, <1>6 DEF Owned, Signals
<1>9. Spawning' /\ Keeping' /\ Aborting' /\ Stopping'
  BY <1>4 DEF Spawning, Keeping, Aborting, Stopping
<1>10. Held' /\ InDaemon' /\ InApp'
  BY <1>1, <1>4, <1>6 DEF Calm, Held, InDaemon, InApp
<1>11. ConnectedServes'
  BY <1>1 DEF ConnectedServes
<1>12. ServingShown'
  BY <1>6 DEF ServingShown, Serving, Alive
<1> QED
  BY <1>7, <1>8, <1>9, <1>10, <1>11, <1>12 DEF Calm

\* The exit of the process keeps the invariant.
LEMMA ExitKeeps ==
    ASSUME Calm, NEW c \in DeskCommand, ProcessExits(c)
    PROVE  Calm'
<1>1. /\ command[c].at = "exit" /\ keptHandle' = 0 /\ shown' = "none" /\ store' = 0
      /\ runner' = [r \in DeskTask |-> [runner[r] EXCEPT !.at = "end"]]
      /\ command' = [d \in DeskCommand |-> [op |-> "none", at |-> "done", run |-> 0]]
      /\ UNCHANGED <<host, valid, lock>>
  BY DEF ProcessExits
<1>2. host = "daemon" /\ lock = 0
  BY <1>1 DEF Calm, InApp, InDaemon, DeskTypes
<1>3. command' \in [DeskCommand -> CommandState] /\ \A d \in DeskCommand : command'[d].at = "done"
  BY <1>1 DEF CommandState, Ops, Places
<1>4. runner' \in [DeskTask -> TaskState] /\ \A r \in DeskTask : runner'[r].at = "end"
  BY <1>1 DEF Calm, DeskTypes, TaskState
<1>5. \A r \in DeskTask : ~Alive(r)'
  BY <1>4 DEF Alive
<1>6. DeskTypes' /\ OneDeep' /\ OneAlive' /\ Fresh'
  BY <1>1, <1>3, <1>4, <1>5 DEF Calm, DeskTypes, OneDeep, Deep, OneAlive, Fresh
<1>7. Owned' /\ Signals'
  BY <1>5 DEF Owned, Signals
<1>8. Spawning' /\ Keeping' /\ Aborting' /\ Stopping'
  BY <1>3 DEF Spawning, Keeping, Aborting, Stopping
<1>9. Held' /\ InDaemon' /\ InApp'
  BY <1>1, <1>2, <1>3, <1>5 DEF Held, InDaemon, InApp
<1>10. ConnectedServes' /\ ServingShown'
  BY <1>1, <1>4 DEF ConnectedServes, ServingShown, Serving
<1> QED
  BY <1>6, <1>7, <1>8, <1>9, <1>10 DEF Calm

\* Whatever commands of the window, of the tray and of the daemon's clients cross, and
\* wherever the task is when they do: as long as none of the named races has happened, the
\* tunnel is shown as connected exactly while its one task has a session, whose metrics
\* are the ones that are kept.
THEOREM ShownRight == DesktopSpec => []ShownTrue
<1>1. DesktopInit => DeskInv
  <2>1. ASSUME DesktopInit
        PROVE  Calm
    <3>1. /\ host \in {"app", "daemon"} /\ valid \in BOOLEAN
          /\ shown = "none" /\ store = 0 /\ keptHandle = 0 /\ lock = 0
          /\ runner = [r \in DeskTask |-> [at |-> "none", signal |-> "open", cut |-> FALSE]]
          /\ command = [c \in DeskCommand |-> [op |-> "none", at |-> "idle", run |-> 0]]
      BY <2>1 DEF DesktopInit, NoCommand
    <3>2. /\ runner \in [DeskTask -> TaskState]
          /\ \A r \in DeskTask : runner[r].at = "none" /\ runner[r].signal = "open" /\ ~runner[r].cut
      BY <3>1 DEF TaskState
    <3>3. command \in [DeskCommand -> CommandState] /\ \A c \in DeskCommand : command[c].at = "idle"
      BY <3>1 DEF CommandState, Ops, Places
    <3>4. DeskTypes
      BY <3>1, <3>2, <3>3 DEF DeskTypes
    <3>5. OneDeep /\ OneAlive /\ Fresh /\ Owned /\ Signals
      BY <3>1, <3>2, <3>3 DEF OneDeep, Deep, OneAlive, Alive, Fresh, Owned, Signals
    <3>6. Spawning /\ Keeping /\ Aborting /\ Stopping
      BY <3>3 DEF Spawning, Keeping, Aborting, Stopping
    <3>7. Held /\ InDaemon /\ InApp /\ ConnectedServes /\ ServingShown
      BY <3>1, <3>2, <3>3 DEF Held, InDaemon, InApp, Alive, ConnectedServes, ServingShown, Serving
    <3> QED
      BY <3>4, <3>5, <3>6, <3>7 DEF Calm
  <2> QED
    BY <2>1 DEF DeskInv
<1>2. DeskInv /\ [DesktopNext]_deskVars => DeskInv'
  <2>1. SUFFICES ASSUME DeskInv, [DesktopNext]_deskVars, odd' = {}
                 PROVE  Calm'
    BY DEF DeskInv
  <2>2. CASE UNCHANGED deskVars
    <3>1. Calm /\ UNCHANGED <<host, valid, shown, store, keptHandle, lock, runner, command>>
      BY <2>1, <2>2 DEF DeskInv, deskVars
    <3> QED
      BY <3>1 DEF Calm, DeskTypes, OneDeep, Deep, OneAlive, Alive, Fresh, Owned, Signals, Spawning, Keeping,
                  Aborting, Stopping, Held, InDaemon, InApp, ConnectedServes, ServingShown, Serving
  <2>3. ASSUME NEW r \in DeskTask, RunnerStep(r)
        PROVE  Calm'
    <3>1. odd = {}
      BY <2>1, <2>3 DEF RunnerStep, WakeInApp, WakeInDaemon, ConnectedInApp, ConnectedInDaemon, FailsInApp,
                        FailsInDaemon, LostInApp, LostInDaemon, Wake, Connected, AttemptFails, Lost, Told,
                        Panics, Dies, Finish, Go, Oddities
    <3> QED
      BY <2>1, <2>3, <3>1, TaskKeeps DEF DeskInv
  <2>4. ASSUME NEW c \in DeskCommand, CommandGiven(c)
        PROVE  Calm'
    <3>1. odd = {}
      BY <2>1, <2>4 DEF CommandGiven, FromTray, StartAll, FromWindow, AutoStart, DaemonRequest, Give
    <3> QED
      BY <2>1, <2>4, <3>1, GivenKeeps DEF DeskInv
  <2>5. ASSUME NEW c \in DeskCommand, CommandStep(c)
        PROVE  Calm'
    <3>1. odd = {}
      BY <2>1, <2>5 DEF CommandStep, CheckInApp, CheckInDaemon, Mark, Spawn, KeepInApp, KeepInDaemon, Keep,
                        TakeHandle, Abort, ShowStopped, DropMetrics, StopInDaemon, ProcessExits, Doubling, Crowding
    <3>2. Calm
      BY <2>1, <3>1 DEF DeskInv
    <3> QED
      BY <2>1, <2>5, <3>2, CheckKeeps, MarkKeeps, SpawnKeeps, KeepKeeps, TakeKeeps, AbortKeeps, StoppedKeeps,
         DaemonStopKeeps, ExitKeeps DEF CommandStep
  <2> QED
    BY <2>1, <2>2, <2>3, <2>4, <2>5 DEF DesktopNext
<1>3. DeskInv => ShownTrue
  BY DEF DeskInv, Calm, ConnectedServes, ServingShown, ShownTrue
<1> QED
  BY <1>1, <1>2, <1>3, PTL DEF DesktopSpec
=============================================================================
