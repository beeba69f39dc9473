---------------------------- MODULE StreamProxy ----------------------------
(***************************************************************************)
(* One connection of a visitor, carried through a tunnel to the local      *)
(* service: the relay's proxy (crates/localup-server-tcp-proxy,            *)
(* handle_tcp_connection; crates/localup-server-tls, forward_tls_stream),  *)
(* the QUIC stream opened for it, and the client's handler                 *)
(* (crates/localup-client, handle_tcp_stream and handle_tls_stream).  The  *)
(* HTTP passthrough server (forward_http_stream) behaves as the TLS server *)
(* does: it sends the request it has read in the place of the ClientHello, *)
(* in messages of the TLS protocol.                                        *)
(*                                                                         *)
(* Four tasks move data, two at the relay and two at the client:           *)
(*                                                                         *)
(*   visitor -> upRelay -> tunnel -> upClient -> service                   *)
(*   visitor <- downRelay <- tunnel <- downClient <- service               *)
(*                                                                         *)
(* Dropping the write half of a socket sends FIN; dropping the sending     *)
(* half of a QUIC stream finishes it; dropping the receiving half makes    *)
(* the peer's sends fail; the read side of a socket goes with its last     *)
(* half.  The relay of a TCP tunnel waits for both its tasks; the relay of *)
(* a TLS tunnel drops the other when one ends.                             *)
(***************************************************************************)
EXTENDS Naturals, Sequences, SequencesExt

CONSTANT Chunks    \* bound: how many chunks each end writes

ASSUME StreamAssumption == Chunks \in Nat

VARIABLES
    kind,          \* which proxy it is, "tcp" or "tls" (or HTTP passthrough)
    pipe,          \* pipe -> what is on its way in it
    unread,        \* pipes whose reader is gone
    task,          \* task -> "idle", "running", "done"
    relayPhase,    \* the relay's handler: "open", "record", "proxy", "over"
    record,        \* the database row of the connection: "none", "active", "closed"
    clientPhase,   \* the client's handler: "waiting", "proxy", "over"
    wrote,         \* end -> number of chunks written
    got,           \* end -> what it has read
    end,           \* end -> its write side: "open", "shut", "aborted"
    saw,           \* end -> has it read the end of its input: "nothing", "eof"
    tunnelLink     \* "up" or "lost"

taskVars == <<pipe, unread, task>>
endVars == <<wrote, got, end, saw>>
streamVars == <<kind, pipe, unread, task, relayPhase, record, clientPhase, wrote, got, end, saw, tunnelLink>>

From == [upRelay |-> "visitorUp", upClient |-> "tunnelUp",
         downClient |-> "serviceDown", downRelay |-> "tunnelDown"]
To == [upRelay |-> "tunnelUp", upClient |-> "serviceUp",
       downClient |-> "tunnelDown", downRelay |-> "visitorDown"]

Task == DOMAIN From
RelayTask == {"upRelay", "downRelay"}
ClientTask == {"upClient", "downClient"}
Tunnel == {"tunnelUp", "tunnelDown"}
Pipe == {"visitorUp", "serviceUp", "visitorDown", "serviceDown"} \cup Tunnel

SocketEnd == {"visitor", "service"}
Out == [visitor |-> "visitorUp", service |-> "serviceDown"]
In == [visitor |-> "visitorDown", service |-> "serviceUp"]
Peer == [visitor |-> "service", service |-> "visitor"]

\* The order of the relay's first steps: the TLS server saves the row of the
\* connection before it looks for the tunnel.
FirstPhase == IF kind = "tcp" THEN "open" ELSE "record"
AfterOpen == IF kind = "tcp" THEN "record" ELSE "proxy"
AfterRecord == IF kind = "tcp" THEN "proxy" ELSE "open"

\* What a pipe carries: numbered chunks of data, and the markers of its end.
Data(n) == [kind |-> "data", n |-> n]
Mark(k) == [kind |-> k, n |-> 0]

StreamInit ==
    /\ kind \in {"tcp", "tls"}
    /\ pipe = [p \in Pipe |-> <<>>] /\ unread = {}
    /\ task = [t \in Task |-> "idle"]
    /\ relayPhase = FirstPhase /\ record = "none" /\ clientPhase = "waiting"
    /\ wrote = [e \in SocketEnd |-> 0] /\ got = [e \in SocketEnd |-> <<>>]
    /\ end = [e \in SocketEnd |-> "open"] /\ saw = [e \in SocketEnd |-> "nothing"]
    /\ tunnelLink = "up"

\* What has been put into a pipe whose reader is gone is dropped.
Put(ps, p, items) == [ps EXCEPT ![p] = IF p \in unread THEN @ ELSE @ \o items]

-----------------------------------------------------------------------------
(***************************************************************************)
(* The two ends, which are not part of this program: they write, shut down *)
(* or abort, and read what arrives.                                        *)
(***************************************************************************)
Present(e) == e = "visitor" \/ clientPhase = "proxy" \/ (clientPhase = "over" /\ task["upClient"] # "idle")

Write(e) ==
    /\ Present(e) /\ end[e] = "open" /\ wrote[e] < Chunks
    /\ wrote' = [wrote EXCEPT ![e] = @ + 1]
    /\ pipe' = Put(pipe, Out[e], <<Data(wrote[e] + 1)>>)
    /\ UNCHANGED <<unread, task, relayPhase, record, clientPhase, got, end, saw, tunnelLink, kind>>

Shut(e) ==
    /\ Present(e) /\ end[e] = "open"
    /\ end' = [end EXCEPT ![e] = "shut"]
    /\ pipe' = Put(pipe, Out[e], <<Mark("fin")>>)
    /\ UNCHANGED <<unread, task, relayPhase, record, clientPhase, wrote, got, saw, tunnelLink, kind>>

\* A reset overtakes nothing that was written, and nothing is read afterwards.
Abort(e) ==
    /\ Present(e) /\ end[e] # "aborted"
    /\ end' = [end EXCEPT ![e] = "aborted"]
    /\ pipe' = [Put(pipe, Out[e], IF end[e] = "open" THEN <<Mark("reset")>> ELSE <<>>)
                  EXCEPT ![In[e]] = <<>>]
    /\ unread' = unread \cup {In[e]}
    /\ UNCHANGED <<task, relayPhase, record, clientPhase, wrote, got, saw, tunnelLink, kind>>

Read(e) ==
    /\ end[e] # "aborted" /\ pipe[In[e]] # <<>>
    /\ LET item == Head(pipe[In[e]])
       IN  /\ got' = IF item.kind = "fin" THEN got ELSE [got EXCEPT ![e] = Append(@, item.n)]
           /\ saw' = IF item.kind = "fin" THEN [saw EXCEPT ![e] = "eof"] ELSE saw
    /\ pipe' = [pipe EXCEPT ![In[e]] = Tail(@)]
    /\ UNCHANGED <<unread, task, relayPhase, record, clientPhase, wrote, end, tunnelLink, kind>>

-----------------------------------------------------------------------------
(***************************************************************************)
(* The tasks.                                                              *)
(***************************************************************************)
\* The tasks ts end together, `ps' being the pipes as they leave them: what they
\* hold is dropped.  A socket whose two tasks have ended is closed.
Socket(t) == From[t] \notin Tunnel

TasksEnd(ts, ps) ==
    LET done(t) == t \in ts \/ task[t] = "done"
        closed == {From[t] : t \in {u \in ts : ~Socket(u)}}
                    \cup (IF done("upRelay") /\ done("downRelay") THEN {"visitorUp"} ELSE {})
                    \cup (IF done("upClient") /\ done("downClient") THEN {"serviceDown"} ELSE {})
        finished == {To[t] : t \in ts} \ unread
    IN  /\ task' = [t \in Task |-> IF t \in ts THEN "done" ELSE task[t]]
        /\ unread' = unread \cup closed
        /\ pipe' = [p \in Pipe |-> IF p \in closed THEN <<>>
                                   ELSE IF p \in finished /\ ~(p \in Tunnel /\ tunnelLink = "lost")
                                   THEN Append(ps[p], Mark("fin")) ELSE ps[p]]

\* Fault: the relay of a TCP tunnel drops the other task as well.
Ending_Both(t) == IF t \in RelayTask THEN {u \in RelayTask : task[u] = "running"} ELSE {t}

\* The tasks that end with t.
Ending(t) ==
    IF kind = "tls" /\ t \in RelayTask THEN {u \in RelayTask : task[u] = "running"} ELSE {t}

\* A task whose socket has come to its end says so with a close message; the
\* relay of a TLS tunnel also does when the socket fails.
Farewell(t, item) ==
    /\ Socket(t) /\ tunnelLink = "up"
    /\ item.kind = "fin" \/ (item.kind = "reset" /\ kind = "tls" /\ t \in RelayTask)

\* Fault: the end of the input is taken for an empty read.
Move_IgnoreEof(t) ==
    /\ task[t] = "running" /\ pipe[From[t]] # <<>>
    /\ LET item == Head(pipe[From[t]])
           rest == [pipe EXCEPT ![From[t]] = Tail(@)]
       IN  IF item.kind = "data" /\ To[t] \notin unread
           THEN pipe' = Put(rest, To[t], <<item>>) /\ UNCHANGED <<unread, task>>
           ELSE IF Socket(t) /\ item.kind = "fin"
           THEN pipe' = rest /\ UNCHANGED <<unread, task>>
           ELSE TasksEnd(Ending(t), rest)
    /\ UNCHANGED <<relayPhase, record, clientPhase, endVars, tunnelLink, kind>>

\* A task moves one chunk.  At the end of a socket's input it sends a close
\* message and ends; a close message, the end of the stream, an error of either
\* side also end it.
Move(t) ==
    /\ task[t] = "running" /\ pipe[From[t]] # <<>>
    /\ LET item == Head(pipe[From[t]])
           rest == [pipe EXCEPT ![From[t]] = Tail(@)]
       IN  IF item.kind = "data" /\ To[t] \notin unread
           THEN pipe' = Put(rest, To[t], <<item>>) /\ UNCHANGED <<unread, task>>
           ELSE TasksEnd(Ending(t), IF Farewell(t, item)
                                    THEN Put(rest, To[t], <<Mark("close")>>) ELSE rest)
    /\ UNCHANGED <<relayPhase, record, clientPhase, endVars, tunnelLink, kind>>

\* The connection to the client is lost: what was under way is, too.  Whoever
\* reads from it gets an error, and whoever writes to it.
TunnelFails ==
    /\ tunnelLink = "up"
    /\ tunnelLink' = "lost"
    /\ pipe' = [p \in Pipe |-> IF p \in Tunnel THEN <<Mark("reset")>> ELSE pipe[p]]
    /\ unread' = unread \cup Tunnel
    /\ UNCHANGED <<task, relayPhase, record, clientPhase, endVars, kind>>

-----------------------------------------------------------------------------
(***************************************************************************)
(* The handlers around the tasks.                                          *)
(***************************************************************************)
\* The visitor's socket is dropped.
DropVisitor ==
    /\ pipe' = Put([pipe EXCEPT !["visitorUp"] = <<>>], "visitorDown", <<Mark("fin")>>)
    /\ unread' = unread \cup {"visitorUp"}

\* Find the tunnel's connection, open a stream and send TcpConnect on it, or
\* TlsConnect with the ClientHello, or the request, read before.
SendConnect ==
    /\ relayPhase = "open" /\ tunnelLink = "up"
    /\ pipe' = IF kind = "tcp"
               THEN [pipe EXCEPT !["tunnelUp"] = <<Mark("connect")>>]
               ELSE [pipe EXCEPT !["tunnelUp"] = <<Mark("connect"), Head(pipe["visitorUp"])>>,
                                 !["visitorUp"] = Tail(@)]
    /\ relayPhase' = AfterOpen
    /\ task' = IF AfterOpen = "proxy" THEN [t \in Task |-> IF t \in RelayTask THEN "running" ELSE task[t]]
                                      ELSE task
    /\ UNCHANGED <<unread, record, clientPhase, endVars, tunnelLink, kind>>

\* No connection of that tunnel, or it fails; of a TLS visitor also no
\* ClientHello or request, no SNI or Host, no route, or an address that is
\* filtered out.
Refuse ==
    /\ relayPhase = "open" \/ (relayPhase = "record" /\ kind = "tls" /\ pipe["visitorUp"] # <<>>)
    /\ relayPhase' = "over"
    /\ DropVisitor
    /\ UNCHANGED <<task, record, clientPhase, endVars, tunnelLink, kind>>

\* The connection is lost between opening the stream and sending TlsConnect: the
\* row of the visitor is updated all the same.
ConnectNotSent ==
    /\ relayPhase = "open" /\ kind = "tls" /\ tunnelLink = "lost"
    /\ relayPhase' = "over" /\ record' = "closed"
    /\ DropVisitor
    /\ UNCHANGED <<task, clientPhase, endVars, tunnelLink, kind>>

\* A TLS visitor is on record once its ClientHello, or its request, has been read.
SaveConnection ==
    /\ relayPhase = "record"
    /\ kind = "tls" => pipe["visitorUp"] # <<>> /\ Head(pipe["visitorUp"]).kind = "data"
    /\ record' = "active" /\ relayPhase' = AfterRecord
    /\ task' = IF AfterRecord = "proxy" THEN [t \in Task |-> IF t \in RelayTask THEN "running" ELSE task[t]]
                                        ELSE task
    /\ UNCHANGED <<pipe, unread, clientPhase, endVars, tunnelLink, kind>>

\* Fault: the row of the connection is not updated.
RelayEnds_NoUpdate ==
    /\ relayPhase = "proxy" /\ \A t \in RelayTask : task[t] = "done"
    /\ relayPhase' = "over"
    /\ UNCHANGED <<taskVars, record, clientPhase, endVars, tunnelLink, kind>>

RelayEnds ==
    /\ relayPhase = "proxy" /\ \A t \in RelayTask : task[t] = "done"
    /\ relayPhase' = "over" /\ record' = "closed"
    /\ UNCHANGED <<taskVars, clientPhase, endVars, tunnelLink, kind>>

\* The client connects to the local service.
ConnectLocal ==
    /\ clientPhase = "waiting" /\ pipe["tunnelUp"] # <<>> /\ Head(pipe["tunnelUp"]).kind = "connect"
    /\ clientPhase' = "proxy"
    /\ pipe' = [pipe EXCEPT !["tunnelUp"] = Tail(@)]
    /\ task' = [t \in Task |-> IF t \in ClientTask THEN "running" ELSE task[t]]
    /\ UNCHANGED <<unread, relayPhase, record, endVars, tunnelLink, kind>>

\* The local service refuses: the client sends a close message and drops the
\* stream.
LocalRefused ==
    /\ clientPhase = "waiting" /\ pipe["tunnelUp"] # <<>> /\ Head(pipe["tunnelUp"]).kind = "connect"
    /\ clientPhase' = "over"
    /\ pipe' = Put([pipe EXCEPT !["tunnelUp"] = <<>>], "tunnelDown", <<Mark("close"), Mark("fin")>>)
    /\ unread' = unread \cup {"tunnelUp"}
    /\ UNCHANGED <<task, relayPhase, record, endVars, tunnelLink, kind>>

ClientEnds ==
    /\ \/ clientPhase = "proxy" /\ \A t \in ClientTask : task[t] = "done"
       \/ clientPhase = "waiting" /\ tunnelLink = "lost"
    /\ clientPhase' = "over"
    /\ UNCHANGED <<taskVars, relayPhase, record, endVars, tunnelLink, kind>>

-----------------------------------------------------------------------------
Handlers == SendConnect \/ SaveConnection \/ RelayEnds \/ ConnectLocal \/ ClientEnds

StreamNext ==
    \/ \E e \in SocketEnd : Write(e) \/ Shut(e) \/ Abort(e) \/ Read(e)
    \/ \E t \in Task : Move(t)
    \/ Handlers \/ Refuse \/ ConnectNotSent \/ LocalRefused
    \/ TunnelFails

StreamSpec == StreamInit /\ [][StreamNext]_streamVars
-----------------------------------------------------------------------------
\* What an end reads is what the other wrote, in order; and when it reads the
\* end of the stream it has everything, unless the other end aborted or the
\* tunnel was lost.  Through the TCP proxy this holds when an end has shut its
\* own side long before; the TLS server drops both directions when one ends, so
\* there it holds of an end that has not.
Intact ==
    \A e \in SocketEnd :
        /\ got[e] = [i \in 1 .. Len(got[e]) |-> i] /\ Len(got[e]) <= wrote[Peer[e]]
        /\ saw[e] = "eof" /\ clientPhase # "waiting" /\ task["upClient"] # "idle" =>
              \/ Len(got[e]) = wrote[Peer[e]] /\ end[Peer[e]] # "open"
              \/ end[Peer[e]] = "aborted"
              \/ tunnelLink = "lost"
              \/ kind = "tls" /\ end[e] # "open"

\* A connection that was proxied and is over is not left on record as an active
\* one (disconnected_at is "nullable for active connections", migration
\* m20250118_000001_make_tcp_fields_nullable), and of a TCP connection this
\* holds wherever it failed.
RecordClosed ==
    relayPhase = "over" /\ (kind = "tcp" \/ task["upRelay"] # "idle") => record # "active"

\* A proxied connection carries what was written, and is not left on record as active.
ProxiedRight == Intact /\ RecordClosed

\* Whatever ends a connection, a shutdown or reset of either end or the loss of
\* the tunnel, ends all of it: both handlers return, and no task is left behind
\* waiting for the other direction.
AllEnds ==
    (end["visitor"] # "open" \/ end["service"] # "open" \/ (tunnelLink = "lost" /\ wrote["visitor"] > 0))
        ~> (relayPhase = "over" /\ clientPhase # "proxy")
=============================================================================
