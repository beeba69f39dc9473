----------------------------- MODULE HttpTunnel -----------------------------
(***************************************************************************)
(* HTTP requests of visitors through a tunnel: the plain HTTP server       *)
(* (localup-server-tcp) and the HTTPS server (localup-server-https) of the *)
(* relay, the client's stream handlers (localup-client) and its metrics.   *)
(*                                                                         *)
(* A visitor writes a request in one piece or in two, cut in the body or   *)
(* in the head, and may write the next before it is answered; a read of    *)
(* the server takes as many pieces as have come.  The HTTP server, and the *)
(* HTTPS server for a WebSocket upgrade, carry what was read as it is; the *)
(* HTTPS server carries any other request as one message and waits 30      *)
(* seconds for the answer.  One task serves one visitor at the relay and   *)
(* one at the client.                                                      *)
(***************************************************************************)
EXTENDS Integers, Sequences, FiniteSets

CONSTANTS
    Visitor,      \* connections of visitors
    Scenarios,    \* which server each visitor goes to, what its request lacks, and how
                  \* many requests it sends at most
    Guarded,      \* [Tunnel -> BOOLEAN]: the client connects with an authenticator
    MaxTunnels,   \* how often the client connects
    MaxEntries    \* max_entries of the metrics store

Servers == {"http", "https"}
\* No Host header; the path of a challenge; an address the filter denies; no credentials.
Flaws == {"none", "host", "challenge", "ip", "auth"}

ASSUME HttpAssumption ==
    /\ Scenarios \subseteq [Visitor -> [server : Servers, flaw : Flaws, requests : Nat]]
    /\ Guarded \in [1..MaxTunnels -> BOOLEAN]
    /\ MaxTunnels \in Nat
    /\ MaxEntries \in Nat \ {0}

Session == 1..MaxTunnels

VARIABLES
    route,     \* the host's route is registered
    tunnel,    \* the connection in the tunnel manager, 0 for none
    lost,      \* connections that have failed
    visitor,   \* [Visitor -> ...]: what the visitor is, sends and receives
    relay,     \* [Visitor -> ...]: the relay's task
    up,        \* [Visitor -> Seq]: messages of the stream towards the client
    down,      \* [Visitor -> Seq]: and towards the relay
    client,    \* [Visitor -> ...]: the client's task for the stream
    ring,      \* the metrics store: a bounded sequence of records
    captured   \* [Visitor -> Int]: the row in captured_requests

shared == <<route, tunnel, lost>>
httpVars == <<route, tunnel, lost, visitor, relay, up, down, client, ring, captured>>

NotCaptured == -1
NoStatus == 0

HttpInit ==
    /\ route = TRUE /\ tunnel = 1 /\ lost = {}
    /\ \E p \in Scenarios :
         visitor = [v \in Visitor |->
                      [server |-> p[v].server, flaw |-> p[v].flaw, budget |-> p[v].requests,
                       side |-> "open", sent |-> 0, eager |-> FALSE, inbox |-> <<>>, answers |-> <<>>]]
    /\ relay = [v \in Visitor |-> [at |-> "read", first |-> <<>>, via |-> 0]]
    /\ up = [v \in Visitor |-> <<>>] /\ down = [v \in Visitor |-> <<>>]
    /\ client = [v \in Visitor |-> [at |-> "none", kind |-> "none", req |-> 0, last |-> 0, whole |-> TRUE,
                                    skipped |-> {}, unsettled |-> FALSE]]
    /\ ring = <<>>
    /\ captured = [v \in Visitor |-> NotCaptured]

(***************************************************************************)
(* The tunnel, as the control handler registers and removes it.            *)
(***************************************************************************)
TunnelJoins ==
    /\ tunnel = 0
    /\ \E c \in Session \ lost : /\ \A d \in Session : d < c => d \in lost
                                /\ tunnel' = c
    /\ route' = TRUE
    /\ UNCHANGED <<lost, visitor, relay, up, down, client, ring, captured>>

TunnelLeaves ==
    /\ tunnel # 0
    /\ lost' = lost \cup {tunnel}
    /\ tunnel' = 0
    /\ route' \in {TRUE, FALSE}    \* the routes go after the connection
    /\ UNCHANGED <<visitor, relay, up, down, client, ring, captured>>

RouteRemoved ==
    /\ tunnel = 0 /\ route
    /\ route' = FALSE
    /\ UNCHANGED <<tunnel, lost, visitor, relay, up, down, client, ring, captured>>

(***************************************************************************)
(* Visitors.                                                               *)
(***************************************************************************)
\* The next request, an upgrade or not: whole, or a head with a part of the body and then
\* the rest, or a part of the head and then the rest.  An eager visitor sends it before the
\* one before is answered.
Send(v) ==
    /\ relay[v].at # "done"
    /\ visitor[v].side = "open" /\ visitor[v].sent < visitor[v].budget
    /\ LET i == visitor[v].sent + 1
           piece(p, w) == [req |-> i, last |-> i, part |-> p, ws |-> w]
       IN \E w \in {{}, {i}} :
            \E s \in {<<piece("whole", w)>>, <<piece("head", {}), piece("rest", {})>>,
                      <<piece("stub", {}), piece("rest", w)>>} :
              visitor' = [visitor EXCEPT ![v].sent = i, ![v].inbox = @ \o s,
                                         ![v].eager = @ \/ Len(visitor[v].answers) < visitor[v].sent]
    /\ UNCHANGED <<shared, relay, up, down, client, ring, captured>>

\* What a read finds in q: the requests from the first to the last, how far the first has
\* come (or that it is the rest of one), and those that ask for an upgrade.
Joined(q) ==
    [req  |-> q[1].req,
     last |-> q[Len(q)].last,
     part |-> IF q[1].part \in {"head", "stub"} /\ Len(q) > 1 THEN "whole" ELSE q[1].part,
     ws   |-> UNION {q[j].ws : j \in 1 .. Len(q)}]

Leave(v) ==
    /\ relay[v].at # "done" /\ visitor[v].budget > 0
    /\ visitor[v].side = "open"
    /\ \E s \in {"half", "gone"} : visitor' = [visitor EXCEPT ![v].side = s]
    /\ UNCHANGED <<shared, relay, up, down, client, ring, captured>>

Deliver(v, a) ==
    [visitor EXCEPT ![v].answers = IF visitor[v].side = "gone" THEN @ ELSE Append(@, a)]

(***************************************************************************)
(* The relay's task up to the tunnel stream.                               *)
(***************************************************************************)
Ended(v) == [relay EXCEPT ![v] = [at |-> "done", first |-> <<>>, via |-> @.via]]

\* The task ends, with an answer of the relay's own; its stream ends with it.
EndWith(v, status) ==
    /\ relay' = Ended(v)
    /\ visitor' = Deliver(v, [req |-> 1, status |-> status, cut |-> FALSE])

End(v) ==
    /\ relay' = Ended(v)
    /\ UNCHANGED visitor

Close(v) == up' = [up EXCEPT ![v] = Append(@, [type |-> "End"])]

\* One read, of whatever has come; a read of nothing ends the connection.  Without a Host
\* header, which the part of a head may lack, the HTTP server answers 400 and the HTTPS
\* server just closes.
ReadRequest(v) ==
    /\ relay[v].at = "read"
    /\ \/ /\ visitor[v].inbox = <<>> /\ visitor[v].side # "open"
          /\ End(v)
       \/ \E k \in 1 .. Len(visitor[v].inbox) :
            LET chunk == Joined(SubSeq(visitor[v].inbox, 1, k)) IN
            \/ /\ visitor[v].flaw # "host"
               /\ relay' = [relay EXCEPT ![v].at = "route", ![v].first = <<chunk>>]
               /\ visitor' = [visitor EXCEPT ![v].inbox = SubSeq(@, k + 1, Len(@))]
            \/ /\ visitor[v].flaw = "host" \/ chunk.part = "stub"
               /\ IF visitor[v].server = "http" THEN EndWith(v, 400) ELSE End(v)
    /\ UNCHANGED <<shared, up, down, client, ring, captured>>

\* lookup_acme_challenge may find a pending challenge for the host.
Lookup(v) ==
    /\ relay[v].at = "route"
    /\ \/ visitor[v].flaw = "challenge" /\ EndWith(v, 200)
       \/ ~route /\ EndWith(v, 404)
       \/ route /\ visitor[v].flaw = "ip" /\ EndWith(v, 403)
       \/ /\ route /\ visitor[v].flaw # "ip"
          /\ relay' = [relay EXCEPT ![v].at = "auth"]
          /\ UNCHANGED visitor
    /\ UNCHANGED <<shared, up, down, client, ring, captured>>

\* A visitor without credentials, or whose credentials have not come yet, is turned away by
\* a tunnel that asks for them.
Authenticate(v) ==
    /\ relay[v].at = "auth"
    /\ \/ /\ tunnel # 0 /\ Guarded[tunnel]
          /\ visitor[v].flaw = "auth" \/ relay[v].first[1].part = "stub"
          /\ EndWith(v, 401)
       \/ /\ tunnel # 0 /\ Guarded[tunnel] => visitor[v].flaw # "auth"
          /\ relay' = [relay EXCEPT ![v].at = "get"]
          /\ UNCHANGED visitor
    /\ UNCHANGED <<shared, up, down, client, ring, captured>>

GetTunnel(v) ==
    /\ relay[v].at = "get"
    /\ IF tunnel = 0 THEN EndWith(v, 502)
       ELSE /\ relay' = [relay EXCEPT ![v].at = "open", ![v].via = tunnel]
            /\ UNCHANGED visitor
    /\ UNCHANGED <<shared, up, down, client, ring, captured>>

\* The HTTPS server looks for an upgrade in the head of the first request.
Transparent(v) == visitor[v].server = "http" \/ relay[v].first[1].req \in relay[v].first[1].ws

\* open_stream and the first message; either may fail.
OpenStream(v) ==
    /\ relay[v].at = "open"
    /\ \/ EndWith(v, 502) /\ UNCHANGED up
       \/ /\ relay[v].via \notin lost
          /\ relay' = [relay EXCEPT ![v].at = IF Transparent(v) THEN "proxy" ELSE "await"]
          /\ up' = [up EXCEPT ![v] = <<[type |-> IF Transparent(v) THEN "Connect" ELSE "Request",
                                        chunk |-> relay[v].first[1]]>>]
          /\ UNCHANGED visitor
    /\ UNCHANGED <<shared, down, client, ring, captured>>

(***************************************************************************)
(* proxy_transparent_stream: bytes both ways until one side ends, then     *)
(* the row for the database with the status of the first response.         *)
(***************************************************************************)
\* Fault: the status is taken from the last response, not the first.
Saw_Last(v, status) == IF status = NoStatus /\ captured[v] > NoStatus THEN captured[v] ELSE status

Saw(v, status) == IF captured[v] <= NoStatus THEN status ELSE captured[v]

ProxyEnds(v) ==
    /\ relay' = Ended(v)
    /\ captured' = [captured EXCEPT ![v] = Saw(v, NoStatus)]

ProxyUp(v) ==
    /\ relay[v].at = "proxy"
    /\ visitor[v].inbox # <<>> /\ visitor[v].side # "gone"
    /\ \E k \in 1 .. Len(visitor[v].inbox) :
         /\ visitor' = [visitor EXCEPT ![v].inbox = SubSeq(@, k + 1, Len(@))]
         /\ IF relay[v].via \in lost
            THEN ProxyEnds(v) /\ Close(v)
            ELSE /\ up' = [up EXCEPT ![v] = Append(@, [type  |-> "Data",
                                                       chunk |-> Joined(SubSeq(visitor[v].inbox, 1, k))])]
                 /\ UNCHANGED <<relay, captured>>
    /\ UNCHANGED <<shared, down, client, ring>>

ProxyEof(v) ==
    /\ relay[v].at = "proxy"
    /\ visitor[v].side # "open"
    /\ visitor[v].inbox # <<>> => visitor[v].side = "gone"
    /\ up' = [up EXCEPT ![v] = @ \o <<[type |-> "Close"], [type |-> "End"]>>]
    /\ ProxyEnds(v)
    /\ UNCHANGED <<shared, visitor, down, client, ring>>

ProxyDown(v) ==
    /\ relay[v].at = "proxy" /\ down[v] # <<>>
    /\ down' = [down EXCEPT ![v] = Tail(@)]
    /\ LET m == Head(down[v]) IN
       IF m.type # "Data" THEN ProxyEnds(v) /\ Close(v) /\ UNCHANGED visitor
       ELSE /\ visitor' = Deliver(v, m.answer)
            /\ IF visitor[v].side = "gone"
               THEN /\ relay' = Ended(v)
                    /\ captured' = [captured EXCEPT ![v] = Saw(v, m.answer.status)]
                    /\ Close(v)
               ELSE /\ captured' = [captured EXCEPT ![v] = Saw(v, m.answer.status)]
                    /\ UNCHANGED <<relay, up>>
    /\ UNCHANGED <<shared, client, ring>>

ProxyLost(v) ==
    /\ relay[v].at = "proxy" /\ relay[v].via \in lost
    /\ ProxyEnds(v) /\ Close(v)
    /\ UNCHANGED <<shared, visitor, down, client, ring>>

(***************************************************************************)
(* A request as one message: wait for the answer, 30 seconds at most.      *)
(***************************************************************************)
AwaitResponse(v) ==
    /\ relay[v].at = "await" /\ down[v] # <<>>
    /\ down' = [down EXCEPT ![v] = Tail(@)]
    /\ LET m == Head(down[v]) IN
       IF m.type = "Response"
       THEN /\ relay' = Ended(v)
            /\ visitor' = Deliver(v, m.answer)
            /\ captured' = [captured EXCEPT ![v] = IF visitor[v].side = "gone" THEN @
                                                   ELSE m.answer.status]
       ELSE EndWith(v, 502) /\ UNCHANGED captured
    /\ Close(v)
    /\ UNCHANGED <<shared, client, ring>>

AwaitLost(v) ==
    /\ relay[v].at = "await" /\ relay[v].via \in lost
    /\ EndWith(v, 502) /\ Close(v)
    /\ UNCHANGED <<shared, down, client, ring, captured>>

\* Fault: no limit on the wait.
AwaitTimeout_Never(v) ==
    /\ FALSE /\ relay[v].at = "await"
    /\ UNCHANGED httpVars

AwaitTimeout(v) ==
    /\ relay[v].at = "await"
    /\ EndWith(v, 504) /\ Close(v)
    /\ UNCHANGED <<shared, down, client, ring, captured>>

(***************************************************************************)
(* The client's metrics.                                                   *)
(***************************************************************************)
Newest(s) == SubSeq(s, 1 + (IF Len(s) > MaxEntries THEN Len(s) - MaxEntries ELSE 0), Len(s))

record_request(r, i, state) == Newest(Append(r, [id |-> i, state |-> state]))

\* record_response and record_error: nothing happens when the record was pushed out.
record_result(r, i, state) ==
    [k \in DOMAIN r |-> IF r[k].id = i THEN [r[k] EXCEPT !.state = state] ELSE r[k]]

ResultOf(status) == IF status < 400 THEN "ok" ELSE "failed"

(***************************************************************************)
(* The client's task for one stream.                                       *)
(***************************************************************************)
Reply(v, ms) == down' = [down EXCEPT ![v] = IF relay[v].at = "done" THEN @ ELSE @ \o ms]

ClientEnd(v, ms) ==
    /\ client' = [client EXCEPT ![v].at = "end"]
    /\ Reply(v, ms \o <<[type |-> "End"]>>)

\* The first request of a chunk is recorded and on its way to the service; what follows it
\* is taken for its body.
Forward(v, kind, c) ==
    /\ client' = [client EXCEPT ![v].at = "busy", ![v].kind = kind, ![v].req = c.req, ![v].last = c.last,
                                ![v].whole = (c.part # "head"), ![v].skipped = @ \cup (c.req + 1 .. c.last)]
    /\ ring' = record_request(ring, <<v, c.req>>, "open")
    /\ UNCHANGED down

\* An upgrade in the chunk: what the visitor sends goes to the service as it is.
GoRaw(v, c) ==
    /\ client' = [client EXCEPT ![v].at = "raw", ![v].req = c.req, ![v].last = c.last]
    /\ UNCHANGED <<down, ring>>

\* The first request of the stream has failed: an error of its own is recorded.
FirstFails(v, unsettled) ==
    /\ ring' = record_request(ring, <<v, 0>>, "failed")
    /\ client' = [client EXCEPT ![v].at = "end", ![v].unsettled = unsettled]
    /\ Reply(v, <<[type |-> "Close"], [type |-> "End"]>>)

\* The first message decides.  No HTTP protocol configured, or a stream that is not
\* QUIC: closed.  The head of a request of the HTTPS server may be cut off, that of a
\* stream of bytes must be there.
ClientFirst(v) ==
    /\ client[v].at = "none" /\ up[v] # <<>>
    /\ up' = [up EXCEPT ![v] = Tail(@)]
    /\ LET m == Head(up[v]) IN
       \/ m.type = "Request" /\ Forward(v, "request", m.chunk)
       \/ m.type = "Connect" /\ m.chunk.ws = {} /\ m.chunk.part # "stub" /\ Forward(v, "proxy", m.chunk)
       \/ m.type = "Connect" /\ m.chunk.ws = {} /\ m.chunk.part = "stub" /\ FirstFails(v, client[v].unsettled)
       \/ m.type = "Connect" /\ m.chunk.ws # {} /\ GoRaw(v, m.chunk)
       \/ m.type = "Connect" /\ ClientEnd(v, <<[type |-> "Close"]>>) /\ UNCHANGED ring
    /\ UNCHANGED <<shared, visitor, relay, captured>>

\* Fault: the rest of a body is taken for a request of its own.
ClientNext_AnyData(v) ==
    /\ client[v].at = "loop" /\ up[v] # <<>>
    /\ up' = [up EXCEPT ![v] = Tail(@)]
    /\ LET m == Head(up[v]) IN
       \/ m.type = "Data" /\ Forward(v, "proxy", [m.chunk EXCEPT !.part = "whole"])
       \/ m.type \in {"Close", "End"} /\ ClientEnd(v, <<[type |-> "Close"]>>) /\ UNCHANGED ring
    /\ UNCHANGED <<shared, visitor, relay, captured>>

\* A chunk that does not start like a request is ignored, with the requests that begin in
\* it, and one that is only a part of a head fails to parse.
Dropped(v, c) ==
    /\ client' = [client EXCEPT ![v].last = c.last,
                                ![v].skipped = @ \cup ((IF c.part = "rest" THEN c.req + 1 ELSE c.req) .. c.last)]
    /\ UNCHANGED <<down, ring>>

\* handle_http_transparent_stream, the keep-alive loop.
ClientNext(v) ==
    /\ client[v].at = "loop" /\ up[v] # <<>>
    /\ up' = [up EXCEPT ![v] = Tail(@)]
    /\ LET m == Head(up[v]) IN
       \/ m.type = "Data" /\ m.chunk.part = "rest" /\ Dropped(v, m.chunk)
       \/ m.type = "Data" /\ m.chunk.part = "stub" /\ m.chunk.ws = {} /\ Dropped(v, m.chunk)
       \/ m.type = "Data" /\ m.chunk.part \notin {"rest", "stub"} /\ m.chunk.ws = {} /\ Forward(v, "proxy", m.chunk)
       \/ m.type = "Data" /\ m.chunk.part # "rest" /\ m.chunk.ws # {} /\ GoRaw(v, m.chunk)
       \/ m.type \in {"Close", "End"} /\ ClientEnd(v, <<[type |-> "Close"]>>) /\ UNCHANGED ring
    /\ UNCHANGED <<shared, visitor, relay, captured>>

\* handle_raw_http_stream: the service answers the requests it gets, one after the other,
\* until it has agreed to an upgrade; either end closes.  A service that cannot be reached
\* ends the task without a message.
RawAnswer(v) ==
    /\ client[v].at = "raw" /\ client[v].req <= client[v].last
    /\ \E status \in {101, 200, 500} :
         /\ Reply(v, <<[type |-> "Data", answer |-> [req |-> client[v].req, status |-> status, cut |-> FALSE]]>>)
         /\ client' = [client EXCEPT ![v].at = IF status = 101 THEN "upgraded" ELSE "raw", ![v].req = @ + 1]
    /\ UNCHANGED <<shared, visitor, relay, up, ring, captured>>

RawEnds(v) ==
    /\ \/ client[v].at = "raw" /\ ClientEnd(v, <<>>)
       \/ client[v].at \in {"raw", "upgraded"} /\ ClientEnd(v, <<[type |-> "Close"]>>)
    /\ UNCHANGED <<shared, visitor, relay, up, ring, captured>>

RawUp(v) ==
    /\ client[v].at \in {"raw", "upgraded"} /\ up[v] # <<>>
    /\ up' = [up EXCEPT ![v] = Tail(@)]
    /\ client' = [client EXCEPT ![v].last = IF Head(up[v]).type = "Data" THEN Head(up[v]).chunk.last ELSE @]
    /\ UNCHANGED <<shared, visitor, relay, down, ring, captured>>

(***************************************************************************)
(* The local service, and what the client makes of it.                     *)
(***************************************************************************)
\* A whole request of the one-message path is answered, perhaps with a body that stops
\* short, of which the client passes on what it has.
ServiceAnswers(v) ==
    /\ client[v].at = "busy" /\ client[v].kind = "request" /\ client[v].whole
    /\ \E status \in {200, 500}, cut \in BOOLEAN :
         /\ ring' = record_result(ring, <<v, client[v].req>>, ResultOf(status))
         /\ ClientEnd(v, <<[type |-> "Response",
                            answer |-> [req |-> client[v].req, status |-> status, cut |-> cut]]>>)
    /\ UNCHANGED <<shared, visitor, relay, up, captured>>

\* forward_request succeeds, with a whole body only.
ProxyAnswers(v) ==
    /\ client[v].at = "busy" /\ client[v].kind = "proxy" /\ client[v].whole
    /\ client' = [client EXCEPT ![v].at = "loop"]
    /\ \E status \in {200, 500} :
         /\ ring' = record_result(ring, <<v, client[v].req>>, ResultOf(status))
         /\ Reply(v, <<[type |-> "Data",
                        answer |-> [req |-> client[v].req, status |-> status, cut |-> FALSE]]>>)
    /\ UNCHANGED <<shared, visitor, relay, up, captured>>

\* Fault: an early return forgets the metric.
RequestFails_Unrecorded(v) ==
    /\ client[v].at = "busy" /\ client[v].kind = "request"
    /\ ClientEnd(v, <<[type |-> "Response", answer |-> [req |-> client[v].req, status |-> 502, cut |-> FALSE]]>>)
    /\ UNCHANGED <<shared, visitor, relay, up, ring, captured>>

\* The service cannot be reached, or breaks the connection.
RequestFails(v) ==
    /\ client[v].at = "busy" /\ client[v].kind = "request"
    /\ ring' = record_result(ring, <<v, client[v].req>>, "failed")
    /\ ClientEnd(v, <<[type |-> "Response", answer |-> [req |-> client[v].req, status |-> 502, cut |-> FALSE]]>>)
    /\ UNCHANGED <<shared, visitor, relay, up, captured>>

\* The service closes without an answer: no status line, so status 200 and no body.
RequestEmpty(v) ==
    /\ client[v].at = "busy" /\ client[v].kind = "request"
    /\ ring' = record_result(ring, <<v, client[v].req>>, ResultOf(200))
    /\ ClientEnd(v, <<[type |-> "Response", answer |-> [req |-> client[v].req, status |-> 200, cut |-> TRUE]]>>)
    /\ UNCHANGED <<shared, visitor, relay, up, captured>>

\* forward_request fails.  The first request of the stream is recorded once more,
\* with its error, and the stream closed; a later one is dropped without an answer.
ProxyFails(v) ==
    /\ client[v].at = "busy" /\ client[v].kind = "proxy"
    /\ IF client[v].req = 1 THEN FirstFails(v, TRUE)
       ELSE /\ client' = [client EXCEPT ![v].at = "loop", ![v].skipped = @ \cup {client[v].req},
                                        ![v].unsettled = TRUE]
            /\ UNCHANGED <<down, ring>>
    /\ UNCHANGED <<shared, visitor, relay, up, captured>>

\* The connection to the relay has failed: a task that reads from its stream ends.
ClientLost(v) ==
    /\ client[v].at \in {"loop", "raw", "upgraded"} /\ relay[v].via \in lost
    /\ ClientEnd(v, <<>>)
    /\ UNCHANGED <<shared, visitor, relay, up, ring, captured>>

\* The two servers take the same steps up to the stream; where they differ, the step
\* says so.
HttpConnection(v) == visitor[v].server = "http" /\ (ReadRequest(v) \/ Lookup(v))

HttpRequest(v) == visitor[v].server = "http" /\ (Authenticate(v) \/ GetTunnel(v) \/ OpenStream(v))

HttpsConnection(v) == visitor[v].server = "https" /\ (ReadRequest(v) \/ Lookup(v))

HttpsRequest(v) ==
    /\ visitor[v].server = "https"
    /\ \/ Authenticate(v) \/ GetTunnel(v) \/ OpenStream(v)
       \/ AwaitResponse(v) \/ AwaitLost(v) \/ AwaitTimeout(v)

ProxyStep(v) == ProxyUp(v) \/ ProxyEof(v) \/ ProxyDown(v) \/ ProxyLost(v)

RelayStep(v) ==
    HttpConnection(v) \/ HttpRequest(v) \/ HttpsConnection(v) \/ HttpsRequest(v) \/ ProxyStep(v)

ClientStep(v) ==
    \/ ClientFirst(v) \/ ClientNext(v) \/ RawAnswer(v) \/ RawEnds(v) \/ RawUp(v)
    \/ ServiceAnswers(v) \/ ProxyAnswers(v) \/ RequestFails(v) \/ RequestEmpty(v) \/ ProxyFails(v) \/ ClientLost(v)

HttpNext ==
    \/ TunnelJoins \/ TunnelLeaves \/ RouteRemoved
    \/ \E v \in Visitor : Send(v) \/ Leave(v) \/ RelayStep(v) \/ ClientStep(v)

HttpSpec == HttpInit /\ [][HttpNext]_httpVars
-----------------------------------------------------------------------------
\* However reads cut and join what a visitor writes, its answers come in the order of its
\* requests and none comes twice; a request that is passed over is one the client dropped:
\* its proxy failed to serve it (localup.rs:1426), took it for the body of the one before
\* (http_proxy.rs:142) or ignored it (localup.rs:1431).  A visitor that waits for each
\* answer loses none: its k-th answer is for its k-th request.  An answer that came through
\* the HTTP server is never cut short unnoticed.
InOrder(n, dropped, q) ==
    \A k \in 1 .. Len(q) :
      LET before == IF k = 1 THEN n ELSE q[k - 1].req IN
      before < q[k].req /\ before + 1 .. q[k].req - 1 \subseteq dropped

AnswersMatch ==
    \A v \in Visitor :
      /\ InOrder(0, client[v].skipped, visitor[v].answers)
      /\ \A k \in 1 .. Len(visitor[v].answers) :
           /\ ~visitor[v].eager => visitor[v].answers[k].req = k
           /\ visitor[v].server = "http" => ~visitor[v].answers[k].cut

\* The row in captured_requests tells what the visitor saw: its status is that of the
\* first answer of a visitor who was still there.
CaptureTrue ==
    \A v \in Visitor :
      captured[v] > NoStatus /\ visitor[v].side # "gone"
        => /\ visitor[v].answers # <<>>
           /\ visitor[v].answers[1].status = captured[v]

\* No request is shown as pending for ever: an open record in the metrics store belongs
\* to a request in progress, or to one that the HTTP proxy failed to serve, whose own
\* record nobody closes (http_proxy.rs:294, localup.rs:1366).
MetricsSettled ==
    \A k \in DOMAIN ring : ring[k].state = "open" =>
      LET v == ring[k].id[1] IN
      \/ client[v].at = "busy" /\ client[v].req = ring[k].id[2]
      \/ client[v].unsettled

\* What is kept about requests is what happened: the row in captured_requests has the
\* status the visitor saw, and the metrics store shows no request as pending for ever.
RecordsTrue == CaptureTrue /\ MetricsSettled

\* A visitor of the HTTPS server whose request waits for the tunnel is answered or
\* released, whatever the client, the service and the visitor do.
AwaitEnds == \A v \in Visitor : relay[v].at = "await" ~> relay[v].at = "done"
=============================================================================
