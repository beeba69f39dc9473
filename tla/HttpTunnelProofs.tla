-------------------------- MODULE HttpTunnelProofs --------------------------
(***************************************************************************)
(* Proofs about HTTP requests through a tunnel, for any number of          *)
(* visitors, requests and connections of the client, however the visitor's *)
(* writes are cut and joined by the reads of the relay: answers reach the  *)
(* visitor in the order of its requests, and the records kept of requests  *)
(* tell what happened.                                                     *)
(***************************************************************************)
EXTENDS HttpTunnel, SequenceTheorems, TLAPS

(***************************************************************************)
(* What the parts of a visit hold, and how far its requests have come.     *)
(***************************************************************************)
Chunk == [req : Nat \ {0}, last : Nat \ {0}, part : {"whole", "head", "stub", "rest"}, ws : SUBSET Nat]
GivenAnswer == [req : Nat, status : Nat \ {0}, cut : BOOLEAN]
Carrying == [type : {"Connect", "Request", "Data"}, chunk : Chunk]
Closing == [type : {"Close", "End"}]
Replying == [type : {"Data", "Response"}, answer : GivenAnswer]
UpMessage == Carrying \cup Closing
DownMessage == Replying \cup Closing

Early == {"read", "route", "auth", "get", "open"}

VisitorRow == [server : Servers, flaw : Flaws, budget : Nat, side : {"open", "half", "gone"}, sent : Nat,
               eager : BOOLEAN, inbox : Seq(Chunk), answers : Seq(GivenAnswer)]
RelayRow == [at : Early \cup {"proxy", "await", "done"}, first : Seq(Chunk), via : Nat]
ClientRow == [at : {"none", "busy", "loop", "raw", "upgraded", "end"}, kind : {"none", "request", "proxy"},
              req : Nat, last : Nat, whole : BOOLEAN, skipped : SUBSET Nat, unsettled : BOOLEAN]

Typed(p, r, u, d, c, k) ==
    /\ p \in VisitorRow /\ r \in RelayRow /\ c \in ClientRow
    /\ u \in Seq(UpMessage) /\ d \in Seq(DownMessage) /\ k \in Int

\* A chunk follows what was read up to request n: it begins with the rest of that or with
\* the next one.
Follows(n, ch) == ch.req = (IF ch.part = "rest" THEN n ELSE n + 1) /\ ch.req <= ch.last
Chained(n, q) ==
    /\ \A j \in 1 .. Len(q) : Follows(IF j = 1 THEN n ELSE q[j - 1].last, q[j])
    /\ \A i, j \in 1 .. Len(q) : i <= j => q[i].req <= q[j].last
LastOf(n, q) == IF q = <<>> THEN n ELSE q[Len(q)].last
Queue(n, p) == Chained(n, p.inbox) /\ LastOf(n, p.inbox) = p.sent
ChunksOf(u) == [j \in 1 .. Len(u) |-> u[j].chunk]

\* The answers so far are in order, and one for each request of a visitor that waits.
Matched(p, c) ==
    /\ InOrder(0, c.skipped, p.answers)
    /\ ~p.eager => p.sent <= Len(p.answers) + 1 /\ \A j \in 1 .. Len(p.answers) : p.answers[j].req = j
    /\ p.server = "http" => \A j \in 1 .. Len(p.answers) : ~p.answers[j].cut

Recorded(p, r, k) ==
    p.side # "gone" => /\ k > NoStatus => p.answers # <<>> /\ p.answers[1].status = k
                       /\ r.at # "done" /\ k <= NoStatus => p.answers = <<>>

\* Up to the stream nothing has happened but that the first chunk was read.
Started(p, r, u, d, c) ==
    /\ r.at \in Early => p.answers = <<>> /\ u = <<>> /\ d = <<>> /\ c.at = "none" /\ c.last = 0
    /\ r.at = "read" => Queue(0, p)
    /\ r.at \in Early \ {"read"} => Len(r.first) = 1 /\ Follows(0, r.first[1]) /\ Queue(r.first[1].last, p)

\* One message each way.
OneMessage(p, r, u, d, c) ==
    r.at = "await" =>
      /\ p.server = "https" /\ p.answers = <<>> /\ c.at \in {"none", "busy", "end"}
      /\ c.at = "none" => u # <<>> /\ u[1].type = "Request" /\ u[1].chunk.req = 1
      /\ c.at = "busy" => c.kind = "request" /\ c.req = 1
      /\ \A j \in 1 .. Len(d) : d[j].type = "Response" => d[j].answer.req = 1

\* What lies between n and m was dropped.
Passed(n, m, dropped) == n <= m /\ n + 1 .. m \subseteq dropped

\* Bytes towards the client: the chunks in order, from the last request the client has.
BytesUp(p, r, u, c) ==
    r.at = "proxy" /\ c.at \in {"none", "busy", "loop", "raw"} =>
      /\ \A j \in 1 .. Len(u) : u[j] \in Carrying /\ u[j].type = (IF c.at = "none" /\ j = 1 THEN "Connect" ELSE "Data")
      /\ Chained(c.last, ChunksOf(u)) /\ Queue(LastOf(c.last, ChunksOf(u)), p)
      /\ c.at = "none" => u # <<>> /\ c.last = 0
      /\ c.at = "busy" => c.kind = "proxy" /\ Passed(c.req, c.last, c.skipped)
      /\ c.at \in {"busy", "raw"} => c.req # 0

\* The request up to which the client has answered or dropped what came.
Dealt(c) == IF c.at \in {"busy", "raw"} THEN c.req - 1 ELSE c.last

\* The answers in the stream continue, in order, those up to request n.
Told(n, dropped, d) ==
    \A j \in 1 .. Len(d) : d[j].type = "Data" =>
      /\ j # 1 => d[j - 1].type = "Data"
      /\ (IF j = 1 THEN n ELSE d[j - 1].answer.req) < d[j].answer.req
      /\ (IF j = 1 THEN n ELSE d[j - 1].answer.req) + 1 .. d[j].answer.req - 1 \subseteq dropped
LastTold(n, d) == IF d = <<>> THEN n ELSE d[Len(d)].answer.req
LastReq(q) == IF q = <<>> THEN 0 ELSE q[Len(q)].req

\* Bytes towards the visitor: the answers in order.
BytesDown(p, r, d, c) ==
    r.at = "proxy" =>
      /\ \A j \in 1 .. Len(d) : /\ d[j].type # "Response"
                                /\ d[j].type = "Data" => ~d[j].answer.cut /\ d[j].answer.req <= p.sent
      /\ c.at # "end" => \A j \in 1 .. Len(d) : d[j].type = "Data"
      /\ p.side # "gone" =>
           /\ Told(LastReq(p.answers), c.skipped, d)
           /\ c.at \notin {"upgraded", "end"} => Passed(LastTold(LastReq(p.answers), d), Dealt(c), c.skipped)

Visit(p, r, u, d, c, k) ==
    /\ Typed(p, r, u, d, c, k)
    /\ Matched(p, c) /\ Recorded(p, r, k)
    /\ Started(p, r, u, d, c) /\ OneMessage(p, r, u, d, c) /\ BytesUp(p, r, u, c) /\ BytesDown(p, r, d, c)

VisitOf(v) == Visit(visitor[v], relay[v], up[v], down[v], client[v], captured[v])

RingRow == [id : Visitor \X Nat, state : {"open", "ok", "failed"}]
RingInv == ring \in Seq(RingRow) /\ MetricsSettled

VisitsInv ==
    /\ visitor \in [Visitor -> VisitorRow] /\ relay \in [Visitor -> RelayRow] /\ client \in [Visitor -> ClientRow]
    /\ up \in [Visitor -> Seq(UpMessage)] /\ down \in [Visitor -> Seq(DownMessage)] /\ captured \in [Visitor -> Int]
    /\ \A v \in Visitor : VisitOf(v)

HttpInv == VisitsInv /\ RingInv /\ tunnel \in Nat

\* A step gives the function f the value x at v, or leaves it alone.
Becomes(f2, f, v, x) == f2 = [f EXCEPT ![v] = x] \/ (f2 = f /\ x = f[v])

\* A visitor receives the next answer of the stream, if it is still there.
AnswerNext(r, d) ==
    \/ r.at = "proxy" /\ Head(d).type = "Data"
    \/ r.at = "await" /\ Head(d).type = "Response"
Receives(p2, p, d) == p2 = [p EXCEPT !.answers = IF p.side = "gone" THEN @ ELSE Append(@, Head(d).answer)]
Received(p2, p, d, c) ==
    /\ p2 \in VisitorRow /\ Matched(p2, c) /\ Head(d).answer.status \in Nat \ {0}
    /\ p2.sent = p.sent /\ p2.inbox = p.inbox /\ p2.side = p.side /\ p2.server = p.server /\ p2.flaw = p.flaw
    /\ p.side = "gone" => p2 = p
    /\ p.side # "gone" => /\ p2.answers # <<>> /\ LastReq(p2.answers) = Head(d).answer.req
                          /\ p2.answers[1] = IF p.answers = <<>> THEN Head(d).answer ELSE p.answers[1]

\* The client forwards a chunk, passes it on as it is, or drops it.
TakesUp(c2, c, ch) ==
    /\ c2.last = ch.last /\ c.skipped \subseteq c2.skipped
    /\ \/ /\ c2.at = "busy" /\ c2.kind = "proxy" /\ c2.req = ch.req /\ ch.part # "rest"
          /\ ch.req + 1 .. ch.last \subseteq c2.skipped
       \/ c2.at = "raw" /\ c2.req = ch.req /\ ch.part # "rest"
       \/ c2.at = "loop" /\ (IF ch.part = "rest" THEN ch.req + 1 ELSE ch.req) .. ch.last \subseteq c2.skipped

\* The service answers one of the requests that are passed on as they are.
Answered(c2, c, at) ==
    /\ c2.at = at /\ c2.req = c.req + 1 /\ c2.last = c.last
    /\ c2.skipped = c.skipped /\ c2.unsettled = c.unsettled

\* What the client's task may send when it ends.
Final(ms, r) ==
    \A j \in 1 .. Len(ms) : /\ ms[j].type # "Data"
                            /\ ms[j].type = "Response" => r.at = "await" /\ ms[j].answer.req = 1

(***************************************************************************)
(* Chains of chunks.                                                       *)
(***************************************************************************)
\* A chunk that follows the last of a chain continues it.
LEMMA ChainAppend ==
    ASSUME NEW n \in Nat, NEW q \in Seq(Chunk), NEW ch \in Chunk, Chained(n, q), Follows(LastOf(n, q), ch)
    PROVE  /\ Append(q, ch) \in Seq(Chunk) /\ Chained(n, Append(q, ch)) /\ LastOf(n, Append(q, ch)) = ch.last
<1>1. PICK a : a = Append(q, ch)
  OBVIOUS
<1>2. /\ a \in Seq(Chunk) /\ a # <<>> /\ Len(a) = Len(q) + 1 /\ Len(q) \in Nat /\ a[Len(q) + 1] = ch
      /\ \A j \in 1 .. Len(q) : a[j] = q[j]
  BY <1>1, AppendProperties
<1>3. q # <<>> => Len(q) # 0
  BY EmptySeq
<1>4. ASSUME NEW j \in 1 .. Len(a) PROVE Follows(IF j = 1 THEN n ELSE a[j - 1].last, a[j])
  <2>1. CASE j \in 1 .. Len(q)
    BY <1>2, <2>1 DEF Chained
  <2>2. CASE j = Len(q) + 1
    <3>1. CASE q = <<>>
      BY <1>2, <2>2, <3>1 DEF LastOf
    <3>2. CASE q # <<>>
      BY <1>2, <1>3, <2>2, <3>2 DEF LastOf
    <3> QED
      BY <3>1, <3>2
  <2> QED
    BY <1>2, <2>1, <2>2
<1>5. ASSUME NEW i \in 1 .. Len(a), NEW j \in 1 .. Len(a), i <= j PROVE a[i].req <= a[j].last
  <2>1. CASE j \in 1 .. Len(q)
    <3>1. i \in 1 .. Len(q)
      BY <1>2, <1>5, <2>1
    <3> QED
      BY <1>2, <1>5, <2>1, <3>1 DEF Chained
  <2>2. CASE j = Len(q) + 1 /\ i \in 1 .. Len(q)
    <3>1. Len(q) \in 1 .. Len(q) /\ q # <<>> /\ i <= Len(q)
      BY <1>2, <2>2
    <3>2. q[i].req <= q[Len(q)].last
      BY <2>2, <3>1 DEF Chained
    <3>3. ch.req >= q[Len(q)].last /\ ch.req <= ch.last
      <4>1. q[Len(q)] \in Chunk
        BY <3>1, ElementOfSeq
      <4> QED
        BY <3>1, <4>1 DEF Follows, LastOf, Chunk
    <3>4. q[i] \in Chunk /\ q[Len(q)] \in Chunk
      BY <2>2, <3>1, ElementOfSeq
    <3>5. q[i].req <= ch.last
      BY <3>2, <3>3, <3>4 DEF Chunk
    <3> QED
      BY <1>2, <2>2, <3>5
  <2>3. CASE i = Len(q) + 1 /\ j = Len(q) + 1
    BY <1>2, <2>3 DEF Follows
  <2> QED
    BY <1>2, <1>5, <2>1, <2>2, <2>3
<1> QED
  BY <1>1, <1>2, <1>4, <1>5 DEF Chained, LastOf

\* What a read takes of a queue, and what it leaves.
LEMMA JoinTyped ==
    ASSUME NEW q \in Seq(Chunk), NEW k \in 1 .. Len(q)
    PROVE  /\ Joined(SubSeq(q, 1, k)) \in Chunk /\ SubSeq(q, k + 1, Len(q)) \in Seq(Chunk)
           /\ Joined(SubSeq(q, 1, k)).req = q[1].req /\ Joined(SubSeq(q, 1, k)).last = q[k].last
           /\ Joined(SubSeq(q, 1, k)).part = "rest" <=> q[1].part = "rest"
<1>1. PICK h, t : h = SubSeq(q, 1, k) /\ t = SubSeq(q, k + 1, Len(q))
  OBVIOUS
<1>2. Len(q) \in Nat \ {0} /\ k \in Nat \ {0} /\ k <= Len(q)
  OBVIOUS
<1>3. h \in Seq(Chunk) /\ Len(h) = k /\ \A i \in 1 .. k : h[i] = q[i]
  BY <1>1, <1>2
<1>4. t \in Seq(Chunk) /\ Len(t) = Len(q) - k /\ \A i \in 1 .. Len(t) : t[i] = q[k + i]
  BY <1>1, <1>2
<1>5. PICK x : x = Joined(h)
  OBVIOUS
<1>6. 1 \in 1 .. Len(q) /\ 1 \in 1 .. k /\ k \in 1 .. k /\ k \in 1 .. Len(q)
  BY <1>2
<1>7. h[1] = q[1] /\ h[Len(h)] = q[k] /\ q[1] \in Chunk /\ q[k] \in Chunk
  BY <1>3, <1>6, ElementOfSeq
<1>8. /\ x.req = q[1].req /\ x.last = q[k].last
      /\ x.part \in {"whole", "head", "stub", "rest"} /\ (x.part = "rest" <=> q[1].part = "rest")
  <2>1. x.req = q[1].req /\ x.last = q[k].last
    BY <1>5, <1>7 DEF Joined
  <2>2. x.part = IF h[1].part \in {"head", "stub"} /\ Len(h) > 1 THEN "whole" ELSE h[1].part
    BY <1>5 DEF Joined
  <2>3. q[1].part \in {"whole", "head", "stub", "rest"}
    BY <1>7 DEF Chunk
  <2> QED
    BY <1>7, <2>1, <2>2, <2>3
<1>9. x \in Chunk
  <2>1. PICK w : w = UNION {h[j].ws : j \in 1 .. Len(h)}
    OBVIOUS
  <2>2. w \in SUBSET Nat
    <3>1. \A j \in 1 .. Len(h) : h[j].ws \in SUBSET Nat
      <4>1. \A j \in 1 .. Len(h) : h[j] \in Chunk
        BY <1>3, ElementOfSeq
      <4> QED
        BY <4>1 DEF Chunk
    <3> QED
      BY <2>1, <3>1
  <2>3. PICK a, b, e : a = x.req /\ b = x.last /\ e = x.part
    OBVIOUS
  <2>4. x = [req |-> a, last |-> b, part |-> e, ws |-> w]
    BY <1>5, <2>1, <2>3 DEF Joined
  <2>5. a \in Nat \ {0} /\ b \in Nat \ {0} /\ e \in {"whole", "head", "stub", "rest"}
    BY <1>7, <1>8, <2>3 DEF Chunk
  <2> QED
    BY <2>2, <2>4, <2>5 DEF Chunk
<1> QED
  BY <1>1, <1>4, <1>5, <1>8, <1>9

\* The first k chunks of a chain are taken by one read.
LEMMA ChainJoin ==
    ASSUME NEW n \in Nat, NEW q \in Seq(Chunk), Chained(n, q), NEW k \in 1 .. Len(q)
    PROVE  /\ Joined(SubSeq(q, 1, k)) \in Chunk /\ SubSeq(q, k + 1, Len(q)) \in Seq(Chunk)
           /\ Follows(n, Joined(SubSeq(q, 1, k)))
           /\ Chained(Joined(SubSeq(q, 1, k)).last, SubSeq(q, k + 1, Len(q)))
           /\ LastOf(Joined(SubSeq(q, 1, k)).last, SubSeq(q, k + 1, Len(q))) = LastOf(n, q)
<1>1. PICK h, t : h = SubSeq(q, 1, k) /\ t = SubSeq(q, k + 1, Len(q))
  OBVIOUS
<1>2. Len(q) \in Nat \ {0} /\ k \in Nat \ {0} /\ k <= Len(q)
  OBVIOUS
<1>4. t \in Seq(Chunk) /\ Len(t) = Len(q) - k /\ \A i \in 1 .. Len(t) : t[i] = q[k + i]
  BY <1>1, <1>2
<1>5. PICK x : x = Joined(h)
  OBVIOUS
<1>6. 1 \in 1 .. Len(q) /\ k \in 1 .. Len(q)
  BY <1>2
<1>8. x \in Chunk /\ x.req = q[1].req /\ x.last = q[k].last /\ (x.part = "rest" <=> q[1].part = "rest")
  BY <1>1, <1>5, JoinTyped
<1>10. Follows(n, x)
  <2>1. Follows(n, q[1]) /\ q[1].req <= q[k].last
    BY <1>2, <1>6 DEF Chained
  <2> QED
    BY <1>8, <2>1 DEF Follows
<1>11. Chained(x.last, t)
  <2>1. ASSUME NEW j \in 1 .. Len(t) PROVE Follows(IF j = 1 THEN x.last ELSE t[j - 1].last, t[j])
    <3>1. k + j \in 1 .. Len(q) /\ k + j # 1 /\ t[j] = q[k + j] /\ k + j - 1 \in 1 .. Len(q)
      <4>1. j \in Nat \ {0} /\ j <= Len(q) - k /\ t[j] = q[k + j]
        BY <1>2, <1>4
      <4> QED
        BY <1>2, <4>1
    <3>2. Follows(q[k + j - 1].last, q[k + j])
      BY <3>1 DEF Chained
    <3>3. CASE j = 1
      <4>1. k + j - 1 = k
        BY <1>2, <3>3
      <4> QED
        BY <1>8, <3>1, <3>2, <3>3, <4>1
    <3>4. CASE j # 1
      <4>1. t[j - 1] = q[k + (j - 1)] /\ k + (j - 1) = k + j - 1
        BY <1>2, <1>4, <3>4
      <4> QED
        BY <3>1, <3>2, <3>4, <4>1
    <3> QED
      BY <3>3, <3>4
  <2>2. ASSUME NEW i \in 1 .. Len(t), NEW j \in 1 .. Len(t), i <= j PROVE t[i].req <= t[j].last
    <3>1. k + i \in 1 .. Len(q) /\ k + j \in 1 .. Len(q) /\ k + i <= k + j
      BY <1>2, <1>4, <2>2
    <3> QED
      BY <1>4, <3>1 DEF Chained
  <2> QED
    BY <2>1, <2>2 DEF Chained
<1>12. LastOf(x.last, t) = LastOf(n, q)
  <2>1. q # <<>>
    BY <1>2, EmptySeq
  <2>2. CASE t = <<>>
    <3>1. Len(q) = k
      BY <1>2, <1>4, <2>2, EmptySeq
    <3> QED
      BY <1>8, <2>1, <2>2, <3>1 DEF LastOf
  <2>3. CASE t # <<>>
    <3>1. Len(t) \in 1 .. Len(t) /\ k + Len(t) = Len(q)
      BY <1>2, <1>4, <2>3, EmptySeq
    <3>2. t[Len(t)] = q[Len(q)]
      BY <1>4, <3>1
    <3> QED
      BY <2>1, <2>3, <3>2 DEF LastOf
  <2> QED
    BY <2>2, <2>3
<1> QED
  BY <1>1, <1>4, <1>5, <1>8, <1>10, <1>11, <1>12

\* The first of a chain is taken.
LEMMA ChainTail ==
    ASSUME NEW n \in Nat, NEW q \in Seq(Chunk), q # <<>>, Chained(n, q)
    PROVE  /\ Head(q) \in Chunk /\ Tail(q) \in Seq(Chunk) /\ Head(q) = q[1]
           /\ Follows(n, Head(q)) /\ Chained(Head(q).last, Tail(q))
           /\ LastOf(Head(q).last, Tail(q)) = LastOf(n, q)
<1>1. PICK h, t : h = Head(q) /\ t = Tail(q)
  OBVIOUS
<1>2. /\ h \in Chunk /\ t \in Seq(Chunk) /\ h = q[1] /\ Len(t) = Len(q) - 1 /\ Len(q) \in Nat \ {0}
      /\ \A i \in 1 .. Len(t) : t[i] = q[i + 1]
  BY <1>1, HeadTailProperties, EmptySeq
<1>3. Follows(n, h)
  BY <1>2 DEF Chained
<1>4. ASSUME NEW j \in 1 .. Len(t) PROVE Follows(IF j = 1 THEN h.last ELSE t[j - 1].last, t[j])
  <2>1. j + 1 \in 1 .. Len(q) /\ j + 1 # 1 /\ t[j] = q[j + 1]
    BY <1>2
  <2>2. Follows(q[(j + 1) - 1].last, q[j + 1])
    BY <2>1 DEF Chained
  <2>3. (j + 1) - 1 = j
    BY <1>2
  <2>4. j # 1 => t[j - 1] = q[j]
    BY <1>2
  <2> QED
    BY <1>2, <2>1, <2>2, <2>3, <2>4
<1>5. ASSUME NEW i \in 1 .. Len(t), NEW j \in 1 .. Len(t), i <= j PROVE t[i].req <= t[j].last
  <2>1. i + 1 \in 1 .. Len(q) /\ j + 1 \in 1 .. Len(q) /\ i + 1 <= j + 1
    BY <1>2, <1>5
  <2> QED
    BY <1>2, <2>1 DEF Chained
<1>6. LastOf(h.last, t) = LastOf(n, q)
  <2>1. CASE t = <<>>
    <3>1. Len(q) = 1
      BY <1>2, <2>1, EmptySeq
    <3> QED
      BY <1>2, <2>1, <3>1 DEF LastOf
  <2>2. CASE t # <<>>
    <3>1. Len(t) \in 1 .. Len(t)
      BY <1>2, <2>2, EmptySeq
    <3> QED
      BY <1>2, <2>2, <3>1 DEF LastOf
  <2> QED
    BY <2>1, <2>2
<1> QED
  BY <1>1, <1>2, <1>3, <1>4, <1>5, <1>6 DEF Chained

\* The request a chain ends with.
LEMMA LastNat ==
    ASSUME NEW n \in Nat, NEW q \in Seq(Chunk)
    PROVE  LastOf(n, q) \in Nat /\ (Chained(n, q) => n <= LastOf(n, q))
<1>1. CASE q = <<>>
  BY <1>1 DEF LastOf
<1>2. CASE q # <<>>
  <2>1. Len(q) \in 1 .. Len(q) /\ 1 \in 1 .. Len(q) /\ 1 <= Len(q)
    BY <1>2, EmptySeq
  <2>2. q[Len(q)] \in Chunk /\ q[1] \in Chunk
    BY <2>1, ElementOfSeq
  <2>3. ASSUME Chained(n, q) PROVE n <= q[Len(q)].last
    <3>1. Follows(n, q[1]) /\ q[1].req <= q[Len(q)].last
      BY <2>1, <2>3 DEF Chained
    <3> QED
      BY <2>2, <3>1 DEF Follows, Chunk
  <2> QED
    BY <1>2, <2>2, <2>3 DEF LastOf, Chunk
<1> QED
  BY <1>1, <1>2

\* Messages that all carry chunks, and the chunks they carry.
LEMMA ChunksFacts ==
    ASSUME NEW u \in Seq(UpMessage), \A j \in 1 .. Len(u) : u[j] \in Carrying
    PROVE  /\ ChunksOf(u) \in Seq(Chunk) /\ Len(ChunksOf(u)) = Len(u)
           /\ \A j \in 1 .. Len(u) : ChunksOf(u)[j] = u[j].chunk
           /\ ChunksOf(u) = <<>> <=> u = <<>>
<1>1. Len(u) \in Nat
  OBVIOUS
<1>2. \A j \in 1 .. Len(u) : u[j].chunk \in Chunk
  BY DEF Carrying
<1>3. ChunksOf(u) \in [1 .. Len(u) -> Chunk]
  BY <1>2 DEF ChunksOf
<1>4. ChunksOf(u) \in Seq(Chunk)
  BY <1>1, <1>3, SeqDef
<1>5. Len(ChunksOf(u)) = Len(u)
  BY <1>1, <1>3, <1>4
<1> QED
  BY <1>1, <1>3, <1>4, <1>5, EmptySeq DEF ChunksOf

\* One message more.
LEMMA ChunksAppend ==
    ASSUME NEW u \in Seq(UpMessage), \A j \in 1 .. Len(u) : u[j] \in Carrying, NEW m \in Carrying
    PROVE  /\ Append(u, m) \in Seq(UpMessage) /\ \A j \in 1 .. Len(Append(u, m)) : Append(u, m)[j] \in Carrying
           /\ ChunksOf(Append(u, m)) = Append(ChunksOf(u), m.chunk)
<1>1. PICK a, q : a = Append(u, m) /\ q = Append(ChunksOf(u), m.chunk)
  OBVIOUS
<1>2. /\ a \in Seq(UpMessage) /\ Len(a) = Len(u) + 1 /\ a[Len(u) + 1] = m /\ Len(u) \in Nat
      /\ \A j \in 1 .. Len(u) : a[j] = u[j]
  BY <1>1, AppendProperties DEF UpMessage
<1>3. \A j \in 1 .. Len(a) : a[j] \in Carrying
  BY <1>2
<1>4. m.chunk \in Chunk
  BY DEF Carrying
<1>5. /\ q \in Seq(Chunk) /\ Len(q) = Len(u) + 1 /\ q[Len(u) + 1] = m.chunk
      /\ \A j \in 1 .. Len(u) : q[j] = u[j].chunk
  BY <1>1, <1>4, ChunksFacts, AppendProperties
<1>6. /\ ChunksOf(a) \in Seq(Chunk) /\ Len(ChunksOf(a)) = Len(a)
      /\ \A j \in 1 .. Len(a) : ChunksOf(a)[j] = a[j].chunk
  BY <1>2, <1>3, ChunksFacts
<1>7. ChunksOf(a) = q
  <2>1. \A j \in 1 .. Len(q) : ChunksOf(a)[j] = q[j]
    BY <1>2, <1>5, <1>6
  <2> QED
    BY <1>2, <1>5, <1>6, <2>1, SeqEqual
<1> QED
  BY <1>1, <1>2, <1>3, <1>7

\* One message less.
LEMMA ChunksTail ==
    ASSUME NEW u \in Seq(UpMessage), u # <<>>, \A j \in 1 .. Len(u) : u[j] \in Carrying
    PROVE  /\ Tail(u) \in Seq(UpMessage) /\ \A j \in 1 .. Len(Tail(u)) : Tail(u)[j] = u[j + 1] /\ j + 1 \in 1 .. Len(u)
           /\ Head(u) = u[1] /\ Head(u) \in Carrying
           /\ ChunksOf(u) # <<>> /\ Head(ChunksOf(u)) = Head(u).chunk /\ Tail(ChunksOf(u)) = ChunksOf(Tail(u))
<1>1. PICK t, q : t = Tail(u) /\ q = ChunksOf(u)
  OBVIOUS
<1>2. /\ t \in Seq(UpMessage) /\ Len(t) = Len(u) - 1 /\ Len(u) \in Nat \ {0} /\ Head(u) = u[1]
      /\ \A i \in 1 .. Len(t) : t[i] = u[i + 1] /\ i + 1 \in 1 .. Len(u)
  BY <1>1, HeadTailProperties, EmptySeq
<1>3. \A j \in 1 .. Len(t) : t[j] \in Carrying
  BY <1>2
<1>4. /\ q \in Seq(Chunk) /\ Len(q) = Len(u) /\ \A j \in 1 .. Len(u) : q[j] = u[j].chunk
  BY <1>1, ChunksFacts
<1>5. q # <<>>
  BY <1>2, <1>4, EmptySeq
<1>6. /\ Head(q) = q[1] /\ Tail(q) \in Seq(Chunk) /\ Len(Tail(q)) = Len(q) - 1
      /\ \A i \in 1 .. Len(Tail(q)) : Tail(q)[i] = q[i + 1]
  BY <1>4, <1>5, HeadTailProperties
<1>7. /\ ChunksOf(t) \in Seq(Chunk) /\ Len(ChunksOf(t)) = Len(t)
      /\ \A j \in 1 .. Len(t) : ChunksOf(t)[j] = t[j].chunk
  BY <1>2, <1>3, ChunksFacts
<1>8. Tail(q) = ChunksOf(t)
  <2>1. \A j \in 1 .. Len(Tail(q)) : Tail(q)[j] = ChunksOf(t)[j]
    BY <1>2, <1>4, <1>6, <1>7
  <2> QED
    BY <1>2, <1>4, <1>6, <1>7, <2>1, SeqEqual
<1> QED
  BY <1>1, <1>2, <1>4, <1>5, <1>6, <1>8

(***************************************************************************)
(* Answers in order.                                                       *)
(***************************************************************************)
\* The next answer at the end of those that are in order.
LEMMA OrderAppend ==
    ASSUME NEW S, NEW q \in Seq(GivenAnswer), NEW a \in GivenAnswer, InOrder(0, S, q),
           LastReq(q) < a.req, LastReq(q) + 1 .. a.req - 1 \subseteq S
    PROVE  InOrder(0, S, Append(q, a)) /\ LastReq(Append(q, a)) = a.req
<1>1. PICK b : b = Append(q, a)
  OBVIOUS
<1>2. /\ b \in Seq(GivenAnswer) /\ b # <<>> /\ Len(b) = Len(q) + 1 /\ Len(q) \in Nat /\ b[Len(q) + 1] = a
      /\ \A j \in 1 .. Len(q) : b[j] = q[j]
  BY <1>1, AppendProperties
<1>3. q # <<>> => Len(q) # 0
  BY EmptySeq
<1>4. ASSUME NEW j \in 1 .. Len(b)
      PROVE  /\ (IF j = 1 THEN 0 ELSE b[j - 1].req) < b[j].req
             /\ (IF j = 1 THEN 0 ELSE b[j - 1].req) + 1 .. b[j].req - 1 \subseteq S
  <2>1. CASE j \in 1 .. Len(q)
    <3>1. b[j] = q[j] /\ (j # 1 => b[j - 1] = q[j - 1])
      BY <1>2, <2>1
    <3> QED
      BY <2>1, <3>1 DEF InOrder
  <2>2. CASE j = Len(q) + 1
    <3>1. (IF j = 1 THEN 0 ELSE b[j - 1].req) = LastReq(q) /\ b[j] = a
      <4>1. CASE q = <<>>
        BY <1>2, <2>2, <4>1 DEF LastReq
      <4>2. CASE q # <<>>
        BY <1>2, <1>3, <2>2, <4>2 DEF LastReq
      <4> QED
        BY <4>1, <4>2
    <3> QED
      BY <3>1
  <2> QED
    BY <1>2, <2>1, <2>2
<1>5. InOrder(0, S, b)
  BY <1>4 DEF InOrder
<1>6. LastReq(b) = a.req
  BY <1>2 DEF LastReq
<1> QED
  BY <1>1, <1>5, <1>6

\* More may have been dropped.
LEMMA OrderMore ==
    ASSUME NEW S, NEW T, S \subseteq T, NEW n, NEW q, NEW m
    PROVE  /\ InOrder(n, S, q) => InOrder(n, T, q)
           /\ Told(n, S, q) => Told(n, T, q)
           /\ Passed(n, m, S) => Passed(n, m, T)
<1>1. InOrder(n, S, q) => InOrder(n, T, q)
  BY DEF InOrder
<1>2. Told(n, S, q) => Told(n, T, q)
  BY DEF Told
<1>3. Passed(n, m, S) => Passed(n, m, T)
  BY DEF Passed
<1> QED
  BY <1>1, <1>2, <1>3

\* The number of the last answer.
LEMMA LastReqNat ==
    ASSUME NEW q \in Seq(GivenAnswer)
    PROVE  LastReq(q) \in Nat
<1>1. CASE q = <<>>
  BY <1>1 DEF LastReq
<1>2. CASE q # <<>>
  <2>1. Len(q) \in 1 .. Len(q)
    BY <1>2, EmptySeq
  <2>2. q[Len(q)] \in GivenAnswer
    BY <2>1, ElementOfSeq
  <2> QED
    BY <1>2, <2>2 DEF LastReq, GivenAnswer
<1> QED
  BY <1>1, <1>2

\* The number of the last answer in the stream.
LEMMA LastToldNat ==
    ASSUME NEW n \in Nat, NEW d \in Seq(DownMessage), \A j \in 1 .. Len(d) : d[j].type = "Data"
    PROVE  LastTold(n, d) \in Nat
<1>1. CASE d = <<>>
  BY <1>1 DEF LastTold
<1>2. CASE d # <<>>
  <2>1. Len(d) \in 1 .. Len(d)
    BY <1>2, EmptySeq
  <2>2. d[Len(d)] \in DownMessage /\ d[Len(d)].type = "Data"
    BY <2>1, ElementOfSeq
  <2>3. d[Len(d)].answer \in GivenAnswer
    BY <2>2 DEF DownMessage, Replying, Closing
  <2> QED
    BY <1>2, <2>3 DEF LastTold, GivenAnswer
<1> QED
  BY <1>1, <1>2

\* The next answer of the stream is taken.
LEMMA ToldTail ==
    ASSUME NEW S, NEW n, NEW d \in Seq(DownMessage), d # <<>>, Head(d).type = "Data", Told(n, S, d)
    PROVE  /\ n < Head(d).answer.req /\ n + 1 .. Head(d).answer.req - 1 \subseteq S
           /\ Told(Head(d).answer.req, S, Tail(d))
           /\ LastTold(Head(d).answer.req, Tail(d)) = LastTold(n, d)
<1>1. PICK h, t : h = Head(d) /\ t = Tail(d)
  OBVIOUS
<1>2. /\ t \in Seq(DownMessage) /\ h = d[1] /\ Len(t) = Len(d) - 1 /\ Len(d) \in Nat \ {0}
      /\ \A i \in 1 .. Len(t) : t[i] = d[i + 1]
  BY <1>1, HeadTailProperties, EmptySeq
<1>3. n < h.answer.req /\ n + 1 .. h.answer.req - 1 \subseteq S
  <2>1. 1 \in 1 .. Len(d) /\ d[1].type = "Data"
    BY <1>1, <1>2
  <2> QED
    BY <1>2, <2>1 DEF Told
<1>4. ASSUME NEW j \in 1 .. Len(t), t[j].type = "Data"
      PROVE  /\ j # 1 => t[j - 1].type = "Data"
             /\ (IF j = 1 THEN h.answer.req ELSE t[j - 1].answer.req) < t[j].answer.req
             /\ (IF j = 1 THEN h.answer.req ELSE t[j - 1].answer.req) + 1 .. t[j].answer.req - 1 \subseteq S
  <2>1. j + 1 \in 1 .. Len(d) /\ j + 1 # 1 /\ t[j] = d[j + 1] /\ (j + 1) - 1 = j
    BY <1>2
  <2>2. /\ d[j].type = "Data" /\ d[j].answer.req < d[j + 1].answer.req
        /\ d[j].answer.req + 1 .. d[j + 1].answer.req - 1 \subseteq S
    BY <1>4, <2>1 DEF Told
  <2>3. j # 1 => t[j - 1] = d[j]
    BY <1>2
  <2>4. j = 1 => h = d[j]
    BY <1>2
  <2> QED
    BY <2>1, <2>2, <2>3, <2>4
<1>5. Told(h.answer.req, S, t)
  BY <1>4 DEF Told
<1>6. LastTold(h.answer.req, t) = LastTold(n, d)
  <2>1. CASE t = <<>>
    <3>1. Len(d) = 1
      BY <1>2, <2>1, EmptySeq
    <3> QED
      BY <1>2, <2>1, <3>1 DEF LastTold
  <2>2. CASE t # <<>>
    <3>1. Len(t) \in 1 .. Len(t)
      BY <1>2, <2>2, EmptySeq
    <3> QED
      BY <1>2, <2>2, <3>1 DEF LastTold
  <2> QED
    BY <2>1, <2>2
<1> QED
  BY <1>1, <1>3, <1>5, <1>6

\* One answer more in the stream.
LEMMA ToldAppend ==
    ASSUME NEW S, NEW n, NEW d \in Seq(DownMessage), NEW m \in DownMessage, Told(n, S, d),
           \A j \in 1 .. Len(d) : d[j].type = "Data",
           LastTold(n, d) < m.answer.req, LastTold(n, d) + 1 .. m.answer.req - 1 \subseteq S
    PROVE  Told(n, S, Append(d, m)) /\ LastTold(n, Append(d, m)) = m.answer.req
<1>1. PICK b : b = Append(d, m)
  OBVIOUS
<1>2. /\ b \in Seq(DownMessage) /\ b # <<>> /\ Len(b) = Len(d) + 1 /\ Len(d) \in Nat /\ b[Len(d) + 1] = m
      /\ \A j \in 1 .. Len(d) : b[j] = d[j]
  BY <1>1, AppendProperties
<1>3. d # <<>> => Len(d) # 0
  BY EmptySeq
<1>4. ASSUME NEW j \in 1 .. Len(b), b[j].type = "Data"
      PROVE  /\ j # 1 => b[j - 1].type = "Data"
             /\ (IF j = 1 THEN n ELSE b[j - 1].answer.req) < b[j].answer.req
             /\ (IF j = 1 THEN n ELSE b[j - 1].answer.req) + 1 .. b[j].answer.req - 1 \subseteq S
  <2>1. CASE j \in 1 .. Len(d)
    <3>1. b[j] = d[j] /\ (j # 1 => b[j - 1] = d[j - 1])
      BY <1>2, <2>1
    <3> QED
      BY <1>4, <2>1, <3>1 DEF Told
  <2>2. CASE j = Len(d) + 1
    <3>1. (IF j = 1 THEN n ELSE b[j - 1].answer.req) = LastTold(n, d) /\ b[j] = m
      <4>1. CASE d = <<>>
        BY <1>2, <2>2, <4>1 DEF LastTold
      <4>2. CASE d # <<>>
        BY <1>2, <1>3, <2>2, <4>2 DEF LastTold
      <4> QED
        BY <4>1, <4>2
    <3>2. j # 1 => b[j - 1].type = "Data"
      BY <1>2, <2>2
    <3> QED
      BY <3>1, <3>2
  <2> QED
    BY <1>2, <2>1, <2>2
<1>5. Told(n, S, b)
  BY <1>4 DEF Told
<1>6. LastTold(n, b) = m.answer.req
  BY <1>2 DEF LastTold
<1> QED
  BY <1>1, <1>5, <1>6

(***************************************************************************)
(* What a step makes of a visit.                                           *)
(***************************************************************************)
\* A step for one visitor leaves the others alone.
LEMMA OnlyKeeps ==
    ASSUME VisitsInv, NEW v \in Visitor, NEW p, NEW r, NEW u, NEW d, NEW c, NEW k,
           Becomes(visitor', visitor, v, p), Becomes(relay', relay, v, r), Becomes(up', up, v, u),
           Becomes(down', down, v, d), Becomes(client', client, v, c), Becomes(captured', captured, v, k),
           Visit(p, r, u, d, c, k)
    PROVE  VisitsInv'
<1>1. /\ p \in VisitorRow /\ r \in RelayRow /\ c \in ClientRow
      /\ u \in Seq(UpMessage) /\ d \in Seq(DownMessage) /\ k \in Int
  BY DEF Visit, Typed
<1>2. /\ visitor' \in [Visitor -> VisitorRow] /\ relay' \in [Visitor -> RelayRow] /\ client' \in [Visitor -> ClientRow]
      /\ up' \in [Visitor -> Seq(UpMessage)] /\ down' \in [Visitor -> Seq(DownMessage)] /\ captured' \in [Visitor -> Int]
  BY <1>1 DEF VisitsInv, Becomes
<1>3. /\ visitor'[v] = p /\ relay'[v] = r /\ up'[v] = u /\ down'[v] = d /\ client'[v] = c /\ captured'[v] = k
      /\ \A w \in Visitor \ {v} : /\ visitor'[w] = visitor[w] /\ relay'[w] = relay[w] /\ up'[w] = up[w]
                                  /\ down'[w] = down[w] /\ client'[w] = client[w] /\ captured'[w] = captured[w]
  BY DEF VisitsInv, Becomes
<1>4. VisitOf(v)'
  BY <1>3 DEF VisitOf
<1>5. \A w \in Visitor \ {v} : VisitOf(w)'
  BY <1>3 DEF VisitsInv, VisitOf
<1> QED
  BY <1>2, <1>4, <1>5 DEF VisitsInv

\* One or two elements at the end.
LEMMA TwoAppend ==
    ASSUME NEW S, NEW q \in Seq(S), NEW a \in S, NEW b \in S
    PROVE  q \o <<a>> = Append(q, a) /\ q \o <<a, b>> = Append(Append(q, a), b)
  OBVIOUS

\* The pieces of the next request go to the end of the queue.
LEMMA SendVisit ==
    ASSUME NEW p, NEW r, NEW u, NEW d, NEW c, NEW k, Visit(p, r, u, d, c, k), NEW i, i = p.sent + 1,
           NEW a \in Chunk, a.req = i /\ a.last = i /\ a.part # "rest",
           NEW b \in Chunk, b.req = i /\ b.last = i /\ b.part = "rest",
           NEW s \in {<<a>>, <<a, b>>}, NEW e \in BOOLEAN, ~e => ~p.eager /\ Len(p.answers) >= p.sent,
           NEW p2, p2 = [p EXCEPT !.sent = i, !.inbox = p.inbox \o s, !.eager = e]
    PROVE  Visit(p2, r, u, d, c, k)
<1>1. PICK q : q = p.inbox \o s
  OBVIOUS
<1>2. p \in VisitorRow
  BY DEF Visit, Typed
<1>3. i \in Nat \ {0} /\ p.inbox \in Seq(Chunk) /\ p.sent \in Nat /\ p.answers \in Seq(GivenAnswer) /\ Len(p.answers) \in Nat
  BY <1>2 DEF VisitorRow
<1>4. Follows(p.sent, a) /\ Follows(i, b)
  BY <1>3 DEF Follows
<1>5. q \in Seq(Chunk) /\ \A n \in Nat : Queue(n, p) => Chained(n, q) /\ LastOf(n, q) = i
  <2>1. PICK q1 : q1 = Append(p.inbox, a)
    OBVIOUS
  <2>2. q1 \in Seq(Chunk) /\ \A n \in Nat : Queue(n, p) => Chained(n, q1) /\ LastOf(n, q1) = i
    <3>1. q1 \in Seq(Chunk)
      BY <1>3, <2>1, AppendProperties
    <3>2. ASSUME NEW n \in Nat, Queue(n, p) PROVE Chained(n, q1) /\ LastOf(n, q1) = i
      <4>1. Chained(n, p.inbox) /\ Follows(LastOf(n, p.inbox), a)
        BY <1>4, <3>2 DEF Queue
      <4> QED
        BY <1>3, <2>1, <4>1, ChainAppend
    <3> QED
      BY <3>1, <3>2
  <2>3. CASE s = <<a>>
    <3>1. q = q1
      BY <1>1, <1>3, <2>1, <2>3, TwoAppend
    <3> QED
      BY <2>2, <3>1
  <2>4. CASE s = <<a, b>>
    <3>1. q = Append(q1, b)
      BY <1>1, <1>3, <2>1, <2>4, TwoAppend
    <3>2. q \in Seq(Chunk)
      BY <2>2, <3>1, AppendProperties
    <3>3. ASSUME NEW n \in Nat, Queue(n, p) PROVE Chained(n, q) /\ LastOf(n, q) = i
      <4>1. Chained(n, q1) /\ Follows(LastOf(n, q1), b)
        BY <1>4, <2>2, <3>3
      <4> QED
        BY <2>2, <3>1, <4>1, ChainAppend
    <3> QED
      BY <3>2, <3>3
  <2> QED
    BY <2>3, <2>4
<1>6. /\ p2 \in VisitorRow /\ p2.sent = i /\ p2.inbox = q /\ p2.answers = p.answers /\ p2.side = p.side
      /\ p2.server = p.server /\ p2.flaw = p.flaw /\ p2.eager = e
  BY <1>1, <1>2, <1>3, <1>5 DEF VisitorRow
<1>7. \A n \in Nat : Queue(n, p) => Queue(n, p2)
  BY <1>5, <1>6 DEF Queue
<1>8. Typed(p2, r, u, d, c, k) /\ Recorded(p2, r, k) /\ OneMessage(p2, r, u, d, c)
  BY <1>6 DEF Visit, Typed, Recorded, OneMessage
<1>9. Matched(p2, c)
  <2>1. ~e => p2.sent <= Len(p2.answers) + 1
    BY <1>3, <1>6
  <2> QED
    BY <1>6, <2>1 DEF Visit, Matched
<1>10. Started(p2, r, u, d, c)
  <2>1. r.at \in Early \ {"read"} => r.first[1].last \in Nat
    <3> SUFFICES ASSUME r.at \in Early \ {"read"} PROVE r.first[1].last \in Nat
      OBVIOUS
    <3>1. r.first \in Seq(Chunk) /\ Len(r.first) = 1
      BY DEF Visit, Typed, RelayRow, Started
    <3>2. r.first[1] \in Chunk
      BY <3>1, ElementOfSeq
    <3> QED
      BY <3>2 DEF Chunk
  <2> QED
    BY <1>6, <1>7, <2>1 DEF Visit, Started
<1>11. BytesUp(p2, r, u, c)
  <2> SUFFICES ASSUME r.at = "proxy", c.at \in {"none", "busy", "loop", "raw"} PROVE BytesUp(p2, r, u, c)
    BY DEF BytesUp
  <2>1. \A j \in 1 .. Len(u) : u[j] \in Carrying
    BY DEF Visit, BytesUp
  <2>2. ChunksOf(u) \in Seq(Chunk) /\ c.last \in Nat
    BY <2>1, ChunksFacts DEF Visit, Typed, ClientRow
  <2>3. LastOf(c.last, ChunksOf(u)) \in Nat
    BY <2>2, LastNat
  <2> QED
    BY <1>7, <2>3 DEF Visit, BytesUp
<1>12. BytesDown(p2, r, d, c)
  <2>1. ASSUME NEW j \in 1 .. Len(d), d[j].type = "Data", d[j].answer.req <= p.sent PROVE d[j].answer.req <= p2.sent
    <3>1. d[j] \in DownMessage
      BY ElementOfSeq DEF Visit, Typed
    <3>2. d[j].answer.req \in Nat
      BY <2>1, <3>1 DEF DownMessage, Replying, Closing, GivenAnswer
    <3> QED
      BY <1>3, <1>6, <2>1, <3>2
  <2> QED
    BY <1>6, <2>1 DEF Visit, BytesDown
<1> QED
  BY <1>8, <1>9, <1>10, <1>11, <1>12 DEF Visit

\* The visitor closes its side, or is gone.
LEMMA LeaveVisit ==
    ASSUME NEW p, NEW r, NEW u, NEW d, NEW c, NEW k, Visit(p, r, u, d, c, k), p.side = "open", NEW s \in {"half", "gone"}
    PROVE  Visit([p EXCEPT !.side = s], r, u, d, c, k)
<1>1. PICK p2 : p2 = [p EXCEPT !.side = s]
  OBVIOUS
<1>2. /\ p2 \in VisitorRow /\ p2.sent = p.sent /\ p2.inbox = p.inbox /\ p2.answers = p.answers /\ p2.side = s
      /\ p2.server = p.server /\ p2.flaw = p.flaw /\ p2.eager = p.eager
  BY <1>1 DEF Visit, Typed, VisitorRow
<1>3. \A n : Queue(n, p2) <=> Queue(n, p)
  BY <1>2 DEF Queue
<1>4. Typed(p2, r, u, d, c, k) /\ Matched(p2, c) /\ Recorded(p2, r, k)
  BY <1>2 DEF Visit, Typed, Matched, Recorded
<1>5. Started(p2, r, u, d, c) /\ OneMessage(p2, r, u, d, c)
  BY <1>2, <1>3 DEF Visit, Started, OneMessage
<1>6. BytesDown(p2, r, d, c) /\ BytesUp(p2, r, u, c)
  BY <1>2, <1>3 DEF Visit, BytesDown, BytesUp
<1> QED
  BY <1>1, <1>4, <1>5, <1>6 DEF Visit

\* Once the relay's task has ended, only what the visitor has received matters.
LEMMA DoneVisit ==
    ASSUME NEW r \in RelayRow, NEW p2, NEW u2, NEW d2, NEW c, NEW k2, NEW r2,
           r2 = [at |-> "done", first |-> <<>>, via |-> r.via],
           p2 \in VisitorRow, u2 \in Seq(UpMessage), d2 \in Seq(DownMessage), c \in ClientRow, k2 \in Int,
           Matched(p2, c), Recorded(p2, r2, k2)
    PROVE  Visit(p2, r2, u2, d2, c, k2)
<1>1. r2 \in RelayRow /\ r2.at = "done"
  BY DEF RelayRow, Early
<1> QED
  BY <1>1 DEF Visit, Typed, Started, OneMessage, BytesUp, BytesDown, Early

\* An answer of the relay's own comes before any other.
LEMMA OwnAnswer ==
    ASSUME NEW p, NEW r, NEW u, NEW d, NEW c, NEW k, Visit(p, r, u, d, c, k), r.at \in Early \cup {"await"},
           NEW status \in Nat \ {0}, NEW r2, r2.at = "done", NEW p2,
           p2 = [p EXCEPT !.answers = IF p.side = "gone" THEN @
                                      ELSE Append(@, [req |-> 1, status |-> status, cut |-> FALSE])]
    PROVE  p2 \in VisitorRow /\ Matched(p2, c) /\ Recorded(p2, r2, k)
<1>1. p \in VisitorRow /\ p.answers = <<>> /\ Matched(p, c) /\ p.sent \in Nat
  BY DEF Visit, Typed, Started, OneMessage, VisitorRow
<1>2. PICK a : a = [req |-> 1, status |-> status, cut |-> FALSE]
  OBVIOUS
<1>3. a \in GivenAnswer /\ a.req = 1 /\ ~a.cut
  BY <1>2 DEF GivenAnswer
<1>4. PICK q : q = IF p.side = "gone" THEN <<>> ELSE <<a>>
  OBVIOUS
<1>5. q \in Seq(GivenAnswer) /\ Len(q) \in {0, 1} /\ \A j \in 1 .. Len(q) : j = 1 /\ q[j].req = 1 /\ ~q[j].cut
  BY <1>3, <1>4
<1>6. p2 = [p EXCEPT !.answers = q]
  BY <1>1, <1>2, <1>4
<1>7. p2 \in VisitorRow /\ p2.answers = q /\ p2.side = p.side /\ p2.server = p.server /\ p2.eager = p.eager /\ p2.sent = p.sent
  BY <1>1, <1>5, <1>6 DEF VisitorRow
<1>8. InOrder(0, c.skipped, q)
  BY <1>5 DEF InOrder
<1>9. ~p.eager => p2.sent <= Len(p2.answers) + 1
  <2>1. Len(p.answers) = 0
    BY <1>1
  <2>2. ~p.eager => p.sent <= 1
    BY <1>1, <2>1 DEF Matched
  <2> QED
    BY <1>1, <1>5, <1>7, <2>2
<1>10. Matched(p2, c)
  BY <1>5, <1>7, <1>8, <1>9 DEF Matched
<1>11. p.side # "gone" => ~(k > NoStatus)
  BY <1>1 DEF Visit, Recorded
<1> QED
  BY <1>7, <1>10, <1>11 DEF Recorded

\* The first read takes what has come of the first request, and of those behind it.
LEMMA ReadVisit ==
    ASSUME NEW p, NEW r, NEW u, NEW d, NEW c, NEW k, Visit(p, r, u, d, c, k), r.at = "read", NEW i \in 1 .. Len(p.inbox)
    PROVE  Visit([p EXCEPT !.inbox = SubSeq(p.inbox, i + 1, Len(p.inbox))],
                 [r EXCEPT !.at = "route", !.first = <<Joined(SubSeq(p.inbox, 1, i))>>], u, d, c, k)
<1>1. p \in VisitorRow /\ r \in RelayRow /\ p.inbox \in Seq(Chunk)
  BY DEF Visit, Typed, VisitorRow
<1>2. PICK h, t : h = Joined(SubSeq(p.inbox, 1, i)) /\ t = SubSeq(p.inbox, i + 1, Len(p.inbox))
  OBVIOUS
<1>3. Chained(0, p.inbox) /\ LastOf(0, p.inbox) = p.sent
  BY DEF Visit, Started, Queue
<1>4. /\ h \in Chunk /\ t \in Seq(Chunk) /\ Follows(0, h) /\ Chained(h.last, t) /\ LastOf(h.last, t) = p.sent
  BY <1>1, <1>2, <1>3, ChainJoin
<1>5. PICK p2, r2 : p2 = [p EXCEPT !.inbox = t] /\ r2 = [r EXCEPT !.at = "route", !.first = <<h>>]
  OBVIOUS
<1>6. /\ p2 \in VisitorRow /\ p2.sent = p.sent /\ p2.inbox = t /\ p2.answers = p.answers /\ p2.side = p.side
      /\ p2.server = p.server /\ p2.flaw = p.flaw /\ p2.eager = p.eager
  BY <1>1, <1>4, <1>5 DEF VisitorRow
<1>7. <<h>> \in Seq(Chunk) /\ Len(<<h>>) = 1 /\ <<h>>[1] = h
  BY <1>4
<1>8. r2 \in RelayRow /\ r2.at = "route" /\ r2.first = <<h>>
  BY <1>1, <1>5, <1>7 DEF RelayRow, Early
<1>9. Queue(h.last, p2)
  BY <1>4, <1>6 DEF Queue
<1>10. Typed(p2, r2, u, d, c, k) /\ Matched(p2, c) /\ Recorded(p2, r2, k)
  BY <1>6, <1>8 DEF Visit, Typed, Matched, Recorded
<1>11. Started(p2, r2, u, d, c)
  <2>1. r2.at = "route" /\ Follows(0, r2.first[1]) /\ Len(r2.first) = 1 /\ Queue(r2.first[1].last, p2)
    BY <1>4, <1>7, <1>8, <1>9
  <2> QED
    BY <1>6, <2>1 DEF Visit, Started, Early
<1>12. OneMessage(p2, r2, u, d, c) /\ BytesUp(p2, r2, u, c) /\ BytesDown(p2, r2, d, c)
  BY <1>8 DEF OneMessage, BytesUp, BytesDown
<1> QED
  BY <1>2, <1>5, <1>10, <1>11, <1>12 DEF Visit

\* On the way to the stream.
LEMMA MoveVisit ==
    ASSUME NEW p, NEW r, NEW u, NEW d, NEW c, NEW k, Visit(p, r, u, d, c, k), r.at \in {"route", "auth", "get"},
           NEW r2 \in RelayRow, r2.at \in {"auth", "get", "open"}, r2.first = r.first
    PROVE  Visit(p, r2, u, d, c, k)
<1>1. Typed(p, r2, u, d, c, k) /\ Matched(p, c) /\ Recorded(p, r2, k)
  BY DEF Visit, Typed, Recorded
<1>2. Started(p, r2, u, d, c)
  BY DEF Visit, Started, Early
<1>3. OneMessage(p, r2, u, d, c) /\ BytesUp(p, r2, u, c) /\ BytesDown(p, r2, d, c)
  BY DEF OneMessage, BytesUp, BytesDown
<1> QED
  BY <1>1, <1>2, <1>3 DEF Visit

\* The stream is opened with the chunk that was read.
LEMMA OpenVisit ==
    ASSUME NEW p, NEW r, NEW u, NEW d, NEW c, NEW k, Visit(p, r, u, d, c, k), r.at = "open", NEW b \in BOOLEAN,
           ~b => p.server # "http"
    PROVE  Visit(p, [r EXCEPT !.at = IF b THEN "proxy" ELSE "await"],
                 <<[type |-> IF b THEN "Connect" ELSE "Request", chunk |-> r.first[1]]>>, d, c, k)
<1>1. p \in VisitorRow /\ r \in RelayRow /\ c \in ClientRow
  BY DEF Visit, Typed
<1>2. PICK ch : ch = r.first[1]
  OBVIOUS
<1>3. /\ ch \in Chunk /\ Follows(0, ch) /\ p.answers = <<>> /\ d = <<>> /\ c.at = "none" /\ c.last = 0 /\ Queue(ch.last, p)
  <2>1. r.first \in Seq(Chunk) /\ Len(r.first) = 1
    BY <1>1 DEF Visit, Started, RelayRow, Early
  <2>2. ch \in Chunk
    BY <1>2, <2>1, ElementOfSeq
  <2> QED
    BY <1>2, <2>2 DEF Visit, Started, Early
<1>4. ch.req = 1 /\ ch.last \in Nat /\ 1 <= ch.last
  BY <1>3 DEF Follows, Chunk
<1>5. PICK m : m = [type |-> IF b THEN "Connect" ELSE "Request", chunk |-> ch]
  OBVIOUS
<1>6. m \in Carrying /\ m.chunk = ch /\ (b => m.type = "Connect") /\ (~b => m.type = "Request")
  BY <1>3, <1>5 DEF Carrying
<1>7. PICK u2, r2 : u2 = <<m>> /\ r2 = [r EXCEPT !.at = IF b THEN "proxy" ELSE "await"]
  OBVIOUS
<1>8. u2 \in Seq(UpMessage) /\ Len(u2) = 1 /\ u2[1] = m /\ u2 # <<>>
  BY <1>6, <1>7 DEF UpMessage
<1>9. r2 \in RelayRow /\ (b => r2.at = "proxy") /\ (~b => r2.at = "await") /\ r2.via = r.via
  BY <1>1, <1>7 DEF RelayRow
<1>10. Typed(p, r2, u2, d, c, k) /\ Matched(p, c) /\ Recorded(p, r2, k)
  BY <1>8, <1>9 DEF Visit, Typed, Recorded
<1>11. Started(p, r2, u2, d, c)
  BY <1>9 DEF Started, Early
<1>12. OneMessage(p, r2, u2, d, c)
  <2>1. p.server = "https" \/ b
    BY <1>1 DEF VisitorRow, Servers
  <2>2. Len(d) = 0
    BY <1>3, EmptySeq
  <2> QED
    BY <1>3, <1>4, <1>6, <1>8, <1>9, <2>1, <2>2 DEF OneMessage
<1>13. BytesUp(p, r2, u2, c)
  <2>1. \A j \in 1 .. Len(u2) : j = 1 /\ u2[j] \in Carrying /\ (b => u2[j].type = "Connect")
    BY <1>6, <1>8
  <2>2. ChunksOf(u2) \in Seq(Chunk) /\ Len(ChunksOf(u2)) = 1 /\ ChunksOf(u2)[1] = ch /\ ChunksOf(u2) # <<>>
    BY <1>6, <1>8, <2>1, ChunksFacts
  <2>3. Chained(0, ChunksOf(u2)) /\ LastOf(0, ChunksOf(u2)) = ch.last
    BY <1>3, <1>4, <2>2 DEF Chained, LastOf
  <2> QED
    BY <1>3, <1>8, <1>9, <2>1, <2>3 DEF BytesUp
<1>14. BytesDown(p, r2, d, c)
  <2>1. Len(d) = 0 /\ LastReq(p.answers) = 0 /\ LastTold(0, d) = 0 /\ Dealt(c) = 0
    BY <1>3, EmptySeq DEF LastReq, LastTold, Dealt
  <2>2. Told(0, c.skipped, d) /\ Passed(0, 0, c.skipped)
    BY <2>1 DEF Told, Passed
  <2> QED
    BY <2>1, <2>2 DEF BytesDown
<1> QED
  BY <1>2, <1>5, <1>7, <1>10, <1>11, <1>12, <1>13, <1>14 DEF Visit

\* Bytes are passed on to the client.
LEMMA UpVisit ==
    ASSUME NEW p, NEW r, NEW u, NEW d, NEW c, NEW k, Visit(p, r, u, d, c, k), r.at = "proxy", NEW i \in 1 .. Len(p.inbox)
    PROVE  Visit([p EXCEPT !.inbox = SubSeq(p.inbox, i + 1, Len(p.inbox))], r,
                 Append(u, [type |-> "Data", chunk |-> Joined(SubSeq(p.inbox, 1, i))]), d, c, k)
<1>1. p \in VisitorRow /\ p.inbox \in Seq(Chunk) /\ c \in ClientRow /\ u \in Seq(UpMessage)
  BY DEF Visit, Typed, VisitorRow
<1>2. PICK h, t, m : /\ h = Joined(SubSeq(p.inbox, 1, i)) /\ t = SubSeq(p.inbox, i + 1, Len(p.inbox))
                     /\ m = [type |-> "Data", chunk |-> h]
  OBVIOUS
<1>3. h \in Chunk /\ t \in Seq(Chunk)
  BY <1>1, <1>2, JoinTyped
<1>4. m \in Carrying /\ m.type = "Data" /\ m.chunk = h
  BY <1>2, <1>3 DEF Carrying
<1>5. PICK p2, u2 : p2 = [p EXCEPT !.inbox = t] /\ u2 = Append(u, m)
  OBVIOUS
<1>6. /\ p2 \in VisitorRow /\ p2.sent = p.sent /\ p2.inbox = t /\ p2.answers = p.answers /\ p2.side = p.side
      /\ p2.server = p.server /\ p2.flaw = p.flaw /\ p2.eager = p.eager
  BY <1>1, <1>3, <1>5 DEF VisitorRow
<1>7. /\ u2 \in Seq(UpMessage) /\ Len(u2) = Len(u) + 1 /\ Len(u) \in Nat /\ u2[Len(u) + 1] = m /\ u2 # <<>>
      /\ \A j \in 1 .. Len(u) : u2[j] = u[j]
  BY <1>1, <1>4, <1>5, AppendProperties DEF UpMessage
<1>8. Typed(p2, r, u2, d, c, k) /\ Matched(p2, c) /\ Recorded(p2, r, k)
  BY <1>6, <1>7 DEF Visit, Typed, Matched, Recorded
<1>9. Started(p2, r, u2, d, c) /\ OneMessage(p2, r, u2, d, c) /\ BytesDown(p2, r, d, c)
  BY <1>6 DEF Visit, Started, Early, OneMessage, BytesDown
<1>10. BytesUp(p2, r, u2, c)
  <2> SUFFICES ASSUME c.at \in {"none", "busy", "loop", "raw"} PROVE BytesUp(p2, r, u2, c)
    BY DEF BytesUp
  <2>1. BytesUp(p, r, u, c)
    BY DEF Visit
  <2>2. \A j \in 1 .. Len(u) : u[j] \in Carrying /\ u[j].type = (IF c.at = "none" /\ j = 1 THEN "Connect" ELSE "Data")
    BY <2>1 DEF BytesUp
  <2>3. c.at = "none" => Len(u) # 0
    BY <1>1, <2>1, EmptySeq DEF BytesUp
  <2>4. \A j \in 1 .. Len(u2) : u2[j] \in Carrying /\ u2[j].type = (IF c.at = "none" /\ j = 1 THEN "Connect" ELSE "Data")
    BY <1>4, <1>7, <2>2, <2>3
  <2>5. PICK q : q = ChunksOf(u)
    OBVIOUS
  <2>6. q \in Seq(Chunk) /\ ChunksOf(u2) = Append(q, h)
    BY <1>1, <1>4, <1>5, <2>2, <2>5, ChunksFacts, ChunksAppend
  <2>7. PICK n : n = LastOf(c.last, q)
    OBVIOUS
  <2>8. c.last \in Nat /\ n \in Nat
    BY <1>1, <2>6, <2>7, LastNat DEF ClientRow
  <2>9. Chained(c.last, q) /\ Chained(n, p.inbox) /\ LastOf(n, p.inbox) = p.sent
    BY <2>1, <2>5, <2>7 DEF BytesUp, Queue
  <2>10. Follows(n, h) /\ Chained(h.last, t) /\ LastOf(h.last, t) = p.sent
    BY <1>1, <1>2, <2>8, <2>9, ChainJoin
  <2>11. Chained(c.last, ChunksOf(u2)) /\ LastOf(c.last, ChunksOf(u2)) = h.last
    BY <1>3, <2>6, <2>7, <2>8, <2>9, <2>10, ChainAppend
  <2>12. Queue(h.last, p2)
    BY <1>6, <2>10 DEF Queue
  <2> QED
    BY <1>7, <2>1, <2>4, <2>11, <2>12 DEF BytesUp
<1> QED
  BY <1>2, <1>5, <1>8, <1>9, <1>10 DEF Visit

\* The answer that is next in the stream is the one the visitor gets.
LEMMA NextAnswer ==
    ASSUME NEW p, NEW r, NEW u, NEW d, NEW c, NEW k, Visit(p, r, u, d, c, k), d # <<>>, AnswerNext(r, d),
           NEW p2, Receives(p2, p, d)
    PROVE  Received(p2, p, d, c)
<1>1. /\ p \in VisitorRow /\ d \in Seq(DownMessage) /\ p.answers \in Seq(GivenAnswer) /\ Len(p.answers) \in Nat
      /\ p.sent \in Nat /\ Matched(p, c)
  BY DEF Visit, Typed, VisitorRow
<1>2. PICK m, a : m = Head(d) /\ a = m.answer
  OBVIOUS
<1>3. m = d[1] /\ 1 \in 1 .. Len(d) /\ m \in DownMessage /\ m.type \in {"Data", "Response"}
  BY <1>1, <1>2, EmptySeq, HeadTailProperties DEF AnswerNext
<1>4. a \in GivenAnswer /\ a.req \in Nat
  BY <1>2, <1>3 DEF DownMessage, Replying, Closing, GivenAnswer
<1>5. PICK n : n = LastReq(p.answers)
  OBVIOUS
<1>6. n \in Nat
  BY <1>1, <1>5, LastReqNat
<1>7. /\ p.side # "gone" => n < a.req /\ n + 1 .. a.req - 1 \subseteq c.skipped
      /\ p.answers = <<>> => n = 0
      /\ p.server = "http" => ~a.cut
      /\ a.req <= p.sent \/ (p.answers = <<>> /\ a.req = 1)
  <2>1. p.answers = <<>> => n = 0
    BY <1>5 DEF LastReq
  <2>2. CASE r.at = "proxy"
    <3>1. BytesDown(p, r, d, c) /\ m.type = "Data"
      BY <1>2, <2>2 DEF Visit, AnswerNext
    <3>2. p.side # "gone" => Told(n, c.skipped, d)
      BY <1>5, <2>2, <3>1 DEF BytesDown
    <3>3. p.side # "gone" => n < a.req /\ n + 1 .. a.req - 1 \subseteq c.skipped
      BY <1>1, <1>2, <3>1, <3>2, ToldTail
    <3>4. ~a.cut /\ a.req <= p.sent
      BY <1>2, <1>3, <2>2, <3>1 DEF BytesDown
    <3> QED
      BY <2>1, <3>3, <3>4
  <2>3. CASE r.at = "await"
    <3>1. p.server = "https" /\ p.answers = <<>> /\ a.req = 1
      BY <1>2, <1>3, <2>3 DEF Visit, OneMessage, AnswerNext
    <3> QED
      BY <2>1, <3>1
  <2> QED
    BY <2>2, <2>3 DEF AnswerNext
<1>8. PICK q : q = IF p.side = "gone" THEN p.answers ELSE Append(p.answers, a)
  OBVIOUS
<1>9. /\ q \in Seq(GivenAnswer)
      /\ p.side = "gone" => q = p.answers
      /\ p.side # "gone" => /\ Len(q) = Len(p.answers) + 1 /\ q[Len(p.answers) + 1] = a /\ q # <<>>
                            /\ \A j \in 1 .. Len(p.answers) : q[j] = p.answers[j]
  BY <1>1, <1>4, <1>8, AppendProperties
<1>10. p2 = [p EXCEPT !.answers = q]
  BY <1>2, <1>8 DEF Receives
<1>11. /\ p2 \in VisitorRow /\ p2.answers = q /\ p2.sent = p.sent /\ p2.inbox = p.inbox /\ p2.side = p.side
       /\ p2.server = p.server /\ p2.flaw = p.flaw /\ p2.eager = p.eager
  BY <1>1, <1>9, <1>10 DEF VisitorRow
<1>12. p.side # "gone" => InOrder(0, c.skipped, q) /\ LastReq(q) = a.req
  <2> SUFFICES ASSUME p.side # "gone" PROVE InOrder(0, c.skipped, q) /\ LastReq(q) = a.req
    OBVIOUS
  <2>1. q = Append(p.answers, a)
    BY <1>8
  <2>2. InOrder(0, c.skipped, p.answers)
    BY <1>1 DEF Matched
  <2>3. LastReq(p.answers) < a.req /\ LastReq(p.answers) + 1 .. a.req - 1 \subseteq c.skipped
    BY <1>5, <1>7
  <2> QED
    BY <1>1, <1>4, <2>1, <2>2, <2>3, OrderAppend
<1>13. Matched(p2, c)
  <2>1. CASE p.side = "gone"
    BY <1>1, <1>9, <1>11, <2>1 DEF Matched
  <2>2. CASE p.side # "gone"
    <3>1. ASSUME ~p.eager PROVE a.req = Len(p.answers) + 1
      <4>1. p.sent <= Len(p.answers) + 1 /\ \A j \in 1 .. Len(p.answers) : p.answers[j].req = j
        BY <1>1, <3>1 DEF Matched
      <4>2. n = Len(p.answers)
        <5>1. CASE p.answers = <<>>
          BY <1>7, <5>1
        <5>2. CASE p.answers # <<>>
          <6>1. Len(p.answers) \in 1 .. Len(p.answers)
            BY <1>1, <5>2, EmptySeq
          <6> QED
            BY <1>5, <4>1, <5>2, <6>1 DEF LastReq
        <5> QED
          BY <5>1, <5>2
      <4>3. n < a.req /\ a.req <= n + 1
        <5>1. p.answers = <<>> => n = 0
          BY <1>7
        <5> QED
          BY <1>1, <1>4, <1>6, <1>7, <2>2, <4>1, <4>2, <5>1
      <4> QED
        BY <1>4, <1>6, <4>2, <4>3
    <3>2. ~p.eager => q[Len(q)].req = Len(q) /\ \A j \in 1 .. Len(p.answers) : q[j].req = j
      BY <1>1, <1>9, <2>2, <3>1 DEF Matched
    <3>3. ~p.eager => \A j \in 1 .. Len(q) : q[j].req = j
      BY <1>1, <1>9, <2>2, <3>2
    <3>4. ~p.eager => p.sent <= Len(q) + 1
      BY <1>1, <1>9, <2>2 DEF Matched
    <3>5. p.server = "http" => \A j \in 1 .. Len(q) : ~q[j].cut
      BY <1>1, <1>7, <1>9, <2>2 DEF Matched
    <3> QED
      BY <1>11, <1>12, <2>2, <3>3, <3>4, <3>5 DEF Matched
  <2> QED
    BY <2>1, <2>2
<1>14. p.side # "gone" => q[1] = IF p.answers = <<>> THEN a ELSE p.answers[1]
  <2> SUFFICES ASSUME p.side # "gone" PROVE q[1] = IF p.answers = <<>> THEN a ELSE p.answers[1]
    OBVIOUS
  <2>1. CASE p.answers = <<>>
    <3>1. Len(p.answers) = 0
      BY <2>1, EmptySeq
    <3> QED
      BY <1>9, <2>1, <3>1
  <2>2. CASE p.answers # <<>>
    <3>1. 1 \in 1 .. Len(p.answers)
      BY <1>1, <2>2, EmptySeq
    <3> QED
      BY <1>9, <2>2, <3>1
  <2> QED
    BY <2>1, <2>2
<1>15. p.side = "gone" => p2 = p
  BY <1>1, <1>9, <1>10 DEF VisitorRow
<1> QED
  BY <1>2, <1>4, <1>9, <1>11, <1>12, <1>13, <1>14, <1>15 DEF GivenAnswer, Received

\* An answer is passed on to a visitor who is there, and the first one's status kept.
LEMMA DownVisit ==
    ASSUME NEW p, NEW r, NEW u, NEW d, NEW c, NEW k, Visit(p, r, u, d, c, k), d # <<>>, r.at = "proxy",
           AnswerNext(r, d), p.side # "gone", NEW p2, Receives(p2, p, d),
           NEW k2, k2 = IF k <= NoStatus THEN Head(d).answer.status ELSE k
    PROVE  Visit(p2, r, u, Tail(d), c, k2)
<1>1. Received(p2, p, d, c) /\ Head(d).type = "Data"
  BY NextAnswer DEF AnswerNext
<1>2. /\ p2 \in VisitorRow /\ Matched(p2, c) /\ Head(d).answer.status \in Nat \ {0}
      /\ p2.sent = p.sent /\ p2.inbox = p.inbox /\ p2.side = p.side /\ p2.server = p.server /\ p2.flaw = p.flaw
      /\ p2.answers # <<>> /\ LastReq(p2.answers) = Head(d).answer.req
      /\ p2.answers[1] = IF p.answers = <<>> THEN Head(d).answer ELSE p.answers[1]
  BY <1>1 DEF Received
<1>3. d \in Seq(DownMessage) /\ k \in Int /\ p.answers \in Seq(GivenAnswer) /\ Len(p.answers) \in Nat
  BY DEF Visit, Typed, VisitorRow
<1>4. PICK t : t = Tail(d)
  OBVIOUS
<1>5. /\ t \in Seq(DownMessage) /\ Len(t) = Len(d) - 1 /\ Len(d) \in Nat \ {0}
      /\ \A j \in 1 .. Len(t) : t[j] = d[j + 1] /\ j + 1 \in 1 .. Len(d)
  BY <1>3, <1>4, HeadTailProperties, EmptySeq
<1>6. Recorded(p2, r, k2)
  <2>1. p2.answers # <<>>
    BY <1>2
  <2>2. CASE k <= NoStatus
    <3>1. p.answers = <<>>
      BY <2>2 DEF Visit, Recorded
    <3> QED
      BY <1>2, <2>1, <2>2, <3>1 DEF Recorded, NoStatus
  <2>3. CASE k > NoStatus
    <3>1. p.answers # <<>> /\ p.answers[1].status = k
      BY <2>3 DEF Visit, Recorded
    <3>2. k2 = k
      BY <1>3, <2>3 DEF NoStatus
    <3> QED
      BY <1>2, <1>3, <2>1, <2>3, <3>1, <3>2 DEF Recorded, NoStatus
  <2> QED
    BY <1>3, <2>2, <2>3 DEF NoStatus
<1>7. Typed(p2, r, u, t, c, k2)
  BY <1>2, <1>3, <1>5 DEF Visit, Typed
<1>8. Started(p2, r, u, t, c) /\ OneMessage(p2, r, u, t, c)
  BY DEF Started, OneMessage, Early
<1>9. BytesUp(p2, r, u, c)
  <2>1. \A n : Queue(n, p2) <=> Queue(n, p)
    BY <1>2 DEF Queue
  <2> QED
    BY <2>1 DEF Visit, BytesUp
<1>10. BytesDown(p2, r, t, c)
  <2>1. BytesDown(p, r, d, c)
    BY DEF Visit
  <2>2. \A j \in 1 .. Len(t) : /\ t[j].type # "Response"
                               /\ t[j].type = "Data" => ~t[j].answer.cut /\ t[j].answer.req <= p2.sent
    BY <1>2, <1>5, <2>1 DEF BytesDown
  <2>3. c.at # "end" => \A j \in 1 .. Len(t) : t[j].type = "Data"
    BY <1>5, <2>1 DEF BytesDown
  <2>4. PICK n : n = LastReq(p.answers)
    OBVIOUS
  <2>5. Told(n, c.skipped, d) /\ (c.at \notin {"upgraded", "end"} => Passed(LastTold(n, d), Dealt(c), c.skipped))
    BY <2>1, <2>4 DEF BytesDown
  <2>6. PICK x : x = Head(d).answer.req
    OBVIOUS
  <2>7. Told(x, c.skipped, t) /\ LastTold(x, t) = LastTold(n, d)
    BY <1>1, <1>3, <1>4, <2>5, <2>6, ToldTail
  <2>8. LastReq(p2.answers) = x
    BY <1>2, <2>6
  <2> QED
    BY <2>2, <2>3, <2>5, <2>7, <2>8 DEF BytesDown
<1> QED
  BY <1>2, <1>4, <1>6, <1>7, <1>8, <1>9, <1>10 DEF Visit

(***************************************************************************)
(* What the client's steps make of a visit.                                *)
(***************************************************************************)
\* Once the relay's task has ended, the client's steps reach nobody.
LEMMA LateClient ==
    ASSUME NEW p, NEW r, NEW u, NEW d, NEW c, NEW k, Visit(p, r, u, d, c, k), r.at = "done",
           NEW u2 \in Seq(UpMessage), NEW c2 \in ClientRow, c.skipped \subseteq c2.skipped
    PROVE  Visit(p, r, u2, d, c2, k)
<1>1. Matched(p, c2)
  <2>1. Matched(p, c)
    BY DEF Visit
  <2> QED
    BY <2>1, OrderMore DEF Matched
<1>2. Typed(p, r, u2, d, c2, k) /\ Recorded(p, r, k)
  BY DEF Visit, Typed
<1> QED
  BY <1>1, <1>2 DEF Visit, Started, OneMessage, BytesUp, BytesDown, Early

\* The client's task ends, perhaps with an answer to the one message it had.
LEMMA EndedClient ==
    ASSUME NEW p, NEW r, NEW u, NEW d, NEW c, NEW k, Visit(p, r, u, d, c, k), r.at \notin Early \cup {"done"},
           NEW c2 \in ClientRow, c2.at = "end", c2.skipped = c.skipped, NEW u2 \in Seq(UpMessage),
           NEW ms \in Seq(DownMessage), Final(ms, r), NEW d2, d2 = d \o ms
    PROVE  Visit(p, r, u2, d2, c2, k)
<1>1. p \in VisitorRow /\ d \in Seq(DownMessage) /\ r \in RelayRow
  BY DEF Visit, Typed
<1>2. /\ d2 \in Seq(DownMessage) /\ Len(d2) = Len(d) + Len(ms) /\ Len(d) \in Nat /\ Len(ms) \in Nat
      /\ \A j \in 1 .. Len(d2) : d2[j] = IF j <= Len(d) THEN d[j] ELSE ms[j - Len(d)]
  BY <1>1, ConcatProperties
<1>3. \A j \in 1 .. Len(d2) : (j \in 1 .. Len(d) /\ d2[j] = d[j])
                              \/ (j - Len(d) \in 1 .. Len(ms) /\ d2[j] = ms[j - Len(d)])
  BY <1>2
<1>4. Typed(p, r, u2, d2, c2, k) /\ Matched(p, c2) /\ Recorded(p, r, k)
  BY <1>2 DEF Visit, Typed, Matched
<1>5. Started(p, r, u2, d2, c2)
  BY DEF Started, Early
<1>6. OneMessage(p, r, u2, d2, c2)
  <2> SUFFICES ASSUME r.at = "await" PROVE OneMessage(p, r, u2, d2, c2)
    BY DEF OneMessage
  <2>1. \A j \in 1 .. Len(d2) : d2[j].type = "Response" => d2[j].answer.req = 1
    BY <1>3 DEF Visit, OneMessage, Final
  <2> QED
    BY <2>1 DEF Visit, OneMessage
<1>7. BytesUp(p, r, u2, c2)
  BY DEF BytesUp
<1>8. BytesDown(p, r, d2, c2)
  <2> SUFFICES ASSUME r.at = "proxy" PROVE BytesDown(p, r, d2, c2)
    BY DEF BytesDown
  <2>1. BytesDown(p, r, d, c)
    BY DEF Visit
  <2>2. \A j \in 1 .. Len(d2) : /\ d2[j].type # "Response"
                                /\ d2[j].type = "Data" => ~d2[j].answer.cut /\ d2[j].answer.req <= p.sent
    BY <1>3, <2>1 DEF BytesDown, Final
  <2>3. \A j \in 1 .. Len(d2) : d2[j].type = "Data" => j \in 1 .. Len(d) /\ d2[j] = d[j]
    BY <1>3 DEF Final
  <2>4. PICK n : n = LastReq(p.answers)
    OBVIOUS
  <2>5. ASSUME Told(n, c.skipped, d) PROVE Told(n, c.skipped, d2)
    <3> SUFFICES ASSUME NEW j \in 1 .. Len(d2), d2[j].type = "Data"
                 PROVE  /\ j # 1 => d2[j - 1].type = "Data"
                        /\ (IF j = 1 THEN n ELSE d2[j - 1].answer.req) < d2[j].answer.req
                        /\ (IF j = 1 THEN n ELSE d2[j - 1].answer.req) + 1 .. d2[j].answer.req - 1 \subseteq c.skipped
      BY DEF Told
    <3>1. j \in 1 .. Len(d) /\ d2[j] = d[j]
      BY <2>3
    <3>2. j # 1 => d2[j - 1] = d[j - 1]
      BY <1>2, <3>1
    <3> QED
      BY <2>5, <3>1, <3>2 DEF Told
  <2> QED
    BY <2>1, <2>2, <2>4, <2>5 DEF BytesDown
<1> QED
  BY <1>4, <1>5, <1>6, <1>7, <1>8 DEF Visit

\* What was dropped up to n, and from there up to m.
LEMMA PassedOn ==
    ASSUME NEW S, NEW x \in Nat, NEW n \in Nat, NEW m \in Nat, Passed(x, n, S), Passed(n, m, S)
    PROVE  Passed(x, m, S)
<1>1. x <= m
  BY DEF Passed
<1>2. ASSUME NEW i \in x + 1 .. m PROVE i \in S
  <2>1. CASE i <= n
    BY <2>1 DEF Passed
  <2>2. CASE i > n
    BY <2>2 DEF Passed
  <2> QED
    BY <2>1, <2>2
<1> QED
  BY <1>1, <1>2 DEF Passed

\* The next bytes of the stream, when the client is ready for them.
LEMMA NextBytes ==
    ASSUME NEW p, NEW r, NEW u, NEW d, NEW c, NEW k, Visit(p, r, u, d, c, k), r.at = "proxy",
           c.at \in {"none", "loop", "raw"}, u # <<>>
    PROVE  /\ Head(u) \in Carrying /\ Head(u).type = IF c.at = "none" THEN "Connect" ELSE "Data"
           /\ Head(u).chunk \in Chunk /\ Follows(c.last, Head(u).chunk) /\ c.last \in Nat /\ Tail(u) \in Seq(UpMessage)
           /\ \A j \in 1 .. Len(Tail(u)) : Tail(u)[j] \in Carrying /\ Tail(u)[j].type = "Data"
           /\ Chained(Head(u).chunk.last, ChunksOf(Tail(u)))
           /\ Queue(LastOf(Head(u).chunk.last, ChunksOf(Tail(u))), p)
<1>1. u \in Seq(UpMessage) /\ c.last \in Nat /\ BytesUp(p, r, u, c)
  BY DEF Visit, Typed, ClientRow
<1>2. PICK t, m : t = Tail(u) /\ m = Head(u)
  OBVIOUS
<1>3. /\ \A j \in 1 .. Len(u) : u[j] \in Carrying /\ u[j].type = (IF c.at = "none" /\ j = 1 THEN "Connect" ELSE "Data")
      /\ Chained(c.last, ChunksOf(u)) /\ Queue(LastOf(c.last, ChunksOf(u)), p)
  BY <1>1 DEF BytesUp
<1>4. PICK q : q = ChunksOf(u)
  OBVIOUS
<1>5. /\ q \in Seq(Chunk) /\ q # <<>> /\ Head(q) = m.chunk /\ Tail(q) = ChunksOf(t) /\ m = u[1] /\ m \in Carrying
      /\ t \in Seq(UpMessage) /\ \A j \in 1 .. Len(t) : t[j] = u[j + 1] /\ j + 1 \in 1 .. Len(u)
  BY <1>1, <1>2, <1>3, <1>4, ChunksFacts, ChunksTail
<1>6. /\ Head(q) \in Chunk /\ Follows(c.last, Head(q)) /\ Chained(Head(q).last, Tail(q))
      /\ LastOf(Head(q).last, Tail(q)) = LastOf(c.last, q)
  BY <1>1, <1>3, <1>4, <1>5, ChainTail
<1>7. m.type = IF c.at = "none" THEN "Connect" ELSE "Data"
  <2>1. 1 \in 1 .. Len(u)
    BY <1>1, EmptySeq
  <2> QED
    BY <1>3, <1>5, <2>1
<1>8. \A j \in 1 .. Len(t) : t[j] \in Carrying /\ t[j].type = "Data"
  <2> SUFFICES ASSUME NEW j \in 1 .. Len(t) PROVE t[j] \in Carrying /\ t[j].type = "Data"
    OBVIOUS
  <2>1. j + 1 # 1 /\ t[j] = u[j + 1] /\ j + 1 \in 1 .. Len(u)
    BY <1>5
  <2> QED
    BY <1>3, <2>1
<1>9. Queue(LastOf(m.chunk.last, ChunksOf(t)), p)
  BY <1>3, <1>4, <1>5, <1>6
<1> QED
  BY <1>1, <1>2, <1>5, <1>6, <1>7, <1>8, <1>9

\* The client takes up the next bytes: it forwards a request, passes them on, or drops them.
LEMMA TakeVisit ==
    ASSUME NEW p, NEW r, NEW u, NEW d, NEW c, NEW k, Visit(p, r, u, d, c, k), r.at = "proxy",
           c.at \in {"none", "loop"}, u # <<>>, NEW c2 \in ClientRow, TakesUp(c2, c, Head(u).chunk)
    PROVE  Visit(p, r, Tail(u), d, c2, k)
<1>1. p \in VisitorRow /\ u \in Seq(UpMessage) /\ r \in RelayRow /\ c \in ClientRow
  BY DEF Visit, Typed
<1>2. PICK t, ch : t = Tail(u) /\ ch = Head(u).chunk
  OBVIOUS
<1>3. /\ ch \in Chunk /\ Follows(c.last, ch) /\ c.last \in Nat /\ t \in Seq(UpMessage)
      /\ \A j \in 1 .. Len(t) : t[j] \in Carrying /\ t[j].type = "Data"
      /\ Chained(ch.last, ChunksOf(t)) /\ Queue(LastOf(ch.last, ChunksOf(t)), p)
  BY <1>2, NextBytes
<1>4. ch.req \in Nat \ {0} /\ ch.last \in Nat /\ ch.req <= ch.last /\ ch.req = IF ch.part = "rest" THEN c.last ELSE c.last + 1
  BY <1>3 DEF Follows, Chunk
<1>5. TakesUp(c2, c, ch) /\ c.skipped \subseteq c2.skipped /\ c2.last = ch.last
  BY <1>2 DEF TakesUp
<1>6. Matched(p, c2)
  <2>1. Matched(p, c)
    BY DEF Visit
  <2> QED
    BY <1>5, <2>1, OrderMore DEF Matched
<1>7. Typed(p, r, t, d, c2, k) /\ Recorded(p, r, k)
  BY <1>3 DEF Visit, Typed
<1>8. Started(p, r, t, d, c2) /\ OneMessage(p, r, t, d, c2)
  BY DEF Started, Early, OneMessage
<1>9. BytesUp(p, r, t, c2)
  <2>1. c2.at \in {"busy", "raw", "loop"}
    BY <1>5 DEF TakesUp
  <2>2. c2.at = "busy" => c2.kind = "proxy" /\ c2.req = ch.req /\ ch.req + 1 .. ch.last \subseteq c2.skipped
    BY <1>5 DEF TakesUp
  <2>3. c2.at = "busy" => Passed(c2.req, c2.last, c2.skipped)
    BY <1>4, <1>5, <2>2 DEF Passed
  <2>4. c2.at \in {"busy", "raw"} => c2.req # 0
    BY <1>4, <1>5 DEF TakesUp
  <2> QED
    BY <1>3, <1>5, <2>1, <2>2, <2>3, <2>4 DEF BytesUp
<1>10. BytesDown(p, r, d, c2)
  <2>1. BytesDown(p, r, d, c)
    BY DEF Visit
  <2>2. \A j \in 1 .. Len(d) : d[j].type = "Data"
    BY <2>1 DEF BytesDown
  <2>3. PICK n : n = LastReq(p.answers)
    OBVIOUS
  <2>4. ASSUME p.side # "gone"
        PROVE  Told(n, c2.skipped, d) /\ Passed(LastTold(n, d), Dealt(c2), c2.skipped)
    <3>1. Told(n, c.skipped, d) /\ Passed(LastTold(n, d), c.last, c.skipped)
      BY <2>1, <2>3, <2>4 DEF BytesDown, Dealt
    <3>2. PICK x : x = LastTold(n, d)
      OBVIOUS
    <3>3. Told(n, c2.skipped, d) /\ Passed(x, c.last, c2.skipped)
      BY <1>5, <3>1, <3>2, OrderMore
    <3>4. n \in Nat /\ x \in Nat
      BY <1>1, <2>2, <2>3, <3>2, LastReqNat, LastToldNat DEF Visit, Typed, VisitorRow
    <3>5. CASE c2.at \in {"busy", "raw"}
      <4>1. c2.req = ch.req /\ ch.part # "rest"
        BY <1>5, <3>5 DEF TakesUp
      <4>2. Dealt(c2) = c.last
        BY <1>3, <1>4, <3>5, <4>1 DEF Dealt
      <4> QED
        BY <3>2, <3>3, <4>2
    <3>6. CASE c2.at = "loop"
      <4>1. (IF ch.part = "rest" THEN ch.req + 1 ELSE ch.req) .. ch.last \subseteq c2.skipped
        BY <1>5, <3>6 DEF TakesUp
      <4>2. c.last + 1 = IF ch.part = "rest" THEN ch.req + 1 ELSE ch.req
        BY <1>4
      <4>3. Passed(c.last, ch.last, c2.skipped)
        BY <1>3, <1>4, <4>1, <4>2 DEF Passed
      <4>4. Dealt(c2) = ch.last
        BY <1>5, <3>6 DEF Dealt
      <4> QED
        BY <1>3, <1>4, <3>2, <3>3, <3>4, <4>3, <4>4, PassedOn
    <3> QED
      BY <1>5, <3>5, <3>6 DEF TakesUp
  <2> QED
    BY <2>1, <2>2, <2>3, <2>4 DEF BytesDown
<1> QED
  BY <1>2, <1>6, <1>7, <1>8, <1>9, <1>10 DEF Visit

\* The one message is forwarded.
LEMMA FirstVisit ==
    ASSUME NEW p, NEW r, NEW u, NEW d, NEW c, NEW k, Visit(p, r, u, d, c, k), r.at = "await", c.at = "none", u # <<>>,
           NEW c2 \in ClientRow, c2.req = Head(u).chunk.req, c.skipped \subseteq c2.skipped,
           c2.at = "busy" /\ c2.kind = "request"
    PROVE  Visit(p, r, Tail(u), d, c2, k)
<1>1. u \in Seq(UpMessage)
  BY DEF Visit, Typed
<1>2. PICK t, m : t = Tail(u) /\ m = Head(u)
  OBVIOUS
<1>3. t \in Seq(UpMessage) /\ m = u[1]
  BY <1>1, <1>2, HeadTailProperties
<1>4. m.type = "Request" /\ m.chunk.req = 1
  BY <1>3 DEF Visit, OneMessage
<1>5. Matched(p, c2)
  <2>1. Matched(p, c)
    BY DEF Visit
  <2> QED
    BY <2>1, OrderMore DEF Matched
<1>6. Typed(p, r, t, d, c2, k) /\ Recorded(p, r, k)
  BY <1>3 DEF Visit, Typed
<1>7. Started(p, r, t, d, c2) /\ BytesUp(p, r, t, c2) /\ BytesDown(p, r, d, c2)
  BY DEF Started, Early, BytesUp, BytesDown
<1>8. OneMessage(p, r, t, d, c2)
  BY <1>2, <1>4 DEF Visit, OneMessage
<1> QED
  BY <1>2, <1>5, <1>6, <1>7, <1>8 DEF Visit

\* Which messages the client may find first, and when it may find more.
LEMMA MessageFits ==
    ASSUME NEW p, NEW r, NEW u, NEW d, NEW c, NEW k, Visit(p, r, u, d, c, k), r.at # "done", u # <<>>
    PROVE  /\ c.at = "none" => \/ r.at = "await" /\ Head(u).type = "Request"
                               \/ r.at = "proxy" /\ Head(u).type = "Connect"
           /\ c.at \in {"loop", "raw", "upgraded"} => r.at = "proxy"
<1>1. r \in RelayRow /\ u \in Seq(UpMessage) /\ Head(u) = u[1]
  BY HeadTailProperties DEF Visit, Typed
<1>2. r.at \in {"await", "proxy"}
  BY <1>1 DEF Visit, Started, RelayRow
<1>3. CASE r.at = "await"
  BY <1>1, <1>3 DEF Visit, OneMessage
<1>4. CASE r.at = "proxy"
  BY <1>1, <1>4, NextBytes
<1> QED
  BY <1>2, <1>3, <1>4

\* The client answers the request it has, over the bytes of the stream.
LEMMA AnswerVisit ==
    ASSUME NEW p, NEW r, NEW u, NEW d, NEW c, NEW k, Visit(p, r, u, d, c, k), r.at # "done",
           (c.at = "busy" /\ c.kind = "proxy") \/ (c.at = "raw" /\ c.req <= c.last), NEW status \in Nat \ {0},
           NEW c2 \in ClientRow, c2.skipped = c.skipped, c2.last = c.last,
           \/ c.at = "busy" /\ c2.at = "loop"
           \/ c.at = "raw" /\ c2.at = "upgraded"
           \/ c.at = "raw" /\ c2.at = "raw" /\ c2.req = c.req + 1
    PROVE  Visit(p, r, u, d \o <<[type |-> "Data", answer |-> [req |-> c.req, status |-> status, cut |-> FALSE]]>>,
                 c2, k)
<1>1. /\ p \in VisitorRow /\ d \in Seq(DownMessage) /\ r \in RelayRow /\ c \in ClientRow /\ r.at = "proxy"
      /\ c.req \in Nat /\ c.last \in Nat /\ p.sent \in Nat
  BY DEF Visit, Typed, Started, OneMessage, RelayRow, ClientRow, VisitorRow
<1>2. PICK a : a = [req |-> c.req, status |-> status, cut |-> FALSE]
  OBVIOUS
<1>3. a \in GivenAnswer /\ a.req = c.req /\ ~a.cut
  BY <1>1, <1>2 DEF GivenAnswer
<1>4. PICK m : m = [type |-> "Data", answer |-> a]
  OBVIOUS
<1>5. m \in DownMessage /\ m.type = "Data" /\ m.answer = a
  BY <1>3, <1>4 DEF DownMessage, Replying
<1>6. PICK d2 : d2 = Append(d, m)
  OBVIOUS
<1>7. /\ d2 \in Seq(DownMessage) /\ Len(d2) = Len(d) + 1 /\ Len(d) \in Nat /\ d2[Len(d) + 1] = m
      /\ \A j \in 1 .. Len(d) : d2[j] = d[j]
  BY <1>1, <1>5, <1>6, AppendProperties
<1>8. \A j \in 1 .. Len(d2) : (j \in 1 .. Len(d) /\ d2[j] = d[j]) \/ (j = Len(d) + 1 /\ d2[j] = m)
  BY <1>7
<1>9. Typed(p, r, u, d2, c2, k) /\ Matched(p, c2) /\ Recorded(p, r, k)
  BY <1>7 DEF Visit, Typed, Matched
<1>10. Started(p, r, u, d2, c2) /\ OneMessage(p, r, u, d2, c2)
  BY <1>1 DEF Started, Early, OneMessage
<1>11. BytesUp(p, r, u, c)
  BY DEF Visit
<1>12. /\ c.at = "busy" => Passed(c.req, c.last, c.skipped)
       /\ c.req # 0 /\ c.req <= c.last /\ c.last <= p.sent
  <2>1. c.req # 0 /\ Chained(c.last, ChunksOf(u)) /\ Queue(LastOf(c.last, ChunksOf(u)), p)
    BY <1>1, <1>11 DEF BytesUp
  <2>2. c.at = "busy" => Passed(c.req, c.last, c.skipped)
    BY <1>1, <1>11 DEF BytesUp
  <2>3. c.req <= c.last
    BY <2>2 DEF Passed
  <2>4. PICK q, n : q = ChunksOf(u) /\ n = LastOf(c.last, q)
    OBVIOUS
  <2>5. q \in Seq(Chunk)
    <3>1. \A j \in 1 .. Len(u) : u[j] \in Carrying
      BY <1>1, <1>11 DEF BytesUp
    <3> QED
      BY <2>4, <3>1, ChunksFacts DEF Visit, Typed
  <2>6. n \in Nat /\ c.last <= n
    BY <1>1, <2>1, <2>4, <2>5, LastNat
  <2>7. n <= p.sent
    <3>1. Chained(n, p.inbox) /\ LastOf(n, p.inbox) = p.sent /\ p.inbox \in Seq(Chunk)
      BY <1>1, <2>1, <2>4 DEF Queue, VisitorRow
    <3> QED
      BY <2>6, <3>1, LastNat
  <2> QED
    BY <1>1, <2>1, <2>2, <2>3, <2>6, <2>7
<1>13. BytesUp(p, r, u, c2)
  <2>1. c2.at \in {"loop", "upgraded", "raw"} /\ c.at \in {"busy", "raw"} /\ (c2.at = "raw" => c2.req # 0)
    BY <1>1
  <2> QED
    BY <1>1, <1>11, <2>1 DEF BytesUp
<1>14. BytesDown(p, r, d2, c2)
  <2>1. BytesDown(p, r, d, c) /\ \A j \in 1 .. Len(d) : d[j].type = "Data"
    BY <1>1 DEF Visit, BytesDown
  <2>2. \A j \in 1 .. Len(d2) : d2[j].type = "Data" /\ ~d2[j].answer.cut /\ d2[j].answer.req <= p.sent
    <3>1. a.req <= p.sent
      BY <1>1, <1>3, <1>12
    <3>2. \A j \in 1 .. Len(d) : ~d[j].answer.cut /\ d[j].answer.req <= p.sent
      BY <1>1, <2>1 DEF BytesDown
    <3> QED
      BY <1>3, <1>5, <1>8, <2>1, <3>1, <3>2
  <2>3. PICK n : n = LastReq(p.answers)
    OBVIOUS
  <2>4. ASSUME p.side # "gone"
        PROVE  /\ Told(n, c.skipped, d2)
               /\ c2.at # "upgraded" => Passed(LastTold(n, d2), Dealt(c2), c.skipped)
    <3>1. PICK x : x = LastTold(n, d)
      OBVIOUS
    <3>2. Told(n, c.skipped, d) /\ Passed(x, c.req - 1, c.skipped)
      BY <1>1, <2>1, <2>3, <2>4, <3>1 DEF BytesDown, Dealt
    <3>3. n \in Nat /\ x \in Nat
      BY <1>1, <2>1, <2>3, <3>1, LastReqNat, LastToldNat DEF VisitorRow
    <3>4. x < m.answer.req /\ x + 1 .. m.answer.req - 1 \subseteq c.skipped
      BY <1>1, <1>3, <1>5, <3>2, <3>3 DEF Passed
    <3>5. Told(n, c.skipped, d2) /\ LastTold(n, d2) = c.req
      BY <1>1, <1>3, <1>5, <1>6, <2>1, <3>1, <3>2, <3>4, ToldAppend
    <3>6. c2.at = "loop" => Dealt(c2) = c.last /\ Passed(c.req, c.last, c.skipped)
      BY <1>12 DEF Dealt
    <3>7. c2.at = "raw" => Dealt(c2) = c.req /\ Passed(c.req, c.req, c.skipped)
      BY <1>1 DEF Dealt, Passed
    <3> QED
      BY <3>5, <3>6, <3>7
  <2> QED
    BY <2>2, <2>3, <2>4 DEF BytesDown
<1>15. d2 = d \o <<m>>
  BY <1>1, <1>5, <1>6, TwoAppend
<1> QED
  BY <1>2, <1>4, <1>9, <1>10, <1>13, <1>14, <1>15 DEF Visit

\* A later request fails: it is dropped.
LEMMA SkipVisit ==
    ASSUME NEW p, NEW r, NEW u, NEW d, NEW c, NEW k, Visit(p, r, u, d, c, k), r.at # "done",
           c.at = "busy", c.kind = "proxy",
           NEW c2 \in ClientRow, c2.skipped = c.skipped \cup {c.req}, c2.last = c.last, c2.at = "loop"
    PROVE  Visit(p, r, u, d, c2, k)
<1>1. r \in RelayRow /\ r.at = "proxy" /\ c.req \in Nat /\ c.last \in Nat /\ p \in VisitorRow
  BY DEF Visit, Typed, Started, OneMessage, RelayRow, ClientRow
<1>2. c.skipped \subseteq c2.skipped
  OBVIOUS
<1>3. Matched(p, c2)
  <2>1. Matched(p, c)
    BY DEF Visit
  <2> QED
    BY <1>2, <2>1, OrderMore DEF Matched
<1>4. Typed(p, r, u, d, c2, k) /\ Recorded(p, r, k)
  BY DEF Visit, Typed
<1>5. Started(p, r, u, d, c2) /\ OneMessage(p, r, u, d, c2)
  BY <1>1 DEF Started, Early, OneMessage
<1>6. BytesUp(p, r, u, c)
  BY DEF Visit
<1>7. BytesUp(p, r, u, c2) /\ Passed(c.req, c.last, c.skipped) /\ c.req # 0
  BY <1>1, <1>6 DEF BytesUp
<1>8. BytesDown(p, r, d, c2)
  <2>1. BytesDown(p, r, d, c) /\ \A j \in 1 .. Len(d) : d[j].type = "Data"
    BY <1>1 DEF Visit, BytesDown
  <2>2. PICK n : n = LastReq(p.answers)
    OBVIOUS
  <2>3. ASSUME p.side # "gone" PROVE Told(n, c2.skipped, d) /\ Passed(LastTold(n, d), Dealt(c2), c2.skipped)
    <3>1. PICK x : x = LastTold(n, d)
      OBVIOUS
    <3>2. Told(n, c.skipped, d) /\ Passed(x, c.req - 1, c.skipped)
      BY <1>1, <2>1, <2>2, <2>3, <3>1 DEF BytesDown, Dealt
    <3>3. n \in Nat /\ x \in Nat
      BY <1>1, <2>1, <2>2, <3>1, LastReqNat, LastToldNat DEF Visit, Typed, VisitorRow
    <3>4. Passed(x, c.req - 1, c2.skipped) /\ Passed(c.req, c.last, c2.skipped) /\ Told(n, c2.skipped, d)
      BY <1>2, <1>7, <3>2, OrderMore
    <3>5. Passed(c.req - 1, c.req, c2.skipped)
      BY <1>1, <1>7 DEF Passed
    <3>6. c.req - 1 \in Nat
      BY <1>1, <1>7
    <3>7. Passed(x, c.req, c2.skipped)
      BY <1>1, <3>3, <3>4, <3>5, <3>6, PassedOn
    <3>8. Passed(x, c.last, c2.skipped)
      BY <1>1, <3>3, <3>4, <3>7, PassedOn
    <3>9. Dealt(c2) = c.last
      BY DEF Dealt
    <3> QED
      BY <3>1, <3>4, <3>8, <3>9
  <2> QED
    BY <2>1, <2>2, <2>3 DEF BytesDown
<1> QED
  BY <1>3, <1>4, <1>5, <1>7, <1>8 DEF Visit

\* After an upgrade what comes goes on to the service as it is.
LEMMA RawVisit ==
    ASSUME NEW p, NEW r, NEW u, NEW d, NEW c, NEW k, Visit(p, r, u, d, c, k), r.at # "done",
           c.at \in {"raw", "upgraded"}, u # <<>>,
           NEW c2 \in ClientRow, c2.at = c.at, c2.req = c.req, c2.skipped = c.skipped,
           c2.last = IF Head(u).type = "Data" THEN Head(u).chunk.last ELSE c.last
    PROVE  Visit(p, r, Tail(u), d, c2, k)
<1>1. u \in Seq(UpMessage) /\ r.at = "proxy"
  BY MessageFits DEF Visit, Typed
<1>2. PICK t : t = Tail(u)
  OBVIOUS
<1>3. t \in Seq(UpMessage)
  BY <1>1, <1>2, HeadTailProperties
<1>4. Typed(p, r, t, d, c2, k) /\ Matched(p, c2) /\ Recorded(p, r, k)
  BY <1>3 DEF Visit, Typed, Matched
<1>5. Started(p, r, t, d, c2) /\ OneMessage(p, r, t, d, c2)
  BY <1>1 DEF Started, Early, OneMessage
<1>6. BytesUp(p, r, t, c2)
  <2>1. CASE c.at = "upgraded"
    BY <2>1 DEF BytesUp
  <2>2. CASE c.at = "raw"
    <3>1. /\ Head(u).type = "Data" /\ \A j \in 1 .. Len(t) : t[j] \in Carrying /\ t[j].type = "Data"
          /\ Chained(Head(u).chunk.last, ChunksOf(t)) /\ Queue(LastOf(Head(u).chunk.last, ChunksOf(t)), p)
      BY <1>1, <1>2, <2>2, NextBytes
    <3>2. c.req # 0
      BY <1>1, <2>2 DEF Visit, BytesUp
    <3>3. c2.last = Head(u).chunk.last
      BY <3>1
    <3> QED
      BY <2>2, <3>1, <3>2, <3>3 DEF BytesUp
  <2> QED
    BY <2>1, <2>2
<1>7. BytesDown(p, r, d, c2)
  <2>1. c.at = "raw" => Dealt(c2) = Dealt(c)
    BY DEF Dealt
  <2> QED
    BY <2>1 DEF Visit, BytesDown
<1> QED
  BY <1>2, <1>4, <1>5, <1>6, <1>7 DEF Visit

(***************************************************************************)
(* Every step keeps the visits.                                            *)
(***************************************************************************)
\* The visit of one visitor.
LEMMA ThisVisit ==
    ASSUME VisitsInv, NEW v \in Visitor
    PROVE  /\ Visit(visitor[v], relay[v], up[v], down[v], client[v], captured[v])
           /\ Typed(visitor[v], relay[v], up[v], down[v], client[v], captured[v])
  BY DEF VisitsInv, VisitOf, Visit

\* The visitor sends or leaves.
LEMMA VisitorKeeps ==
    ASSUME VisitsInv, NEW v \in Visitor, Send(v) \/ Leave(v)
    PROVE  VisitsInv'
<1> DEFINE p == visitor[v]
<1>1. CASE Send(v)
  <2>1. PICK i : i = p.sent + 1
    OBVIOUS
  <2>2. PICK w \in {{}, {i}} :
          \E s \in {<<[req |-> i, last |-> i, part |-> "whole", ws |-> w]>>,
                    <<[req |-> i, last |-> i, part |-> "head", ws |-> {}], [req |-> i, last |-> i, part |-> "rest", ws |-> {}]>>,
                    <<[req |-> i, last |-> i, part |-> "stub", ws |-> {}], [req |-> i, last |-> i, part |-> "rest", ws |-> w]>>} :
            visitor' = [visitor EXCEPT ![v].sent = i, ![v].inbox = @ \o s,
                                       ![v].eager = @ \/ Len(visitor[v].answers) < visitor[v].sent]
    BY <1>1, <2>1, ZenonT(60) DEF Send
  <2>3. PICK s \in {<<[req |-> i, last |-> i, part |-> "whole", ws |-> w]>>,
                    <<[req |-> i, last |-> i, part |-> "head", ws |-> {}], [req |-> i, last |-> i, part |-> "rest", ws |-> {}]>>,
                    <<[req |-> i, last |-> i, part |-> "stub", ws |-> {}], [req |-> i, last |-> i, part |-> "rest", ws |-> w]>>} :
            visitor' = [visitor EXCEPT ![v].sent = i, ![v].inbox = @ \o s,
                                       ![v].eager = @ \/ Len(visitor[v].answers) < visitor[v].sent]
    BY <2>2
  <2>4. PICK e \in BOOLEAN : e = (p.eager \/ Len(p.answers) < p.sent)
    OBVIOUS
  <2>5. PICK p2 : p2 = [p EXCEPT !.sent = i, !.inbox = p.inbox \o s, !.eager = e]
    OBVIOUS
  <2>6. visitor' = [visitor EXCEPT ![v] = p2]
    BY <2>3, <2>4, <2>5
  <2>7. p \in VisitorRow /\ i \in Nat \ {0} /\ w \in SUBSET Nat
    <3>1. p \in VisitorRow
      BY ThisVisit DEF Typed
    <3> QED
      BY <2>1, <3>1 DEF VisitorRow
  <2>8. ~e => ~p.eager /\ Len(p.answers) >= p.sent
    <3>1. Len(p.answers) \in Nat /\ p.sent \in Nat
      BY <2>7 DEF VisitorRow
    <3>2. ~e => ~p.eager /\ ~(Len(p.answers) < p.sent)
      BY <2>4, Zenon
    <3>3. ~(Len(p.answers) < p.sent) => Len(p.answers) >= p.sent
      BY <3>1
    <3> QED
      BY <3>2, <3>3, Zenon
  <2>9. PICK a \in Chunk, b \in Chunk :
          /\ a.req = i /\ a.last = i /\ a.part # "rest" /\ b.req = i /\ b.last = i /\ b.part = "rest"
          /\ s \in {<<a>>, <<a, b>>}
    <3>1. ASSUME NEW part \in {"whole", "head", "stub", "rest"}, NEW x \in SUBSET Nat
          PROVE  [req |-> i, last |-> i, part |-> part, ws |-> x] \in Chunk
      BY <2>7, <3>1 DEF Chunk
    <3>2. CASE s = <<[req |-> i, last |-> i, part |-> "whole", ws |-> w]>>
      <4>1. PICK a, b : /\ a = [req |-> i, last |-> i, part |-> "whole", ws |-> w]
                        /\ b = [req |-> i, last |-> i, part |-> "rest", ws |-> w]
        OBVIOUS
      <4> QED
        BY <2>7, <3>1, <3>2, <4>1
    <3>3. CASE s = <<[req |-> i, last |-> i, part |-> "head", ws |-> {}], [req |-> i, last |-> i, part |-> "rest", ws |-> {}]>>
      <4>1. PICK a, b : /\ a = [req |-> i, last |-> i, part |-> "head", ws |-> {}]
                        /\ b = [req |-> i, last |-> i, part |-> "rest", ws |-> {}]
        OBVIOUS
      <4> QED
        BY <2>7, <3>1, <3>3, <4>1
    <3>4. CASE s = <<[req |-> i, last |-> i, part |-> "stub", ws |-> {}], [req |-> i, last |-> i, part |-> "rest", ws |-> w]>>
      <4>1. PICK a, b : /\ a = [req |-> i, last |-> i, part |-> "stub", ws |-> {}]
                        /\ b = [req |-> i, last |-> i, part |-> "rest", ws |-> w]
        OBVIOUS
      <4> QED
        BY <2>7, <3>1, <3>4, <4>1
    <3> QED
      BY <3>2, <3>3, <3>4
  <2>10. Visit(p2, relay[v], up[v], down[v], client[v], captured[v])
    <3>1. PICK w1 : w1 = visitor[v]
      OBVIOUS
    <3>2. i = w1.sent + 1 /\ p2 = [w1 EXCEPT !.sent = i, !.inbox = w1.inbox \o s, !.eager = e]
      BY <2>1, <2>5, <3>1
    <3>3. Visit(w1, relay[v], up[v], down[v], client[v], captured[v]) /\ (~e => ~w1.eager /\ Len(w1.answers) >= w1.sent)
      BY <2>8, <3>1, ThisVisit
    <3> HIDE <2>5, <2>1
    <3> QED
      BY <2>9, <3>2, <3>3, SendVisit
  <2>11. relay' = relay /\ up' = up /\ down' = down /\ client' = client /\ captured' = captured
    BY <1>1 DEF Send
  <2> QED
    BY <2>6, <2>10, <2>11, OnlyKeeps DEF Becomes
<1>2. CASE Leave(v)
  <2>1. PICK s \in {"half", "gone"} : visitor' = [visitor EXCEPT ![v] = [p EXCEPT !.side = s]]
    BY <1>2 DEF Leave
  <2>2. Visit([p EXCEPT !.side = s], relay[v], up[v], down[v], client[v], captured[v])
    BY <1>2, ThisVisit, LeaveVisit DEF Leave
  <2>3. relay' = relay /\ up' = up /\ down' = down /\ client' = client /\ captured' = captured
    BY <1>2 DEF Leave
  <2> QED
    BY <2>1, <2>2, <2>3, OnlyKeeps DEF Becomes
<1> QED
  BY <1>1, <1>2

\* The relay answers before the tunnel is reached, or while it waits for the one message.
LEMMA EndsEarly ==
    ASSUME VisitsInv, NEW v \in Visitor, relay[v].at \in Early \cup {"await"},
           NEW status \in Nat \ {0}, EndWith(v, status) \/ (relay[v].at = "read" /\ End(v)),
           up' = up \/ Close(v), NEW d \in Seq(DownMessage), Becomes(down', down, v, d),
           client' = client, captured' = captured
    PROVE  VisitsInv'
<1>1. PICK r : r = [at |-> "done", first |-> <<>>, via |-> relay[v].via]
  OBVIOUS
<1>2. PICK p : p = [visitor[v] EXCEPT !.answers = IF visitor[v].side = "gone" THEN @
                                       ELSE Append(@, [req |-> 1, status |-> status, cut |-> FALSE])]
  OBVIOUS
<1>3. r.at = "done" /\ relay' = [relay EXCEPT ![v] = r]
  BY <1>1 DEF EndWith, End, Ended
<1>4. PICK u \in Seq(UpMessage) : Becomes(up', up, v, u)
  <2>1. CASE up' = up
    BY <2>1, ThisVisit DEF Typed, Becomes
  <2>2. CASE Close(v)
    <3>1. up' = [up EXCEPT ![v] = Append(up[v], [type |-> "End"])]
      BY <2>2 DEF Close
    <3>2. [type |-> "End"] \in UpMessage
      BY DEF UpMessage, Closing
    <3> QED
      BY <3>1, <3>2, ThisVisit, AppendProperties DEF Typed, Becomes
  <2> QED
    BY <2>1, <2>2
<1>5. CASE EndWith(v, status)
  <2>1. visitor' = [visitor EXCEPT ![v] = p]
    BY <1>2, <1>5 DEF EndWith, Deliver
  <2>2. p \in VisitorRow /\ Matched(p, client[v]) /\ Recorded(p, r, captured[v])
    <3>1. Visit(visitor[v], relay[v], up[v], down[v], client[v], captured[v])
      BY ThisVisit
    <3>2. PICK w : w = visitor[v]
      OBVIOUS
    <3>3. p = [w EXCEPT !.answers = IF w.side = "gone" THEN @
                                    ELSE Append(@, [req |-> 1, status |-> status, cut |-> FALSE])]
      BY <1>2, <3>2
    <3>4. Visit(w, relay[v], up[v], down[v], client[v], captured[v])
      BY <3>1, <3>2
    <3> HIDE <1>2
    <3> QED
      BY <1>3, <3>3, <3>4, OwnAnswer
  <2>3. Visit(p, r, u, d, client[v], captured[v])
    BY <1>1, <2>2, ThisVisit, DoneVisit DEF Typed
  <2> QED
    BY <1>3, <1>4, <2>1, <2>3, OnlyKeeps DEF Becomes
<1>6. CASE relay[v].at = "read" /\ End(v)
  <2>1. visitor' = visitor
    BY <1>6 DEF End
  <2>2. Matched(visitor[v], client[v]) /\ Recorded(visitor[v], relay[v], captured[v])
    BY ThisVisit DEF Visit
  <2>3. Recorded(visitor[v], r, captured[v])
    BY <1>3, <2>2 DEF Recorded
  <2>4. Visit(visitor[v], r, u, d, client[v], captured[v])
    BY <1>1, <2>2, <2>3, ThisVisit, DoneVisit DEF Typed
  <2> QED
    BY <1>3, <1>4, <2>1, <2>4, OnlyKeeps DEF Becomes
<1> QED
  BY <1>5, <1>6

\* Up to the stream: the request is read, routed, checked and given a connection.
LEMMA EarlyKeeps ==
    ASSUME VisitsInv, tunnel \in Nat, NEW v \in Visitor, ReadRequest(v) \/ Lookup(v) \/ Authenticate(v) \/ GetTunnel(v)
    PROVE  VisitsInv'
<1> DEFINE p == visitor[v]
<1> DEFINE r == relay[v]
<1>1. up' = up /\ down' = down /\ client' = client /\ captured' = captured
  BY DEF ReadRequest, Lookup, Authenticate, GetTunnel
<1>2. r \in RelayRow /\ p \in VisitorRow /\ down[v] \in Seq(DownMessage)
  BY ThisVisit DEF Typed
<1>3. ASSUME NEW status \in Nat \ {0}, EndWith(v, status) \/ (r.at = "read" /\ End(v)), r.at \in Early
      PROVE  VisitsInv'
  BY <1>1, <1>2, <1>3, EndsEarly DEF Becomes
<1>4. ASSUME NEW r2 \in RelayRow, r.at \in {"route", "auth", "get"}, r2.at \in {"auth", "get", "open"},
             r2.first = r.first, relay' = [relay EXCEPT ![v] = r2], visitor' = visitor
      PROVE  VisitsInv'
  <2>1. Visit(p, r2, up[v], down[v], client[v], captured[v])
    BY <1>4, ThisVisit, MoveVisit
  <2> QED
    BY <1>1, <1>4, <2>1, OnlyKeeps DEF Becomes
<1>5. CASE ReadRequest(v)
  <2>1. CASE EndWith(v, 400) \/ End(v)
    <3>1. r.at = "read" /\ r.at \in Early /\ 400 \in Nat \ {0}
      BY <1>5 DEF ReadRequest, Early
    <3>2. CASE EndWith(v, 400)
      BY <1>3, <3>1, <3>2
    <3>3. CASE End(v)
      BY <1>3, <3>1, <3>3
    <3> QED
      BY <2>1, <3>2, <3>3
  <2>2. CASE \E i \in 1 .. Len(p.inbox) :
               /\ relay' = [relay EXCEPT ![v].at = "route", ![v].first = <<Joined(SubSeq(p.inbox, 1, i))>>]
               /\ visitor' = [visitor EXCEPT ![v].inbox = SubSeq(@, i + 1, Len(@))]
    <3>1. PICK i \in 1 .. Len(p.inbox) :
               /\ relay' = [relay EXCEPT ![v].at = "route", ![v].first = <<Joined(SubSeq(p.inbox, 1, i))>>]
               /\ visitor' = [visitor EXCEPT ![v].inbox = SubSeq(@, i + 1, Len(@))]
      BY <2>2
    <3>2. PICK p2, r2 : /\ p2 = [p EXCEPT !.inbox = SubSeq(p.inbox, i + 1, Len(p.inbox))]
                        /\ r2 = [r EXCEPT !.at = "route", !.first = <<Joined(SubSeq(p.inbox, 1, i))>>]
      OBVIOUS
    <3>3. visitor' = [visitor EXCEPT ![v] = p2] /\ relay' = [relay EXCEPT ![v] = r2]
      BY <3>1, <3>2
    <3>4. Visit(p2, r2, up[v], down[v], client[v], captured[v])
      BY <1>5, <3>2, ThisVisit, ReadVisit DEF ReadRequest
    <3> QED
      BY <1>1, <3>3, <3>4, OnlyKeeps DEF Becomes
  <2> QED
    BY <1>5, <2>1, <2>2, ZenonT(60) DEF ReadRequest
<1>6. CASE Lookup(v)
  <2>1. CASE EndWith(v, 200) \/ EndWith(v, 404) \/ EndWith(v, 403)
    BY <1>3, <1>6, <2>1 DEF Lookup, Early
  <2>2. CASE relay' = [relay EXCEPT ![v] = [r EXCEPT !.at = "auth"]] /\ visitor' = visitor
    <3>1. PICK r2 : r2 = [r EXCEPT !.at = "auth"]
      OBVIOUS
    <3>2. r2 \in RelayRow /\ r2.at = "auth" /\ r2.first = r.first
      BY <1>2, <3>1 DEF RelayRow, Early
    <3> QED
      BY <1>4, <1>6, <2>2, <3>1, <3>2 DEF Lookup
  <2> QED
    BY <1>6, <2>1, <2>2 DEF Lookup
<1>7. CASE Authenticate(v)
  <2>1. CASE EndWith(v, 401)
    BY <1>3, <1>7, <2>1 DEF Authenticate, Early
  <2>2. CASE relay' = [relay EXCEPT ![v] = [r EXCEPT !.at = "get"]] /\ visitor' = visitor
    <3>1. PICK r2 : r2 = [r EXCEPT !.at = "get"]
      OBVIOUS
    <3>2. r2 \in RelayRow /\ r2.at = "get" /\ r2.first = r.first
      BY <1>2, <3>1 DEF RelayRow, Early
    <3> QED
      BY <1>4, <1>7, <2>2, <3>1, <3>2 DEF Authenticate
  <2> QED
    BY <1>7, <2>1, <2>2 DEF Authenticate
<1>8. CASE GetTunnel(v)
  <2>1. CASE EndWith(v, 502)
    BY <1>3, <1>8, <2>1 DEF GetTunnel, Early
  <2>2. CASE /\ tunnel # 0
             /\ relay' = [relay EXCEPT ![v] = [r EXCEPT !.at = "open", !.via = tunnel]] /\ visitor' = visitor
    <3>1. PICK r2 : r2 = [r EXCEPT !.at = "open", !.via = tunnel]
      OBVIOUS
    <3>2. r2 \in RelayRow /\ r2.at = "open" /\ r2.first = r.first /\ r.at = "get"
      BY <1>2, <1>8, <3>1 DEF RelayRow, Early, GetTunnel
    <3> QED
      BY <1>4, <2>2, <3>1, <3>2
  <2> QED
    BY <1>8, <2>1, <2>2 DEF GetTunnel
<1> QED
  BY <1>5, <1>6, <1>7, <1>8

\* The stream is opened, or cannot be.
LEMMA OpenKeeps ==
    ASSUME VisitsInv, NEW v \in Visitor, OpenStream(v)
    PROVE  VisitsInv'
<1> DEFINE p == visitor[v]
<1> DEFINE r == relay[v]
<1>1. down' = down /\ client' = client /\ captured' = captured
  BY DEF OpenStream
<1>2. CASE EndWith(v, 502) /\ up' = up
  <2>1. down[v] \in Seq(DownMessage)
    BY ThisVisit DEF Typed
  <2>2. r.at \in Early
    BY DEF OpenStream, Early
  <2>3. Becomes(down', down, v, down[v])
    BY <1>1 DEF Becomes
  <2> QED
    BY <1>1, <1>2, <2>1, <2>2, <2>3, EndsEarly
<1>3. CASE ~EndWith(v, 502) \/ up' # up
  <2>1. PICK b \in BOOLEAN : b = Transparent(v)
    BY DEF Transparent
  <2>2. /\ relay' = [relay EXCEPT ![v] = [r EXCEPT !.at = IF b THEN "proxy" ELSE "await"]]
        /\ up' = [up EXCEPT ![v] = <<[type |-> IF b THEN "Connect" ELSE "Request", chunk |-> r.first[1]]>>]
        /\ visitor' = visitor /\ r.at = "open"
    BY <1>3, <2>1 DEF OpenStream
  <2>3. ~b => p.server # "http"
    BY <2>1 DEF Transparent
  <2>4. Visit(p, [r EXCEPT !.at = IF b THEN "proxy" ELSE "await"],
              <<[type |-> IF b THEN "Connect" ELSE "Request", chunk |-> r.first[1]]>>, down[v], client[v], captured[v])
    BY <2>2, <2>3, ThisVisit, OpenVisit
  <2> QED
    BY <1>1, <2>2, <2>4, OnlyKeeps DEF Becomes
<1> QED
  BY <1>2, <1>3

\* The relay's task ends with its stream, over bytes or over the one message.
LEMMA ClosesKeeps ==
    ASSUME VisitsInv, NEW v \in Visitor, relay' = Ended(v), NEW p2 \in VisitorRow, Becomes(visitor', visitor, v, p2),
           NEW u \in Seq(UpMessage), Becomes(up', up, v, u), NEW d \in Seq(DownMessage), Becomes(down', down, v, d),
           client' = client, NEW k \in Int, Becomes(captured', captured, v, k), Matched(p2, client[v]),
           p2.side # "gone" /\ k > NoStatus => p2.answers # <<>> /\ p2.answers[1].status = k
    PROVE  VisitsInv'
<1>1. PICK r : r = [at |-> "done", first |-> <<>>, via |-> relay[v].via]
  OBVIOUS
<1>2. relay' = [relay EXCEPT ![v] = r] /\ r.at = "done"
  BY <1>1 DEF Ended
<1>3. Recorded(p2, r, k)
  BY <1>2 DEF Recorded
<1>4. Visit(p2, r, u, d, client[v], k)
  BY <1>1, <1>3, ThisVisit, DoneVisit DEF Typed
<1> QED
  BY <1>2, <1>4, OnlyKeeps DEF Becomes

\* A stream is closed.
LEMMA Closed ==
    ASSUME VisitsInv, NEW v \in Visitor
    PROVE  /\ Close(v) => \E u \in Seq(UpMessage) : Becomes(up', up, v, u)
           /\ up[v] \o <<[type |-> "Close"], [type |-> "End"]>> \in Seq(UpMessage)
<1>1. up[v] \in Seq(UpMessage)
  BY ThisVisit DEF Typed
<1>2. [type |-> "End"] \in UpMessage /\ [type |-> "Close"] \in UpMessage
  BY DEF UpMessage, Closing
<1>3. Append(up[v], [type |-> "End"]) \in Seq(UpMessage)
  BY <1>1, <1>2
<1> QED
  BY <1>1, <1>2, <1>3, SMTT(60) DEF Close, Becomes

\* proxy_transparent_stream.
LEMMA ProxyKeeps ==
    ASSUME VisitsInv, NEW v \in Visitor, ProxyStep(v)
    PROVE  VisitsInv'
<1> DEFINE p == visitor[v]
<1> DEFINE r == relay[v]
<1> DEFINE k == captured[v]
<1>1. client' = client /\ r.at = "proxy"
  BY DEF ProxyStep, ProxyUp, ProxyEof, ProxyDown, ProxyLost
<1>2. /\ Visit(p, r, up[v], down[v], client[v], k) /\ p \in VisitorRow /\ k \in Int
      /\ up[v] \in Seq(UpMessage) /\ down[v] \in Seq(DownMessage)
  BY ThisVisit DEF Typed
<1>3. Matched(p, client[v]) /\ Recorded(p, r, k)
  BY <1>2 DEF Visit
<1>4. ASSUME ProxyEnds(v), NEW p2 \in VisitorRow, Becomes(visitor', visitor, v, p2), p2.side = p.side, p2.answers = p.answers,
             p2.server = p.server, p2.sent = p.sent, p2.eager = p.eager,
             NEW u \in Seq(UpMessage), Becomes(up', up, v, u), NEW d \in Seq(DownMessage), Becomes(down', down, v, d)
      PROVE  VisitsInv'
  <2>1. PICK k2 : k2 = Saw(v, NoStatus)
    OBVIOUS
  <2>2. k2 \in Int /\ Becomes(captured', captured, v, k2) /\ relay' = Ended(v) /\ (k2 > NoStatus => k2 = k)
    BY <1>2, <1>4, <2>1 DEF ProxyEnds, Saw, NoStatus, Becomes
  <2>3. Matched(p2, client[v])
    BY <1>3, <1>4 DEF Matched
  <2>4. p2.side # "gone" /\ k2 > NoStatus => p2.answers # <<>> /\ p2.answers[1].status = k2
    BY <1>3, <1>4, <2>2 DEF Recorded
  <2> QED
    BY <1>1, <1>4, <2>2, <2>3, <2>4, ClosesKeeps
<1>5. CASE ProxyUp(v)
  <2>1. PICK i \in 1 .. Len(p.inbox) :
          /\ visitor' = [visitor EXCEPT ![v].inbox = SubSeq(@, i + 1, Len(@))]
          /\ \/ ProxyEnds(v) /\ Close(v)
             \/ /\ up' = [up EXCEPT ![v] = Append(@, [type |-> "Data", chunk |-> Joined(SubSeq(p.inbox, 1, i))])]
                /\ relay' = relay /\ captured' = captured
    BY <1>5, ZenonT(60) DEF ProxyUp
  <2>2. PICK p2, u2 : /\ p2 = [p EXCEPT !.inbox = SubSeq(p.inbox, i + 1, Len(p.inbox))]
                      /\ u2 = Append(up[v], [type |-> "Data", chunk |-> Joined(SubSeq(p.inbox, 1, i))])
    OBVIOUS
  <2>3. visitor' = [visitor EXCEPT ![v] = p2] /\ down' = down
    BY <1>5, <2>1, <2>2 DEF ProxyUp
  <2>4. CASE ProxyEnds(v) /\ Close(v)
    <3>1. p.inbox \in Seq(Chunk)
      BY <1>2 DEF VisitorRow
    <3>2. SubSeq(p.inbox, i + 1, Len(p.inbox)) \in Seq(Chunk)
      BY <3>1, JoinTyped
    <3>3. /\ p2 \in VisitorRow /\ p2.side = p.side /\ p2.answers = p.answers /\ p2.server = p.server
          /\ p2.sent = p.sent /\ p2.eager = p.eager
      BY <1>2, <2>2, <3>2 DEF VisitorRow
    <3>4. PICK u \in Seq(UpMessage) : Becomes(up', up, v, u)
      BY <2>4, Closed
    <3>5. Becomes(visitor', visitor, v, p2) /\ Becomes(down', down, v, down[v])
      BY <2>3 DEF Becomes
    <3> QED
      BY <1>2, <1>4, <2>4, <3>3, <3>4, <3>5
  <2>5. CASE /\ up' = [up EXCEPT ![v] = Append(@, [type |-> "Data", chunk |-> Joined(SubSeq(p.inbox, 1, i))])]
             /\ relay' = relay /\ captured' = captured
    <3>1. Visit(p2, r, u2, down[v], client[v], k)
      BY <1>1, <1>2, <2>2, UpVisit
    <3>2. up' = [up EXCEPT ![v] = u2]
      BY <2>2, <2>5
    <3> QED
      BY <1>1, <2>3, <2>5, <3>1, <3>2, OnlyKeeps DEF Becomes
  <2> QED
    BY <2>1, <2>4, <2>5
<1>6. CASE ProxyEof(v)
  <2>1. PICK u \in Seq(UpMessage) : Becomes(up', up, v, u)
    BY <1>6, Closed DEF ProxyEof, Becomes
  <2>2. ProxyEnds(v) /\ Becomes(visitor', visitor, v, p) /\ Becomes(down', down, v, down[v])
    BY <1>6 DEF ProxyEof, Becomes
  <2> QED
    BY <1>2, <1>4, <2>1, <2>2
<1>7. CASE ProxyLost(v)
  <2>1. PICK u \in Seq(UpMessage) : Becomes(up', up, v, u)
    BY <1>7, Closed DEF ProxyLost
  <2>2. ProxyEnds(v) /\ Becomes(visitor', visitor, v, p) /\ Becomes(down', down, v, down[v])
    BY <1>7 DEF ProxyLost, Becomes
  <2> QED
    BY <1>2, <1>4, <2>1, <2>2
<1>8. CASE ProxyDown(v)
  <2>1. down[v] # <<>> /\ down' = [down EXCEPT ![v] = Tail(down[v])] /\ Tail(down[v]) \in Seq(DownMessage)
    BY <1>2, <1>8, HeadTailProperties DEF ProxyDown
  <2>2. Becomes(down', down, v, Tail(down[v]))
    BY <2>1 DEF Becomes
  <2>3. CASE Head(down[v]).type # "Data"
    <3>1. PICK u \in Seq(UpMessage) : Becomes(up', up, v, u)
      BY <1>8, <2>3, Closed DEF ProxyDown
    <3>2. ProxyEnds(v) /\ Becomes(visitor', visitor, v, p)
      BY <1>8, <2>3 DEF ProxyDown, Becomes
    <3> QED
      BY <1>2, <1>4, <2>1, <2>2, <3>1, <3>2
  <2>4. CASE Head(down[v]).type = "Data"
    <3>1. PICK a, k2, p2 : a = Head(down[v]).answer /\ k2 = Saw(v, a.status) /\ Receives(p2, p, down[v])
      BY DEF Receives
    <3>2. visitor' = [visitor EXCEPT ![v] = p2] /\ captured' = [captured EXCEPT ![v] = k2]
      BY <1>8, <2>4, <3>1 DEF ProxyDown, Deliver, Receives
    <3>3. /\ p2 \in VisitorRow /\ Matched(p2, client[v]) /\ a.status \in Nat \ {0} /\ p2.side = p.side
          /\ p.side = "gone" => p2 = p
      <4>1. AnswerNext(r, down[v])
        BY <1>1, <2>4 DEF AnswerNext
      <4>2. Received(p2, p, down[v], client[v])
        BY <1>2, <2>1, <3>1, <4>1, NextAnswer
      <4> QED
        BY <3>1, <4>2 DEF Received
    <3>4. k2 \in Int
      BY <1>2, <3>1, <3>3 DEF Saw
    <3>5. CASE p.side = "gone"
      <4>1. PICK u \in Seq(UpMessage) : Becomes(up', up, v, u)
        BY <1>8, <2>4, <3>5, Closed DEF ProxyDown
      <4>2. relay' = Ended(v)
        BY <1>8, <2>4, <3>5 DEF ProxyDown
      <4>3. Becomes(visitor', visitor, v, p2) /\ Becomes(captured', captured, v, k2)
        BY <3>2 DEF Becomes
      <4> QED
        BY <1>1, <2>1, <2>2, <3>3, <3>4, <3>5, <4>1, <4>2, <4>3, ClosesKeeps
    <3>6. CASE p.side # "gone"
      <4>1. relay' = relay /\ up' = up
        BY <1>8, <2>4, <3>6 DEF ProxyDown
      <4>2. AnswerNext(r, down[v])
        BY <1>1, <2>4 DEF AnswerNext
      <4>3. k2 = IF k <= NoStatus THEN Head(down[v]).answer.status ELSE k
        BY <3>1 DEF Saw
      <4>4. Visit(p2, r, up[v], Tail(down[v]), client[v], k2)
        BY <1>1, <1>2, <2>1, <3>1, <3>6, <4>2, <4>3, DownVisit
      <4> QED
        BY <1>1, <2>1, <3>2, <4>1, <4>4, OnlyKeeps DEF Becomes
    <3> QED
      BY <3>5, <3>6
  <2> QED
    BY <2>3, <2>4
<1> QED
  BY <1>5, <1>6, <1>7, <1>8 DEF ProxyStep

\* The wait for the one message ends.
LEMMA AwaitKeeps ==
    ASSUME VisitsInv, NEW v \in Visitor, AwaitResponse(v) \/ AwaitLost(v) \/ AwaitTimeout(v)
    PROVE  VisitsInv'
<1> DEFINE p == visitor[v]
<1> DEFINE k == captured[v]
<1>1. client' = client /\ relay[v].at = "await" /\ Close(v)
  BY DEF AwaitResponse, AwaitLost, AwaitTimeout
<1>2. /\ Visit(p, relay[v], up[v], down[v], client[v], k) /\ p \in VisitorRow /\ k \in Int
      /\ up[v] \in Seq(UpMessage) /\ down[v] \in Seq(DownMessage)
  BY ThisVisit DEF Typed
<1>3. ASSUME NEW status \in Nat \ {0}, EndWith(v, status), captured' = captured,
             NEW d \in Seq(DownMessage), Becomes(down', down, v, d)
      PROVE  VisitsInv'
  BY <1>1, <1>3, EndsEarly
<1>4. CASE AwaitLost(v) \/ AwaitTimeout(v)
  <2>1. (EndWith(v, 502) \/ EndWith(v, 504)) /\ captured' = captured /\ Becomes(down', down, v, down[v])
    BY <1>4 DEF AwaitLost, AwaitTimeout, Becomes
  <2> QED
    BY <1>2, <1>3, <2>1
<1>5. CASE AwaitResponse(v)
  <2>1. down[v] # <<>> /\ down' = [down EXCEPT ![v] = Tail(down[v])] /\ Tail(down[v]) \in Seq(DownMessage)
    BY <1>2, <1>5, HeadTailProperties DEF AwaitResponse
  <2>2. Becomes(down', down, v, Tail(down[v]))
    BY <2>1 DEF Becomes
  <2>3. CASE Head(down[v]).type # "Response"
    <3>1. EndWith(v, 502) /\ captured' = captured /\ 502 \in Nat \ {0}
      BY <1>5, <2>3 DEF AwaitResponse
    <3>2. PICK d : d = Tail(down[v])
      OBVIOUS
    <3> QED
      BY <1>3, <2>1, <2>2, <3>1, <3>2
  <2>4. CASE Head(down[v]).type = "Response"
    <3>1. PICK a, k2, p2 : /\ a = Head(down[v]).answer /\ k2 = IF p.side = "gone" THEN k ELSE a.status
                           /\ Receives(p2, p, down[v])
      BY DEF Receives
    <3>2. relay' = Ended(v) /\ visitor' = [visitor EXCEPT ![v] = p2] /\ captured' = [captured EXCEPT ![v] = k2]
      BY <1>5, <2>4, <3>1 DEF AwaitResponse, Deliver, Receives
    <3>3. /\ p2 \in VisitorRow /\ Matched(p2, client[v]) /\ a.status \in Nat \ {0} /\ p2.side = p.side
          /\ p.side # "gone" => /\ p2.answers # <<>>
                                /\ p2.answers[1] = IF p.answers = <<>> THEN Head(down[v]).answer ELSE p.answers[1]
      <4>1. AnswerNext(relay[v], down[v])
        BY <1>1, <2>4 DEF AnswerNext
      <4>2. Received(p2, p, down[v], client[v])
        BY <1>2, <2>1, <3>1, <4>1, NextAnswer
      <4> QED
        BY <3>1, <4>2 DEF Received
    <3>4. k2 \in Int
      BY <1>2, <3>1, <3>3
    <3>5. p.answers = <<>>
      BY <1>1, <1>2 DEF Visit, OneMessage
    <3>6. p2.side # "gone" /\ k2 > NoStatus => p2.answers # <<>> /\ p2.answers[1].status = k2
      BY <3>1, <3>3, <3>5
    <3>7. PICK u \in Seq(UpMessage) : Becomes(up', up, v, u)
      BY <1>1, Closed
    <3>8. Becomes(visitor', visitor, v, p2) /\ Becomes(captured', captured, v, k2)
      BY <3>2 DEF Becomes
    <3> QED
      BY <1>1, <2>1, <2>2, <3>2, <3>3, <3>4, <3>6, <3>7, <3>8, ClosesKeeps
  <2> QED
    BY <2>3, <2>4
<1> QED
  BY <1>4, <1>5


\* A message that is not a close carries a chunk.
LEMMA CarriesChunk ==
    ASSUME NEW m \in UpMessage
    PROVE  /\ m.type \in {"Connect", "Request", "Data", "Close", "End"}
           /\ m.type \notin {"Close", "End"} => m.chunk \in Chunk
  BY DEF UpMessage, Carrying, Closing

\* The numbers of a chunk.
LEMMA ChunkNumbers ==
    ASSUME NEW ch \in Chunk
    PROVE  ch.req \in Nat \ {0} /\ ch.last \in Nat \ {0} /\ ch.part \in {"whole", "head", "stub", "rest"}
  BY DEF Chunk

\* The next message of a stream.
LEMMA NextMessage ==
    ASSUME VisitsInv, NEW v \in Visitor, up[v] # <<>>
    PROVE  Head(up[v]) \in UpMessage /\ Tail(up[v]) \in Seq(UpMessage)
<1>1. up[v] \in Seq(UpMessage)
  BY ThisVisit DEF Typed
<1> QED
  BY <1>1, HeadTailProperties

\* A request on its way to the service.
LEMMA ForwardRow ==
    ASSUME VisitsInv, NEW v \in Visitor, NEW kind \in {"request", "proxy"}, NEW ch \in Chunk, Forward(v, kind, ch)
    PROVE  \E c2 \in ClientRow :
             /\ client' = [client EXCEPT ![v] = c2]
             /\ c2.at = "busy" /\ c2.kind = kind /\ c2.req = ch.req /\ c2.last = ch.last
             /\ c2.skipped = client[v].skipped \cup (ch.req + 1 .. ch.last) /\ c2.unsettled = client[v].unsettled
<1>1. client[v] \in ClientRow
  BY ThisVisit DEF Typed
<1>2. PICK w, s : w = (ch.part # "head") /\ s = client[v].skipped \cup (ch.req + 1 .. ch.last)
  OBVIOUS
<1>3. w \in BOOLEAN
  BY <1>2
<1>4. s \in SUBSET Nat
  <2>1. ch.req + 1 .. ch.last \subseteq Nat
    BY ChunkNumbers
  <2>2. client[v].skipped \subseteq Nat
    BY <1>1 DEF ClientRow
  <2> QED
    BY <1>2, <2>1, <2>2
<1>5. PICK c2 : c2 = [client[v] EXCEPT !.at = "busy", !.kind = kind, !.req = ch.req, !.last = ch.last, !.whole = w, !.skipped = s]
  OBVIOUS
<1>6. client' = [client EXCEPT ![v] = c2]
  BY <1>2, <1>5 DEF Forward
<1>7. /\ c2 \in ClientRow /\ c2.at = "busy" /\ c2.kind = kind /\ c2.req = ch.req /\ c2.last = ch.last
      /\ c2.skipped = s /\ c2.unsettled = client[v].unsettled
  BY <1>1, <1>3, <1>4, <1>5, ChunkNumbers DEF ClientRow
<1> QED
  BY <1>2, <1>6, <1>7

\* An upgrade: bytes as they are.
LEMMA RawRow ==
    ASSUME VisitsInv, NEW v \in Visitor, NEW ch \in Chunk, GoRaw(v, ch)
    PROVE  \E c2 \in ClientRow :
             /\ client' = [client EXCEPT ![v] = c2]
             /\ c2.at = "raw" /\ c2.req = ch.req /\ c2.last = ch.last
             /\ c2.skipped = client[v].skipped /\ c2.unsettled = client[v].unsettled
<1>1. client[v] \in ClientRow
  BY ThisVisit DEF Typed
<1>2. PICK c2 : c2 = [client[v] EXCEPT !.at = "raw", !.req = ch.req, !.last = ch.last]
  OBVIOUS
<1>3. client' = [client EXCEPT ![v] = c2]
  BY <1>2 DEF GoRaw
<1>4. /\ c2 \in ClientRow /\ c2.at = "raw" /\ c2.req = ch.req /\ c2.last = ch.last
      /\ c2.skipped = client[v].skipped /\ c2.unsettled = client[v].unsettled
  BY <1>1, <1>2, ChunkNumbers DEF ClientRow
<1> QED
  BY <1>3, <1>4

\* The requests of a chunk that is ignored.
LEMMA DroppedRow ==
    ASSUME VisitsInv, NEW v \in Visitor, NEW ch \in Chunk, Dropped(v, ch)
    PROVE  \E c2 \in ClientRow :
             /\ client' = [client EXCEPT ![v] = c2]
             /\ c2.at = client[v].at /\ c2.last = ch.last
             /\ c2.skipped = client[v].skipped \cup ((IF ch.part = "rest" THEN ch.req + 1 ELSE ch.req) .. ch.last)
             /\ c2.unsettled = client[v].unsettled
<1>1. client[v] \in ClientRow
  BY ThisVisit DEF Typed
<1>2. PICK s : s = client[v].skipped \cup ((IF ch.part = "rest" THEN ch.req + 1 ELSE ch.req) .. ch.last)
  OBVIOUS
<1>3. s \in SUBSET Nat
  <2>1. (IF ch.part = "rest" THEN ch.req + 1 ELSE ch.req) .. ch.last \subseteq Nat
    BY ChunkNumbers
  <2>2. client[v].skipped \subseteq Nat
    BY <1>1 DEF ClientRow
  <2> QED
    BY <1>2, <2>1, <2>2
<1>4. PICK c2 : c2 = [client[v] EXCEPT !.last = ch.last, !.skipped = s]
  OBVIOUS
<1>5. client' = [client EXCEPT ![v] = c2]
  BY <1>2, <1>4 DEF Dropped
<1>6. c2 \in ClientRow /\ c2.at = client[v].at /\ c2.last = ch.last /\ c2.skipped = s /\ c2.unsettled = client[v].unsettled
  BY <1>1, <1>3, <1>4, ChunkNumbers DEF ClientRow
<1> QED
  BY <1>2, <1>5, <1>6

\* The first request fails.
LEMMA FailsRow ==
    ASSUME VisitsInv, NEW v \in Visitor, FirstFails(v, TRUE) \/ FirstFails(v, client[v].unsettled)
    PROVE  \E c2 \in ClientRow :
             /\ client' = [client EXCEPT ![v] = c2]
             /\ c2.at = "end" /\ c2.skipped = client[v].skipped
             /\ client[v].unsettled => c2.unsettled
             /\ FirstFails(v, TRUE) => c2.unsettled
<1>1. client[v] \in ClientRow
  BY ThisVisit DEF Typed
<1>2. CASE FirstFails(v, TRUE)
  <2>1. PICK c2 : c2 = [client[v] EXCEPT !.at = "end", !.unsettled = TRUE]
    OBVIOUS
  <2>2. client' = [client EXCEPT ![v] = c2]
    BY <1>2, <2>1 DEF FirstFails
  <2>3. c2 \in ClientRow /\ c2.at = "end" /\ c2.skipped = client[v].skipped /\ c2.unsettled
    BY <1>1, <2>1 DEF ClientRow
  <2> QED
    BY <2>2, <2>3
<1>3. CASE FirstFails(v, client[v].unsettled) /\ ~FirstFails(v, TRUE)
  <2>1. PICK c2 : c2 = [client[v] EXCEPT !.at = "end", !.unsettled = client[v].unsettled]
    OBVIOUS
  <2>2. client' = [client EXCEPT ![v] = c2]
    BY <1>3, <2>1 DEF FirstFails
  <2>3. c2 \in ClientRow /\ c2.at = "end" /\ c2.skipped = client[v].skipped /\ c2.unsettled = client[v].unsettled
    BY <1>1, <2>1 DEF ClientRow
  <2> QED
    BY <1>3, <2>2, <2>3
<1> QED
  BY <1>2, <1>3

\* The client's task moves on.
LEMMA MovedRow ==
    ASSUME VisitsInv, NEW v \in Visitor, NEW at \in {"end", "loop"}, client' = [client EXCEPT ![v].at = at]
    PROVE  \E c2 \in ClientRow :
             /\ client' = [client EXCEPT ![v] = c2]
             /\ c2.at = at /\ c2.req = client[v].req /\ c2.last = client[v].last
             /\ c2.skipped = client[v].skipped /\ c2.unsettled = client[v].unsettled
<1>1. client[v] \in ClientRow
  BY ThisVisit DEF Typed
<1>2. PICK c2 : c2 = [client[v] EXCEPT !.at = at]
  OBVIOUS
<1>3. client' = [client EXCEPT ![v] = c2]
  BY <1>2
<1>4. /\ c2 \in ClientRow /\ c2.at = at /\ c2.req = client[v].req /\ c2.last = client[v].last
      /\ c2.skipped = client[v].skipped /\ c2.unsettled = client[v].unsettled
  BY <1>1, <1>2 DEF ClientRow
<1> QED
  BY <1>3, <1>4

\* The service answers one of the requests that are passed on as they are.
LEMMA AnsweredRow ==
    ASSUME VisitsInv, NEW v \in Visitor, RawAnswer(v)
    PROVE  \E c2 \in ClientRow, at \in {"raw", "upgraded"} :
             client' = [client EXCEPT ![v] = c2] /\ Answered(c2, client[v], at)
<1>1. client[v] \in ClientRow /\ client \in [Visitor -> ClientRow]
  BY DEF VisitsInv
<1>2. PICK status \in {101, 200, 500} :
        /\ Reply(v, <<[type |-> "Data", answer |-> [req |-> client[v].req, status |-> status, cut |-> FALSE]]>>)
        /\ client' = [client EXCEPT ![v].at = IF status = 101 THEN "upgraded" ELSE "raw", ![v].req = @ + 1]
  BY ZenonT(60) DEF RawAnswer
<1>3. PICK at \in {"raw", "upgraded"} : at = IF status = 101 THEN "upgraded" ELSE "raw"
  OBVIOUS
<1>4. PICK c2 : c2 = [client[v] EXCEPT !.at = at, !.req = client[v].req + 1]
  OBVIOUS
<1>5. client' = [client EXCEPT ![v].at = at, ![v].req = @ + 1]
  BY <1>2, <1>3
<1>6. client' = [client EXCEPT ![v] = c2]
  BY <1>1, <1>4, <1>5 DEF ClientRow
<1>7. client[v].req + 1 \in Nat
  BY <1>1 DEF ClientRow
<1>8. c2 \in ClientRow /\ Answered(c2, client[v], at)
  BY <1>1, <1>4, <1>7 DEF ClientRow, Answered
<1> QED
  BY <1>6, <1>8

\* Bytes of the visitor are passed on as they are.
LEMMA PassedRow ==
    ASSUME VisitsInv, NEW v \in Visitor, RawUp(v)
    PROVE  \E c2 \in ClientRow :
             /\ client' = [client EXCEPT ![v] = c2]
             /\ c2.at = client[v].at /\ c2.req = client[v].req
             /\ c2.last = IF Head(up[v]).type = "Data" THEN Head(up[v]).chunk.last ELSE client[v].last
             /\ c2.skipped = client[v].skipped /\ c2.unsettled = client[v].unsettled
<1>1. client[v] \in ClientRow
  BY ThisVisit DEF Typed
<1>2. PICK n : n = IF Head(up[v]).type = "Data" THEN Head(up[v]).chunk.last ELSE client[v].last
  OBVIOUS
<1>3. n \in Nat
  <2>1. PICK m \in UpMessage : m = Head(up[v])
    BY NextMessage DEF RawUp
  <2>2. m.type = "Data" => m.chunk.last \in Nat
    BY CarriesChunk, ChunkNumbers
  <2>3. client[v].last \in Nat
    BY <1>1 DEF ClientRow
  <2> QED
    BY <1>2, <2>1, <2>2, <2>3
<1>4. PICK c2 : c2 = [client[v] EXCEPT !.last = n]
  OBVIOUS
<1>5. client' = [client EXCEPT ![v] = c2]
  BY <1>2, <1>4 DEF RawUp
<1>6. /\ c2 \in ClientRow /\ c2.at = client[v].at /\ c2.req = client[v].req /\ c2.last = n
      /\ c2.skipped = client[v].skipped /\ c2.unsettled = client[v].unsettled
  BY <1>1, <1>3, <1>4 DEF ClientRow
<1> QED
  BY <1>2, <1>5, <1>6

\* A later request that the proxy fails to serve.
LEMMA SkippedRow ==
    ASSUME VisitsInv, NEW v \in Visitor, ProxyFails(v), client[v].req # 1
    PROVE  \E c2 \in ClientRow :
             /\ client' = [client EXCEPT ![v] = c2]
             /\ c2.at = "loop" /\ c2.last = client[v].last
             /\ c2.skipped = client[v].skipped \cup {client[v].req} /\ c2.unsettled
<1>1. client[v] \in ClientRow
  BY ThisVisit DEF Typed
<1>2. PICK s : s = client[v].skipped \cup {client[v].req}
  OBVIOUS
<1>3. s \in SUBSET Nat
  BY <1>1, <1>2 DEF ClientRow
<1>4. PICK c2 : c2 = [client[v] EXCEPT !.at = "loop", !.skipped = s, !.unsettled = TRUE]
  OBVIOUS
<1>5. client' = [client EXCEPT ![v] = c2]
  BY <1>2, <1>4 DEF ProxyFails
<1>6. c2 \in ClientRow /\ c2.at = "loop" /\ c2.last = client[v].last /\ c2.skipped = s /\ c2.unsettled
  BY <1>1, <1>3, <1>4 DEF ClientRow
<1> QED
  BY <1>2, <1>5, <1>6

\* What a step of the client on the next message may be.
LEMMA TakesWhat ==
    ASSUME VisitsInv, NEW v \in Visitor, ClientFirst(v) \/ ClientNext(v)
    PROVE  \E m \in UpMessage :
             /\ m = Head(up[v])
             /\ \/ m.chunk \in Chunk /\ (Forward(v, "request", m.chunk) \/ Forward(v, "proxy", m.chunk))
                \/ m.chunk \in Chunk /\ (GoRaw(v, m.chunk) \/ Dropped(v, m.chunk))
                \/ FirstFails(v, client[v].unsettled)
                \/ ClientEnd(v, <<[type |-> "Close"]>>) /\ ring' = ring
<1>1. PICK m \in UpMessage : m = Head(up[v])
  BY NextMessage DEF ClientFirst, ClientNext
<1>2. m.type \in {"Request", "Connect", "Data"} => m.chunk \in Chunk
  BY CarriesChunk
<1>3. CASE ClientFirst(v)
  BY <1>1, <1>2, <1>3, ZenonT(60) DEF ClientFirst
<1>4. CASE ClientNext(v)
  BY <1>1, <1>2, <1>4, ZenonT(60) DEF ClientNext
<1> QED
  BY <1>3, <1>4

\* Whatever the client does, its state has its type, and what it dropped stays dropped.
LEMMA ClientTyped ==
    ASSUME VisitsInv, NEW v \in Visitor, ClientStep(v)
    PROVE  /\ visitor' = visitor /\ relay' = relay /\ captured' = captured
           /\ \E c2 \in ClientRow : Becomes(client', client, v, c2) /\ client[v].skipped \subseteq c2.skipped
           /\ \E u2 \in Seq(UpMessage) : Becomes(up', up, v, u2)
<1> DEFINE c == client[v]
<1>1. c \in ClientRow /\ up[v] \in Seq(UpMessage)
  BY ThisVisit DEF Typed
<1>2. visitor' = visitor /\ relay' = relay /\ captured' = captured
  BY DEF ClientStep, ClientFirst, ClientNext, RawAnswer, RawEnds, RawUp, ServiceAnswers, ProxyAnswers, RequestFails,
         RequestEmpty, ProxyFails, ClientLost
<1>3. \E u2 \in Seq(UpMessage) : Becomes(up', up, v, u2)
  <2>1. up' = up \/ (up[v] # <<>> /\ up' = [up EXCEPT ![v] = Tail(up[v])])
    <3>1. ClientFirst(v) \/ ClientNext(v) \/ RawUp(v) => up[v] # <<>> /\ up' = [up EXCEPT ![v] = Tail(up[v])]
      BY DEF ClientFirst, ClientNext, RawUp
    <3>2. RawAnswer(v) \/ RawEnds(v) \/ ClientLost(v) => up' = up
      BY DEF RawAnswer, RawEnds, ClientLost
    <3>3. ServiceAnswers(v) \/ ProxyAnswers(v) \/ RequestFails(v) \/ RequestEmpty(v) \/ ProxyFails(v) => up' = up
      BY DEF ServiceAnswers, ProxyAnswers, RequestFails, RequestEmpty, ProxyFails
    <3> QED
      BY <3>1, <3>2, <3>3 DEF ClientStep
  <2> QED
    BY <1>1, <2>1, NextMessage DEF Becomes
<1>4. ASSUME NEW c2 \in ClientRow, client' = [client EXCEPT ![v] = c2], c.skipped \subseteq c2.skipped
      PROVE  \E x \in ClientRow : Becomes(client', client, v, x) /\ c.skipped \subseteq x.skipped
  BY <1>4 DEF Becomes
<1>5. CASE ClientFirst(v) \/ ClientNext(v)
  <2>1. PICK m \in UpMessage :
             /\ m = Head(up[v])
             /\ \/ m.chunk \in Chunk /\ (Forward(v, "request", m.chunk) \/ Forward(v, "proxy", m.chunk))
                \/ m.chunk \in Chunk /\ (GoRaw(v, m.chunk) \/ Dropped(v, m.chunk))
                \/ FirstFails(v, client[v].unsettled)
                \/ ClientEnd(v, <<[type |-> "Close"]>>) /\ ring' = ring
    BY <1>5, TakesWhat
  <2>2. CASE m.chunk \in Chunk /\ (Forward(v, "request", m.chunk) \/ Forward(v, "proxy", m.chunk))
    <3>1. PICK c2 \in ClientRow : client' = [client EXCEPT ![v] = c2] /\ c.skipped \subseteq c2.skipped
      BY <2>2, ForwardRow
    <3> QED
      BY <1>2, <1>3, <1>4, <3>1
  <2>3. CASE m.chunk \in Chunk /\ GoRaw(v, m.chunk)
    <3>1. PICK c2 \in ClientRow : client' = [client EXCEPT ![v] = c2] /\ c.skipped \subseteq c2.skipped
      BY <2>3, RawRow
    <3> QED
      BY <1>2, <1>3, <1>4, <3>1
  <2>4. CASE m.chunk \in Chunk /\ Dropped(v, m.chunk)
    <3>1. PICK c2 \in ClientRow : client' = [client EXCEPT ![v] = c2] /\ c.skipped \subseteq c2.skipped
      BY <2>4, DroppedRow
    <3> QED
      BY <1>2, <1>3, <1>4, <3>1
  <2>5. CASE FirstFails(v, client[v].unsettled)
    <3>1. PICK c2 \in ClientRow : client' = [client EXCEPT ![v] = c2] /\ c.skipped \subseteq c2.skipped
      BY <2>5, FailsRow
    <3> QED
      BY <1>2, <1>3, <1>4, <3>1
  <2>6. CASE ClientEnd(v, <<[type |-> "Close"]>>)
    <3>1. PICK c2 \in ClientRow : client' = [client EXCEPT ![v] = c2] /\ c.skipped \subseteq c2.skipped
      BY <2>6, MovedRow DEF ClientEnd
    <3> QED
      BY <1>2, <1>3, <1>4, <3>1
  <2> QED
    BY <2>1, <2>2, <2>3, <2>4, <2>5, <2>6
<1>6. CASE RawEnds(v) \/ ServiceAnswers(v) \/ ProxyAnswers(v) \/ RequestFails(v) \/ RequestEmpty(v) \/ ClientLost(v)
  <2>1. PICK at \in {"end", "loop"} : client' = [client EXCEPT ![v].at = at]
    BY <1>6 DEF RawEnds, ServiceAnswers, ProxyAnswers, RequestFails, RequestEmpty, ClientLost, ClientEnd
  <2>2. PICK c2 \in ClientRow : client' = [client EXCEPT ![v] = c2] /\ c.skipped \subseteq c2.skipped
    BY <2>1, MovedRow
  <2> QED
    BY <1>2, <1>3, <1>4, <2>2
<1>7. CASE RawAnswer(v)
  <2>1. PICK c2 \in ClientRow, at \in {"raw", "upgraded"} :
             client' = [client EXCEPT ![v] = c2] /\ Answered(c2, client[v], at)
    BY <1>7, AnsweredRow
  <2>2. c.skipped \subseteq c2.skipped
    BY <2>1 DEF Answered
  <2> QED
    BY <1>2, <1>3, <1>4, <2>1, <2>2
<1>8. CASE RawUp(v)
  <2>1. PICK c2 \in ClientRow : client' = [client EXCEPT ![v] = c2] /\ c.skipped \subseteq c2.skipped
    BY <1>8, PassedRow
  <2> QED
    BY <1>2, <1>3, <1>4, <2>1
<1>9. CASE ProxyFails(v)
  <2>1. PICK c2 \in ClientRow : client' = [client EXCEPT ![v] = c2] /\ c.skipped \subseteq c2.skipped
    <3>1. CASE c.req = 1
      <4>1. FirstFails(v, TRUE)
        BY <1>9, <3>1 DEF ProxyFails
      <4> QED
        BY <4>1, FailsRow
    <3>2. CASE c.req # 1
      BY <1>9, <3>2, SkippedRow
    <3> QED
      BY <3>1, <3>2
  <2> QED
    BY <1>2, <1>3, <1>4, <2>1
<1> QED
  BY <1>5, <1>6, <1>7, <1>8, <1>9 DEF ClientStep

\* The relay's task has ended: the client's steps keep the visits.
LEMMA LateKeeps ==
    ASSUME VisitsInv, NEW v \in Visitor, ClientStep(v), relay[v].at = "done"
    PROVE  VisitsInv'
<1>1. visitor' = visitor /\ relay' = relay /\ captured' = captured
  BY ClientTyped
<1>2. PICK c2 \in ClientRow : Becomes(client', client, v, c2) /\ client[v].skipped \subseteq c2.skipped
  BY ClientTyped
<1>3. PICK u2 \in Seq(UpMessage) : Becomes(up', up, v, u2)
  BY ClientTyped
<1>4. Becomes(down', down, v, down[v])
  BY ZenonT(60) DEF ClientStep, ClientFirst, ClientNext, RawAnswer, RawEnds, RawUp, ServiceAnswers, ProxyAnswers, RequestFails,
         RequestEmpty, ProxyFails, ClientLost, ClientEnd, Forward, GoRaw, FirstFails, Dropped, Reply, Becomes
<1>5. Visit(visitor[v], relay[v], u2, down[v], c2, captured[v])
  BY <1>2, ThisVisit, LateClient
<1>6. Becomes(visitor', visitor, v, visitor[v]) /\ Becomes(relay', relay, v, relay[v]) /\ Becomes(captured', captured, v, captured[v])
  BY <1>1 DEF Becomes
<1> QED
  BY <1>2, <1>3, <1>4, <1>5, <1>6, OnlyKeeps

\* What the client's task sends when it ends.
LEMMA LastMessages ==
    ASSUME NEW m \in DownMessage
    PROVE  /\ <<m>> \o <<[type |-> "End"]>> \in Seq(DownMessage) /\ Len(<<m>> \o <<[type |-> "End"]>>) = 2
           /\ (<<m>> \o <<[type |-> "End"]>>)[1] = m /\ (<<m>> \o <<[type |-> "End"]>>)[2] = [type |-> "End"]
           /\ <<>> \o <<[type |-> "End"]>> \in Seq(DownMessage) /\ Len(<<>> \o <<[type |-> "End"]>>) = 1
           /\ (<<>> \o <<[type |-> "End"]>>)[1] = [type |-> "End"]
<1>1. [type |-> "End"] \in DownMessage
  BY DEF DownMessage, Closing
<1> QED
  BY <1>1

\* The client's task ends while the relay's goes on.
LEMMA EndsKeeps ==
    ASSUME VisitsInv, NEW v \in Visitor, relay[v].at # "done", client[v].at # "none" \/ up[v] # <<>>,
           NEW c2 \in ClientRow, c2.at = "end", c2.skipped = client[v].skipped,
           client' = [client EXCEPT ![v] = c2],
           up' = up \/ (up[v] # <<>> /\ up' = [up EXCEPT ![v] = Tail(up[v])]),
           NEW ms \in Seq(DownMessage), Reply(v, ms), Final(ms, relay[v]),
           visitor' = visitor, relay' = relay, captured' = captured
    PROVE  VisitsInv'
<1>1. /\ Visit(visitor[v], relay[v], up[v], down[v], client[v], captured[v])
      /\ up[v] \in Seq(UpMessage) /\ relay[v] \in RelayRow
  BY ThisVisit DEF Typed
<1>2. relay[v].at \notin Early \cup {"done"}
  BY <1>1 DEF Visit, Started
<1>3. PICK d2 : d2 = down[v] \o ms
  OBVIOUS
<1>4. Becomes(down', down, v, d2)
  BY <1>3 DEF Reply, Becomes
<1>5. PICK u2 \in Seq(UpMessage) : Becomes(up', up, v, u2)
  BY <1>1, NextMessage DEF Becomes
<1>6. Visit(visitor[v], relay[v], u2, d2, c2, captured[v])
  BY <1>1, <1>2, <1>3, <1>5, EndedClient
<1>7. /\ Becomes(visitor', visitor, v, visitor[v]) /\ Becomes(relay', relay, v, relay[v])
      /\ Becomes(captured', captured, v, captured[v]) /\ Becomes(client', client, v, c2)
  BY DEF Becomes
<1> QED
  BY <1>4, <1>5, <1>6, <1>7, OnlyKeeps

\* The same, as ClientEnd says it.
LEMMA ClientEndKeeps ==
    ASSUME VisitsInv, NEW v \in Visitor, relay[v].at # "done", client[v].at # "none" \/ up[v] # <<>>,
           NEW m \in DownMessage, ClientEnd(v, <<m>>) \/ ClientEnd(v, <<>>),
           m.type # "Data", m.type = "Response" => relay[v].at = "await" /\ m.answer.req = 1,
           up' = up \/ (up[v] # <<>> /\ up' = [up EXCEPT ![v] = Tail(up[v])]),
           visitor' = visitor, relay' = relay, captured' = captured
    PROVE  VisitsInv'
<1>1. PICK c2 : c2 = [client[v] EXCEPT !.at = "end"]
  OBVIOUS
<1>2. client' = [client EXCEPT ![v] = c2]
  BY <1>1 DEF ClientEnd
<1>3. client[v] \in ClientRow
  BY ThisVisit DEF Typed
<1>4. c2 \in ClientRow /\ c2.at = "end" /\ c2.skipped = client[v].skipped
  BY <1>1, <1>3 DEF ClientRow
<1>5. PICK ms \in Seq(DownMessage) :
        /\ Reply(v, ms)
        /\ \A j \in 1 .. Len(ms) : ms[j] = m \/ ms[j] = [type |-> "End"]
  <2>1. CASE ClientEnd(v, <<m>>)
    <3>1. PICK ms : ms = <<m>> \o <<[type |-> "End"]>>
      OBVIOUS
    <3>2. ms \in Seq(DownMessage) /\ Len(ms) = 2 /\ ms[1] = m /\ ms[2] = [type |-> "End"]
      BY <3>1, LastMessages
    <3>3. Reply(v, ms)
      BY <2>1, <3>1 DEF ClientEnd
    <3>4. \A j \in 1 .. Len(ms) : ms[j] = m \/ ms[j] = [type |-> "End"]
      BY <3>2
    <3> QED
      BY <3>2, <3>3, <3>4
  <2>2. CASE ClientEnd(v, <<>>)
    <3>1. PICK ms : ms = <<>> \o <<[type |-> "End"]>>
      OBVIOUS
    <3>2. ms \in Seq(DownMessage) /\ Len(ms) = 1 /\ ms[1] = [type |-> "End"]
      BY <3>1, LastMessages
    <3>3. Reply(v, ms)
      BY <2>2, <3>1 DEF ClientEnd
    <3>4. \A j \in 1 .. Len(ms) : ms[j] = m \/ ms[j] = [type |-> "End"]
      BY <3>2
    <3> QED
      BY <3>2, <3>3, <3>4
  <2> QED
    BY <2>1, <2>2
<1>6. Final(ms, relay[v])
  BY <1>5 DEF Final
<1> QED
  BY <1>2, <1>4, <1>5, <1>6, EndsKeeps

\* The first request has failed while the relay's task goes on.
LEMMA FirstFailsKeeps ==
    ASSUME VisitsInv, NEW v \in Visitor, relay[v].at # "done", client[v].at # "none" \/ up[v] # <<>>,
           FirstFails(v, TRUE) \/ FirstFails(v, client[v].unsettled),
           up' = up \/ (up[v] # <<>> /\ up' = [up EXCEPT ![v] = Tail(up[v])]),
           visitor' = visitor, relay' = relay, captured' = captured
    PROVE  VisitsInv'
<1>1. PICK c2 \in ClientRow : client' = [client EXCEPT ![v] = c2] /\ c2.at = "end" /\ c2.skipped = client[v].skipped
  BY FailsRow
<1>2. PICK ms : ms = <<[type |-> "Close"], [type |-> "End"]>>
  OBVIOUS
<1>3. Reply(v, ms)
  BY <1>2 DEF FirstFails
<1>4. [type |-> "Close"] \in DownMessage /\ [type |-> "End"] \in DownMessage
  BY DEF DownMessage, Closing
<1>5. ms \in Seq(DownMessage) /\ Len(ms) = 2 /\ ms[1].type = "Close" /\ ms[2].type = "End"
  BY <1>2, <1>4
<1>6. Final(ms, relay[v])
  BY <1>5 DEF Final
<1> QED
  BY <1>1, <1>3, <1>5, <1>6, EndsKeeps

\* The client takes up the first message, or the next.
LEMMA TakesKeeps ==
    ASSUME VisitsInv, NEW v \in Visitor, ClientFirst(v) \/ ClientNext(v) \/ RawUp(v), relay[v].at # "done"
    PROVE  VisitsInv'
<1> DEFINE c == client[v]
<1>1. /\ up[v] # <<>> /\ up' = [up EXCEPT ![v] = Tail(up[v])]
      /\ visitor' = visitor /\ relay' = relay /\ captured' = captured
  BY DEF ClientFirst, ClientNext, RawUp
<1>2. Visit(visitor[v], relay[v], up[v], down[v], c, captured[v]) /\ c \in ClientRow
  BY ThisVisit DEF Typed
<1>3. PICK m \in UpMessage : m = Head(up[v])
  BY <1>1, NextMessage
<1>4. m.type \notin {"Close", "End"} => m.chunk \in Chunk
  BY CarriesChunk
<1>5. /\ c.at = "none" => \/ relay[v].at = "await" /\ m.type = "Request"
                          \/ relay[v].at = "proxy" /\ m.type = "Connect"
      /\ c.at \in {"loop", "raw", "upgraded"} => relay[v].at = "proxy"
  BY <1>1, <1>2, <1>3, MessageFits
<1>6. CASE ClientEnd(v, <<[type |-> "Close"]>>)
  <2>1. PICK x \in DownMessage : x = [type |-> "Close"]
    BY DEF DownMessage, Closing
  <2>2. x.type = "Close"
    BY <2>1
  <2> QED
    BY <1>1, <1>6, <2>1, <2>2, ClientEndKeeps
<1>7. ASSUME NEW c2 \in ClientRow, client' = [client EXCEPT ![v] = c2], down' = down,
             Visit(visitor[v], relay[v], Tail(up[v]), down[v], c2, captured[v])
      PROVE  VisitsInv'
  BY <1>1, <1>7, OnlyKeeps DEF Becomes
<1>8. ASSUME NEW c2 \in ClientRow, client' = [client EXCEPT ![v] = c2], down' = down,
             relay[v].at = "proxy", c.at \in {"none", "loop"}, TakesUp(c2, c, m.chunk)
      PROVE  VisitsInv'
  <2>1. Visit(visitor[v], relay[v], Tail(up[v]), down[v], c2, captured[v])
    BY <1>1, <1>2, <1>3, <1>8, TakeVisit
  <2> QED
    BY <1>7, <1>8, <2>1
<1>9. ASSUME Forward(v, "proxy", m.chunk), m.chunk \in Chunk, m.chunk.part # "rest",
             relay[v].at = "proxy", c.at \in {"none", "loop"}
      PROVE  VisitsInv'
  <2>1. PICK c2 \in ClientRow :
             /\ client' = [client EXCEPT ![v] = c2]
             /\ c2.at = "busy" /\ c2.kind = "proxy" /\ c2.req = m.chunk.req /\ c2.last = m.chunk.last
             /\ c2.skipped = c.skipped \cup (m.chunk.req + 1 .. m.chunk.last)
    BY <1>9, ForwardRow
  <2>2. TakesUp(c2, c, m.chunk)
    BY <1>9, <2>1 DEF TakesUp
  <2>3. down' = down
    BY <1>9 DEF Forward
  <2> QED
    BY <1>8, <1>9, <2>1, <2>2, <2>3
<1>10. ASSUME GoRaw(v, m.chunk), m.chunk \in Chunk, m.chunk.part # "rest", relay[v].at = "proxy", c.at \in {"none", "loop"}
       PROVE  VisitsInv'
  <2>1. PICK c2 \in ClientRow :
             /\ client' = [client EXCEPT ![v] = c2]
             /\ c2.at = "raw" /\ c2.req = m.chunk.req /\ c2.last = m.chunk.last /\ c2.skipped = c.skipped
    BY <1>10, RawRow
  <2>2. TakesUp(c2, c, m.chunk)
    BY <1>10, <2>1 DEF TakesUp
  <2>3. down' = down
    BY <1>10 DEF GoRaw
  <2> QED
    BY <1>8, <1>10, <2>1, <2>2, <2>3
<1>11. CASE ClientFirst(v)
  <2>1. c.at = "none"
    BY <1>11 DEF ClientFirst
  <2>2. CASE relay[v].at = "await" /\ m.type = "Request"
    <3>1. Forward(v, "request", m.chunk) /\ m.chunk \in Chunk
      BY <1>3, <1>4, <1>11, <2>2 DEF ClientFirst
    <3>2. PICK c2 \in ClientRow :
             /\ client' = [client EXCEPT ![v] = c2]
             /\ c2.at = "busy" /\ c2.kind = "request" /\ c2.req = m.chunk.req
             /\ c2.skipped = c.skipped \cup (m.chunk.req + 1 .. m.chunk.last)
      BY <3>1, ForwardRow
    <3>3. c.skipped \subseteq c2.skipped /\ c2.req = Head(up[v]).chunk.req
      BY <1>3, <3>2
    <3>4. Visit(visitor[v], relay[v], Tail(up[v]), down[v], c2, captured[v])
      BY <1>1, <1>2, <2>1, <2>2, <3>2, <3>3, FirstVisit
    <3>5. down' = down
      BY <3>1 DEF Forward
    <3> QED
      BY <1>7, <3>2, <3>4, <3>5
  <2>3. CASE relay[v].at = "proxy" /\ m.type = "Connect"
    <3>1. m.chunk \in Chunk /\ m.chunk.part # "rest"
      <4>1. Follows(c.last, m.chunk) /\ c.last = 0 /\ m.chunk \in Chunk
        BY <1>1, <1>2, <1>3, <1>4, <2>1, <2>3, NextBytes DEF Visit, BytesUp
      <4> QED
        BY <4>1, ChunkNumbers DEF Follows
    <3>2. \/ Forward(v, "proxy", m.chunk) \/ FirstFails(v, client[v].unsettled) \/ GoRaw(v, m.chunk)
          \/ ClientEnd(v, <<[type |-> "Close"]>>)
      BY <1>3, <1>11, <2>3 DEF ClientFirst
    <3>3. CASE FirstFails(v, client[v].unsettled)
      BY <1>1, <3>3, FirstFailsKeeps
    <3> QED
      BY <1>6, <1>9, <1>10, <2>1, <2>3, <3>1, <3>2, <3>3
  <2> QED
    BY <1>5, <2>1, <2>2, <2>3
<1>12. CASE ClientNext(v)
  <2>1. c.at = "loop" /\ relay[v].at = "proxy"
    BY <1>5, <1>12 DEF ClientNext
  <2>2. \/ m.type = "Data" /\ m.chunk.part \in {"rest", "stub"} /\ Dropped(v, m.chunk)
        \/ m.type = "Data" /\ m.chunk.part # "rest" /\ (Forward(v, "proxy", m.chunk) \/ GoRaw(v, m.chunk))
        \/ ClientEnd(v, <<[type |-> "Close"]>>)
    BY <1>3, <1>12 DEF ClientNext
  <2>3. CASE m.type = "Data" /\ Dropped(v, m.chunk)
    <3>1. PICK c2 \in ClientRow :
             /\ client' = [client EXCEPT ![v] = c2] /\ c2.at = c.at /\ c2.last = m.chunk.last
             /\ c2.skipped = c.skipped \cup ((IF m.chunk.part = "rest" THEN m.chunk.req + 1 ELSE m.chunk.req) .. m.chunk.last)
      BY <1>4, <2>3, DroppedRow
    <3>2. TakesUp(c2, c, m.chunk)
      BY <2>1, <3>1, ZenonT(60) DEF TakesUp
    <3>3. down' = down
      BY <2>3 DEF Dropped
    <3> QED
      BY <1>8, <2>1, <3>1, <3>2, <3>3
  <2>4. CASE m.type = "Data" /\ m.chunk.part # "rest" /\ (Forward(v, "proxy", m.chunk) \/ GoRaw(v, m.chunk))
    BY <1>4, <1>9, <1>10, <2>1, <2>4
  <2> QED
    BY <1>6, <2>2, <2>3, <2>4
<1>13. CASE RawUp(v)
  <2>1. PICK c2 \in ClientRow :
             /\ client' = [client EXCEPT ![v] = c2]
             /\ c2.at = c.at /\ c2.req = c.req
             /\ c2.last = IF Head(up[v]).type = "Data" THEN Head(up[v]).chunk.last ELSE c.last
             /\ c2.skipped = c.skipped
    BY <1>13, PassedRow
  <2>2. c.at \in {"raw", "upgraded"} /\ down' = down
    BY <1>13 DEF RawUp
  <2>3. Visit(visitor[v], relay[v], Tail(up[v]), down[v], c2, captured[v])
    BY <1>1, <1>2, <2>1, <2>2, RawVisit
  <2> QED
    BY <1>7, <2>1, <2>2, <2>3
<1> QED
  BY <1>11, <1>12, <1>13

\* The client answers, gives up or loses its connection while the relay's task goes on.
LEMMA AnswerKeeps ==
    ASSUME VisitsInv, NEW v \in Visitor, relay[v].at # "done",
           \/ RawAnswer(v) \/ RawEnds(v) \/ ServiceAnswers(v) \/ ProxyAnswers(v)
           \/ RequestFails(v) \/ RequestEmpty(v) \/ ProxyFails(v) \/ ClientLost(v)
    PROVE  VisitsInv'
<1> DEFINE c == client[v]
<1>1. visitor' = visitor /\ relay' = relay /\ captured' = captured /\ up' = up /\ c.at # "none"
  BY DEF RawAnswer, RawEnds, ServiceAnswers, ProxyAnswers, RequestFails, RequestEmpty, ProxyFails, ClientLost
<1>2. Visit(visitor[v], relay[v], up[v], down[v], c, captured[v]) /\ c \in ClientRow /\ relay[v] \in RelayRow
  BY ThisVisit DEF Typed
<1>3. c.req \in Nat
  BY <1>2 DEF ClientRow
<1>4. ASSUME ClientEnd(v, <<>>) \/ ClientEnd(v, <<[type |-> "Close"]>>)
      PROVE  VisitsInv'
  <2>1. PICK x \in DownMessage : x = [type |-> "Close"]
    BY DEF DownMessage, Closing
  <2>2. x.type = "Close"
    BY <2>1
  <2> QED
    BY <1>1, <1>4, <2>1, <2>2, ClientEndKeeps
<1>5. ASSUME c.at = "busy", c.kind = "request", NEW status \in Nat \ {0}, NEW cut \in BOOLEAN,
             ClientEnd(v, <<[type |-> "Response", answer |-> [req |-> c.req, status |-> status, cut |-> cut]]>>)
      PROVE  VisitsInv'
  <2>1. PICK a : a = [req |-> c.req, status |-> status, cut |-> cut]
    OBVIOUS
  <2>2. a \in GivenAnswer /\ a.req = c.req
    BY <1>3, <2>1 DEF GivenAnswer
  <2>3. PICK m : m = [type |-> "Response", answer |-> a]
    OBVIOUS
  <2>4. m \in DownMessage /\ m.type = "Response" /\ m.answer = a
    BY <2>2, <2>3 DEF DownMessage, Replying
  <2>5. relay[v].at = "await" /\ c.req = 1
    BY <1>2, <1>5 DEF Visit, Started, OneMessage, BytesUp, RelayRow
  <2> QED
    BY <1>1, <1>5, <2>1, <2>2, <2>3, <2>4, <2>5, ClientEndKeeps
<1>6. ASSUME NEW status \in Nat \ {0}, NEW c2 \in ClientRow, client' = [client EXCEPT ![v] = c2],
             c2.skipped = c.skipped, c2.last = c.last,
             (c.at = "busy" /\ c.kind = "proxy") \/ (c.at = "raw" /\ c.req <= c.last),
             \/ c.at = "busy" /\ c2.at = "loop"
             \/ c.at = "raw" /\ c2.at = "upgraded"
             \/ c.at = "raw" /\ c2.at = "raw" /\ c2.req = c.req + 1,
             Reply(v, <<[type |-> "Data", answer |-> [req |-> c.req, status |-> status, cut |-> FALSE]]>>)
      PROVE  VisitsInv'
  <2>1. PICK d2 : d2 = down[v] \o <<[type |-> "Data", answer |-> [req |-> c.req, status |-> status, cut |-> FALSE]]>>
    OBVIOUS
  <2>2. Visit(visitor[v], relay[v], up[v], d2, c2, captured[v])
    BY <1>2, <1>6, <2>1, AnswerVisit
  <2>3. down' = [down EXCEPT ![v] = d2]
    BY <1>6, <2>1 DEF Reply
  <2> QED
    BY <1>1, <1>6, <2>2, <2>3, OnlyKeeps DEF Becomes
<1>7. CASE RawAnswer(v)
  <2>1. c.at = "raw" /\ c.req <= c.last
    BY <1>7 DEF RawAnswer
  <2>2. PICK c2 \in ClientRow, at \in {"raw", "upgraded"} :
             client' = [client EXCEPT ![v] = c2] /\ Answered(c2, client[v], at)
    BY <1>7, AnsweredRow
  <2>3. c2.at = at /\ c2.req = c.req + 1 /\ c2.last = c.last /\ c2.skipped = c.skipped
    BY <2>2 DEF Answered
  <2>4. PICK status \in {101, 200, 500} :
          Reply(v, <<[type |-> "Data", answer |-> [req |-> c.req, status |-> status, cut |-> FALSE]]>>)
    BY <1>7, ZenonT(60) DEF RawAnswer
  <2>5. status \in Nat \ {0}
    OBVIOUS
  <2> QED
    BY <1>6, <2>1, <2>2, <2>3, <2>4, <2>5
<1>8. CASE RawEnds(v) \/ ClientLost(v)
  BY <1>4, <1>8 DEF RawEnds, ClientLost
<1>9. CASE ServiceAnswers(v)
  <2>1. PICK status \in {200, 500}, cut \in BOOLEAN :
          ClientEnd(v, <<[type |-> "Response", answer |-> [req |-> c.req, status |-> status, cut |-> cut]]>>)
    BY <1>9 DEF ServiceAnswers
  <2> QED
    BY <1>5, <1>9, <2>1 DEF ServiceAnswers
<1>10. CASE ProxyAnswers(v)
  <2>1. PICK status \in {200, 500} :
          Reply(v, <<[type |-> "Data", answer |-> [req |-> c.req, status |-> status, cut |-> FALSE]]>>)
    BY <1>10, ZenonT(60) DEF ProxyAnswers
  <2>2. c.at = "busy" /\ c.kind = "proxy" /\ client' = [client EXCEPT ![v].at = "loop"]
    BY <1>10 DEF ProxyAnswers
  <2>3. PICK c2 \in ClientRow :
             /\ client' = [client EXCEPT ![v] = c2]
             /\ c2.at = "loop" /\ c2.last = c.last /\ c2.skipped = c.skipped
    BY <2>2, MovedRow, ZenonT(60)
  <2>4. status \in Nat \ {0}
    BY <2>1
  <2> QED
    BY <1>6, <2>1, <2>2, <2>3, <2>4, ZenonT(60)
<1>11. CASE RequestFails(v) \/ RequestEmpty(v)
  <2>1. PICK status \in {200, 502}, cut \in BOOLEAN :
          ClientEnd(v, <<[type |-> "Response", answer |-> [req |-> c.req, status |-> status, cut |-> cut]]>>)
    BY <1>11, ZenonT(60) DEF RequestFails, RequestEmpty
  <2> QED
    BY <1>5, <1>11, <2>1 DEF RequestFails, RequestEmpty
<1>12. CASE ProxyFails(v) /\ c.req = 1
  <2>1. FirstFails(v, TRUE)
    BY <1>12 DEF ProxyFails
  <2> QED
    BY <1>1, <2>1, FirstFailsKeeps
<1>13. CASE ProxyFails(v) /\ c.req # 1
  <2>1. PICK c2 \in ClientRow :
             /\ client' = [client EXCEPT ![v] = c2]
             /\ c2.at = "loop" /\ c2.last = c.last /\ c2.skipped = c.skipped \cup {c.req}
    BY <1>13, SkippedRow
  <2>2. down' = down /\ c.at = "busy" /\ c.kind = "proxy"
    BY <1>13 DEF ProxyFails
  <2>3. Visit(visitor[v], relay[v], up[v], down[v], c2, captured[v])
    BY <1>2, <2>1, <2>2, SkipVisit
  <2> QED
    BY <1>1, <2>1, <2>2, <2>3, OnlyKeeps DEF Becomes
<1> QED
  BY <1>7, <1>8, <1>9, <1>10, <1>11, <1>12, <1>13

\* Every step keeps the visits.
LEMMA VisitsKept ==
    ASSUME VisitsInv, tunnel \in Nat, [HttpNext]_httpVars
    PROVE  VisitsInv'
<1>1. CASE /\ visitor' = visitor /\ relay' = relay /\ up' = up /\ down' = down
           /\ client' = client /\ captured' = captured
  BY <1>1 DEF VisitsInv, VisitOf
<1>2. CASE TunnelJoins \/ TunnelLeaves \/ RouteRemoved \/ UNCHANGED httpVars
  BY <1>1, <1>2 DEF TunnelJoins, TunnelLeaves, RouteRemoved, httpVars
<1>3. ASSUME NEW v \in Visitor, Send(v) \/ Leave(v) \/ RelayStep(v) \/ ClientStep(v)
      PROVE  VisitsInv'
  <2>1. CASE Send(v) \/ Leave(v)
    BY <2>1, VisitorKeeps
  <2>2. CASE RelayStep(v)
    BY <2>2, EarlyKeeps, OpenKeeps, ProxyKeeps, AwaitKeeps
       DEF RelayStep, HttpConnection, HttpRequest, HttpsConnection, HttpsRequest
  <2>3. CASE ClientStep(v)
    <3>1. CASE relay[v].at = "done"
      BY <2>3, <3>1, LateKeeps
    <3>2. CASE relay[v].at # "done"
      BY <2>3, <3>2, TakesKeeps, AnswerKeeps DEF ClientStep
    <3> QED
      BY <3>1, <3>2
  <2> QED
    BY <1>3, <2>1, <2>2, <2>3
<1> QED
  BY <1>2, <1>3 DEF HttpNext

(***************************************************************************)
(* The metrics store.                                                      *)
(***************************************************************************)
\* The record with this id may be open.
Pending(i, cs) == (cs[i[1]].at = "busy" /\ cs[i[1]].req = i[2]) \/ cs[i[1]].unsettled

\* The store r with the record x in it.
With(s, r, x) == \A k \in DOMAIN s : s[k] = x \/ \E j \in DOMAIN r : s[k] = r[j]

\* A new record may push out the oldest.
LEMMA RequestRecorded ==
    ASSUME NEW r \in Seq(RingRow), NEW i \in Visitor \X Nat, NEW state \in {"open", "ok", "failed"}, NEW s,
           s = record_request(r, i, state)
    PROVE  s \in Seq(RingRow) /\ With(s, r, [id |-> i, state |-> state])
<1>1. PICK x : x = [id |-> i, state |-> state]
  OBVIOUS
<1>2. x \in RingRow
  BY <1>1 DEF RingRow
<1>3. PICK a : a = Append(r, x)
  OBVIOUS
<1>4. /\ a \in Seq(RingRow) /\ Len(r) \in Nat /\ Len(a) = Len(r) + 1 /\ a[Len(r) + 1] = x
      /\ \A j \in 1 .. Len(r) : a[j] = r[j]
  BY <1>2, <1>3, AppendProperties
<1>5. PICK n : n = Len(a)
  OBVIOUS
<1>6. PICK m : m = 1 + (IF n > MaxEntries THEN n - MaxEntries ELSE 0)
  OBVIOUS
<1>7. n \in Nat /\ m \in 1 .. n + 1
  BY <1>4, <1>5, <1>6, HttpAssumption
<1>8. s = SubSeq(a, m, n)
  BY <1>1, <1>3, <1>5, <1>6 DEF record_request, Newest
<1>9. \A j \in 1 .. n : a[j] = x \/ \E l \in 1 .. Len(r) : a[j] = r[l]
  BY <1>4, <1>5
<1>10. \A j \in m .. n : a[j] \in RingRow
  BY <1>4, <1>5, <1>7, ElementOfSeq
<1>11. /\ s \in Seq(RingRow) /\ Len(s) = (IF m <= n THEN n - m + 1 ELSE 0)
       /\ \A j \in 1 .. Len(s) : s[j] = a[m + j - 1]
  <2>1. m \in Int /\ n \in Int /\ SubSeq(a, m, n) \in Seq(RingRow)
    BY <1>4, <1>5, <1>7, <1>10, SubSeqProperties
  <2>2. Len(SubSeq(a, m, n)) = (IF m <= n THEN n - m + 1 ELSE 0) /\ \A j \in 1 .. n - m + 1 : SubSeq(a, m, n)[j] = a[m + j - 1]
    BY <1>4, <1>5, <1>7, SubSeqProperties
  <2> QED
    BY <1>7, <1>8, <2>1, <2>2
<1>12. \A j \in 1 .. Len(s) : m + j - 1 \in 1 .. n
  BY <1>7, <1>11
<1>13. DOMAIN s = 1 .. Len(s) /\ DOMAIN r = 1 .. Len(r)
  BY <1>11
<1>14. ASSUME NEW k \in DOMAIN s
       PROVE  s[k] = x \/ \E j \in DOMAIN r : s[k] = r[j]
  <2>1. PICK j : j = m + k - 1
    OBVIOUS
  <2>2. j \in 1 .. n /\ s[k] = a[j]
    BY <1>11, <1>12, <1>13, <2>1
  <2> QED
    BY <1>9, <1>13, <2>2
<1> QED
  BY <1>1, <1>11, <1>14 DEF With

\* A result changes the record with the id, if it is there.
LEMMA ResultRecorded ==
    ASSUME NEW r \in Seq(RingRow), NEW i \in Visitor \X Nat, NEW state \in {"ok", "failed"}, NEW s,
           s = record_result(r, i, state)
    PROVE  /\ s \in Seq(RingRow) /\ DOMAIN s = DOMAIN r
           /\ \A k \in DOMAIN s : s[k].state = "open" => s[k] = r[k] /\ r[k].id # i
<1>1. DOMAIN r = 1 .. Len(r) /\ Len(r) \in Nat
  OBVIOUS
<1>2. /\ DOMAIN s = DOMAIN r
      /\ \A k \in DOMAIN r : s[k] = IF r[k].id = i THEN [r[k] EXCEPT !.state = state] ELSE r[k]
  BY DEF record_result
<1>3. \A k \in DOMAIN r : r[k] \in RingRow
  BY <1>1, ElementOfSeq
<1>4. \A k \in DOMAIN r : s[k] \in RingRow /\ (s[k].state = "open" => s[k] = r[k] /\ r[k].id # i)
  BY <1>2, <1>3 DEF RingRow
<1>5. s = [k \in 1 .. Len(r) |-> s[k]]
  BY <1>1 DEF record_result
<1>6. s \in Seq(RingRow)
  BY <1>1, <1>4, <1>5
<1> QED
  BY <1>2, <1>4, <1>6

\* The store as the invariant sees it.
LEMMA RingSays ==
    RingInv <=> ring \in Seq(RingRow) /\ \A k \in DOMAIN ring : ring[k].state = "open" => Pending(ring[k].id, client)
  BY DEF RingInv, MetricsSettled, Pending

\* The records of the store.
LEMMA RingRows ==
    ASSUME RingInv
    PROVE  ring \in Seq(RingRow) /\ \A k \in DOMAIN ring : ring[k].id \in Visitor \X Nat
<1>1. ring \in Seq(RingRow) /\ DOMAIN ring = 1 .. Len(ring)
  BY DEF RingInv
<1>2. \A k \in DOMAIN ring : ring[k] \in RingRow
  BY <1>1, ElementOfSeq
<1> QED
  BY <1>1, <1>2 DEF RingRow

\* A new record, or none.
LEMMA RingRequest ==
    ASSUME RingInv, NEW i \in Visitor \X Nat, NEW state \in {"open", "ok", "failed"},
           ring' = ring \/ ring' = record_request(ring, i, state),
           \A j \in Visitor \X Nat : Pending(j, client) => Pending(j, client'),
           ring' # ring /\ state = "open" => Pending(i, client')
    PROVE  RingInv'
<1>1. ring \in Seq(RingRow) /\ \A k \in DOMAIN ring : ring[k].id \in Visitor \X Nat
  BY RingRows
<1>2. PICK s : s = ring'
  OBVIOUS
<1>3. CASE s = ring
  BY <1>1, <1>2, <1>3, RingSays DEF RingInv, MetricsSettled, Pending
<1>4. CASE s # ring
  <2>1. s \in Seq(RingRow) /\ With(s, ring, [id |-> i, state |-> state])
    <3>1. s = record_request(ring, i, state)
      BY <1>2, <1>4
    <3> QED
      BY <1>1, <3>1, RequestRecorded
  <2>2. ASSUME NEW k \in DOMAIN s, s[k].state = "open"
        PROVE  Pending(s[k].id, client')
    <3>1. CASE s[k] = [id |-> i, state |-> state]
      BY <1>2, <1>4, <2>2, <3>1
    <3>2. CASE \E j \in DOMAIN ring : s[k] = ring[j]
      BY <1>1, <2>2, <3>2, RingSays
    <3> QED
      BY <2>1, <3>1, <3>2 DEF With
  <2> QED
    BY <1>2, <2>1, <2>2 DEF RingInv, MetricsSettled, Pending
<1> QED
  BY <1>3, <1>4

\* A result.
LEMMA RingResult ==
    ASSUME RingInv, NEW i \in Visitor \X Nat, NEW state \in {"ok", "failed"}, ring' = record_result(ring, i, state),
           \A j \in Visitor \X Nat : j # i /\ Pending(j, client) => Pending(j, client')
    PROVE  RingInv'
<1>1. ring \in Seq(RingRow) /\ \A k \in DOMAIN ring : ring[k].id \in Visitor \X Nat
  BY RingRows
<1>2. PICK s : s = ring'
  OBVIOUS
<1>3. /\ s \in Seq(RingRow) /\ DOMAIN s = DOMAIN ring
      /\ \A k \in DOMAIN s : s[k].state = "open" => s[k] = ring[k] /\ ring[k].id # i
  BY <1>1, <1>2, ResultRecorded
<1>4. \A k \in DOMAIN s : s[k].state = "open" => Pending(s[k].id, client')
  BY <1>1, <1>3, RingSays
<1> QED
  BY <1>2, <1>3, <1>4 DEF RingInv, MetricsSettled, Pending

\* Every step keeps the store: a record is closed when its request is, or the client says
\* that nobody will.
LEMMA RingKept ==
    ASSUME VisitsInv, RingInv, [HttpNext]_httpVars
    PROVE  RingInv'
<1>1. ASSUME ring' = ring, client' = client
      PROVE  RingInv'
  BY <1>1 DEF RingInv, MetricsSettled
<1>2. CASE TunnelJoins \/ TunnelLeaves \/ RouteRemoved \/ UNCHANGED httpVars
  BY <1>1, <1>2 DEF TunnelJoins, TunnelLeaves, RouteRemoved, httpVars
<1>3. ASSUME NEW v \in Visitor, Send(v) \/ Leave(v) \/ RelayStep(v)
      PROVE  RingInv'
  <2>1. ring' = ring /\ client' = client
    BY <1>3 DEF Send, Leave, RelayStep, HttpConnection, HttpRequest, HttpsConnection, HttpsRequest, ReadRequest, Lookup,
         Authenticate, GetTunnel, OpenStream, AwaitResponse, AwaitLost, AwaitTimeout, ProxyStep, ProxyUp, ProxyEof,
         ProxyDown, ProxyLost
  <2> QED
    BY <1>1, <2>1
<1>4. ASSUME NEW v \in Visitor, ClientStep(v)
      PROVE  RingInv'
  <2> DEFINE c == client[v]
  <2>1. c \in ClientRow /\ client \in [Visitor -> ClientRow]
    BY DEF VisitsInv
  <2>2. c.req \in Nat
    BY <2>1 DEF ClientRow
  <2>3. ASSUME NEW c2 \in ClientRow, client' = [client EXCEPT ![v] = c2], c.unsettled => c2.unsettled, c.at # "busy" \/ c2.unsettled
        PROVE  \A j \in Visitor \X Nat : Pending(j, client) => Pending(j, client')
    <3> SUFFICES ASSUME NEW j \in Visitor \X Nat, Pending(j, client) PROVE Pending(j, client')
      OBVIOUS
    <3>1. j[1] \in Visitor
      OBVIOUS
    <3>2. CASE j[1] = v
      BY <2>1, <2>3, <3>2 DEF Pending
    <3>3. CASE j[1] # v
      <4>1. client'[j[1]] = client[j[1]]
        BY <2>1, <2>3, <3>1, <3>3
      <4> QED
        BY <4>1 DEF Pending
    <3> QED
      BY <3>2, <3>3
  <2>4. ASSUME NEW c2 \in ClientRow, client' = [client EXCEPT ![v] = c2], c.unsettled => c2.unsettled,
               c.at # "busy" \/ c2.unsettled, ring' = ring \/ ring' = record_request(ring, <<v, 0>>, "failed")
        PROVE  RingInv'
    <3>1. <<v, 0>> \in Visitor \X Nat
      OBVIOUS
    <3>2. \A j \in Visitor \X Nat : Pending(j, client) => Pending(j, client')
      BY <2>3, <2>4
    <3> QED
      BY <2>4, <3>1, <3>2, RingRequest
  <2>5. ASSUME NEW kind \in {"request", "proxy"}, NEW ch \in Chunk, Forward(v, kind, ch), c.at # "busy"
        PROVE  RingInv'
    <3>1. PICK c2 \in ClientRow : /\ client' = [client EXCEPT ![v] = c2]
                                  /\ c2.at = "busy" /\ c2.req = ch.req /\ c2.unsettled = c.unsettled
      BY <2>5, ForwardRow
    <3>2. ch.req \in Nat /\ ring' = record_request(ring, <<v, ch.req>>, "open")
      BY <2>5, ChunkNumbers DEF Forward
    <3>3. PICK i : i = <<v, ch.req>>
      OBVIOUS
    <3>4. i \in Visitor \X Nat /\ i[1] = v /\ i[2] = ch.req
      BY <3>2, <3>3
    <3>5. Pending(i, client')
      <4>1. client'[v] = c2
        BY <2>1, <3>1
      <4> QED
        BY <3>1, <3>4, <4>1 DEF Pending
    <3>6. \A j \in Visitor \X Nat : Pending(j, client) => Pending(j, client')
      BY <2>3, <2>5, <3>1
    <3> QED
      BY <3>2, <3>3, <3>4, <3>5, <3>6, RingRequest
  <2>6. ASSUME NEW at \in {"end", "loop"}, client' = [client EXCEPT ![v].at = at],
               NEW state \in {"ok", "failed"}, ring' = record_result(ring, <<v, c.req>>, state)
        PROVE  RingInv'
    <3>1. PICK i : i = <<v, c.req>>
      OBVIOUS
    <3>2. PICK c2 \in ClientRow : client' = [client EXCEPT ![v] = c2] /\ c2.unsettled = c.unsettled
      BY <2>6, MovedRow
    <3>3. i \in Visitor \X Nat /\ i[1] = v /\ i[2] = c.req
      BY <2>2, <3>1
    <3>4. client'[v] = c2 /\ \A w \in Visitor \ {v} : client'[w] = client[w]
      BY <2>1, <3>2
    <3>5. ASSUME NEW j \in Visitor \X Nat, j # i, Pending(j, client)
          PROVE  Pending(j, client')
      <4>1. CASE j[1] = v
        <5>1. j[2] # c.req
          <6>1. j = <<j[1], j[2]>>
            OBVIOUS
          <6> QED
            BY <3>1, <3>5, <4>1, <6>1
        <5> QED
          BY <3>2, <3>4, <3>5, <4>1, <5>1 DEF Pending
      <4>2. CASE j[1] # v
        <5>1. client'[j[1]] = client[j[1]]
          BY <3>4, <4>2
        <5> QED
          BY <3>5, <5>1 DEF Pending
      <4> QED
        BY <4>1, <4>2
    <3> QED
      BY <2>6, <3>1, <3>3, <3>5, RingResult
  <2>7. CASE ClientFirst(v) \/ ClientNext(v)
    <3>1. PICK m \in UpMessage :
             /\ m = Head(up[v])
             /\ \/ m.chunk \in Chunk /\ (Forward(v, "request", m.chunk) \/ Forward(v, "proxy", m.chunk))
                \/ m.chunk \in Chunk /\ (GoRaw(v, m.chunk) \/ Dropped(v, m.chunk))
                \/ FirstFails(v, client[v].unsettled)
                \/ ClientEnd(v, <<[type |-> "Close"]>>) /\ ring' = ring
      BY <2>7, TakesWhat
    <3>2. c.at # "busy"
      BY <2>7 DEF ClientFirst, ClientNext
    <3>3. CASE m.chunk \in Chunk /\ (Forward(v, "request", m.chunk) \/ Forward(v, "proxy", m.chunk))
      BY <2>5, <3>2, <3>3
    <3>4. CASE m.chunk \in Chunk /\ (GoRaw(v, m.chunk) \/ Dropped(v, m.chunk))
      <4>1. PICK c2 \in ClientRow : client' = [client EXCEPT ![v] = c2] /\ c2.unsettled = client[v].unsettled
        BY <3>4, RawRow, DroppedRow
      <4>2. ring' = ring
        BY <3>4 DEF GoRaw, Dropped
      <4> QED
        BY <2>4, <3>2, <4>1, <4>2
    <3>5. CASE FirstFails(v, client[v].unsettled)
      <4>1. PICK c2 \in ClientRow : client' = [client EXCEPT ![v] = c2] /\ (client[v].unsettled => c2.unsettled)
        BY <3>5, FailsRow
      <4>2. ring' = record_request(ring, <<v, 0>>, "failed")
        BY <3>5 DEF FirstFails
      <4> QED
        BY <2>4, <3>2, <4>1, <4>2
    <3>6. CASE ClientEnd(v, <<[type |-> "Close"]>>) /\ ring' = ring
      <4>1. PICK c2 \in ClientRow : client' = [client EXCEPT ![v] = c2] /\ c2.unsettled = client[v].unsettled
        BY <3>6, MovedRow DEF ClientEnd
      <4> QED
        BY <2>4, <3>2, <3>6, <4>1
    <3> QED
      BY <3>1, <3>3, <3>4, <3>5, <3>6
  <2>8. CASE RawEnds(v) \/ ClientLost(v)
    <3>1. ClientEnd(v, <<>>) \/ ClientEnd(v, <<[type |-> "Close"]>>)
      BY <2>8 DEF RawEnds, ClientLost
    <3>2. c.at # "busy" /\ ring' = ring /\ client' = [client EXCEPT ![v].at = "end"]
      BY <2>8, <3>1 DEF RawEnds, ClientLost, ClientEnd
    <3>3. PICK c2 \in ClientRow : client' = [client EXCEPT ![v] = c2] /\ c2.unsettled = client[v].unsettled
      BY <3>2, MovedRow
    <3> QED
      BY <2>4, <3>2, <3>3
  <2>9. CASE RawAnswer(v)
    <3>1. c.at # "busy" /\ ring' = ring
      BY <2>9 DEF RawAnswer
    <3>2. PICK c2 \in ClientRow, at \in {"raw", "upgraded"} :
            client' = [client EXCEPT ![v] = c2] /\ Answered(c2, client[v], at)
      BY <2>9, AnsweredRow
    <3>3. c2.unsettled = client[v].unsettled
      BY <3>2 DEF Answered
    <3> QED
      BY <2>4, <3>1, <3>2, <3>3
  <2>10. CASE RawUp(v)
    <3>1. c.at # "busy" /\ ring' = ring
      BY <2>10 DEF RawUp
    <3>2. PICK c2 \in ClientRow : client' = [client EXCEPT ![v] = c2] /\ c2.unsettled = client[v].unsettled
      BY <2>10, PassedRow
    <3> QED
      BY <2>4, <3>1, <3>2
  <2>11. CASE ServiceAnswers(v) \/ ProxyAnswers(v) \/ RequestFails(v) \/ RequestEmpty(v)
    <3>1. PICK at \in {"end", "loop"} : client' = [client EXCEPT ![v].at = at]
      BY <2>11 DEF ServiceAnswers, ProxyAnswers, RequestFails, RequestEmpty, ClientEnd
    <3>2. PICK state \in {"ok", "failed"} : ring' = record_result(ring, <<v, c.req>>, state)
      BY <2>11, ZenonT(60) DEF ServiceAnswers, ProxyAnswers, RequestFails, RequestEmpty, ResultOf
    <3> QED
      BY <2>6, <3>1, <3>2
  <2>12. CASE ProxyFails(v)
    <3>1. PICK c2 \in ClientRow : client' = [client EXCEPT ![v] = c2] /\ c2.unsettled
      <4>1. CASE c.req = 1
        <5>1. FirstFails(v, TRUE)
          BY <2>12, <4>1 DEF ProxyFails
        <5> QED
          BY <5>1, FailsRow
      <4>2. CASE c.req # 1
        BY <2>12, <4>2, SkippedRow
      <4> QED
        BY <4>1, <4>2
    <3>2. ring' = ring \/ ring' = record_request(ring, <<v, 0>>, "failed")
      BY <2>12 DEF ProxyFails, FirstFails
    <3> QED
      BY <2>4, <3>1, <3>2
  <2> QED
    BY <1>4, <2>7, <2>8, <2>9, <2>10, <2>11, <2>12 DEF ClientStep
<1> QED
  BY <1>2, <1>3, <1>4 DEF HttpNext

(***************************************************************************)
(* The theorems.                                                           *)
(***************************************************************************)
\* The first state.
LEMMA HttpFirst == HttpInit => HttpInv
<1> SUFFICES ASSUME HttpInit PROVE HttpInv
  OBVIOUS
<1>1. PICK s \in Scenarios :
        visitor = [v \in Visitor |->
                     [server |-> s[v].server, flaw |-> s[v].flaw, budget |-> s[v].requests,
                      side |-> "open", sent |-> 0, eager |-> FALSE, inbox |-> <<>>, answers |-> <<>>]]
  BY DEF HttpInit
<1>2. \A v \in Visitor : s[v].server \in Servers /\ s[v].flaw \in Flaws /\ s[v].requests \in Nat
  BY <1>1, HttpAssumption
<1>3. ASSUME NEW v \in Visitor
      PROVE  VisitOf(v) /\ Typed(visitor[v], relay[v], up[v], down[v], client[v], captured[v])
  <2>1. PICK p : p = [server |-> s[v].server, flaw |-> s[v].flaw, budget |-> s[v].requests,
                      side |-> "open", sent |-> 0, eager |-> FALSE, inbox |-> <<>>, answers |-> <<>>]
    OBVIOUS
  <2>2. p \in VisitorRow /\ p.inbox = <<>> /\ p.answers = <<>> /\ p.sent = 0
    BY <1>2, <2>1 DEF VisitorRow
  <2>3. PICK r : r = [at |-> "read", first |-> <<>>, via |-> 0]
    OBVIOUS
  <2>4. r \in RelayRow /\ r.at = "read"
    BY <2>3 DEF RelayRow, Early
  <2>5. PICK c : c = [at |-> "none", kind |-> "none", req |-> 0, last |-> 0, whole |-> TRUE, skipped |-> {}, unsettled |-> FALSE]
    OBVIOUS
  <2>6. c \in ClientRow /\ c.at = "none" /\ c.last = 0
    BY <2>5 DEF ClientRow
  <2>7. /\ visitor[v] = p /\ relay[v] = r /\ up[v] = <<>> /\ down[v] = <<>> /\ client[v] = c
        /\ captured[v] = NotCaptured
    BY <1>1, <2>1, <2>3, <2>5 DEF HttpInit
  <2>8. Typed(p, r, <<>>, <<>>, c, NotCaptured)
    BY <2>2, <2>4, <2>6 DEF Typed, NotCaptured
  <2>9. Queue(0, p)
    BY <2>2 DEF Queue, Chained, LastOf
  <2>10. /\ Matched(p, c) /\ Recorded(p, r, NotCaptured) /\ Started(p, r, <<>>, <<>>, c)
         /\ OneMessage(p, r, <<>>, <<>>, c) /\ BytesUp(p, r, <<>>, c) /\ BytesDown(p, r, <<>>, c)
    BY <2>2, <2>4, <2>6, <2>9 DEF Matched, InOrder, Recorded, Started, OneMessage, BytesUp, BytesDown, NotCaptured, NoStatus
  <2> QED
    BY <2>7, <2>8, <2>10 DEF VisitOf, Visit
<1>4. VisitsInv
  <2>1. /\ visitor = [v \in Visitor |-> visitor[v]] /\ relay = [v \in Visitor |-> relay[v]] /\ up = [v \in Visitor |-> up[v]]
        /\ down = [v \in Visitor |-> down[v]] /\ client = [v \in Visitor |-> client[v]]
        /\ captured = [v \in Visitor |-> captured[v]]
    BY <1>1 DEF HttpInit
  <2> QED
    BY <1>3, <2>1 DEF VisitsInv, Typed
<1>5. RingInv
  BY DEF HttpInit, RingInv, MetricsSettled
<1> QED
  BY <1>4, <1>5 DEF HttpInv, HttpInit

\* The inductive invariant.
LEMMA HttpInductive == HttpSpec => []HttpInv
<1>1. HttpInv /\ [HttpNext]_httpVars => HttpInv'
  <2> SUFFICES ASSUME HttpInv, [HttpNext]_httpVars PROVE HttpInv'
    OBVIOUS
  <2>1. VisitsInv' /\ RingInv'
    BY VisitsKept, RingKept DEF HttpInv
  <2>2. tunnel' \in Nat
    <3>1. tunnel \in Nat
      BY DEF HttpInv
    <3>2. CASE TunnelJoins
      BY <3>2, HttpAssumption DEF TunnelJoins, Session
    <3>3. CASE TunnelLeaves
      BY <3>3 DEF TunnelLeaves
    <3>4. CASE tunnel' = tunnel
      BY <3>1, <3>4
    <3>5. RouteRemoved \/ UNCHANGED httpVars => tunnel' = tunnel
      BY DEF RouteRemoved, httpVars
    <3>6. \A v \in Visitor : Send(v) \/ Leave(v) => tunnel' = tunnel
      BY DEF Send, Leave, shared
    <3>7. \A v \in Visitor : RelayStep(v) => tunnel' = tunnel
      <4> SUFFICES ASSUME NEW v \in Visitor, RelayStep(v) PROVE tunnel' = tunnel
        OBVIOUS
      <4>1. ReadRequest(v) \/ Lookup(v) => tunnel' = tunnel
        BY DEF ReadRequest, Lookup, shared
      <4>2. Authenticate(v) \/ GetTunnel(v) \/ OpenStream(v) => tunnel' = tunnel
        BY DEF Authenticate, GetTunnel, OpenStream, shared
      <4>3. AwaitResponse(v) \/ AwaitLost(v) \/ AwaitTimeout(v) => tunnel' = tunnel
        BY DEF AwaitResponse, AwaitLost, AwaitTimeout, shared
      <4>4. ProxyStep(v) => tunnel' = tunnel
        BY DEF ProxyStep, ProxyUp, ProxyEof, ProxyDown, ProxyLost, shared
      <4> QED
        BY <4>1, <4>2, <4>3, <4>4 DEF RelayStep, HttpConnection, HttpRequest, HttpsConnection, HttpsRequest
    <3>8. \A v \in Visitor : ClientStep(v) => tunnel' = tunnel
      <4> SUFFICES ASSUME NEW v \in Visitor, ClientStep(v) PROVE tunnel' = tunnel
        OBVIOUS
      <4>1. ClientFirst(v) \/ ClientNext(v) => tunnel' = tunnel
        BY DEF ClientFirst, ClientNext, shared
      <4>2. RawAnswer(v) \/ RawEnds(v) \/ RawUp(v) \/ ClientLost(v) => tunnel' = tunnel
        BY DEF RawAnswer, RawEnds, RawUp, ClientLost, shared
      <4>3. ServiceAnswers(v) \/ ProxyAnswers(v) \/ RequestFails(v) \/ RequestEmpty(v) \/ ProxyFails(v) => tunnel' = tunnel
        BY DEF ServiceAnswers, ProxyAnswers, RequestFails, RequestEmpty, ProxyFails, shared
      <4> QED
        BY <4>1, <4>2, <4>3 DEF ClientStep
    <3> QED
      BY <3>2, <3>3, <3>4, <3>5, <3>6, <3>7, <3>8 DEF HttpNext
  <2> QED
    BY <2>1, <2>2 DEF HttpInv
<1> QED
  BY <1>1, HttpFirst, PTL DEF HttpSpec

\* For any number of visitors, each with any number of requests, and however the reads cut
\* and join what it writes: answers come in the order of the requests and none twice, a
\* request passed over was dropped by the client, the k-th answer to a visitor that waits is
\* for its k-th request, and none that came through the HTTP server is cut short.
THEOREM AnswersInOrder == HttpSpec => []AnswersMatch
<1>1. HttpInv => AnswersMatch
  <2> SUFFICES ASSUME HttpInv, NEW v \in Visitor
               PROVE  /\ InOrder(0, client[v].skipped, visitor[v].answers)
                      /\ \A k \in 1 .. Len(visitor[v].answers) :
                           /\ ~visitor[v].eager => visitor[v].answers[k].req = k
                           /\ visitor[v].server = "http" => ~visitor[v].answers[k].cut
    BY DEF AnswersMatch
  <2>1. Matched(visitor[v], client[v])
    BY ThisVisit DEF HttpInv, Visit
  <2> QED
    BY <2>1, Zenon DEF Matched
<1> QED
  BY <1>1, HttpInductive, PTL

\* The row in captured_requests has the status the visitor saw, and no record of the
\* metrics store is open for ever, whatever the size of the store.
THEOREM RecordsKept == HttpSpec => []RecordsTrue
<1>1. HttpInv => RecordsTrue
  <2> SUFFICES ASSUME HttpInv PROVE RecordsTrue
    OBVIOUS
  <2>1. CaptureTrue
    BY ThisVisit DEF HttpInv, Visit, Recorded, CaptureTrue
  <2> QED
    BY <2>1 DEF HttpInv, RingInv, RecordsTrue
<1> QED
  BY <1>1, HttpInductive, PTL
=============================================================================
