------------------------- MODULE StreamProxyProofs -------------------------
(***************************************************************************)
(* Proofs about the data plane of one proxied connection: what an end      *)
(* reads is what the other wrote, whatever order the four tasks, the two   *)
(* handlers, the ends and the loss of the tunnel come in (Intact), and the *)
(* row of a connection that is over is closed (RecordClosed).              *)
(*                                                                         *)
(* Each direction is a chain of three pipes.  The chunks in it are         *)
(* numbered, so that there are numbers a and b with: the reader has        *)
(* 1 .. got, its pipe carries got + 1 .. a, the tunnel a + 1 .. b and the  *)
(* writer's pipe b + 1 .. wrote.  Marks of the end stand behind the chunks *)
(* of a pipe, and behind a mark nothing is missing unless the connection   *)
(* has an excuse.                                                          *)
(***************************************************************************)
EXTENDS StreamProxy, SequenceTheorems, TLAPS

-----------------------------------------------------------------------------
(***************************************************************************)
(* One direction as a value.                                               *)
(***************************************************************************)
EndMark == {"fin", "close", "reset"}
Item == [kind : EndMark \cup {"data", "connect"}, n : Nat]
Items == Seq(Item)

Marked(q) == \E i \in 1 .. Len(q) : q[i].kind \in EndMark
OnlyMarks(q) == \A i \in 1 .. Len(q) : q[i].kind \in EndMark

\* After s marks of the beginning, q carries the chunks m + 1 .. n and then marks of the end.
Carries(q, s, m, n) ==
    /\ s + (n - m) <= Len(q)
    /\ \A i \in 1 .. Len(q) :
         /\ i <= s => q[i].kind = "connect"
         /\ i > s /\ i <= s + (n - m) => q[i] = Data(m + (i - s))
         /\ i > s + (n - m) => q[i].kind \in EndMark

\* A pipe whose reader is gone holds no data; otherwise it carries the chunks m + 1 .. n.
Leg(q, reader, s, m, n) ==
    /\ m <= n
    /\ IF reader = "gone" THEN OnlyMarks(q) ELSE Carries(q, s, m, n)

\* A direction: its three pipes and whether anyone will read from them, the number of
\* connect messages that may be in the tunnel, what was read and written, and whether
\* the writer may write more, will not, or the rest of what it wrote may be missing.
Presence == {"there", "gone"}
Ways == [out : Items, outReader : Presence, mid : Items, midReader : Presence,
         in : Items, inReader : Presence, first : {0, 1}, got : Seq(Nat), wrote : Nat,
         saw : {"nothing", "eof"}, status : {"open", "shut", "excused"}]

Chained(d, s, a, b) ==
    /\ s <= d.first
    /\ Leg(d.in, d.inReader, 0, Len(d.got), a)
    /\ Leg(d.mid, d.midReader, s, a, b)
    /\ Leg(d.out, d.outReader, 0, b, d.wrote)

\* A mark of the end stands behind everything that was written.
Whole(d, a, b) ==
    d.status # "excused" =>
      /\ d.saw = "eof" => Len(d.got) = d.wrote /\ d.status = "shut"
      /\ d.inReader = "there" /\ Marked(d.in) => a = d.wrote /\ d.status = "shut"
      /\ d.midReader = "there" /\ Marked(d.mid) => b = d.wrote /\ d.status = "shut"

Way(d) ==
    /\ \A k \in 1 .. Len(d.got) : d.got[k] = k
    /\ \E s \in {0, 1}, a \in Nat, b \in Nat : Chained(d, s, a, b) /\ Whole(d, a, b)

-----------------------------------------------------------------------------
(***************************************************************************)
(* The invariant.                                                          *)
(***************************************************************************)
Middle == [visitor |-> "tunnelDown", service |-> "tunnelUp"]
Reader(p) == IF p \in unread THEN "gone" ELSE "there"

\* The connection was refused before it reached the service.
Failed == task["upClient"] = "idle" /\ (clientPhase = "over" \/ (relayPhase = "over" /\ task["upRelay"] = "idle"))

\* Why an end may read the end of its input before it has read everything.
Excused(e) ==
    \/ end[Peer[e]] = "aborted" \/ tunnelLink = "lost" \/ (kind = "tls" /\ end[e] # "open")
    \/ Failed

Status(e) == IF Excused(e) THEN "excused" ELSE IF end[Peer[e]] = "open" THEN "open" ELSE "shut"
First(e) == IF e = "service" /\ clientPhase = "waiting" THEN 1 ELSE 0

\* The direction that end e reads.
Dir(e) == [out |-> pipe[Out[Peer[e]]], outReader |-> Reader(Out[Peer[e]]),
           mid |-> pipe[Middle[e]], midReader |-> Reader(Middle[e]),
           in |-> pipe[In[e]], inReader |-> Reader(In[e]), first |-> First(e),
           got |-> got[e], wrote |-> wrote[Peer[e]], saw |-> saw[e], status |-> Status(e)]

\* A task that may still write finds no mark of the end in front of it.
PhaseOf(t) == IF t \in RelayTask THEN relayPhase ELSE clientPhase
Quiet(t) ==
    task[t] = "running" \/ (task[t] = "idle" /\ PhaseOf(t) # "over") =>
      To[t] \in unread \/ ~Marked(pipe[To[t]])

\* Why a pipe is marked, or has lost its reader.
Reasons ==
    /\ \A e \in SocketEnd : end[e] = "open" => ~Marked(pipe[Out[e]])
    /\ \A e \in SocketEnd : In[e] \in unread => end[e] = "aborted"
    /\ "tunnelDown" \notin unread /\ Marked(pipe["tunnelDown"]) => end["service"] # "open" \/ Failed
    /\ "tunnelUp" \in unread =>
         \/ tunnelLink = "lost" \/ Failed
         \/ task["upClient"] = "done" /\ (task["upRelay"] = "done" \/ end["service"] = "aborted")
    /\ "tunnelDown" \in unread => tunnelLink = "lost" \/ task["downRelay"] = "done"
    /\ "visitorUp" \in unread => relayPhase = "over" \/ task["upRelay"] = "done"
    /\ "serviceDown" \in unread => task["downClient"] = "done"

\* Connect has not been sent.
Unsent ==
    \/ relayPhase = "open" \/ (kind = "tls" /\ relayPhase = "record")
    \/ relayPhase = "over" /\ task["upRelay"] = "idle"

Phases ==
    /\ relayPhase \in {"open", "record"} => task["upRelay"] = "idle" /\ task["downRelay"] = "idle"
    /\ relayPhase = "over" => task["upRelay"] # "running" /\ task["downRelay"] # "running"
    /\ clientPhase = "over" => task["upClient"] # "running" /\ task["downClient"] # "running"
    /\ clientPhase = "waiting" => task["upClient"] = "idle" /\ task["downClient"] = "idle"
    /\ Unsent => /\ task["upClient"] = "idle"
                 /\ tunnelLink = "up" => /\ clientPhase = "waiting"
                                         /\ "tunnelUp" \notin unread /\ "tunnelDown" \notin unread
                                         /\ pipe["tunnelUp"] = <<>> /\ pipe["tunnelDown"] = <<>>
    /\ tunnelLink = "lost" => "tunnelUp" \in unread /\ "tunnelDown" \in unread
    /\ kind = "tls" /\ relayPhase = "open" => pipe["visitorUp"] # <<>> /\ Head(pipe["visitorUp"]).kind = "data"
    /\ clientPhase = "over" /\ task["upClient"] = "idle" => "tunnelUp" \in unread

Recorded ==
    /\ kind = "tcp" /\ relayPhase \in {"open", "record"} => record = "none"
    /\ RecordClosed

\* An end is sent nothing but data and the end of it.
Plain(q) == \A i \in 1 .. Len(q) : q[i].kind \in {"data", "fin"}
SocketKinds == \A e \in SocketEnd : Plain(pipe[In[e]])

StreamTypes ==
    /\ kind \in {"tcp", "tls"} /\ pipe \in [Pipe -> Items] /\ unread \subseteq Pipe
    /\ task \in [Task -> {"idle", "running", "done"}]
    /\ relayPhase \in {"open", "record", "proxy", "over"} /\ record \in {"none", "active", "closed"}
    /\ clientPhase \in {"waiting", "proxy", "over"}
    /\ wrote \in [SocketEnd -> Nat] /\ got \in [SocketEnd -> Seq(Nat)]
    /\ end \in [SocketEnd -> {"open", "shut", "aborted"}] /\ saw \in [SocketEnd -> {"nothing", "eof"}]
    /\ tunnelLink \in {"up", "lost"}

Directions == \A e \in SocketEnd : Way(Dir(e))
QuietTasks == \A t \in Task : Quiet(t)

StreamInv == StreamTypes /\ SocketKinds /\ Phases /\ Recorded /\ Reasons /\ QuietTasks /\ Directions

-----------------------------------------------------------------------------
(***************************************************************************)
(* Marks and legs.                                                         *)
(***************************************************************************)
\* The first item of a pipe and the rest of it.
LEMMA HeadTail ==
    ASSUME NEW q \in Items, q # <<>>
    PROVE  /\ Len(q) \in Nat \ {0} /\ Len(Tail(q)) = Len(q) - 1 /\ Tail(q) \in Items
           /\ Head(q) = q[1] /\ Head(q) \in Item
           /\ \A i \in 1 .. Len(Tail(q)) : Tail(q)[i] = q[i + 1]
<1>1. Len(q) \in Nat \ {0}
  BY EmptySeq, LenProperties DEF Items
<1>2. Head(q) = q[1] /\ q[1] \in Item
  BY <1>1, HeadTailProperties, ElementOfSeq DEF Items
<1> QED
  BY <1>1, <1>2, HeadTailProperties DEF Items

\* What has been appended stands behind what was there.
LEMMA Joined ==
    ASSUME NEW q \in Items, NEW r \in Items
    PROVE  /\ q \o r \in Items /\ Len(q \o r) = Len(q) + Len(r) /\ Len(q) \in Nat /\ Len(r) \in Nat
           /\ \A i \in 1 .. Len(q) : (q \o r)[i] = q[i]
           /\ \A i \in 1 .. Len(r) : (q \o r)[Len(q) + i] = r[i]
           /\ \A i \in 1 .. Len(q \o r) : i \notin 1 .. Len(q) =>
                (i - Len(q)) \in 1 .. Len(r) /\ (q \o r)[i] = r[i - Len(q)]
BY ConcatProperties, LenProperties DEF Items

\* One item as a sequence.
LEMMA Single ==
    ASSUME NEW x \in Item
    PROVE  <<x>> \in Items /\ Len(<<x>>) = 1 /\ <<x>>[1] = x
BY DEF Items

\* Two items as a sequence.
LEMMA Pair ==
    ASSUME NEW x, NEW y
    PROVE  <<x>> \o <<y>> = <<x, y>>
<1>1. <<x>> \in Seq({x, y}) /\ <<y>> \in Seq({x, y}) /\ <<x, y>> \in Seq({x, y})
  OBVIOUS
<1>2. /\ Len(<<x>>) = 1 /\ Len(<<y>>) = 1 /\ Len(<<x, y>>) = 2
      /\ <<x>>[1] = x /\ <<y>>[1] = y /\ <<x, y>>[1] = x /\ <<x, y>>[2] = y
  OBVIOUS
<1>3. PICK u \in Seq({x, y}), v \in Seq({x, y}), w \in Seq({x, y}) : u = <<x>> /\ v = <<y>> /\ w = <<x, y>>
  BY <1>1
<1>4. Len(u) = 1 /\ Len(v) = 1 /\ Len(w) = 2 /\ u[1] = x /\ v[1] = y /\ w[1] = x /\ w[2] = y
  BY <1>2, <1>3
<1>5. PICK c \in Seq({x, y}) : c = u \o v
  BY ConcatProperties
<1>6. Len(c) = 2 /\ c[1] = x /\ c[2] = y
  BY <1>4, <1>5, ConcatProperties
<1>7. c = w
  BY <1>4, <1>6, SeqEqual
<1> QED
  BY <1>3, <1>5, <1>7

\* Marks and chunks are items.
LEMMA ItemKinds ==
    /\ \A n \in Nat : Data(n) \in Item /\ Data(n).kind = "data" /\ Data(n).n = n
    /\ \A k \in EndMark \cup {"connect"} : Mark(k) \in Item /\ Mark(k).kind = k
    /\ "data" \notin EndMark /\ "connect" \notin EndMark
BY DEF Item, Data, Mark, EndMark

\* Taking and appending keep track of the marks.
LEMMA MarksTaken ==
    ASSUME NEW q \in Items, q # <<>>
    PROVE  /\ Marked(Tail(q)) => Marked(q)
           /\ Head(q).kind \in EndMark => Marked(q)
           /\ OnlyMarks(q) => OnlyMarks(Tail(q)) /\ Head(q).kind \in EndMark
           /\ Plain(q) => Plain(Tail(q)) /\ Head(q).kind \in {"data", "fin"}
BY HeadTail DEF Marked, OnlyMarks, Plain

\* Two pipes joined have the marks of both, and are of marks, or plain, if both are.
LEMMA MarksJoined ==
    ASSUME NEW q \in Items, NEW r \in Items
    PROVE  /\ Marked(q \o r) <=> Marked(q) \/ Marked(r)
           /\ OnlyMarks(q) /\ OnlyMarks(r) => OnlyMarks(q \o r)
           /\ Plain(q) /\ Plain(r) => Plain(q \o r)
<1>0. PICK p : p = q \o r
  OBVIOUS
<1>1. /\ Len(p) = Len(q) + Len(r) /\ Len(q) \in Nat /\ Len(r) \in Nat
      /\ \A i \in 1 .. Len(q) : p[i] = q[i]
      /\ \A i \in 1 .. Len(r) : p[Len(q) + i] = r[i]
      /\ \A i \in 1 .. Len(p) : i \notin 1 .. Len(q) => (i - Len(q)) \in 1 .. Len(r) /\ p[i] = r[i - Len(q)]
  BY <1>0, Joined
<1>2. Marked(p) => Marked(q) \/ Marked(r)
  BY <1>1 DEF Marked
<1>3. Marked(q) => Marked(p)
  BY <1>1 DEF Marked
<1>4. Marked(r) => Marked(p)
  <2> SUFFICES ASSUME NEW i \in 1 .. Len(r), r[i].kind \in EndMark
               PROVE  Marked(p)
    BY DEF Marked
  <2>1. Len(q) + i \in 1 .. Len(p) /\ p[Len(q) + i] = r[i]
    BY <1>1
  <2> QED
    BY <2>1 DEF Marked
<1>5. OnlyMarks(q) /\ OnlyMarks(r) => OnlyMarks(p)
  BY <1>1 DEF OnlyMarks
<1>6. Plain(q) /\ Plain(r) => Plain(p)
  BY <1>1 DEF Plain
<1> QED
  BY <1>0, <1>2, <1>3, <1>4, <1>5, <1>6

\* The empty pipe has no mark and no data; a pipe of one item is what the item is.
LEMMA MarksOf ==
    /\ <<>> \in Items /\ ~Marked(<<>>) /\ OnlyMarks(<<>>) /\ Plain(<<>>)
    /\ \A x \in Item : /\ Marked(<<x>>) <=> x.kind \in EndMark
                       /\ OnlyMarks(<<x>>) <=> x.kind \in EndMark
                       /\ Plain(<<x>>) <=> x.kind \in {"data", "fin"}
<1>1. <<>> \in Items /\ ~Marked(<<>>) /\ OnlyMarks(<<>>) /\ Plain(<<>>)
  BY DEF Items, Marked, OnlyMarks, Plain
<1>2. ASSUME NEW x \in Item
      PROVE  /\ Marked(<<x>>) <=> x.kind \in EndMark
             /\ OnlyMarks(<<x>>) <=> x.kind \in EndMark
             /\ Plain(<<x>>) <=> x.kind \in {"data", "fin"}
  BY Single DEF Marked, OnlyMarks, Plain
<1> QED
  BY <1>1, <1>2

\* A pipe that nobody has written to.
LEMMA LegEmpty ==
    ASSUME NEW r \in Presence, NEW m \in Nat
    PROVE  Leg(<<>>, r, 0, m, m)
BY DEF Leg, Carries, OnlyMarks

\* Nothing but marks is left in a pipe that lost its reader.
LEMMA LegGone ==
    ASSUME NEW q \in Items, NEW r \in Presence, NEW s \in {0, 1}, NEW m \in Nat, NEW n \in Nat,
           Leg(q, r, s, m, n), NEW p \in Items, OnlyMarks(p), NEW u \in {0, 1}
    PROVE  Leg(p, "gone", u, m, n)
BY DEF Leg

\* One more chunk.
LEMMA LegPut ==
    ASSUME NEW q \in Items, NEW s \in {0, 1}, NEW m \in Nat, NEW n \in Nat,
           Leg(q, "there", s, m, n), ~Marked(q)
    PROVE  Leg(q \o <<Data(n + 1)>>, "there", s, m, n + 1)
<1> DEFINE p == q \o <<Data(n + 1)>>
<1>0. m <= n /\ Carries(q, s, m, n)
  BY DEF Leg
<1>1. Data(n + 1) \in Item
  BY ItemKinds
<1>2. Len(p) = Len(q) + 1 /\ Len(q) \in Nat /\ p[Len(q) + 1] = Data(n + 1)
      /\ \A i \in 1 .. Len(q) : p[i] = q[i]
  BY <1>1, Single, Joined
<1> HIDE DEF p
<1>3. Len(q) = s + (n - m)
  <2>1. s + (n - m) <= Len(q) /\ s + (n - m) \in Nat
    BY <1>0 DEF Carries
  <2>2. CASE s + (n - m) < Len(q)
    <3>1. Len(q) \in 1 .. Len(q) /\ Len(q) > s + (n - m)
      BY <2>1, <2>2, <1>2
    <3>2. q[Len(q)].kind \in EndMark
      BY <1>0, <3>1 DEF Carries
    <3> QED
      BY <3>1, <3>2 DEF Marked
  <2> QED
    BY <2>1, <2>2, <1>2
<1>4. Carries(p, s, m, n + 1)
  BY <1>0, <1>2, <1>3, SMTT(60) DEF Carries
<1> QED
  BY <1>0, <1>4 DEF Leg, p

\* A chunk more in a pipe that nobody reads.
LEMMA LegPutGone ==
    ASSUME NEW q \in Items, NEW s \in {0, 1}, NEW m \in Nat, NEW n \in Nat, Leg(q, "gone", s, m, n)
    PROVE  Leg(q, "gone", s, m, n + 1)
BY DEF Leg

\* Marks stand behind the chunks.
LEMMA LegMark ==
    ASSUME NEW q \in Items, NEW r \in Presence, NEW s \in {0, 1}, NEW m \in Nat, NEW n \in Nat,
           Leg(q, r, s, m, n), NEW z \in Items, OnlyMarks(z)
    PROVE  Leg(q \o z, r, s, m, n)
<1>1. CASE r = "gone"
  BY <1>1, MarksJoined DEF Leg
<1>2. CASE r # "gone"
  <2>1. m <= n /\ Carries(q, s, m, n)
    BY <1>2 DEF Leg
  <2> DEFINE p == q \o z
  <2>2. Len(p) \in Nat /\ Len(q) \in Nat /\ Len(q) <= Len(p)
    BY Joined
  <2>3. \A i \in 1 .. Len(p) : i \notin 1 .. Len(q) => p[i].kind \in EndMark
    BY Joined DEF OnlyMarks
  <2>4. \A i \in 1 .. Len(q) : p[i] = q[i]
    BY Joined
  <2> HIDE DEF p
  <2>5. Carries(p, s, m, n)
    <3>1. s + (n - m) <= Len(p) /\ s + (n - m) <= Len(q)
      BY <2>1, <2>2 DEF Carries
    <3>2. ASSUME NEW i \in 1 .. Len(p)
          PROVE  /\ i <= s => p[i].kind = "connect"
                 /\ i > s /\ i <= s + (n - m) => p[i] = Data(m + (i - s))
                 /\ i > s + (n - m) => p[i].kind \in EndMark
      <4>1. CASE i \in 1 .. Len(q)
        BY <4>1, <2>1, <2>4 DEF Carries
      <4>2. CASE i \notin 1 .. Len(q)
        BY <4>2, <3>1, <2>1, <2>2, <2>3
      <4> QED
        BY <4>1, <4>2
    <3> QED
      BY <3>1, <3>2 DEF Carries
  <2> QED
    BY <2>1, <2>5, <1>2 DEF Leg, p
<1> QED
  BY <1>1, <1>2

\* A chunk that is taken is the next one.
LEMMA LegTake ==
    ASSUME NEW q \in Items, NEW r \in Presence, NEW m \in Nat, NEW n \in Nat,
           Leg(q, r, 0, m, n), q # <<>>, Head(q).kind = "data"
    PROVE  /\ r = "there" /\ Head(q) = Data(m + 1) /\ m + 1 \in Nat
           /\ Leg(Tail(q), r, 0, m + 1, n)
<1>1. r = "there"
  BY MarksTaken DEF Leg, Presence, EndMark
<1>2. m <= n /\ Carries(q, 0, m, n)
  BY <1>1 DEF Leg
<1>3. 1 \in 1 .. Len(q) /\ q[1].kind \notin EndMark /\ Head(q) = q[1]
  BY HeadTail DEF EndMark
<1>4. n - m >= 1 /\ q[1] = Data(m + 1)
  BY <1>2, <1>3 DEF Carries
<1>5. Carries(Tail(q), 0, m + 1, n)
  <2>1. PICK p : p = Tail(q)
    OBVIOUS
  <2>2. /\ Len(q) \in Nat \ {0} /\ Len(p) = Len(q) - 1
        /\ \A i \in 1 .. Len(p) : i + 1 \in 1 .. Len(q) /\ p[i] = q[i + 1]
    BY <2>1, HeadTail
  <2>3. 0 + (n - (m + 1)) <= Len(p)
    BY <1>2, <1>4, <2>2 DEF Carries
  <2>4. ASSUME NEW i \in 1 .. Len(p)
        PROVE  /\ i <= 0 => p[i].kind = "connect"
               /\ i > 0 /\ i <= 0 + (n - (m + 1)) => p[i] = Data((m + 1) + (i - 0))
               /\ i > 0 + (n - (m + 1)) => p[i].kind \in EndMark
    <3>1. i + 1 \in 1 .. Len(q) /\ p[i] = q[i + 1] /\ m + ((i + 1) - 0) = (m + 1) + (i - 0)
      BY <2>2
    <3> QED
      BY <3>1, <1>2 DEF Carries
  <2> QED
    BY <2>1, <2>3, <2>4 DEF Carries
<1> QED
  BY <1>1, <1>2, <1>3, <1>4, <1>5 DEF Leg

\* Behind a mark of the end there is no chunk.
LEMMA LegTakeMark ==
    ASSUME NEW q \in Items, NEW r \in Presence, NEW m \in Nat, NEW n \in Nat,
           Leg(q, r, 0, m, n), q # <<>>, Head(q).kind \in EndMark
    PROVE  /\ r = "there" => m = n
           /\ Leg(Tail(q), r, 0, m, n)
<1>1. CASE r = "gone"
  BY <1>1, MarksTaken DEF Leg
<1>2. CASE r = "there"
  <2>1. m <= n /\ Carries(q, 0, m, n)
    BY <1>2 DEF Leg
  <2>2. 1 \in 1 .. Len(q) /\ q[1].kind \in EndMark
    BY HeadTail
  <2>3. m = n
    <3>1. CASE n - m >= 1
      <4>1. q[1] = Data(m + 1)
        BY <2>1, <2>2, <3>1 DEF Carries
      <4> QED
        BY <4>1, <2>2, ItemKinds
    <3> QED
      BY <3>1, <2>1
  <2>4. Carries(Tail(q), 0, m, n)
    <3>1. PICK p : p = Tail(q)
      OBVIOUS
    <3>2. /\ Len(p) \in Nat
          /\ \A i \in 1 .. Len(p) : i + 1 \in 1 .. Len(q) /\ p[i] = q[i + 1]
      BY <3>1, HeadTail
    <3>3. \A i \in 1 .. Len(q) : q[i].kind \in EndMark
      BY <2>1, <2>3 DEF Carries
    <3>4. Carries(p, 0, m, n)
      BY <3>2, <3>3, <2>3 DEF Carries
    <3> QED
      BY <3>1, <3>4
  <2> QED
    BY <2>1, <2>3, <2>4, <1>2 DEF Leg
<1> QED
  BY <1>1, <1>2 DEF Presence

\* The message that opens the connection comes first.
LEMMA LegTakeConnect ==
    ASSUME NEW q \in Items, NEW r \in Presence, NEW s \in {0, 1}, NEW m \in Nat, NEW n \in Nat,
           Leg(q, r, s, m, n), q # <<>>, Head(q).kind = "connect"
    PROVE  r = "there" /\ s = 1 /\ Leg(Tail(q), r, 0, m, n)
<1>1. r = "there"
  BY MarksTaken DEF Leg, Presence, EndMark
<1>2. m <= n /\ Carries(q, s, m, n)
  BY <1>1 DEF Leg
<1>3. 1 \in 1 .. Len(q) /\ q[1].kind = "connect"
  BY HeadTail
<1>4. s = 1
  <2>1. CASE s = 0
    <3>1. CASE n - m >= 1
      <4>1. q[1] = Data(m + 1)
        BY <1>2, <1>3, <2>1, <3>1 DEF Carries
      <4> QED
        BY <4>1, <1>3, ItemKinds
    <3>2. CASE n - m = 0
      BY <1>2, <1>3, <2>1, <3>2, ItemKinds DEF Carries
    <3> QED
      BY <3>1, <3>2, <1>2
  <2> QED
    BY <2>1
<1>5. Carries(Tail(q), 0, m, n)
  BY <1>2, <1>4, HeadTail DEF Carries
<1> QED
  BY <1>1, <1>2, <1>4, <1>5 DEF Leg

\* A pipe that may carry no connect message starts with a chunk or a mark of the end.
LEMMA LegHeads ==
    ASSUME NEW q \in Items, NEW r \in Presence, NEW m \in Nat, NEW n \in Nat,
           Leg(q, r, 0, m, n), q # <<>>
    PROVE  Head(q).kind = "data" \/ Head(q).kind \in EndMark
<1>1. CASE r = "gone"
  BY <1>1, MarksTaken DEF Leg
<1>2. CASE r # "gone"
  <2>1. m <= n /\ Carries(q, 0, m, n)
    BY <1>2 DEF Leg
  <2>2. 1 \in 1 .. Len(q) /\ Head(q) = q[1]
    BY HeadTail
  <2>3. n - m >= 1 => q[1] = Data(m + 1)
    BY <2>1, <2>2 DEF Carries
  <2>4. n - m < 1 => q[1].kind \in EndMark
    BY <2>1, <2>2 DEF Carries
  <2> QED
    BY <2>1, <2>2, <2>3, <2>4, ItemKinds
<1> QED
  BY <1>1, <1>2

\* Nothing is under way in an empty pipe.
LEMMA LegNone ==
    ASSUME NEW s \in {0, 1}, NEW m \in Nat, NEW n \in Nat, Leg(<<>>, "there", s, m, n)
    PROVE  m = n
BY DEF Leg, Carries

\* A pipe with the message that opens the connection.
LEMMA LegFirst ==
    ASSUME NEW m \in Nat
    PROVE  Leg(<<Mark("connect")>>, "there", 1, m, m)
<1>1. Len(<<Mark("connect")>>) = 1 /\ <<Mark("connect")>>[1].kind = "connect"
  BY ItemKinds, Single
<1>2. PICK q : q = <<Mark("connect")>>
  OBVIOUS
<1>3. Carries(q, 1, m, m)
  BY <1>1, <1>2 DEF Carries
<1> QED
  BY <1>2, <1>3 DEF Leg

-----------------------------------------------------------------------------
(***************************************************************************)
(* What can happen to a direction.                                         *)
(***************************************************************************)
Standing == {"open", "shut", "excused"}
Later(x, y) == y = "excused" \/ (x # "excused" /\ y \in {x, "shut"})

\* Two directions agree but for some fields and their standing.
Fields == {"out", "outReader", "mid", "midReader", "in", "inReader", "first", "got", "wrote", "saw"}
Same(d, f, changed) == \A k \in Fields \ changed : f[k] = d[k]

\* How d becomes f, but for what the step changes.
Turns(d, f, changed) == d \in Ways /\ f \in Ways /\ Way(d) /\ Later(d.status, f.status) /\ Same(d, f, changed)

\* What the definitions say about a direction.
LEMMA Unfolded ==
    ASSUME NEW d \in Ways, Way(d)
    PROVE  /\ d.in \in Items /\ d.mid \in Items /\ d.out \in Items /\ d.got \in Seq(Nat)
           /\ Len(d.got) \in Nat /\ d.wrote \in Nat /\ d.first \in {0, 1} /\ d.status \in Standing
           /\ d.inReader \in Presence /\ d.midReader \in Presence /\ d.outReader \in Presence
           /\ \E s \in {0, 1}, a \in Nat, b \in Nat :
                /\ Leg(d.in, d.inReader, 0, Len(d.got), a) /\ Leg(d.mid, d.midReader, s, a, b)
                /\ Leg(d.out, d.outReader, 0, b, d.wrote) /\ s <= d.first
                /\ Whole(d, a, b)
BY LenProperties DEF Ways, Standing, Way, Chained

\* Nothing moves, or the excuse is new.
LEMMA WayStays ==
    ASSUME NEW d, NEW f, Turns(d, f, {})
    PROVE  Way(f)
<1>0. d \in Ways /\ f \in Ways /\ Way(d) /\ Later(d.status, f.status) /\ Same(d, f, {})
  BY DEF Turns
<1>1. PICK s \in {0, 1}, a \in Nat, b \in Nat :
        /\ Leg(d.in, d.inReader, 0, Len(d.got), a) /\ Leg(d.mid, d.midReader, s, a, b)
        /\ Leg(d.out, d.outReader, 0, b, d.wrote) /\ s <= d.first
        /\ Whole(d, a, b)
  BY <1>0, Unfolded
<1>2. /\ f.out = d.out /\ f.outReader = d.outReader /\ f.mid = d.mid
      /\ f.midReader = d.midReader /\ f.in = d.in /\ f.inReader = d.inReader
      /\ f.first = d.first /\ f.got = d.got /\ f.wrote = d.wrote /\ f.saw = d.saw
  BY <1>0 DEF Same, Fields
<1>3. /\ d.in \in Items /\ d.mid \in Items /\ d.out \in Items /\ Len(d.got) \in Nat /\ d.wrote \in Nat
      /\ d.inReader \in Presence /\ d.midReader \in Presence /\ d.outReader \in Presence
      /\ d.got \in Seq(Nat) /\ d.first \in {0, 1} /\ d.status \in Standing /\ f.status \in Standing
  BY <1>0, Unfolded DEF Ways, Standing
<1>4. Chained(f, s, a, b)
  BY <1>0, <1>1, <1>2, <1>3 DEF Chained
<1>5. Whole(f, a, b)
  BY <1>0, <1>1, <1>2, <1>3 DEF Whole, Later, Standing
<1>6. \A k \in 1 .. Len(f.got) : f.got[k] = k
  BY <1>0, <1>2 DEF Way
<1> QED
  BY <1>4, <1>5, <1>6, <1>3 DEF Way

\* The writer writes a chunk.
LEMMA WayWrite ==
    ASSUME NEW d, NEW f, Turns(d, f, {"out", "wrote"}),
           d.status # "shut", f.status # "shut", d.outReader = "there", ~Marked(d.out),
           f.out = d.out \o <<Data(d.wrote + 1)>>, f.wrote = d.wrote + 1
    PROVE  Way(f)
<1>0. d \in Ways /\ f \in Ways /\ Way(d) /\ Later(d.status, f.status) /\ Same(d, f, {"out", "wrote"})
  BY DEF Turns
<1>1. PICK s \in {0, 1}, a \in Nat, b \in Nat :
        /\ Leg(d.in, d.inReader, 0, Len(d.got), a) /\ Leg(d.mid, d.midReader, s, a, b)
        /\ Leg(d.out, d.outReader, 0, b, d.wrote) /\ s <= d.first
        /\ Whole(d, a, b)
  BY <1>0, Unfolded
<1>2. /\ f.out = d.out \o <<Data(d.wrote + 1)>> /\ f.outReader = d.outReader /\ f.mid = d.mid
      /\ f.midReader = d.midReader /\ f.in = d.in /\ f.inReader = d.inReader
      /\ f.first = d.first /\ f.got = d.got /\ f.wrote = d.wrote + 1 /\ f.saw = d.saw
  BY <1>0 DEF Same, Fields
<1>3. /\ d.in \in Items /\ d.mid \in Items /\ d.out \in Items /\ Len(d.got) \in Nat /\ d.wrote \in Nat
      /\ d.inReader \in Presence /\ d.midReader \in Presence /\ d.outReader \in Presence
      /\ d.got \in Seq(Nat) /\ d.first \in {0, 1} /\ d.status \in Standing /\ f.status \in Standing
  BY <1>0, Unfolded DEF Ways, Standing
<1>4. Chained(f, s, a, b)
  BY <1>0, <1>1, <1>2, <1>3, LegPut DEF Chained
<1>5. Whole(f, a, b)
  BY <1>0, <1>1, <1>2, <1>3 DEF Whole, Later, Standing
<1>6. \A k \in 1 .. Len(f.got) : f.got[k] = k
  BY <1>0, <1>2 DEF Way
<1> QED
  BY <1>4, <1>5, <1>6, <1>3 DEF Way

\* A chunk is written that nobody will read.
LEMMA WayLost ==
    ASSUME NEW d, NEW f, Turns(d, f, {"wrote"}),
           d.status # "shut", f.status # "shut", d.outReader = "gone",
           f.wrote = d.wrote + 1
    PROVE  Way(f)
<1>0. d \in Ways /\ f \in Ways /\ Way(d) /\ Later(d.status, f.status) /\ Same(d, f, {"wrote"})
  BY DEF Turns
<1>1. PICK s \in {0, 1}, a \in Nat, b \in Nat :
        /\ Leg(d.in, d.inReader, 0, Len(d.got), a) /\ Leg(d.mid, d.midReader, s, a, b)
        /\ Leg(d.out, d.outReader, 0, b, d.wrote) /\ s <= d.first
        /\ Whole(d, a, b)
  BY <1>0, Unfolded
<1>2. /\ f.out = d.out /\ f.outReader = d.outReader /\ f.mid = d.mid
      /\ f.midReader = d.midReader /\ f.in = d.in /\ f.inReader = d.inReader
      /\ f.first = d.first /\ f.got = d.got /\ f.wrote = d.wrote + 1 /\ f.saw = d.saw
  BY <1>0 DEF Same, Fields
<1>3. /\ d.in \in Items /\ d.mid \in Items /\ d.out \in Items /\ Len(d.got) \in Nat /\ d.wrote \in Nat
      /\ d.inReader \in Presence /\ d.midReader \in Presence /\ d.outReader \in Presence
      /\ d.got \in Seq(Nat) /\ d.first \in {0, 1} /\ d.status \in Standing /\ f.status \in Standing
  BY <1>0, Unfolded DEF Ways, Standing
<1>4. Chained(f, s, a, b)
  BY <1>0, <1>1, <1>2, <1>3, LegPutGone DEF Chained
<1>5. Whole(f, a, b)
  BY <1>0, <1>1, <1>2, <1>3 DEF Whole, Later, Standing
<1>6. \A k \in 1 .. Len(f.got) : f.got[k] = k
  BY <1>0, <1>2 DEF Way
<1> QED
  BY <1>4, <1>5, <1>6, <1>3 DEF Way

\* The writer marks the end.
LEMMA WayMarkOut ==
    ASSUME NEW d, NEW f, Turns(d, f, {"out"}),
           NEW z \in Items,
           OnlyMarks(z),
           f.out = d.out \o z
    PROVE  Way(f)
<1>0. d \in Ways /\ f \in Ways /\ Way(d) /\ Later(d.status, f.status) /\ Same(d, f, {"out"})
  BY DEF Turns
<1>1. PICK s \in {0, 1}, a \in Nat, b \in Nat :
        /\ Leg(d.in, d.inReader, 0, Len(d.got), a) /\ Leg(d.mid, d.midReader, s, a, b)
        /\ Leg(d.out, d.outReader, 0, b, d.wrote) /\ s <= d.first
        /\ Whole(d, a, b)
  BY <1>0, Unfolded
<1>2. /\ f.out = d.out \o z /\ f.outReader = d.outReader /\ f.mid = d.mid
      /\ f.midReader = d.midReader /\ f.in = d.in /\ f.inReader = d.inReader
      /\ f.first = d.first /\ f.got = d.got /\ f.wrote = d.wrote /\ f.saw = d.saw
  BY <1>0 DEF Same, Fields
<1>3. /\ d.in \in Items /\ d.mid \in Items /\ d.out \in Items /\ Len(d.got) \in Nat /\ d.wrote \in Nat
      /\ d.inReader \in Presence /\ d.midReader \in Presence /\ d.outReader \in Presence
      /\ d.got \in Seq(Nat) /\ d.first \in {0, 1} /\ d.status \in Standing /\ f.status \in Standing
  BY <1>0, Unfolded DEF Ways, Standing
<1>4. Chained(f, s, a, b)
  BY <1>0, <1>1, <1>2, <1>3, LegMark DEF Chained
<1>5. Whole(f, a, b)
  BY <1>0, <1>1, <1>2, <1>3 DEF Whole, Later, Standing
<1>6. \A k \in 1 .. Len(f.got) : f.got[k] = k
  BY <1>0, <1>2 DEF Way
<1> QED
  BY <1>4, <1>5, <1>6, <1>3 DEF Way

\* Nobody reads on from the writer.
LEMMA WayDropOut ==
    ASSUME NEW d, NEW f, Turns(d, f, {"out", "outReader"}),
           NEW z \in Items,
           OnlyMarks(z),
           f.out = z, f.outReader = "gone"
    PROVE  Way(f)
<1>0. d \in Ways /\ f \in Ways /\ Way(d) /\ Later(d.status, f.status) /\ Same(d, f, {"out", "outReader"})
  BY DEF Turns
<1>1. PICK s \in {0, 1}, a \in Nat, b \in Nat :
        /\ Leg(d.in, d.inReader, 0, Len(d.got), a) /\ Leg(d.mid, d.midReader, s, a, b)
        /\ Leg(d.out, d.outReader, 0, b, d.wrote) /\ s <= d.first
        /\ Whole(d, a, b)
  BY <1>0, Unfolded
<1>2. /\ f.out = z /\ f.outReader = "gone" /\ f.mid = d.mid /\ f.midReader = d.midReader
      /\ f.in = d.in /\ f.inReader = d.inReader /\ f.first = d.first /\ f.got = d.got
      /\ f.wrote = d.wrote /\ f.saw = d.saw
  BY <1>0 DEF Same, Fields
<1>3. /\ d.in \in Items /\ d.mid \in Items /\ d.out \in Items /\ Len(d.got) \in Nat /\ d.wrote \in Nat
      /\ d.inReader \in Presence /\ d.midReader \in Presence /\ d.outReader \in Presence
      /\ d.got \in Seq(Nat) /\ d.first \in {0, 1} /\ d.status \in Standing /\ f.status \in Standing
  BY <1>0, Unfolded DEF Ways, Standing
<1>4. Chained(f, s, a, b)
  BY <1>0, <1>1, <1>2, <1>3, LegGone DEF Chained
<1>5. Whole(f, a, b)
  BY <1>0, <1>1, <1>2, <1>3 DEF Whole, Later, Standing
<1>6. \A k \in 1 .. Len(f.got) : f.got[k] = k
  BY <1>0, <1>2 DEF Way
<1> QED
  BY <1>4, <1>5, <1>6, <1>3 DEF Way

\* Nobody reads on from the tunnel.
LEMMA WayDropMid ==
    ASSUME NEW d, NEW f, Turns(d, f, {"mid", "midReader", "first"}),
           NEW z \in Items,
           OnlyMarks(z),
           NEW c \in {0, 1},
           f.mid = z, f.midReader = "gone", f.first = c
    PROVE  Way(f)
<1>0. d \in Ways /\ f \in Ways /\ Way(d) /\ Later(d.status, f.status) /\ Same(d, f, {"mid", "midReader", "first"})
  BY DEF Turns
<1>1. PICK s \in {0, 1}, a \in Nat, b \in Nat :
        /\ Leg(d.in, d.inReader, 0, Len(d.got), a) /\ Leg(d.mid, d.midReader, s, a, b)
        /\ Leg(d.out, d.outReader, 0, b, d.wrote) /\ s <= d.first
        /\ Whole(d, a, b)
  BY <1>0, Unfolded
<1>2. /\ f.out = d.out /\ f.outReader = d.outReader /\ f.mid = z /\ f.midReader = "gone"
      /\ f.in = d.in /\ f.inReader = d.inReader /\ f.first = c /\ f.got = d.got
      /\ f.wrote = d.wrote /\ f.saw = d.saw
  BY <1>0 DEF Same, Fields
<1>3. /\ d.in \in Items /\ d.mid \in Items /\ d.out \in Items /\ Len(d.got) \in Nat /\ d.wrote \in Nat
      /\ d.inReader \in Presence /\ d.midReader \in Presence /\ d.outReader \in Presence
      /\ d.got \in Seq(Nat) /\ d.first \in {0, 1} /\ d.status \in Standing /\ f.status \in Standing
  BY <1>0, Unfolded DEF Ways, Standing
<1>4. Chained(f, 0, a, b)
  BY <1>0, <1>1, <1>2, <1>3, LegGone DEF Chained
<1>5. Whole(f, a, b)
  BY <1>0, <1>1, <1>2, <1>3 DEF Whole, Later, Standing
<1>6. \A k \in 1 .. Len(f.got) : f.got[k] = k
  BY <1>0, <1>2 DEF Way
<1> QED
  BY <1>4, <1>5, <1>6, <1>3 DEF Way

\* The reader is gone.
LEMMA WayDropIn ==
    ASSUME NEW d, NEW f, Turns(d, f, {"in", "inReader"}),
           NEW z \in Items,
           OnlyMarks(z),
           f.in = z, f.inReader = "gone"
    PROVE  Way(f)
<1>0. d \in Ways /\ f \in Ways /\ Way(d) /\ Later(d.status, f.status) /\ Same(d, f, {"in", "inReader"})
  BY DEF Turns
<1>1. PICK s \in {0, 1}, a \in Nat, b \in Nat :
        /\ Leg(d.in, d.inReader, 0, Len(d.got), a) /\ Leg(d.mid, d.midReader, s, a, b)
        /\ Leg(d.out, d.outReader, 0, b, d.wrote) /\ s <= d.first
        /\ Whole(d, a, b)
  BY <1>0, Unfolded
<1>2. /\ f.out = d.out /\ f.outReader = d.outReader /\ f.mid = d.mid
      /\ f.midReader = d.midReader /\ f.in = z /\ f.inReader = "gone" /\ f.first = d.first
      /\ f.got = d.got /\ f.wrote = d.wrote /\ f.saw = d.saw
  BY <1>0 DEF Same, Fields
<1>3. /\ d.in \in Items /\ d.mid \in Items /\ d.out \in Items /\ Len(d.got) \in Nat /\ d.wrote \in Nat
      /\ d.inReader \in Presence /\ d.midReader \in Presence /\ d.outReader \in Presence
      /\ d.got \in Seq(Nat) /\ d.first \in {0, 1} /\ d.status \in Standing /\ f.status \in Standing
  BY <1>0, Unfolded DEF Ways, Standing
<1>4. Chained(f, s, a, b)
  BY <1>0, <1>1, <1>2, <1>3, LegGone DEF Chained
<1>5. Whole(f, a, b)
  BY <1>0, <1>1, <1>2, <1>3 DEF Whole, Later, Standing
<1>6. \A k \in 1 .. Len(f.got) : f.got[k] = k
  BY <1>0, <1>2 DEF Way
<1> QED
  BY <1>4, <1>5, <1>6, <1>3 DEF Way

\* The tunnel is marked although the writer has not come to its end.
LEMMA WayMarkMid ==
    ASSUME NEW d, NEW f, Turns(d, f, {"mid"}),
           NEW z \in Items,
           OnlyMarks(z),
           f.status = "excused",
           f.mid = d.mid \o z
    PROVE  Way(f)
<1>0. d \in Ways /\ f \in Ways /\ Way(d) /\ Later(d.status, f.status) /\ Same(d, f, {"mid"})
  BY DEF Turns
<1>1. PICK s \in {0, 1}, a \in Nat, b \in Nat :
        /\ Leg(d.in, d.inReader, 0, Len(d.got), a) /\ Leg(d.mid, d.midReader, s, a, b)
        /\ Leg(d.out, d.outReader, 0, b, d.wrote) /\ s <= d.first
        /\ Whole(d, a, b)
  BY <1>0, Unfolded
<1>2. /\ f.out = d.out /\ f.outReader = d.outReader /\ f.mid = d.mid \o z
      /\ f.midReader = d.midReader /\ f.in = d.in /\ f.inReader = d.inReader
      /\ f.first = d.first /\ f.got = d.got /\ f.wrote = d.wrote /\ f.saw = d.saw
  BY <1>0 DEF Same, Fields
<1>3. /\ d.in \in Items /\ d.mid \in Items /\ d.out \in Items /\ Len(d.got) \in Nat /\ d.wrote \in Nat
      /\ d.inReader \in Presence /\ d.midReader \in Presence /\ d.outReader \in Presence
      /\ d.got \in Seq(Nat) /\ d.first \in {0, 1} /\ d.status \in Standing /\ f.status \in Standing
  BY <1>0, Unfolded DEF Ways, Standing
<1>4. Chained(f, s, a, b)
  BY <1>0, <1>1, <1>2, <1>3, LegMark DEF Chained
<1>5. Whole(f, a, b)
  BY <1>0, <1>1, <1>2, <1>3 DEF Whole, Later, Standing
<1>6. \A k \in 1 .. Len(f.got) : f.got[k] = k
  BY <1>0, <1>2 DEF Way
<1> QED
  BY <1>4, <1>5, <1>6, <1>3 DEF Way

\* The reader's pipe is marked although the writer has not come to its end.
LEMMA WayMarkIn ==
    ASSUME NEW d, NEW f, Turns(d, f, {"in"}),
           NEW z \in Items,
           OnlyMarks(z),
           f.status = "excused",
           f.in = d.in \o z
    PROVE  Way(f)
<1>0. d \in Ways /\ f \in Ways /\ Way(d) /\ Later(d.status, f.status) /\ Same(d, f, {"in"})
  BY DEF Turns
<1>1. PICK s \in {0, 1}, a \in Nat, b \in Nat :
        /\ Leg(d.in, d.inReader, 0, Len(d.got), a) /\ Leg(d.mid, d.midReader, s, a, b)
        /\ Leg(d.out, d.outReader, 0, b, d.wrote) /\ s <= d.first
        /\ Whole(d, a, b)
  BY <1>0, Unfolded
<1>2. /\ f.out = d.out /\ f.outReader = d.outReader /\ f.mid = d.mid
      /\ f.midReader = d.midReader /\ f.in = d.in \o z /\ f.inReader = d.inReader
      /\ f.first = d.first /\ f.got = d.got /\ f.wrote = d.wrote /\ f.saw = d.saw
  BY <1>0 DEF Same, Fields
<1>3. /\ d.in \in Items /\ d.mid \in Items /\ d.out \in Items /\ Len(d.got) \in Nat /\ d.wrote \in Nat
      /\ d.inReader \in Presence /\ d.midReader \in Presence /\ d.outReader \in Presence
      /\ d.got \in Seq(Nat) /\ d.first \in {0, 1} /\ d.status \in Standing /\ f.status \in Standing
  BY <1>0, Unfolded DEF Ways, Standing
<1>4. Chained(f, s, a, b)
  BY <1>0, <1>1, <1>2, <1>3, LegMark DEF Chained
<1>5. Whole(f, a, b)
  BY <1>0, <1>1, <1>2, <1>3 DEF Whole, Later, Standing
<1>6. \A k \in 1 .. Len(f.got) : f.got[k] = k
  BY <1>0, <1>2 DEF Way
<1> QED
  BY <1>4, <1>5, <1>6, <1>3 DEF Way

\* The reader takes a chunk.
LEMMA WayReadData ==
    ASSUME NEW d, NEW f, Turns(d, f, {"in", "got"}),
           d.inReader = "there", d.in # <<>>, Head(d.in).kind = "data",
           f.in = Tail(d.in), f.got = Append(d.got, Head(d.in).n)
    PROVE  Way(f)
<1>0. d \in Ways /\ f \in Ways /\ Way(d) /\ Later(d.status, f.status) /\ Same(d, f, {"in", "got"})
  BY DEF Turns
<1>1. PICK s \in {0, 1}, a \in Nat, b \in Nat :
        /\ Leg(d.in, d.inReader, 0, Len(d.got), a) /\ Leg(d.mid, d.midReader, s, a, b)
        /\ Leg(d.out, d.outReader, 0, b, d.wrote) /\ s <= d.first
        /\ Whole(d, a, b)
  BY <1>0, Unfolded
<1>2. /\ f.out = d.out /\ f.outReader = d.outReader /\ f.mid = d.mid
      /\ f.midReader = d.midReader /\ f.in = Tail(d.in) /\ f.inReader = d.inReader
      /\ f.first = d.first /\ f.got = Append(d.got, Head(d.in).n) /\ f.wrote = d.wrote
      /\ f.saw = d.saw
  BY <1>0 DEF Same, Fields
<1>3. /\ d.in \in Items /\ d.mid \in Items /\ d.out \in Items /\ Len(d.got) \in Nat /\ d.wrote \in Nat
      /\ d.inReader \in Presence /\ d.midReader \in Presence /\ d.outReader \in Presence
      /\ d.got \in Seq(Nat) /\ d.first \in {0, 1} /\ d.status \in Standing /\ f.status \in Standing
  BY <1>0, Unfolded DEF Ways, Standing
<1>4. Head(d.in) = Data(Len(d.got) + 1) /\ Leg(Tail(d.in), d.inReader, 0, Len(d.got) + 1, a)
  BY <1>1, <1>3, LegTake
<1>5. Head(d.in).n = Len(d.got) + 1
  BY <1>4, <1>3, ItemKinds
<1>6. /\ Len(f.got) = Len(d.got) + 1 /\ f.got[Len(d.got) + 1] = Len(d.got) + 1
      /\ \A k \in 1 .. Len(d.got) : f.got[k] = d.got[k]
  BY <1>2, <1>3, <1>5, AppendProperties
<1>7. Chained(f, s, a, b)
  BY <1>1, <1>2, <1>4, <1>6 DEF Chained
<1>8. Whole(f, a, b)
  <2>1. f.status # "excused" => d.saw # "eof"
    <3> SUFFICES ASSUME f.status # "excused", d.saw = "eof" PROVE FALSE
      OBVIOUS
    <3>1. Len(d.got) = d.wrote
      BY <1>0, <1>1 DEF Whole, Later
    <3>2. Len(d.got) + 1 <= a /\ a <= b /\ b <= d.wrote
      BY <1>1, <1>4 DEF Leg
    <3> QED
      BY <3>1, <3>2, <1>3
  <2>2. Marked(Tail(d.in)) => Marked(d.in)
    BY <1>3, MarksTaken
  <2> QED
    BY <1>0, <1>1, <1>2, <1>3, <2>1, <2>2 DEF Whole, Later, Standing
<1>9. ASSUME NEW k \in 1 .. Len(f.got)
       PROVE  f.got[k] = k
  <2>1. k \in 1 .. Len(d.got) \/ k = Len(d.got) + 1
    BY <1>3, <1>6
  <2> QED
    BY <2>1, <1>0, <1>6 DEF Way
<1> QED
  BY <1>7, <1>8, <1>9, <1>3 DEF Way

\* The reader comes to the end.
LEMMA WayReadEnd ==
    ASSUME NEW d, NEW f, Turns(d, f, {"in", "saw"}),
           d.inReader = "there", d.in # <<>>, Head(d.in).kind \in EndMark,
           f.in = Tail(d.in), f.saw = "eof"
    PROVE  Way(f)
<1>0. d \in Ways /\ f \in Ways /\ Way(d) /\ Later(d.status, f.status) /\ Same(d, f, {"in", "saw"})
  BY DEF Turns
<1>1. PICK s \in {0, 1}, a \in Nat, b \in Nat :
        /\ Leg(d.in, d.inReader, 0, Len(d.got), a) /\ Leg(d.mid, d.midReader, s, a, b)
        /\ Leg(d.out, d.outReader, 0, b, d.wrote) /\ s <= d.first
        /\ Whole(d, a, b)
  BY <1>0, Unfolded
<1>2. /\ f.out = d.out /\ f.outReader = d.outReader /\ f.mid = d.mid
      /\ f.midReader = d.midReader /\ f.in = Tail(d.in) /\ f.inReader = d.inReader
      /\ f.first = d.first /\ f.got = d.got /\ f.wrote = d.wrote /\ f.saw = "eof"
  BY <1>0 DEF Same, Fields
<1>3. /\ d.in \in Items /\ d.mid \in Items /\ d.out \in Items /\ Len(d.got) \in Nat /\ d.wrote \in Nat
      /\ d.inReader \in Presence /\ d.midReader \in Presence /\ d.outReader \in Presence
      /\ d.got \in Seq(Nat) /\ d.first \in {0, 1} /\ d.status \in Standing /\ f.status \in Standing
  BY <1>0, Unfolded DEF Ways, Standing
<1>4. Len(d.got) = a /\ Leg(Tail(d.in), d.inReader, 0, Len(d.got), a)
  BY <1>1, <1>3, LegTakeMark
<1>5. Marked(d.in)
  BY <1>3, MarksTaken
<1>6. Chained(f, s, a, b)
  BY <1>0, <1>1, <1>2, <1>3, <1>4 DEF Chained
<1>7. Whole(f, a, b)
  BY <1>0, <1>1, <1>2, <1>3, <1>4, <1>5 DEF Whole, Later, Standing
<1>8. \A k \in 1 .. Len(f.got) : f.got[k] = k
  BY <1>0, <1>2 DEF Way
<1> QED
  BY <1>6, <1>7, <1>8, <1>3 DEF Way

\* The first task moves a chunk into the tunnel.
LEMMA WayMoveOut ==
    ASSUME NEW d, NEW f, Turns(d, f, {"out", "mid"}),
           d.out # <<>>, Head(d.out).kind = "data", d.midReader = "there", ~Marked(d.mid),
           f.out = Tail(d.out), f.mid = d.mid \o <<Head(d.out)>>
    PROVE  Way(f)
<1>0. d \in Ways /\ f \in Ways /\ Way(d) /\ Later(d.status, f.status) /\ Same(d, f, {"out", "mid"})
  BY DEF Turns
<1>1. PICK s \in {0, 1}, a \in Nat, b \in Nat :
        /\ Leg(d.in, d.inReader, 0, Len(d.got), a) /\ Leg(d.mid, d.midReader, s, a, b)
        /\ Leg(d.out, d.outReader, 0, b, d.wrote) /\ s <= d.first
        /\ Whole(d, a, b)
  BY <1>0, Unfolded
<1>2. /\ f.out = Tail(d.out) /\ f.outReader = d.outReader /\ f.mid = d.mid \o <<Head(d.out)>>
      /\ f.midReader = d.midReader /\ f.in = d.in /\ f.inReader = d.inReader
      /\ f.first = d.first /\ f.got = d.got /\ f.wrote = d.wrote /\ f.saw = d.saw
  BY <1>0 DEF Same, Fields
<1>3. /\ d.in \in Items /\ d.mid \in Items /\ d.out \in Items /\ Len(d.got) \in Nat /\ d.wrote \in Nat
      /\ d.inReader \in Presence /\ d.midReader \in Presence /\ d.outReader \in Presence
      /\ d.got \in Seq(Nat) /\ d.first \in {0, 1} /\ d.status \in Standing /\ f.status \in Standing
  BY <1>0, Unfolded DEF Ways, Standing
<1>4. b + 1 \in Nat /\ Head(d.out) = Data(b + 1) /\ Leg(Tail(d.out), d.outReader, 0, b + 1, d.wrote)
  BY <1>1, <1>3, LegTake
<1>5. Leg(d.mid \o <<Head(d.out)>>, d.midReader, s, a, b + 1)
  BY <1>1, <1>3, <1>4, LegPut
<1>6. ~Marked(d.mid \o <<Head(d.out)>>)
  <2>1. Head(d.out) \in Item /\ Head(d.out).kind \notin EndMark
    BY <1>3, HeadTail, ItemKinds
  <2> QED
    BY <2>1, <1>3, MarksOf, MarksJoined, Single
<1>7. Chained(f, s, a, b + 1)
  BY <1>0, <1>1, <1>2, <1>3, <1>4, <1>5 DEF Chained
<1>8. Whole(f, a, b + 1)
  BY <1>0, <1>1, <1>2, <1>3, <1>6 DEF Whole, Later, Standing
<1>9. \A k \in 1 .. Len(f.got) : f.got[k] = k
  BY <1>0, <1>2 DEF Way
<1> QED
  BY <1>7, <1>8, <1>9, <1>3 DEF Way

\* The second task moves a chunk out of the tunnel.
LEMMA WayMoveMid ==
    ASSUME NEW d, NEW f, Turns(d, f, {"mid", "in"}),
           d.first = 0, d.mid # <<>>, Head(d.mid).kind = "data", d.inReader = "there", ~Marked(d.in),
           f.mid = Tail(d.mid), f.in = d.in \o <<Head(d.mid)>>
    PROVE  Way(f)
<1>0. d \in Ways /\ f \in Ways /\ Way(d) /\ Later(d.status, f.status) /\ Same(d, f, {"mid", "in"})
  BY DEF Turns
<1>1. PICK s \in {0, 1}, a \in Nat, b \in Nat :
        /\ Leg(d.in, d.inReader, 0, Len(d.got), a) /\ Leg(d.mid, d.midReader, s, a, b)
        /\ Leg(d.out, d.outReader, 0, b, d.wrote) /\ s <= d.first
        /\ Whole(d, a, b)
  BY <1>0, Unfolded
<1>2. /\ f.out = d.out /\ f.outReader = d.outReader /\ f.mid = Tail(d.mid)
      /\ f.midReader = d.midReader /\ f.in = d.in \o <<Head(d.mid)>> /\ f.inReader = d.inReader
      /\ f.first = d.first /\ f.got = d.got /\ f.wrote = d.wrote /\ f.saw = d.saw
  BY <1>0 DEF Same, Fields
<1>3. /\ d.in \in Items /\ d.mid \in Items /\ d.out \in Items /\ Len(d.got) \in Nat /\ d.wrote \in Nat
      /\ d.inReader \in Presence /\ d.midReader \in Presence /\ d.outReader \in Presence
      /\ d.got \in Seq(Nat) /\ d.first \in {0, 1} /\ d.status \in Standing /\ f.status \in Standing
  BY <1>0, Unfolded DEF Ways, Standing
<1>4. s = 0
  BY <1>1, <1>3
<1>5. a + 1 \in Nat /\ Head(d.mid) = Data(a + 1) /\ Leg(Tail(d.mid), d.midReader, 0, a + 1, b)
  BY <1>1, <1>3, <1>4, LegTake
<1>6. Leg(d.in \o <<Head(d.mid)>>, d.inReader, 0, Len(d.got), a + 1)
  BY <1>1, <1>3, <1>5, LegPut
<1>7. ~Marked(d.in \o <<Head(d.mid)>>)
  <2>1. Head(d.mid) \in Item /\ Head(d.mid).kind \notin EndMark
    BY <1>3, HeadTail, ItemKinds
  <2> QED
    BY <2>1, <1>3, MarksOf, MarksJoined, Single
<1>8. Marked(Tail(d.mid)) => Marked(d.mid)
  BY <1>3, MarksTaken
<1>9. Chained(f, 0, a + 1, b)
  BY <1>0, <1>1, <1>2, <1>3, <1>5, <1>6 DEF Chained
<1>10. Whole(f, a + 1, b)
  BY <1>0, <1>1, <1>2, <1>3, <1>7, <1>8 DEF Whole, Later, Standing
<1>11. \A k \in 1 .. Len(f.got) : f.got[k] = k
  BY <1>0, <1>2 DEF Way
<1> QED
  BY <1>5, <1>9, <1>10, <1>11 DEF Way

\* The first task ends at a mark, and marks the tunnel.
LEMMA WayEndOut ==
    ASSUME NEW d, NEW f, Turns(d, f, {"out", "mid"}),
           NEW z \in Items,
           OnlyMarks(z),
           d.out # <<>>, Head(d.out).kind \in EndMark,
           f.status = "excused" \/ (f.status = "shut" /\ d.outReader = "there"),
           f.out = Tail(d.out), f.mid = d.mid \o z
    PROVE  Way(f)
<1>0. d \in Ways /\ f \in Ways /\ Way(d) /\ Later(d.status, f.status) /\ Same(d, f, {"out", "mid"})
  BY DEF Turns
<1>1. PICK s \in {0, 1}, a \in Nat, b \in Nat :
        /\ Leg(d.in, d.inReader, 0, Len(d.got), a) /\ Leg(d.mid, d.midReader, s, a, b)
        /\ Leg(d.out, d.outReader, 0, b, d.wrote) /\ s <= d.first
        /\ Whole(d, a, b)
  BY <1>0, Unfolded
<1>2. /\ f.out = Tail(d.out) /\ f.outReader = d.outReader /\ f.mid = d.mid \o z
      /\ f.midReader = d.midReader /\ f.in = d.in /\ f.inReader = d.inReader
      /\ f.first = d.first /\ f.got = d.got /\ f.wrote = d.wrote /\ f.saw = d.saw
  BY <1>0 DEF Same, Fields
<1>3. /\ d.in \in Items /\ d.mid \in Items /\ d.out \in Items /\ Len(d.got) \in Nat /\ d.wrote \in Nat
      /\ d.inReader \in Presence /\ d.midReader \in Presence /\ d.outReader \in Presence
      /\ d.got \in Seq(Nat) /\ d.first \in {0, 1} /\ d.status \in Standing /\ f.status \in Standing
  BY <1>0, Unfolded DEF Ways, Standing
<1>4. (d.outReader = "there" => b = d.wrote) /\ Leg(Tail(d.out), d.outReader, 0, b, d.wrote)
  BY <1>1, <1>3, LegTakeMark
<1>5. Leg(d.mid \o z, d.midReader, s, a, b)
  BY <1>1, <1>3, LegMark
<1>6. Chained(f, s, a, b)
  BY <1>0, <1>1, <1>2, <1>3, <1>4, <1>5 DEF Chained
<1>7. Whole(f, a, b)
  BY <1>0, <1>1, <1>2, <1>3, <1>4 DEF Whole, Later, Standing
<1>8. \A k \in 1 .. Len(f.got) : f.got[k] = k
  BY <1>0, <1>2 DEF Way
<1> QED
  BY <1>6, <1>7, <1>8, <1>3 DEF Way

\* The second task ends at a mark, and marks the reader's pipe.
LEMMA WayEndMid ==
    ASSUME NEW d, NEW f, Turns(d, f, {"mid", "in"}),
           NEW z \in Items,
           OnlyMarks(z),
           d.first = 0, d.mid # <<>>, Head(d.mid).kind \in EndMark,
           f.status = "excused" \/ d.midReader = "there",
           f.mid = Tail(d.mid), f.in = d.in \o z
    PROVE  Way(f)
<1>0. d \in Ways /\ f \in Ways /\ Way(d) /\ Later(d.status, f.status) /\ Same(d, f, {"mid", "in"})
  BY DEF Turns
<1>1. PICK s \in {0, 1}, a \in Nat, b \in Nat :
        /\ Leg(d.in, d.inReader, 0, Len(d.got), a) /\ Leg(d.mid, d.midReader, s, a, b)
        /\ Leg(d.out, d.outReader, 0, b, d.wrote) /\ s <= d.first
        /\ Whole(d, a, b)
  BY <1>0, Unfolded
<1>2. /\ f.out = d.out /\ f.outReader = d.outReader /\ f.mid = Tail(d.mid)
      /\ f.midReader = d.midReader /\ f.in = d.in \o z /\ f.inReader = d.inReader
      /\ f.first = d.first /\ f.got = d.got /\ f.wrote = d.wrote /\ f.saw = d.saw
  BY <1>0 DEF Same, Fields
<1>3. /\ d.in \in Items /\ d.mid \in Items /\ d.out \in Items /\ Len(d.got) \in Nat /\ d.wrote \in Nat
      /\ d.inReader \in Presence /\ d.midReader \in Presence /\ d.outReader \in Presence
      /\ d.got \in Seq(Nat) /\ d.first \in {0, 1} /\ d.status \in Standing /\ f.status \in Standing
  BY <1>0, Unfolded DEF Ways, Standing
<1>4. s = 0
  BY <1>1, <1>3
<1>5. (d.midReader = "there" => a = b) /\ Leg(Tail(d.mid), d.midReader, 0, a, b)
  BY <1>1, <1>3, <1>4, LegTakeMark
<1>6. Leg(d.in \o z, d.inReader, 0, Len(d.got), a)
  BY <1>1, <1>3, LegMark
<1>7. Marked(d.mid) /\ (Marked(Tail(d.mid)) => Marked(d.mid))
  BY <1>3, MarksTaken
<1>8. Chained(f, 0, a, b)
  BY <1>0, <1>1, <1>2, <1>3, <1>5, <1>6 DEF Chained
<1>9. Whole(f, a, b)
  BY <1>0, <1>1, <1>2, <1>3, <1>5, <1>7 DEF Whole, Later, Standing
<1>10. \A k \in 1 .. Len(f.got) : f.got[k] = k
  BY <1>0, <1>2 DEF Way
<1> QED
  BY <1>8, <1>9, <1>10, <1>3 DEF Way

\* The first task takes an item and drops it, because nobody reads from the tunnel.
LEMMA WaySpillOut ==
    ASSUME NEW d, NEW f, Turns(d, f, {"out"}),
           d.out # <<>>, d.midReader = "gone",
           f.out = Tail(d.out)
    PROVE  Way(f)
<1>0. d \in Ways /\ f \in Ways /\ Way(d) /\ Later(d.status, f.status) /\ Same(d, f, {"out"})
  BY DEF Turns
<1>1. PICK s \in {0, 1}, a \in Nat, b \in Nat :
        /\ Leg(d.in, d.inReader, 0, Len(d.got), a) /\ Leg(d.mid, d.midReader, s, a, b)
        /\ Leg(d.out, d.outReader, 0, b, d.wrote) /\ s <= d.first
        /\ Whole(d, a, b)
  BY <1>0, Unfolded
<1>2. /\ f.out = Tail(d.out) /\ f.outReader = d.outReader /\ f.mid = d.mid
      /\ f.midReader = d.midReader /\ f.in = d.in /\ f.inReader = d.inReader
      /\ f.first = d.first /\ f.got = d.got /\ f.wrote = d.wrote /\ f.saw = d.saw
  BY <1>0 DEF Same, Fields
<1>3. /\ d.in \in Items /\ d.mid \in Items /\ d.out \in Items /\ Len(d.got) \in Nat /\ d.wrote \in Nat
      /\ d.inReader \in Presence /\ d.midReader \in Presence /\ d.outReader \in Presence
      /\ d.got \in Seq(Nat) /\ d.first \in {0, 1} /\ d.status \in Standing /\ f.status \in Standing
  BY <1>0, Unfolded DEF Ways, Standing
<1>4. PICK n \in Nat : Leg(Tail(d.out), d.outReader, 0, n, d.wrote) /\ Leg(d.mid, d.midReader, s, a, n)
  <2>1. Head(d.out).kind = "data" \/ Head(d.out).kind \in EndMark
    BY <1>1, <1>3, LegHeads
  <2>2. CASE Head(d.out).kind = "data"
    <3>1. b + 1 \in Nat /\ Leg(Tail(d.out), d.outReader, 0, b + 1, d.wrote)
      BY <2>2, <1>1, <1>3, LegTake
    <3>2. Leg(d.mid, d.midReader, s, a, b + 1)
      BY <1>1, <1>3, LegPutGone
    <3> QED
      BY <3>1, <3>2
  <2>3. CASE Head(d.out).kind \in EndMark
    <3>1. Leg(Tail(d.out), d.outReader, 0, b, d.wrote)
      BY <2>3, <1>1, <1>3, LegTakeMark
    <3> QED
      BY <3>1, <1>1
  <2> QED
    BY <2>1, <2>2, <2>3
<1>5. Chained(f, s, a, n)
  BY <1>0, <1>1, <1>2, <1>3, <1>4 DEF Chained
<1>6. Whole(f, a, n)
  BY <1>0, <1>1, <1>2, <1>3 DEF Whole, Later, Standing
<1>7. \A k \in 1 .. Len(f.got) : f.got[k] = k
  BY <1>0, <1>2 DEF Way
<1> QED
  BY <1>5, <1>6, <1>7, <1>3 DEF Way

\* The second task takes an item and drops it, because the reader is gone.
LEMMA WaySpillMid ==
    ASSUME NEW d, NEW f, Turns(d, f, {"mid"}),
           d.first = 0, d.mid # <<>>, d.inReader = "gone",
           f.mid = Tail(d.mid)
    PROVE  Way(f)
<1>0. d \in Ways /\ f \in Ways /\ Way(d) /\ Later(d.status, f.status) /\ Same(d, f, {"mid"})
  BY DEF Turns
<1>1. PICK s \in {0, 1}, a \in Nat, b \in Nat :
        /\ Leg(d.in, d.inReader, 0, Len(d.got), a) /\ Leg(d.mid, d.midReader, s, a, b)
        /\ Leg(d.out, d.outReader, 0, b, d.wrote) /\ s <= d.first
        /\ Whole(d, a, b)
  BY <1>0, Unfolded
<1>2. /\ f.out = d.out /\ f.outReader = d.outReader /\ f.mid = Tail(d.mid)
      /\ f.midReader = d.midReader /\ f.in = d.in /\ f.inReader = d.inReader
      /\ f.first = d.first /\ f.got = d.got /\ f.wrote = d.wrote /\ f.saw = d.saw
  BY <1>0 DEF Same, Fields
<1>3. /\ d.in \in Items /\ d.mid \in Items /\ d.out \in Items /\ Len(d.got) \in Nat /\ d.wrote \in Nat
      /\ d.inReader \in Presence /\ d.midReader \in Presence /\ d.outReader \in Presence
      /\ d.got \in Seq(Nat) /\ d.first \in {0, 1} /\ d.status \in Standing /\ f.status \in Standing
  BY <1>0, Unfolded DEF Ways, Standing
<1>4. s = 0
  BY <1>1, <1>3
<1>5. PICK n \in Nat : Leg(Tail(d.mid), d.midReader, 0, n, b) /\ Leg(d.in, d.inReader, 0, Len(d.got), n)
  <2>1. Head(d.mid).kind = "data" \/ Head(d.mid).kind \in EndMark
    BY <1>1, <1>3, <1>4, LegHeads
  <2>2. CASE Head(d.mid).kind = "data"
    <3>1. a + 1 \in Nat /\ Leg(Tail(d.mid), d.midReader, 0, a + 1, b)
      BY <2>2, <1>1, <1>3, <1>4, LegTake
    <3>2. Leg(d.in, d.inReader, 0, Len(d.got), a + 1)
      BY <1>1, <1>3, LegPutGone
    <3> QED
      BY <3>1, <3>2
  <2>3. CASE Head(d.mid).kind \in EndMark
    <3>1. Leg(Tail(d.mid), d.midReader, 0, a, b)
      BY <2>3, <1>1, <1>3, <1>4, LegTakeMark
    <3> QED
      BY <3>1, <1>1
  <2> QED
    BY <2>1, <2>2, <2>3
<1>6. Marked(Tail(d.mid)) => Marked(d.mid)
  BY <1>3, MarksTaken
<1>7. Chained(f, 0, n, b)
  BY <1>0, <1>1, <1>2, <1>3, <1>5, <1>4 DEF Chained
<1>8. Whole(f, n, b)
  BY <1>0, <1>1, <1>2, <1>3, <1>6 DEF Whole, Later, Standing
<1>9. \A k \in 1 .. Len(f.got) : f.got[k] = k
  BY <1>0, <1>2 DEF Way
<1> QED
  BY <1>7, <1>8, <1>9, <1>3 DEF Way

\* The relay sends the message that opens the connection.
LEMMA WayConnect ==
    ASSUME NEW d, NEW f, Turns(d, f, {"mid"}),
           d.mid = <<>>, d.first = 1, d.midReader = "there",
           f.mid = <<Mark("connect")>>
    PROVE  Way(f)
<1>0. d \in Ways /\ f \in Ways /\ Way(d) /\ Later(d.status, f.status) /\ Same(d, f, {"mid"})
  BY DEF Turns
<1>1. PICK s \in {0, 1}, a \in Nat, b \in Nat :
        /\ Leg(d.in, d.inReader, 0, Len(d.got), a) /\ Leg(d.mid, d.midReader, s, a, b)
        /\ Leg(d.out, d.outReader, 0, b, d.wrote) /\ s <= d.first
        /\ Whole(d, a, b)
  BY <1>0, Unfolded
<1>2. /\ f.out = d.out /\ f.outReader = d.outReader /\ f.mid = <<Mark("connect")>>
      /\ f.midReader = d.midReader /\ f.in = d.in /\ f.inReader = d.inReader
      /\ f.first = d.first /\ f.got = d.got /\ f.wrote = d.wrote /\ f.saw = d.saw
  BY <1>0 DEF Same, Fields
<1>3. /\ d.in \in Items /\ d.mid \in Items /\ d.out \in Items /\ Len(d.got) \in Nat /\ d.wrote \in Nat
      /\ d.inReader \in Presence /\ d.midReader \in Presence /\ d.outReader \in Presence
      /\ d.got \in Seq(Nat) /\ d.first \in {0, 1} /\ d.status \in Standing /\ f.status \in Standing
  BY <1>0, Unfolded DEF Ways, Standing
<1>4. a = b
  BY <1>1, <1>3, LegNone
<1>5. Leg(<<Mark("connect")>>, d.midReader, 1, a, a)
  BY <1>3, LegFirst
<1>6. ~Marked(<<Mark("connect")>>)
  BY ItemKinds, MarksOf
<1>7. Chained(f, 1, a, b)
  BY <1>0, <1>1, <1>2, <1>3, <1>4, <1>5 DEF Chained
<1>8. Whole(f, a, b)
  BY <1>0, <1>1, <1>2, <1>3, <1>6 DEF Whole, Later, Standing
<1>9. \A k \in 1 .. Len(f.got) : f.got[k] = k
  BY <1>0, <1>2 DEF Way
<1> QED
  BY <1>7, <1>8, <1>9, <1>3 DEF Way

\* The relay opens the connection with what it has read before.
LEMMA WayHello ==
    ASSUME NEW d, NEW f, Turns(d, f, {"mid", "out"}),
           d.mid = <<>>, d.first = 1, d.midReader = "there",
           d.out # <<>>, Head(d.out).kind = "data",
           f.mid = <<Mark("connect"), Head(d.out)>>, f.out = Tail(d.out)
    PROVE  Way(f)
<1>0. d \in Ways /\ f \in Ways /\ Way(d) /\ Later(d.status, f.status) /\ Same(d, f, {"mid", "out"})
  BY DEF Turns
<1>1. PICK s \in {0, 1}, a \in Nat, b \in Nat :
        /\ Leg(d.in, d.inReader, 0, Len(d.got), a) /\ Leg(d.mid, d.midReader, s, a, b)
        /\ Leg(d.out, d.outReader, 0, b, d.wrote) /\ s <= d.first
        /\ Whole(d, a, b)
  BY <1>0, Unfolded
<1>2. /\ f.out = Tail(d.out) /\ f.outReader = d.outReader
      /\ f.mid = <<Mark("connect"), Head(d.out)>> /\ f.midReader = d.midReader /\ f.in = d.in
      /\ f.inReader = d.inReader /\ f.first = d.first /\ f.got = d.got /\ f.wrote = d.wrote
      /\ f.saw = d.saw
  BY <1>0 DEF Same, Fields
<1>3. /\ d.in \in Items /\ d.mid \in Items /\ d.out \in Items /\ Len(d.got) \in Nat /\ d.wrote \in Nat
      /\ d.inReader \in Presence /\ d.midReader \in Presence /\ d.outReader \in Presence
      /\ d.got \in Seq(Nat) /\ d.first \in {0, 1} /\ d.status \in Standing /\ f.status \in Standing
  BY <1>0, Unfolded DEF Ways, Standing
<1>4. a = b
  BY <1>1, <1>3, LegNone
<1>5. Leg(<<Mark("connect")>>, "there", 1, b, b) /\ ~Marked(<<Mark("connect")>>)
  BY <1>3, LegFirst, ItemKinds, MarksOf
<1>6. b + 1 \in Nat /\ Head(d.out) = Data(b + 1) /\ Leg(Tail(d.out), d.outReader, 0, b + 1, d.wrote)
  BY <1>1, <1>3, LegTake
<1>7. <<Mark("connect"), Head(d.out)>> = <<Mark("connect")>> \o <<Head(d.out)>>
  BY Pair
<1>8. <<Mark("connect")>> \in Items
  BY ItemKinds, Single
<1>9. Leg(<<Mark("connect"), Head(d.out)>>, d.midReader, 1, a, b + 1)
  BY <1>4, <1>5, <1>6, <1>7, <1>8, LegPut
<1>10. ~Marked(<<Mark("connect"), Head(d.out)>>)
  <2>1. Head(d.out) \in Item /\ Head(d.out).kind \notin EndMark
    BY <1>3, HeadTail, ItemKinds
  <2> QED
    <3>1. <<Head(d.out)>> \in Items /\ ~Marked(<<Head(d.out)>>)
      BY <2>1, MarksOf, Single
    <3>2. ~Marked(<<Mark("connect")>> \o <<Head(d.out)>>)
      BY <3>1, <1>5, <1>8, MarksJoined
    <3> QED
      BY <3>2, <1>7
<1>11. Chained(f, 1, a, b + 1)
  BY <1>0, <1>1, <1>2, <1>3, <1>6, <1>9 DEF Chained
<1>12. Whole(f, a, b + 1)
  BY <1>0, <1>1, <1>2, <1>3, <1>10 DEF Whole, Later, Standing
<1>13. \A k \in 1 .. Len(f.got) : f.got[k] = k
  BY <1>0, <1>2 DEF Way
<1> QED
  BY <1>11, <1>12, <1>13, <1>3 DEF Way

\* The client takes the message that opens the connection.
LEMMA WayOpened ==
    ASSUME NEW d, NEW f, Turns(d, f, {"mid", "first"}),
           d.mid # <<>>, Head(d.mid).kind = "connect",
           f.mid = Tail(d.mid), f.first = 0
    PROVE  Way(f)
<1>0. d \in Ways /\ f \in Ways /\ Way(d) /\ Later(d.status, f.status) /\ Same(d, f, {"mid", "first"})
  BY DEF Turns
<1>1. PICK s \in {0, 1}, a \in Nat, b \in Nat :
        /\ Leg(d.in, d.inReader, 0, Len(d.got), a) /\ Leg(d.mid, d.midReader, s, a, b)
        /\ Leg(d.out, d.outReader, 0, b, d.wrote) /\ s <= d.first
        /\ Whole(d, a, b)
  BY <1>0, Unfolded
<1>2. /\ f.out = d.out /\ f.outReader = d.outReader /\ f.mid = Tail(d.mid)
      /\ f.midReader = d.midReader /\ f.in = d.in /\ f.inReader = d.inReader /\ f.first = 0
      /\ f.got = d.got /\ f.wrote = d.wrote /\ f.saw = d.saw
  BY <1>0 DEF Same, Fields
<1>3. /\ d.in \in Items /\ d.mid \in Items /\ d.out \in Items /\ Len(d.got) \in Nat /\ d.wrote \in Nat
      /\ d.inReader \in Presence /\ d.midReader \in Presence /\ d.outReader \in Presence
      /\ d.got \in Seq(Nat) /\ d.first \in {0, 1} /\ d.status \in Standing /\ f.status \in Standing
  BY <1>0, Unfolded DEF Ways, Standing
<1>4. Leg(Tail(d.mid), d.midReader, 0, a, b)
  <2>1. PICK q \in Items : q = d.mid
    BY <1>3
  <2>2. PICK r \in Presence : r = d.midReader
    BY <1>3
  <2> QED
    BY <2>1, <2>2, <1>1, LegTakeConnect
<1>5. Marked(Tail(d.mid)) => Marked(d.mid)
  BY <1>3, MarksTaken
<1>6. Chained(f, 0, a, b)
  BY <1>0, <1>1, <1>2, <1>3, <1>4 DEF Chained
<1>7. Whole(f, a, b)
  BY <1>0, <1>1, <1>2, <1>3, <1>5 DEF Whole, Later, Standing
<1>8. \A k \in 1 .. Len(f.got) : f.got[k] = k
  BY <1>0, <1>2 DEF Way
<1> QED
  BY <1>6, <1>7, <1>8, <1>3 DEF Way

\* The direction between the last words of a task and the closing of what it held.
Half(d, f, h, o, m, i) ==
    h \in Ways /\ Same(d, h, {"out", "mid", "in"}) /\ h.out = o /\ h.mid = m /\ h.in = i /\ h.status = f.status

\* There is such a value.
LEMMA Halfway ==
    ASSUME NEW d \in Ways, NEW f \in Ways, NEW o \in Items, NEW m \in Items, NEW i \in Items
    PROVE  \E h : Half(d, f, h, o, m, i)
<1> DEFINE h == [out |-> o, outReader |-> d.outReader, mid |-> m, midReader |-> d.midReader,
                 in |-> i, inReader |-> d.inReader, first |-> d.first, got |-> d.got,
                 wrote |-> d.wrote, saw |-> d.saw, status |-> f.status]
<1>1. h \in Ways
  BY DEF Ways
<1>2. Same(d, h, {"out", "mid", "in"})
  BY DEF Same, Fields
<1> QED
  BY <1>1, <1>2 DEF Half

\* A pipe is as it was, or closed.
Closing(q, r, p, u) == (p = q /\ u = r) \/ (p = <<>> /\ u = "gone")

\* Closing what the tasks held does a direction no harm.
LEMMA WayCloses ==
    ASSUME NEW d, NEW f, NEW h, NEW o, NEW m, NEW i, Half(d, f, h, o, m, i), Way(h), f \in Ways,
           Same(d, f, {"out", "outReader", "mid", "midReader", "in"}), f.in = i,
           Closing(o, d.outReader, f.out, f.outReader), Closing(m, d.midReader, f.mid, f.midReader)
    PROVE  Way(f)
<1>1. h \in Ways /\ h.out = o /\ h.mid = m /\ h.in = i /\ h.status = f.status
  BY DEF Half
<1>2. /\ h.outReader = d.outReader /\ h.midReader = d.midReader /\ h.inReader = d.inReader
      /\ h.first = d.first /\ h.got = d.got /\ h.wrote = d.wrote /\ h.saw = d.saw
  BY DEF Half, Same, Fields
<1>3. /\ f.inReader = d.inReader /\ f.first = d.first /\ f.got = d.got /\ f.wrote = d.wrote /\ f.saw = d.saw
  BY DEF Same, Fields
<1>4. PICK s \in {0, 1}, a \in Nat, b \in Nat :
        /\ Leg(h.in, h.inReader, 0, Len(h.got), a) /\ Leg(h.mid, h.midReader, s, a, b)
        /\ Leg(h.out, h.outReader, 0, b, h.wrote) /\ s <= h.first
        /\ Whole(h, a, b)
  BY <1>1, Unfolded
<1>5. /\ h.mid \in Items /\ h.out \in Items /\ h.midReader \in Presence /\ h.outReader \in Presence
      /\ h.wrote \in Nat
  BY <1>1, Unfolded
<1>6. Leg(f.out, f.outReader, 0, b, f.wrote)
  <2>1. CASE f.out = o /\ f.outReader = d.outReader
    BY <2>1, <1>1, <1>2, <1>3, <1>4
  <2>2. CASE f.out = <<>> /\ f.outReader = "gone"
    BY <2>2, <1>3, <1>2, <1>4, <1>5, MarksOf, LegGone
  <2> QED
    BY <2>1, <2>2 DEF Closing
<1>7. Leg(f.mid, f.midReader, s, a, b)
  <2>1. CASE f.mid = m /\ f.midReader = d.midReader
    BY <2>1, <1>1, <1>2, <1>4
  <2>2. CASE f.mid = <<>> /\ f.midReader = "gone"
    BY <2>2, <1>4, <1>5, MarksOf, LegGone
  <2> QED
    BY <2>1, <2>2 DEF Closing
<1>8. Chained(f, s, a, b)
  BY <1>1, <1>2, <1>3, <1>4, <1>6, <1>7 DEF Chained
<1>9. Whole(f, a, b)
  BY <1>1, <1>2, <1>3, <1>4 DEF Whole, Closing
<1>10. \A k \in 1 .. Len(f.got) : f.got[k] = k
  BY <1>1, <1>2, <1>3 DEF Way
<1> QED
  BY <1>8, <1>9, <1>10 DEF Way

\* What a task leaves behind in a pipe are marks.
LEMMA Trail ==
    ASSUME NEW q \in Items, NEW c \in Items, c \in {<<>>, <<Mark("close")>>}
    PROVE  /\ OnlyMarks(c) /\ (c = <<>> => Plain(c))
           /\ \E z \in Items : Append(q \o c, Mark("fin")) = q \o z /\ OnlyMarks(z) /\ (c = <<>> => Plain(z))
<1>1. PICK x \in Item : x = Mark("fin") /\ x.kind = "fin" /\ x.kind \in EndMark
  BY ItemKinds DEF EndMark
<1>2. PICK f \in Items : f = <<x>> /\ OnlyMarks(f) /\ Plain(f)
  BY <1>1, Single, MarksOf
<1>3. OnlyMarks(c) /\ (c = <<>> => Plain(c))
  BY MarksOf, ItemKinds DEF EndMark
<1>4. PICK z \in Items : z = c \o f /\ OnlyMarks(z) /\ (c = <<>> => Plain(z))
  BY <1>2, <1>3, Joined, MarksJoined
<1>5. PICK p \in Items : p = q \o c
  BY Joined
<1>6. Append(p, x) = p \o f
  BY <1>2, <1>5, AppendIsConcat DEF Items
<1>7. p \o f = q \o z
  BY <1>4, <1>5, ConcatAssociative DEF Items
<1> QED
  BY <1>1, <1>3, <1>4, <1>5, <1>6, <1>7

\* What the end of tasks does to a direction before what they held is closed: the task at
\* its writer ends, the one at its reader, or neither, and then one may end for no reason
\* that lies in this direction.
Ended(d, f, o, m, i) ==
    \/ /\ d.out # <<>> /\ o = Tail(d.out) /\ i = d.in
       /\ \/ d.midReader = "gone" /\ m = d.mid
          \/ /\ Head(d.out).kind \in EndMark /\ \E z \in Items : m = d.mid \o z /\ OnlyMarks(z)
             /\ f.status = "excused" \/ (f.status = "shut" /\ d.outReader = "there")
    \/ /\ d.first = 0 /\ d.mid # <<>> /\ o = d.out /\ m = Tail(d.mid)
       /\ \/ d.inReader = "gone" /\ i = d.in
          \/ /\ Head(d.mid).kind \in EndMark /\ \E z \in Items : i = d.in \o z /\ OnlyMarks(z)
             /\ f.status = "excused" \/ d.midReader = "there"
    \/ o = d.out /\ m = d.mid /\ i = d.in
    \/ /\ o = d.out /\ i = d.in /\ f.status = "excused"
       /\ \E z \in Items : m = d.mid \o z /\ OnlyMarks(z)
    \/ /\ o = d.out /\ m = d.mid /\ f.status = "excused"
       /\ \E z \in Items : i = d.in \o z /\ OnlyMarks(z)

\* The end of tasks leaves a direction as it must be.
LEMMA WayEnds ==
    ASSUME NEW d, NEW f, NEW o \in Items, NEW m \in Items, NEW i \in Items,
           Turns(d, f, {"out", "outReader", "mid", "midReader", "in"}), f.in = i, Ended(d, f, o, m, i),
           Closing(o, d.outReader, f.out, f.outReader), Closing(m, d.midReader, f.mid, f.midReader)
    PROVE  Way(f)
<1>0. /\ d \in Ways /\ f \in Ways /\ Way(d) /\ Later(d.status, f.status)
      /\ Same(d, f, {"out", "outReader", "mid", "midReader", "in"})
  BY DEF Turns
<1>1. PICK h : Half(d, f, h, o, m, i)
  BY <1>0, Halfway
<1>2. /\ h \in Ways /\ Same(d, h, {"out", "mid", "in"}) /\ h.out = o /\ h.mid = m /\ h.in = i
      /\ h.status = f.status
  BY <1>1 DEF Half
<1>3. /\ o = d.out => Same(d, h, {"mid", "in"})
      /\ i = d.in => Same(d, h, {"out", "mid"})
      /\ o = d.out /\ i = d.in => Same(d, h, {"mid"})
      /\ o = d.out /\ m = d.mid => Same(d, h, {"in"})
      /\ i = d.in /\ m = d.mid => Same(d, h, {"out"})
      /\ o = d.out /\ m = d.mid /\ i = d.in => Same(d, h, {})
  BY <1>2 DEF Same, Fields
<1>4. \A c : Same(d, h, c) => Turns(d, h, c)
  BY <1>0, <1>2 DEF Turns
<1>5. Way(h)
  <2>1. CASE d.out # <<>> /\ o = Tail(d.out) /\ i = d.in /\ d.midReader = "gone" /\ m = d.mid
    BY <2>1, <1>2, <1>3, <1>4, WaySpillOut
  <2>2. CASE /\ d.out # <<>> /\ o = Tail(d.out) /\ i = d.in
             /\ Head(d.out).kind \in EndMark /\ \E z \in Items : m = d.mid \o z /\ OnlyMarks(z)
             /\ f.status = "excused" \/ (f.status = "shut" /\ d.outReader = "there")
    BY <2>2, <1>2, <1>3, <1>4, WayEndOut
  <2>3. CASE d.first = 0 /\ d.mid # <<>> /\ o = d.out /\ m = Tail(d.mid) /\ d.inReader = "gone" /\ i = d.in
    BY <2>3, <1>2, <1>3, <1>4, WaySpillMid
  <2>4. CASE /\ d.first = 0 /\ d.mid # <<>> /\ o = d.out /\ m = Tail(d.mid)
             /\ Head(d.mid).kind \in EndMark /\ \E z \in Items : i = d.in \o z /\ OnlyMarks(z)
             /\ f.status = "excused" \/ d.midReader = "there"
    BY <2>4, <1>2, <1>3, <1>4, WayEndMid
  <2>5. CASE o = d.out /\ m = d.mid /\ i = d.in
    BY <2>5, <1>3, <1>4, WayStays
  <2>6. CASE o = d.out /\ i = d.in /\ f.status = "excused" /\ \E z \in Items : m = d.mid \o z /\ OnlyMarks(z)
    BY <2>6, <1>2, <1>3, <1>4, WayMarkMid
  <2>7. CASE o = d.out /\ m = d.mid /\ f.status = "excused" /\ \E z \in Items : i = d.in \o z /\ OnlyMarks(z)
    BY <2>7, <1>2, <1>3, <1>4, WayMarkIn
  <2> QED
    BY <2>1, <2>2, <2>3, <2>4, <2>5, <2>6, <2>7 DEF Ended
<1> QED
  BY <1>0, <1>1, <1>5, WayCloses

-----------------------------------------------------------------------------
(***************************************************************************)
(* The invariant is kept by every step.                                    *)
(***************************************************************************)
\* Which pipes, ends and tasks there are.
LEMMA Names ==
    /\ SocketEnd = {"visitor", "service"}
    /\ Task = {"upRelay", "upClient", "downClient", "downRelay"}
    /\ Pipe = {"visitorUp", "serviceUp", "visitorDown", "serviceDown", "tunnelUp", "tunnelDown"}
    /\ Peer["visitor"] = "service" /\ Peer["service"] = "visitor"
    /\ Out["visitor"] = "visitorUp" /\ Out["service"] = "serviceDown"
    /\ In["visitor"] = "visitorDown" /\ In["service"] = "serviceUp"
    /\ Middle["visitor"] = "tunnelDown" /\ Middle["service"] = "tunnelUp"
    /\ From["upRelay"] = "visitorUp" /\ To["upRelay"] = "tunnelUp"
    /\ From["upClient"] = "tunnelUp" /\ To["upClient"] = "serviceUp"
    /\ From["downClient"] = "serviceDown" /\ To["downClient"] = "tunnelDown"
    /\ From["downRelay"] = "tunnelDown" /\ To["downRelay"] = "visitorDown"
BY DEF SocketEnd, Task, Pipe, Tunnel, Peer, Out, In, Middle, From, To

\* A direction is well formed.
LEMMA DirType ==
    ASSUME StreamTypes, NEW e \in SocketEnd
    PROVE  Dir(e) \in Ways
BY Names DEF StreamTypes, Dir, Ways, Reader, Presence, First, Status

\* A step on the writer's pipe alone leaves the rest of the direction as it was.
LEMMA OutGrows ==
    ASSUME NEW e \in SocketEnd, NEW o \in SocketEnd, Peer[o] = e, NEW q, NEW r,
           pipe[Out[e]] = q, pipe'[Out[e]] = r, Out[e] \in unread' <=> Out[e] \in unread,
           \A k \in {Middle[o], In[o]} : pipe'[k] = pipe[k] /\ (k \in unread' <=> k \in unread),
           UNCHANGED <<got, wrote, saw, clientPhase>>
    PROVE  Same(Dir(o), Dir(o)', {"out"}) /\ Dir(o).out = q /\ Dir(o)'.out = r
<1>1. /\ Reader(Out[e])' = Reader(Out[e]) /\ Reader(Middle[o])' = Reader(Middle[o])
      /\ Reader(In[o])' = Reader(In[o]) /\ First(o)' = First(o)
  BY DEF Reader, First
<1>2. /\ Dir(o).out = q /\ Dir(o).outReader = Reader(Out[e])
      /\ Dir(o).mid = pipe[Middle[o]] /\ Dir(o).midReader = Reader(Middle[o])
      /\ Dir(o).in = pipe[In[o]] /\ Dir(o).inReader = Reader(In[o]) /\ Dir(o).first = First(o)
      /\ Dir(o).got = got[o] /\ Dir(o).wrote = wrote[e] /\ Dir(o).saw = saw[o]
  BY DEF Dir
<1>3. /\ Dir(o)'.out = r /\ Dir(o)'.outReader = Reader(Out[e])'
      /\ Dir(o)'.mid = pipe[Middle[o]] /\ Dir(o)'.midReader = Reader(Middle[o])'
      /\ Dir(o)'.in = pipe[In[o]] /\ Dir(o)'.inReader = Reader(In[o])' /\ Dir(o)'.first = First(o)'
      /\ Dir(o)'.got = got[o] /\ Dir(o)'.wrote = wrote[e] /\ Dir(o)'.saw = saw[o]
  BY DEF Dir
<1> QED
  BY <1>1, <1>2, <1>3 DEF Same, Fields

\* Time does not take an excuse away.
Onward ==
    /\ kind' = kind /\ (tunnelLink = "lost" => tunnelLink' = "lost") /\ (Failed => Failed')
    /\ \A e \in SocketEnd : \/ end'[e] = end[e] \/ end'[e] = "aborted"
                            \/ end[e] = "open" /\ end'[e] = "shut"

\* The standing of a direction only moves on.
LEMMA StatusLater ==
    ASSUME StreamTypes, Onward, NEW e \in SocketEnd
    PROVE  Status(e)' \in Standing /\ Later(Status(e), Status(e)')
<1>1. Peer[e] \in SocketEnd
  BY Names
<1>2. Excused(e) => Excused(e)'
  BY <1>1 DEF Excused, Onward
<1>3. end[Peer[e]] # "open" => end'[Peer[e]] # "open"
  BY <1>1 DEF Onward
<1> QED
  BY <1>2, <1>3 DEF Status, Standing, Later

\* A pipe that is not empty keeps its head when something is appended.
LEMMA HeadJoined ==
    ASSUME NEW q \in Items, NEW r \in Items, q # <<>>
    PROVE  q \o r # <<>> /\ Head(q \o r) = Head(q)
<1>1. Len(q) \in Nat \ {0} /\ Head(q) = q[1] /\ 1 \in 1 .. Len(q)
  BY HeadTail
<1>2. q \o r \in Items /\ Len(q \o r) = Len(q) + Len(r) /\ Len(r) \in Nat /\ (q \o r)[1] = q[1]
  BY <1>1, Joined
<1>3. q \o r # <<>>
  <2>1. Len(q \o r) # 0
    BY <1>1, <1>2
  <2> QED
    BY <2>1
<1>4. Head(q \o r) = (q \o r)[1]
  BY <1>2, <1>3, HeadTail
<1> QED
  BY <1>1, <1>2, <1>3, <1>4

\* All there is to know about a pipe that something was appended to.
LEMMA Appended ==
    ASSUME NEW q \in Items, NEW z \in Items
    PROVE  \E r \in Items : /\ r = q \o z
                            /\ Marked(r) <=> Marked(q) \/ Marked(z)
                            /\ Plain(q) /\ Plain(z) => Plain(r)
                            /\ q # <<>> => r # <<>> /\ Head(r) = Head(q)
BY Joined, MarksJoined, HeadJoined

\* A step turns a direction into its next value.
LEMMA Turning ==
    ASSUME StreamInv, StreamTypes', Onward, NEW e \in SocketEnd, NEW changed, Same(Dir(e), Dir(e)', changed)
    PROVE  Turns(Dir(e), Dir(e)', changed)
<1>1. Dir(e) \in Ways /\ Way(Dir(e))
  BY DirType DEF StreamInv, Directions
<1>2. Dir(e)' \in Ways
  BY Names DEF StreamTypes, Dir, Ways, Reader, Presence, First, Status
<1>3. Later(Dir(e).status, Dir(e)'.status)
  BY StatusLater DEF Dir, StreamInv
<1> QED
  BY <1>1, <1>2, <1>3 DEF Turns

\* An end writes a chunk.
LEMMA WriteKeeps ==
    ASSUME StreamInv, NEW e \in SocketEnd, Write(e)
    PROVE  StreamInv'
<1> USE Names
<1>0. StreamTypes /\ SocketKinds /\ Phases /\ Recorded /\ Reasons /\ QuietTasks /\ Directions
  BY DEF StreamInv
<1>1. PICK q \in Items : q = pipe[Out[e]]
  BY <1>0 DEF StreamTypes
<1>2. PICK x \in Item : x = Data(wrote[e] + 1) /\ x.kind = "data"
  BY <1>0, ItemKinds DEF StreamTypes
<1>3. PICK z \in Items : z = <<x>> /\ ~Marked(z)
  BY <1>2, Single, MarksOf, ItemKinds
<1>4. PICK r \in Items : /\ r = (IF Out[e] \in unread THEN q ELSE q \o <<x>>)
                         /\ Marked(r) => Marked(q)
                         /\ q # <<>> => r # <<>> /\ Head(r) = Head(q)
  <2>1. PICK p \in Items : /\ p = q \o z
                           /\ Marked(p) <=> Marked(q) \/ Marked(z)
                           /\ Plain(q) /\ Plain(z) => Plain(p)
                           /\ q # <<>> => p # <<>> /\ Head(p) = Head(q)
    BY Appended, Zenon
  <2> QED
    BY <2>1, <1>3
<1>5. pipe' = [pipe EXCEPT ![Out[e]] = r]
  BY <1>0, <1>1, <1>2, <1>4 DEF Write, Put, StreamTypes
<1>6. /\ wrote' = [wrote EXCEPT ![e] = @ + 1] /\ end[e] = "open"
      /\ UNCHANGED <<unread, task, relayPhase, record, clientPhase, got, end, saw, tunnelLink, kind>>
  BY DEF Write
<1>7. StreamTypes'
  BY <1>0, <1>5, <1>6 DEF StreamTypes
<1>8. SocketKinds'
  BY <1>0, <1>5, <1>6 DEF SocketKinds, StreamTypes
<1>9. Phases'
  BY <1>0, <1>1, <1>4, <1>5, <1>6 DEF Phases, Unsent, StreamTypes
<1>10. Recorded'
  BY <1>0, <1>6 DEF Recorded, RecordClosed
<1>11. Reasons'
  BY <1>0, <1>1, <1>4, <1>5, <1>6 DEF Reasons, StreamTypes, Failed
<1>12. QuietTasks'
  BY <1>0, <1>1, <1>4, <1>5, <1>6 DEF QuietTasks, Quiet, PhaseOf, StreamTypes
<1>13. Onward
  BY <1>0, <1>6 DEF Onward, Failed
<1>14. PICK o \in SocketEnd : o = Peer[e] /\ Peer[o] = e /\ \A g \in SocketEnd : g \in {e, o}
  OBVIOUS
<1>15. Way(Dir(e)')
  <2>1. Same(Dir(e), Dir(e)', {})
    BY <1>0, <1>5, <1>6 DEF Same, Fields, Dir, Reader, First, StreamTypes
  <2> QED
    BY <2>1, <1>7, <1>13, Turning, WayStays
<1>16. Way(Dir(o)')
  <2>1. /\ Dir(o).status # "shut" /\ Dir(o)'.status # "shut" /\ Dir(o)'.wrote = Dir(o).wrote + 1
        /\ Dir(o).out = q /\ Dir(o)'.out = r /\ Dir(o).wrote = wrote[e]
    BY <1>0, <1>1, <1>5, <1>6, <1>14 DEF Dir, Status, StreamTypes
  <2>2. CASE Out[e] \in unread
    <3>1. Same(Dir(o), Dir(o)', {"wrote"}) /\ Dir(o).outReader = "gone"
      BY <1>0, <1>1, <1>4, <1>5, <1>6, <1>14, <2>2 DEF Same, Fields, Dir, Reader, First, StreamTypes
    <3>2. Turns(Dir(o), Dir(o)', {"wrote"})
      BY <3>1, <1>7, <1>13, Turning
    <3> QED
      BY <3>1, <3>2, <2>1, WayLost
  <2>3. CASE Out[e] \notin unread
    <3>1. Same(Dir(o), Dir(o)', {"out", "wrote"}) /\ Dir(o).outReader = "there" /\ ~Marked(q)
      BY <1>0, <1>1, <1>5, <1>6, <1>14, <2>3 DEF Same, Fields, Dir, Reader, First, StreamTypes, Reasons
    <3>2. Turns(Dir(o), Dir(o)', {"out", "wrote"})
      BY <3>1, <1>7, <1>13, Turning
    <3>3. Dir(o)'.out = Dir(o).out \o <<Data(Dir(o).wrote + 1)>>
      BY <2>1, <2>3, <1>2, <1>4
    <3> QED
      BY <3>1, <3>2, <3>3, <2>1, WayWrite
  <2> QED
    BY <2>2, <2>3
<1>17. Directions'
  BY <1>14, <1>15, <1>16 DEF Directions
<1> QED
  BY <1>7, <1>8, <1>9, <1>10, <1>11, <1>12, <1>17 DEF StreamInv

\* An end shuts its side down.
LEMMA ShutKeeps ==
    ASSUME StreamInv, NEW e \in SocketEnd, Shut(e)
    PROVE  StreamInv'
<1> USE Names
<1>0. StreamTypes /\ SocketKinds /\ Phases /\ Recorded /\ Reasons /\ QuietTasks /\ Directions
  BY DEF StreamInv
<1>1. PICK q \in Items : q = pipe[Out[e]]
  BY <1>0 DEF StreamTypes
<1>2. PICK x \in Item : x = Mark("fin") /\ x.kind \in EndMark
  BY ItemKinds DEF EndMark
<1>3. PICK z \in Items : z = <<x>> /\ OnlyMarks(z)
  BY <1>2, Single, MarksOf
<1>4. PICK p \in Items : /\ p = q \o z
                         /\ Marked(p) <=> Marked(q) \/ Marked(z)
                         /\ Plain(q) /\ Plain(z) => Plain(p)
                         /\ q # <<>> => p # <<>> /\ Head(p) = Head(q)
  BY Appended, Zenon
<1>5. PICK r \in Items : r = IF Out[e] \in unread THEN q ELSE p
  OBVIOUS
<1>6. pipe' = [pipe EXCEPT ![Out[e]] = r]
  BY <1>0, <1>1, <1>2, <1>3, <1>4, <1>5 DEF Shut, Put, StreamTypes
<1>7. /\ end' = [end EXCEPT ![e] = "shut"] /\ end[e] = "open"
      /\ UNCHANGED <<unread, task, relayPhase, record, clientPhase, wrote, got, saw, tunnelLink, kind>>
  BY DEF Shut
<1>8. StreamTypes'
  BY <1>0, <1>6, <1>7 DEF StreamTypes
<1>9. SocketKinds'
  BY <1>0, <1>6, <1>7 DEF SocketKinds, StreamTypes
<1>10. Phases'
  BY <1>0, <1>1, <1>4, <1>5, <1>6, <1>7, SMTT(60) DEF Phases, Unsent, StreamTypes
<1>11. Recorded'
  BY <1>0, <1>7 DEF Recorded, RecordClosed
<1>12. Reasons'
  BY <1>0, <1>1, <1>4, <1>5, <1>6, <1>7 DEF Reasons, StreamTypes, Failed
<1>13. QuietTasks'
  BY <1>0, <1>1, <1>6, <1>7 DEF QuietTasks, Quiet, PhaseOf, StreamTypes
<1>14. Onward
  BY <1>0, <1>7 DEF Onward, Failed, StreamTypes
<1>15. PICK o \in SocketEnd : o = Peer[e] /\ Peer[o] = e /\ \A g \in SocketEnd : g \in {e, o}
  OBVIOUS
<1>16. Way(Dir(e)')
  <2>1. Same(Dir(e), Dir(e)', {})
    BY <1>0, <1>6, <1>7 DEF Same, Fields, Dir, Reader, First, StreamTypes
  <2> QED
    BY <2>1, <1>8, <1>14, Turning, WayStays
<1>17. Way(Dir(o)')
  <2>1. CASE Out[e] \in unread
    <3>1. Same(Dir(o), Dir(o)', {})
      BY <1>0, <1>1, <1>5, <1>6, <1>7, <1>15, <2>1 DEF Same, Fields, Dir, Reader, First, StreamTypes
    <3> QED
      BY <3>1, <1>8, <1>14, Turning, WayStays
  <2>2. CASE Out[e] \notin unread
    <3>1. Same(Dir(o), Dir(o)', {"out"}) /\ Dir(o).out = q /\ Dir(o)'.out = q \o z
      <4>1. pipe'[Out[e]] = q \o z
        BY <1>0, <1>4, <1>5, <1>6, <2>2 DEF StreamTypes
      <4>2. \A k \in {Middle[o], In[o]} : pipe'[k] = pipe[k] /\ (k \in unread' <=> k \in unread)
        BY <1>0, <1>6, <1>7, <1>15 DEF StreamTypes
      <4>3. Peer[o] = e /\ pipe[Out[e]] = q /\ (Out[e] \in unread' <=> Out[e] \in unread)
        BY <1>1, <1>7, <1>15
      <4>4. UNCHANGED <<got, wrote, saw, clientPhase>>
        BY <1>7
      <4> HIDE Names
      <4> QED
        BY <4>1, <4>2, <4>3, <4>4, OutGrows
    <3>2. Turns(Dir(o), Dir(o)', {"out"})
      BY <3>1, <1>8, <1>14, Turning
    <3> QED
      BY <3>1, <3>2, <1>3, WayMarkOut
  <2> QED
    BY <2>1, <2>2
<1>18. Directions'
  BY <1>15, <1>16, <1>17 DEF Directions
<1> QED
  BY <1>8, <1>9, <1>10, <1>11, <1>12, <1>13, <1>18 DEF StreamInv

\* An end aborts.
LEMMA AbortKeeps ==
    ASSUME StreamInv, NEW e \in SocketEnd, Abort(e)
    PROVE  StreamInv'
<1> USE Names
<1>0. StreamTypes /\ SocketKinds /\ Phases /\ Recorded /\ Reasons /\ QuietTasks /\ Directions
  BY DEF StreamInv
<1>1. PICK q \in Items : q = pipe[Out[e]]
  BY <1>0 DEF StreamTypes
<1>2. PICK x \in Item : x = Mark("reset") /\ x.kind \in EndMark
  BY ItemKinds DEF EndMark
<1>3. PICK z \in Items : z = (IF end[e] = "open" THEN <<x>> ELSE <<>>) /\ OnlyMarks(z)
  BY <1>2, Single, MarksOf
<1>4. PICK p \in Items : /\ p = q \o z
                         /\ Marked(p) <=> Marked(q) \/ Marked(z)
                         /\ Plain(q) /\ Plain(z) => Plain(p)
                         /\ q # <<>> => p # <<>> /\ Head(p) = Head(q)
  BY Appended, Zenon
<1>5. PICK r \in Items : r = IF Out[e] \in unread THEN q ELSE p
  OBVIOUS
<1>6. PICK n \in Items : n = <<>> /\ ~Marked(n) /\ Plain(n) /\ OnlyMarks(n)
  BY MarksOf
<1>7. /\ pipe' \in [Pipe -> Items] /\ pipe'[Out[e]] = r /\ pipe'[In[e]] = n
      /\ \A k \in Pipe : k \notin {Out[e], In[e]} => pipe'[k] = pipe[k]
  <2>1. pipe' = [Put(pipe, Out[e], z) EXCEPT ![In[e]] = n]
    BY <1>2, <1>3, <1>6 DEF Abort
  <2>2. Put(pipe, Out[e], z) = [pipe EXCEPT ![Out[e]] = r]
    BY <1>0, <1>1, <1>4, <1>5 DEF Put, StreamTypes
  <2> QED
    BY <2>1, <2>2, <1>0 DEF StreamTypes
<1>8. /\ end' = [end EXCEPT ![e] = "aborted"] /\ unread' = unread \cup {In[e]}
      /\ UNCHANGED <<task, relayPhase, record, clientPhase, wrote, got, saw, tunnelLink, kind>>
  BY DEF Abort
<1>9. StreamTypes'
  <2>1. unread' \subseteq Pipe
    <3>1. In[e] \in Pipe
      OBVIOUS
    <3> QED
      BY <3>1, <1>0, <1>8, ZenonT(60) DEF StreamTypes
  <2> QED
    BY <2>1, <1>0, <1>7, <1>8 DEF StreamTypes
<1>10. SocketKinds'
  BY <1>0, <1>6, <1>7, <1>8 DEF SocketKinds, StreamTypes
<1>11. Phases'
  <2>1. /\ pipe'["tunnelUp"] = pipe["tunnelUp"] /\ pipe'["tunnelDown"] = pipe["tunnelDown"]
        /\ "tunnelUp" \in unread' <=> "tunnelUp" \in unread
        /\ "tunnelDown" \in unread' <=> "tunnelDown" \in unread
    BY <1>7, <1>8
  <2>2. pipe["visitorUp"] # <<>> => pipe'["visitorUp"] # <<>> /\ Head(pipe'["visitorUp"]) = Head(pipe["visitorUp"])
    <3>1. CASE e = "visitor"
      <4>1. pipe'["visitorUp"] = r /\ pipe["visitorUp"] = q
        BY <3>1, <1>1, <1>7
      <4> QED
        BY <4>1, <1>4, <1>5
    <3>2. CASE e = "service"
      BY <3>2, <1>7
    <3> QED
      BY <3>1, <3>2
  <2> QED
    BY <2>1, <2>2, <1>0, <1>8 DEF Phases, Unsent
<1>12. Recorded'
  BY <1>0, <1>8 DEF Recorded, RecordClosed
<1>13. Reasons'
  BY <1>0, <1>1, <1>4, <1>5, <1>6, <1>7, <1>8 DEF Reasons, StreamTypes, Failed
<1>14. QuietTasks'
  BY <1>0, <1>1, <1>6, <1>7, <1>8 DEF QuietTasks, Quiet, PhaseOf, StreamTypes
<1>15. Onward
  BY <1>0, <1>8 DEF Onward, Failed, StreamTypes
<1>16. PICK o \in SocketEnd : o = Peer[e] /\ Peer[o] = e /\ \A g \in SocketEnd : g \in {e, o}
  OBVIOUS
<1>17. Way(Dir(e)')
  <2>1. Same(Dir(e), Dir(e)', {"in", "inReader"}) /\ Dir(e)'.in = n /\ Dir(e)'.inReader = "gone"
    BY <1>0, <1>7, <1>8 DEF Same, Fields, Dir, Reader, First, StreamTypes
  <2>2. Turns(Dir(e), Dir(e)', {"in", "inReader"})
    BY <2>1, <1>9, <1>15, Turning
  <2> QED
    BY <2>1, <2>2, <1>6, WayDropIn
<1>18. Way(Dir(o)')
  <2>1. CASE Out[e] \in unread
    <3>1. Same(Dir(o), Dir(o)', {})
      BY <1>0, <1>1, <1>5, <1>7, <1>8, <1>16, <2>1 DEF Same, Fields, Dir, Reader, First, StreamTypes
    <3> QED
      BY <3>1, <1>9, <1>15, Turning, WayStays
  <2>2. CASE Out[e] \notin unread
    <3>1. Same(Dir(o), Dir(o)', {"out"}) /\ Dir(o).out = q /\ Dir(o)'.out = q \o z
      <4>1. pipe'[Out[e]] = q \o z
        BY <1>4, <1>5, <1>7, <2>2
      <4>2. \A k \in {Middle[o], In[o]} : pipe'[k] = pipe[k] /\ (k \in unread' <=> k \in unread)
        BY <1>7, <1>8, <1>16
      <4>3. Peer[o] = e /\ pipe[Out[e]] = q /\ (Out[e] \in unread' <=> Out[e] \in unread)
        BY <1>1, <1>8, <1>16
      <4>4. UNCHANGED <<got, wrote, saw, clientPhase>>
        BY <1>8
      <4> HIDE Names
      <4> QED
        BY <4>1, <4>2, <4>3, <4>4, OutGrows
    <3>2. Turns(Dir(o), Dir(o)', {"out"})
      BY <3>1, <1>9, <1>15, Turning
    <3> QED
      BY <3>1, <3>2, <1>3, WayMarkOut
  <2> QED
    BY <2>1, <2>2
<1>19. Directions'
  BY <1>16, <1>17, <1>18 DEF Directions
<1> QED
  BY <1>9, <1>10, <1>11, <1>12, <1>13, <1>14, <1>19 DEF StreamInv

\* An end reads.
LEMMA ReadKeeps ==
    ASSUME StreamInv, NEW e \in SocketEnd, Read(e)
    PROVE  StreamInv'
<1> USE Names
<1>0. StreamTypes /\ SocketKinds /\ Phases /\ Recorded /\ Reasons /\ QuietTasks /\ Directions
  BY DEF StreamInv
<1>1. PICK q \in Items : q = pipe[In[e]]
  BY <1>0 DEF StreamTypes
<1>2. PICK x \in Item : x = Head(q) /\ x.kind \in {"data", "fin"}
  BY <1>0, <1>1, HeadTail, MarksTaken DEF Read, SocketKinds
<1>3. PICK r \in Items : r = Tail(q) /\ (Marked(r) => Marked(q)) /\ (Plain(q) => Plain(r))
  BY <1>1, HeadTail, MarksTaken DEF Read
<1>4. pipe' = [pipe EXCEPT ![In[e]] = r]
  BY <1>1, <1>3 DEF Read
<1>5. /\ got' = IF x.kind = "fin" THEN got ELSE [got EXCEPT ![e] = Append(@, x.n)]
      /\ saw' = IF x.kind = "fin" THEN [saw EXCEPT ![e] = "eof"] ELSE saw
      /\ UNCHANGED <<unread, task, relayPhase, record, clientPhase, wrote, end, tunnelLink, kind>>
      /\ end[e] # "aborted" /\ q # <<>>
  BY <1>1, <1>2 DEF Read
<1>6. got' \in [SocketEnd -> Seq(Nat)]
  <2>1. x.n \in Nat /\ got[e] \in Seq(Nat)
    BY <1>0 DEF Item, StreamTypes
  <2>2. Append(got[e], x.n) \in Seq(Nat)
    BY <2>1, AppendProperties
  <2> QED
    BY <2>2, <1>0, <1>5 DEF StreamTypes
<1>7. StreamTypes'
  BY <1>0, <1>4, <1>5, <1>6 DEF StreamTypes
<1>8. SocketKinds'
  BY <1>0, <1>1, <1>3, <1>4, <1>5 DEF SocketKinds, StreamTypes
<1>9. Phases'
  BY <1>0, <1>4, <1>5 DEF Phases, Unsent, StreamTypes
<1>10. Recorded'
  BY <1>0, <1>5 DEF Recorded, RecordClosed
<1>11. Reasons'
  BY <1>0, <1>1, <1>3, <1>4, <1>5 DEF Reasons, StreamTypes, Failed
<1>12. QuietTasks'
  BY <1>0, <1>1, <1>3, <1>4, <1>5 DEF QuietTasks, Quiet, PhaseOf, StreamTypes
<1>13. Onward
  BY <1>0, <1>5 DEF Onward, Failed
<1>14. PICK o \in SocketEnd : o = Peer[e] /\ Peer[o] = e /\ \A g \in SocketEnd : g \in {e, o}
  OBVIOUS
<1>15. Way(Dir(o)')
  <2>1. Same(Dir(o), Dir(o)', {})
    BY <1>0, <1>4, <1>5, <1>14 DEF Same, Fields, Dir, Reader, First, StreamTypes
  <2> QED
    BY <2>1, <1>7, <1>13, Turning, WayStays
<1>16. Way(Dir(e)')
  <2>1. Dir(e).in = q /\ Dir(e)'.in = Tail(q) /\ Dir(e).inReader = "there"
    BY <1>0, <1>1, <1>3, <1>4, <1>5 DEF Dir, StreamTypes, Reader, Reasons
  <2>2. CASE x.kind = "fin"
    <3>1. Same(Dir(e), Dir(e)', {"in", "saw"}) /\ Dir(e)'.saw = "eof" /\ Head(q).kind \in EndMark
      BY <1>0, <1>2, <1>4, <1>5, <2>2 DEF Same, Fields, Dir, Reader, First, StreamTypes, EndMark
    <3>2. Turns(Dir(e), Dir(e)', {"in", "saw"})
      BY <3>1, <1>7, <1>13, Turning
    <3> QED
      BY <3>1, <3>2, <2>1, <1>5, WayReadEnd
  <2>3. CASE x.kind # "fin"
    <3>1. Same(Dir(e), Dir(e)', {"in", "got"}) /\ Dir(e)'.got = Append(Dir(e).got, Head(q).n) /\ Head(q).kind = "data"
      BY <1>0, <1>2, <1>4, <1>5, <2>3 DEF Same, Fields, Dir, Reader, First, StreamTypes
    <3>2. Turns(Dir(e), Dir(e)', {"in", "got"})
      BY <3>1, <1>7, <1>13, Turning
    <3> QED
      BY <3>1, <3>2, <2>1, <1>5, WayReadData
  <2> QED
    BY <2>2, <2>3
<1>17. Directions'
  BY <1>14, <1>15, <1>16 DEF Directions
<1> QED
  BY <1>7, <1>8, <1>9, <1>10, <1>11, <1>12, <1>17 DEF StreamInv

\* The relay sends the message that opens the connection.
LEMMA SendConnectKeeps ==
    ASSUME StreamInv, SendConnect
    PROVE  StreamInv'
<1> USE Names
<1>0. StreamTypes /\ SocketKinds /\ Phases /\ Recorded /\ Reasons /\ QuietTasks /\ Directions
  BY DEF StreamInv
<1>1. /\ relayPhase = "open" /\ tunnelLink = "up" /\ relayPhase' = AfterOpen
      /\ UNCHANGED <<unread, record, clientPhase, wrote, got, end, saw, tunnelLink, kind>>
  BY DEF SendConnect, endVars
<1>2. /\ task["upRelay"] = "idle" /\ task["downRelay"] = "idle" /\ task["upClient"] = "idle"
      /\ clientPhase = "waiting" /\ task["downClient"] = "idle"
      /\ "tunnelUp" \notin unread /\ "tunnelDown" \notin unread
      /\ pipe["tunnelUp"] = <<>> /\ pipe["tunnelDown"] = <<>>
  BY <1>0, <1>1 DEF Phases, Unsent
<1>3. PICK q \in Items : q = pipe["visitorUp"] /\ (kind = "tls" => q # <<>> /\ Head(q).kind = "data")
  BY <1>0, <1>1 DEF StreamTypes, Phases
<1>4. PICK m \in Items : /\ m = (IF kind = "tcp" THEN <<Mark("connect")>> ELSE <<Mark("connect"), Head(q)>>)
                         /\ ~Marked(m)
  <2>1. Mark("connect") \in Item /\ Mark("connect").kind \notin EndMark
    BY ItemKinds
  <2>2. CASE kind = "tcp"
    BY <2>1, <2>2, Single, MarksOf
  <2>3. CASE kind # "tcp"
    <3>1. PICK x \in Item : x = Head(q) /\ x.kind \notin EndMark
      BY <1>0, <1>3, <2>3, HeadTail, ItemKinds DEF StreamTypes
    <3>2. PICK u \in Items : u = <<Mark("connect")>> /\ ~Marked(u)
      BY <2>1, Single, MarksOf
    <3>3. PICK v \in Items : v = <<x>> /\ ~Marked(v)
      BY <3>1, Single, MarksOf
    <3>4. u \o v \in Items /\ ~Marked(u \o v)
      BY <3>2, <3>3, Joined, MarksJoined
    <3>5. u \o v = <<Mark("connect"), Head(q)>>
      <4>1. <<Mark("connect")>> \o <<Head(q)>> = <<Mark("connect"), Head(q)>>
        BY Pair, Zenon
      <4> QED
        BY <4>1, <3>1, <3>2, <3>3
    <3> QED
      BY <3>4, <3>5, <2>3
  <2> QED
    BY <2>2, <2>3
<1>5. PICK r \in Items : r = (IF kind = "tcp" THEN q ELSE Tail(q)) /\ (Marked(r) => Marked(q))
  <2>1. CASE kind = "tcp"
    BY <2>1
  <2>2. CASE kind # "tcp"
    BY <2>2, <1>0, <1>3, HeadTail, MarksTaken DEF StreamTypes
  <2> QED
    BY <2>1, <2>2
<1>6. /\ pipe' \in [Pipe -> Items] /\ pipe'["tunnelUp"] = m /\ pipe'["visitorUp"] = r
      /\ \A k \in Pipe : k \notin {"tunnelUp", "visitorUp"} => pipe'[k] = pipe[k]
  <2>1. CASE kind = "tcp"
    BY <2>1, <1>0, <1>3, <1>4, <1>5 DEF SendConnect, StreamTypes
  <2>2. CASE kind # "tcp"
    BY <2>2, <1>0, <1>3, <1>4, <1>5 DEF SendConnect, StreamTypes
  <2> QED
    BY <2>1, <2>2
<1>7. /\ task' \in [Task -> {"idle", "running", "done"}]
      /\ task'["upClient"] = "idle" /\ task'["downClient"] = "idle"
      /\ kind = "tcp" => relayPhase' = "record" /\ task'["upRelay"] = "idle" /\ task'["downRelay"] = "idle"
      /\ kind # "tcp" => relayPhase' = "proxy" /\ task'["upRelay"] = "running" /\ task'["downRelay"] = "running"
  <2>1. task' = IF AfterOpen = "proxy" THEN [t \in Task |-> IF t \in RelayTask THEN "running" ELSE task[t]] ELSE task
    BY DEF SendConnect
  <2> QED
    BY <2>1, <1>0, <1>1, <1>2 DEF AfterOpen, RelayTask, StreamTypes
<1>8. StreamTypes'
  BY <1>0, <1>1, <1>6, <1>7 DEF StreamTypes
<1>9. SocketKinds'
  BY <1>0, <1>1, <1>6 DEF SocketKinds
<1>10. Phases'
  BY <1>0, <1>1, <1>2, <1>6, <1>7 DEF Phases, Unsent, StreamTypes
<1>11. Recorded'
  BY <1>0, <1>1, <1>7 DEF Recorded, RecordClosed, StreamTypes
<1>12. Reasons'
  <2>1. /\ pipe'["tunnelDown"] = pipe["tunnelDown"] /\ pipe'["serviceDown"] = pipe["serviceDown"]
        /\ Marked(pipe'["visitorUp"]) => Marked(pipe["visitorUp"])
    BY <1>3, <1>5, <1>6
  <2>2. ~Failed /\ "visitorUp" \notin unread
    BY <1>0, <1>1, <1>2 DEF Failed, Reasons
  <2> QED
    BY <2>1, <2>2, <1>0, <1>1, <1>2, <1>7 DEF Reasons
<1>13. QuietTasks'
  <2>1. Quiet("upRelay")'
    BY <1>4, <1>6 DEF Quiet
  <2>2. Quiet("upClient")' /\ Quiet("downClient")'
    BY <1>0, <1>1, <1>2, <1>6, <1>7 DEF QuietTasks, Quiet, PhaseOf, RelayTask
  <2>3. Quiet("downRelay")'
    BY <1>0, <1>1, <1>2, <1>6 DEF QuietTasks, Quiet, PhaseOf, RelayTask
  <2> QED
    BY <2>1, <2>2, <2>3 DEF QuietTasks
<1>14. Onward
  BY <1>0, <1>1, <1>2, <1>7 DEF Onward, Failed, StreamTypes
<1>15. Way(Dir("visitor")')
  <2>1. Same(Dir("visitor"), Dir("visitor")', {})
    BY <1>0, <1>1, <1>6 DEF Same, Fields, Dir, Reader, First, StreamTypes
  <2> QED
    BY <2>1, <1>8, <1>14, Turning, WayStays
<1>16. Way(Dir("service")')
  <2>1. /\ Dir("service").mid = <<>> /\ Dir("service")'.mid = m /\ Dir("service").out = q
        /\ Dir("service")'.out = r /\ Dir("service").first = 1 /\ Dir("service").midReader = "there"
    BY <1>0, <1>1, <1>2, <1>3, <1>6 DEF Dir, Reader, First
  <2>2. CASE kind = "tcp"
    <3>1. Same(Dir("service"), Dir("service")', {"mid"})
      BY <1>0, <1>1, <1>3, <1>5, <1>6, <2>2 DEF Same, Fields, Dir, Reader, First, StreamTypes
    <3>2. Turns(Dir("service"), Dir("service")', {"mid"})
      BY <3>1, <1>8, <1>14, Turning
    <3> QED
      BY <3>2, <2>1, <2>2, <1>4, WayConnect
  <2>3. CASE kind # "tcp"
    <3>1. Same(Dir("service"), Dir("service")', {"mid", "out"})
      BY <1>0, <1>1, <1>6, <2>3 DEF Same, Fields, Dir, Reader, First, StreamTypes
    <3>2. Turns(Dir("service"), Dir("service")', {"mid", "out"})
      BY <3>1, <1>8, <1>14, Turning
    <3>3. q # <<>> /\ Head(q).kind = "data"
      BY <2>3, <1>0, <1>3 DEF StreamTypes
    <3> QED
      BY <3>2, <3>3, <2>1, <2>3, <1>4, <1>5, WayHello
  <2> QED
    BY <2>2, <2>3
<1>17. Directions'
  BY <1>15, <1>16 DEF Directions
<1> QED
  BY <1>8, <1>9, <1>10, <1>11, <1>12, <1>13, <1>17 DEF StreamInv

\* The relay drops the visitor's socket before it proxies anything.
LEMMA DropKeeps ==
    ASSUME StreamInv, DropVisitor, relayPhase \in {"open", "record"}, relayPhase' = "over",
           relayPhase = "record" => kind = "tls",
           record' = record \/ record' = "closed",
           UNCHANGED <<task, clientPhase, wrote, got, end, saw, tunnelLink, kind>>
    PROVE  StreamInv'
<1> USE Names
<1>0. StreamTypes /\ SocketKinds /\ Phases /\ Recorded /\ Reasons /\ QuietTasks /\ Directions
  BY DEF StreamInv
<1>1. task["upRelay"] = "idle" /\ task["downRelay"] = "idle" /\ task["upClient"] = "idle" /\ Failed'
  BY <1>0 DEF Phases, Unsent, Failed
<1>2. PICK q \in Items : q = pipe["visitorDown"]
  BY <1>0 DEF StreamTypes
<1>3. PICK z \in Items : z = <<Mark("fin")>> /\ OnlyMarks(z) /\ Plain(z)
  <2>1. Mark("fin") \in Item /\ Mark("fin").kind = "fin" /\ "fin" \in EndMark
    BY ItemKinds DEF EndMark
  <2> QED
    BY <2>1, Single, MarksOf
<1>4. PICK p \in Items : /\ p = q \o z
                         /\ Marked(p) <=> Marked(q) \/ Marked(z)
                         /\ Plain(q) /\ Plain(z) => Plain(p)
                         /\ q # <<>> => p # <<>> /\ Head(p) = Head(q)
  BY Appended, Zenon
<1>5. PICK r \in Items : r = IF "visitorDown" \in unread THEN q ELSE p
  OBVIOUS
<1>6. PICK n \in Items : n = <<>> /\ ~Marked(n) /\ OnlyMarks(n)
  BY MarksOf
<1>7. /\ pipe' \in [Pipe -> Items] /\ pipe'["visitorUp"] = n /\ pipe'["visitorDown"] = r
      /\ \A k \in Pipe : k \notin {"visitorDown", "visitorUp"} => pipe'[k] = pipe[k]
      /\ unread' = unread \cup {"visitorUp"}
  BY <1>0, <1>2, <1>3, <1>4, <1>5, <1>6 DEF DropVisitor, Put, StreamTypes
<1>8. StreamTypes'
  BY <1>0, <1>7 DEF StreamTypes
<1>9. SocketKinds'
  <2>1. Plain(r)
    BY <1>0, <1>2, <1>3, <1>4, <1>5 DEF SocketKinds
  <2> QED
    BY <2>1, <1>0, <1>7 DEF SocketKinds
<1>10. Phases'
  BY <1>0, <1>1, <1>7 DEF Phases, Unsent, StreamTypes
<1>11. Recorded'
  BY <1>0, <1>1 DEF Recorded, RecordClosed, StreamTypes
<1>12. Reasons'
  BY <1>0, <1>1, <1>6, <1>7 DEF Reasons, StreamTypes, Failed
<1>13. QuietTasks'
  BY <1>0, <1>1, <1>7 DEF QuietTasks, Quiet, PhaseOf, StreamTypes, RelayTask
<1>14. Onward
  BY <1>0, <1>1 DEF Onward, StreamTypes
<1>15. Dir("visitor")'.status = "excused" /\ Dir("service")'.status = "excused"
  BY <1>1 DEF Dir, Status, Excused
<1>16. Way(Dir("visitor")')
  <2>1. CASE "visitorDown" \in unread
    <3>1. Same(Dir("visitor"), Dir("visitor")', {})
      BY <1>0, <1>2, <1>5, <1>7, <2>1 DEF Same, Fields, Dir, Reader, First, StreamTypes
    <3> QED
      BY <3>1, <1>8, <1>14, Turning, WayStays
  <2>2. CASE "visitorDown" \notin unread
    <3>1. /\ Same(Dir("visitor"), Dir("visitor")', {"in"})
          /\ Dir("visitor").in = q /\ Dir("visitor")'.in = q \o z
      BY <1>0, <1>2, <1>4, <1>5, <1>7, <2>2 DEF Same, Fields, Dir, Reader, First, StreamTypes
    <3>2. Turns(Dir("visitor"), Dir("visitor")', {"in"})
      BY <3>1, <1>8, <1>14, Turning
    <3> QED
      BY <3>1, <3>2, <1>3, <1>15, WayMarkIn
  <2> QED
    BY <2>1, <2>2
<1>17. Way(Dir("service")')
  <2>1. /\ Same(Dir("service"), Dir("service")', {"out", "outReader"})
        /\ Dir("service")'.out = n /\ Dir("service")'.outReader = "gone"
    BY <1>0, <1>7 DEF Same, Fields, Dir, Reader, First, StreamTypes
  <2>2. Turns(Dir("service"), Dir("service")', {"out", "outReader"})
    BY <2>1, <1>8, <1>14, Turning
  <2> QED
    BY <2>1, <2>2, <1>6, WayDropOut
<1>18. Directions'
  BY <1>16, <1>17 DEF Directions
<1> QED
  BY <1>8, <1>9, <1>10, <1>11, <1>12, <1>13, <1>18 DEF StreamInv

\* No tunnel for the visitor, or its connection fails.
LEMMA RefuseKeeps ==
    ASSUME StreamInv, Refuse \/ ConnectNotSent
    PROVE  StreamInv'
BY DropKeeps DEF Refuse, ConnectNotSent, endVars

\* Steps of a handler that touch no pipe.
LEMMA PhaseKeeps ==
    ASSUME StreamInv, SaveConnection \/ RelayEnds \/ ClientEnds
    PROVE  StreamInv'
<1> USE Names
<1>0. StreamTypes /\ SocketKinds /\ Phases /\ Recorded /\ Reasons /\ QuietTasks /\ Directions
  BY DEF StreamInv
<1>1. UNCHANGED <<pipe, unread, wrote, got, end, saw, tunnelLink, kind>>
  BY DEF SaveConnection, RelayEnds, ClientEnds, taskVars, endVars
<1>2. StreamTypes' /\ Recorded' /\ Phases' /\ QuietTasks' /\ Reasons' /\ Onward
  <2>1. CASE SaveConnection
    <3>1. /\ relayPhase = "record" /\ record' = "active" /\ relayPhase' = AfterRecord /\ clientPhase' = clientPhase
          /\ kind = "tls" => pipe["visitorUp"] # <<>> /\ Head(pipe["visitorUp"]).kind = "data"
          /\ task["upRelay"] = "idle" /\ task["downRelay"] = "idle"
      BY <2>1, <1>0 DEF SaveConnection, Phases
    <3>2. /\ task' \in [Task -> {"idle", "running", "done"}]
          /\ task'["upClient"] = task["upClient"] /\ task'["downClient"] = task["downClient"]
          /\ kind = "tls" => relayPhase' = "open" /\ task'["upRelay"] = "idle" /\ task'["downRelay"] = "idle"
          /\ kind # "tls" => relayPhase' = "proxy" /\ task'["upRelay"] = "running" /\ task'["downRelay"] = "running"
      <4>1. task' = IF AfterRecord = "proxy" THEN [t \in Task |-> IF t \in RelayTask THEN "running" ELSE task[t]] ELSE task
        BY <2>1 DEF SaveConnection
      <4> QED
        BY <4>1, <3>1, <1>0 DEF AfterRecord, RelayTask, StreamTypes
    <3>3. StreamTypes' /\ Recorded'
      BY <3>1, <3>2, <1>0, <1>1 DEF StreamTypes, Recorded, RecordClosed
    <3>4. Phases'
      BY <3>1, <3>2, <1>0, <1>1 DEF Phases, Unsent, StreamTypes
    <3>5. QuietTasks'
      BY <3>1, <3>2, <1>0, <1>1 DEF QuietTasks, Quiet, PhaseOf, RelayTask
    <3>6. Reasons' /\ Onward
      BY <3>1, <3>2, <1>0, <1>1 DEF Reasons, Failed, Onward
    <3> QED
      BY <3>3, <3>4, <3>5, <3>6
  <2>2. CASE RelayEnds
    <3>1. /\ relayPhase = "proxy" /\ relayPhase' = "over" /\ record' = "closed" /\ UNCHANGED <<task, clientPhase>>
          /\ task["upRelay"] = "done" /\ task["downRelay"] = "done"
      BY <2>2 DEF RelayEnds, taskVars, RelayTask
    <3>2. StreamTypes' /\ Recorded'
      BY <3>1, <1>0, <1>1 DEF StreamTypes, Recorded, RecordClosed
    <3>3. Phases'
      BY <3>1, <1>0, <1>1 DEF Phases, Unsent
    <3>4. QuietTasks'
      BY <3>1, <1>0, <1>1 DEF QuietTasks, Quiet, PhaseOf, RelayTask
    <3>5. Reasons' /\ Onward
      BY <3>1, <1>0, <1>1 DEF Reasons, Failed, Onward
    <3> QED
      BY <3>2, <3>3, <3>4, <3>5
  <2>3. CASE ClientEnds
    <3>1. /\ clientPhase' = "over" /\ UNCHANGED <<task, relayPhase, record>>
          /\ \/ clientPhase = "proxy" /\ task["upClient"] = "done" /\ task["downClient"] = "done"
             \/ clientPhase = "waiting" /\ tunnelLink = "lost"
      BY <2>3 DEF ClientEnds, taskVars, ClientTask
    <3>2. StreamTypes' /\ Recorded'
      BY <3>1, <1>0, <1>1 DEF StreamTypes, Recorded, RecordClosed
    <3>3. Phases'
      BY <3>1, <1>0, <1>1 DEF Phases, Unsent, StreamTypes
    <3>4. QuietTasks'
      BY <3>1, <1>0, <1>1 DEF QuietTasks, Quiet, PhaseOf, RelayTask
    <3>5. Reasons' /\ Onward
      BY <3>1, <1>0, <1>1 DEF Reasons, Failed, Onward
    <3> QED
      BY <3>2, <3>3, <3>4, <3>5
  <2> QED
    BY <2>1, <2>2, <2>3
<1>3. SocketKinds'
  BY <1>0, <1>1 DEF SocketKinds
<1>4. Way(Dir("visitor")')
  <2>1. Same(Dir("visitor"), Dir("visitor")', {})
    BY <1>1 DEF Same, Fields, Dir, Reader, First
  <2> QED
    BY <2>1, <1>2, Turning, WayStays
<1>5. Way(Dir("service")')
  <2>1. CASE clientPhase' = clientPhase \/ clientPhase # "waiting"
    <3>1. Same(Dir("service"), Dir("service")', {})
      BY <2>1, <1>1 DEF Same, Fields, Dir, Reader, First, SaveConnection, RelayEnds, ClientEnds
    <3> QED
      BY <3>1, <1>2, Turning, WayStays
  <2>2. CASE clientPhase' # clientPhase /\ clientPhase = "waiting"
    <3>1. tunnelLink = "lost" /\ clientPhase' = "over"
      BY <2>2 DEF SaveConnection, RelayEnds, ClientEnds
    <3>2. "tunnelUp" \in unread
      BY <3>1, <1>0 DEF Phases
    <3>3. /\ Same(Dir("service"), Dir("service")', {"mid", "midReader", "first"})
          /\ Dir("service")'.mid = pipe["tunnelUp"] /\ Dir("service").mid = pipe["tunnelUp"]
          /\ Dir("service")'.midReader = "gone" /\ Dir("service").midReader = "gone" /\ Dir("service")'.first = 0
      BY <3>1, <3>2, <1>1 DEF Same, Fields, Dir, Reader, First
    <3>4. Turns(Dir("service"), Dir("service")', {"mid", "midReader", "first"})
      BY <3>3, <1>2, Turning
    <3>5. OnlyMarks(pipe["tunnelUp"]) /\ pipe["tunnelUp"] \in Items
      BY <3>3, <1>0, DirType, Unfolded DEF Directions, Leg, StreamTypes
    <3> QED
      BY <3>3, <3>4, <3>5, WayDropMid
  <2> QED
    BY <2>1, <2>2
<1>6. Directions'
  BY <1>4, <1>5 DEF Directions
<1> QED
  BY <1>2, <1>3, <1>6 DEF StreamInv

\* The client connects to the service.
LEMMA ConnectLocalKeeps ==
    ASSUME StreamInv, ConnectLocal
    PROVE  StreamInv'
<1> USE Names
<1>0. StreamTypes /\ SocketKinds /\ Phases /\ Recorded /\ Reasons /\ QuietTasks /\ Directions
  BY DEF StreamInv
<1>1. /\ clientPhase = "waiting" /\ clientPhase' = "proxy"
      /\ UNCHANGED <<unread, relayPhase, record, wrote, got, end, saw, tunnelLink, kind>>
  BY DEF ConnectLocal, endVars
<1>2. PICK q \in Items : q = pipe["tunnelUp"] /\ q # <<>> /\ Head(q).kind = "connect"
  BY <1>0 DEF ConnectLocal, StreamTypes
<1>3. PICK r \in Items : r = Tail(q) /\ (Marked(r) => Marked(q))
  BY <1>2, HeadTail, MarksTaken
<1>4. pipe' = [pipe EXCEPT !["tunnelUp"] = r]
  BY <1>2, <1>3 DEF ConnectLocal
<1>5. /\ task' \in [Task -> {"idle", "running", "done"}]
      /\ task'["upClient"] = "running" /\ task'["downClient"] = "running"
      /\ task'["upRelay"] = task["upRelay"] /\ task'["downRelay"] = task["downRelay"]
  <2>1. task' = [t \in Task |-> IF t \in ClientTask THEN "running" ELSE task[t]]
    BY DEF ConnectLocal
  <2> QED
    BY <2>1, <1>0 DEF ClientTask, StreamTypes
<1>6. Dir("service") \in Ways /\ Way(Dir("service")) /\ Dir("service").mid = q
  BY <1>0, <1>2, DirType DEF Directions, Dir
<1>7. Dir("service").midReader = "there"
  <2>1. PICK s \in {0, 1}, a \in Nat, b \in Nat : Leg(q, Dir("service").midReader, s, a, b)
    BY <1>6, Unfolded
  <2>2. PICK y \in Presence : y = Dir("service").midReader
    BY <1>6, Unfolded
  <2> QED
    BY <2>1, <2>2, <1>2, LegTakeConnect
<1>8. "tunnelUp" \notin unread
  BY <1>7 DEF Dir, Reader
<1>9. tunnelLink = "up" /\ ~Unsent /\ ~Failed
  <2>1. tunnelLink = "up"
    BY <1>0, <1>8 DEF Phases, StreamTypes
  <2>2. ~Unsent
    BY <2>1, <1>0, <1>2 DEF Phases
  <2> QED
    BY <2>1, <2>2, <1>1 DEF Failed, Unsent
<1>10. task["upClient"] = "idle" /\ task["downClient"] = "idle"
  BY <1>0, <1>1 DEF Phases
<1>11. StreamTypes'
  BY <1>0, <1>1, <1>4, <1>5 DEF StreamTypes
<1>12. SocketKinds'
  BY <1>0, <1>1, <1>4 DEF SocketKinds, StreamTypes
<1>13. Phases'
  BY <1>0, <1>1, <1>4, <1>5, <1>9 DEF Phases, Unsent, StreamTypes
<1>14. Recorded'
  BY <1>0, <1>1, <1>5 DEF Recorded, RecordClosed
<1>15. Reasons'
  <2>1. /\ pipe'["tunnelDown"] = pipe["tunnelDown"] /\ pipe'["serviceDown"] = pipe["serviceDown"]
        /\ pipe'["visitorUp"] = pipe["visitorUp"]
    BY <1>0, <1>4 DEF StreamTypes
  <2> QED
    BY <2>1, <1>0, <1>1, <1>5, <1>8, <1>9, <1>10 DEF Reasons
<1>16. QuietTasks'
  <2>1. /\ pipe'["tunnelDown"] = pipe["tunnelDown"] /\ pipe'["serviceUp"] = pipe["serviceUp"]
        /\ pipe'["visitorDown"] = pipe["visitorDown"] /\ (Marked(pipe'["tunnelUp"]) => Marked(pipe["tunnelUp"]))
    BY <1>0, <1>2, <1>3, <1>4 DEF StreamTypes
  <2>2. Quiet("upRelay")' /\ Quiet("downRelay")'
    BY <2>1, <1>0, <1>1, <1>5 DEF QuietTasks, Quiet, PhaseOf, RelayTask
  <2>3. Quiet("upClient")' /\ Quiet("downClient")'
    BY <2>1, <1>0, <1>1, <1>10 DEF QuietTasks, Quiet, PhaseOf, RelayTask
  <2> QED
    BY <2>2, <2>3 DEF QuietTasks
<1>17. Onward
  BY <1>0, <1>1, <1>9 DEF Onward
<1>18. Way(Dir("visitor")')
  <2>1. Same(Dir("visitor"), Dir("visitor")', {})
    BY <1>0, <1>1, <1>4 DEF Same, Fields, Dir, Reader, First, StreamTypes
  <2> QED
    BY <2>1, <1>11, <1>17, Turning, WayStays
<1>19. Way(Dir("service")')
  <2>1. /\ Same(Dir("service"), Dir("service")', {"mid", "first"})
        /\ Dir("service")'.mid = Tail(q) /\ Dir("service")'.first = 0
    BY <1>0, <1>1, <1>3, <1>4 DEF Same, Fields, Dir, Reader, First, StreamTypes
  <2>2. Turns(Dir("service"), Dir("service")', {"mid", "first"})
    BY <2>1, <1>11, <1>17, Turning
  <2> QED
    BY <2>1, <2>2, <1>2, <1>6, WayOpened
<1>20. Directions'
  BY <1>18, <1>19 DEF Directions
<1> QED
  BY <1>11, <1>12, <1>13, <1>14, <1>15, <1>16, <1>20 DEF StreamInv

\* The service refuses.
LEMMA LocalRefusedKeeps ==
    ASSUME StreamInv, LocalRefused
    PROVE  StreamInv'
<1> USE Names
<1>0. StreamTypes /\ SocketKinds /\ Phases /\ Recorded /\ Reasons /\ QuietTasks /\ Directions
  BY DEF StreamInv
<1>1. /\ clientPhase = "waiting" /\ clientPhase' = "over" /\ unread' = unread \cup {"tunnelUp"}
      /\ UNCHANGED <<task, relayPhase, record, wrote, got, end, saw, tunnelLink, kind>>
  BY DEF LocalRefused, endVars
<1>2. task["upClient"] = "idle" /\ task["downClient"] = "idle" /\ Failed'
  BY <1>0, <1>1 DEF Phases, Failed
<1>3. PICK q \in Items : q = pipe["tunnelDown"]
  BY <1>0 DEF StreamTypes
<1>4. PICK z \in Items : z = <<Mark("close"), Mark("fin")>> /\ OnlyMarks(z)
  <2>1. PICK u \in Items : u = <<Mark("close")>> /\ OnlyMarks(u)
    BY ItemKinds, Single, MarksOf DEF EndMark
  <2>2. PICK v \in Items : v = <<Mark("fin")>> /\ OnlyMarks(v)
    BY ItemKinds, Single, MarksOf DEF EndMark
  <2>3. u \o v \in Items /\ OnlyMarks(u \o v)
    BY <2>1, <2>2, Joined, MarksJoined
  <2>4. <<Mark("close")>> \o <<Mark("fin")>> = <<Mark("close"), Mark("fin")>>
    BY Pair, Zenon
  <2> QED
    BY <2>1, <2>2, <2>3, <2>4
<1>5. PICK p \in Items : /\ p = q \o z
                         /\ Marked(p) <=> Marked(q) \/ Marked(z)
                         /\ Plain(q) /\ Plain(z) => Plain(p)
                         /\ q # <<>> => p # <<>> /\ Head(p) = Head(q)
  BY Appended, Zenon
<1>6. PICK r \in Items : r = IF "tunnelDown" \in unread THEN q ELSE p
  OBVIOUS
<1>7. PICK n \in Items : n = <<>> /\ ~Marked(n) /\ OnlyMarks(n)
  BY MarksOf
<1>8. /\ pipe' \in [Pipe -> Items] /\ pipe'["tunnelUp"] = n /\ pipe'["tunnelDown"] = r
      /\ \A k \in Pipe : k \notin {"tunnelUp", "tunnelDown"} => pipe'[k] = pipe[k]
  BY <1>0, <1>3, <1>4, <1>5, <1>6, <1>7 DEF LocalRefused, Put, StreamTypes
<1>9. Dir("service") \in Ways /\ Way(Dir("service")) /\ Dir("service").mid = pipe["tunnelUp"]
  BY <1>0, DirType DEF Directions, Dir
<1>10. tunnelLink = "up" /\ ~Unsent
  <2>1. PICK w \in Items : w = pipe["tunnelUp"] /\ w # <<>> /\ Head(w).kind = "connect"
    BY <1>0 DEF LocalRefused, StreamTypes
  <2>2. PICK s \in {0, 1}, a \in Nat, b \in Nat : Leg(w, Dir("service").midReader, s, a, b)
    BY <2>1, <1>9, Unfolded
  <2>3. PICK y \in Presence : y = Dir("service").midReader
    BY <1>9, Unfolded
  <2>4. y = "there"
    BY <2>1, <2>2, <2>3, LegTakeConnect
  <2>5. "tunnelUp" \notin unread
    BY <2>3, <2>4 DEF Dir, Reader
  <2> QED
    BY <2>1, <2>5, <1>0 DEF Phases, StreamTypes
<1>11. StreamTypes'
  BY <1>0, <1>1, <1>8 DEF StreamTypes
<1>12. SocketKinds'
  BY <1>0, <1>8 DEF SocketKinds
<1>13. Phases'
  BY <1>0, <1>1, <1>2, <1>8, <1>10 DEF Phases, Unsent, StreamTypes
<1>14. Recorded'
  BY <1>0, <1>1 DEF Recorded, RecordClosed
<1>15. Reasons'
  <2>1. pipe'["serviceDown"] = pipe["serviceDown"] /\ pipe'["visitorUp"] = pipe["visitorUp"]
    BY <1>8
  <2> QED
    BY <2>1, <1>0, <1>1, <1>2 DEF Reasons
<1>16. QuietTasks'
  <2>1. Quiet("upRelay")' /\ Quiet("downRelay")'
    BY <1>0, <1>1, <1>7, <1>8 DEF QuietTasks, Quiet, PhaseOf, RelayTask
  <2>2. Quiet("upClient")' /\ Quiet("downClient")'
    BY <1>1, <1>2 DEF Quiet, PhaseOf, RelayTask
  <2> QED
    BY <2>1, <2>2 DEF QuietTasks
<1>17. Onward
  BY <1>0, <1>1, <1>2 DEF Onward
<1>18. Dir("visitor")'.status = "excused"
  BY <1>2 DEF Dir, Status, Excused
<1>19. Way(Dir("visitor")')
  <2>1. CASE "tunnelDown" \in unread
    <3>1. Same(Dir("visitor"), Dir("visitor")', {})
      BY <1>0, <1>1, <1>3, <1>6, <1>8, <2>1 DEF Same, Fields, Dir, Reader, First, StreamTypes
    <3> QED
      BY <3>1, <1>11, <1>17, Turning, WayStays
  <2>2. CASE "tunnelDown" \notin unread
    <3>1. /\ Same(Dir("visitor"), Dir("visitor")', {"mid"})
          /\ Dir("visitor").mid = q /\ Dir("visitor")'.mid = q \o z
      BY <1>0, <1>1, <1>3, <1>5, <1>6, <1>8, <2>2 DEF Same, Fields, Dir, Reader, First, StreamTypes
    <3>2. Turns(Dir("visitor"), Dir("visitor")', {"mid"})
      BY <3>1, <1>11, <1>17, Turning
    <3> QED
      BY <3>1, <3>2, <1>4, <1>18, WayMarkMid
  <2> QED
    BY <2>1, <2>2
<1>20. Way(Dir("service")')
  <2>1. /\ Same(Dir("service"), Dir("service")', {"mid", "midReader", "first"})
        /\ Dir("service")'.mid = n /\ Dir("service")'.midReader = "gone" /\ Dir("service")'.first = 0
    BY <1>0, <1>1, <1>8 DEF Same, Fields, Dir, Reader, First, StreamTypes
  <2>2. Turns(Dir("service"), Dir("service")', {"mid", "midReader", "first"})
    BY <2>1, <1>11, <1>17, Turning
  <2> QED
    BY <2>1, <2>2, <1>7, WayDropMid
<1>21. Directions'
  BY <1>19, <1>20 DEF Directions
<1> QED
  BY <1>11, <1>12, <1>13, <1>14, <1>15, <1>16, <1>21 DEF StreamInv

\* The tunnel is lost.
LEMMA TunnelFailsKeeps ==
    ASSUME StreamInv, TunnelFails
    PROVE  StreamInv'
<1> USE Names
<1>0. StreamTypes /\ SocketKinds /\ Phases /\ Recorded /\ Reasons /\ QuietTasks /\ Directions
  BY DEF StreamInv
<1>1. /\ tunnelLink' = "lost" /\ unread' = unread \cup {"tunnelUp", "tunnelDown"}
      /\ UNCHANGED <<task, relayPhase, record, clientPhase, wrote, got, end, saw, kind>>
  BY DEF TunnelFails, endVars, Tunnel
<1>2. PICK z \in Items : z = <<Mark("reset")>> /\ OnlyMarks(z)
  BY ItemKinds, Single, MarksOf DEF EndMark
<1>3. /\ pipe' \in [Pipe -> Items] /\ pipe'["tunnelUp"] = z /\ pipe'["tunnelDown"] = z
      /\ \A k \in Pipe : k \notin {"tunnelUp", "tunnelDown"} => pipe'[k] = pipe[k]
  <2>1. pipe' = [k \in Pipe |-> IF k \in {"tunnelUp", "tunnelDown"} THEN z ELSE pipe[k]]
    BY <1>2 DEF TunnelFails, Tunnel
  <2> QED
    BY <2>1, <1>0 DEF StreamTypes
<1>4. StreamTypes'
  BY <1>0, <1>1, <1>3 DEF StreamTypes
<1>5. SocketKinds'
  BY <1>0, <1>3 DEF SocketKinds
<1>6. Phases'
  BY <1>0, <1>1, <1>3 DEF Phases, Unsent
<1>7. Recorded'
  BY <1>0, <1>1 DEF Recorded, RecordClosed
<1>8. Reasons'
  <2>1. pipe'["serviceDown"] = pipe["serviceDown"] /\ pipe'["visitorUp"] = pipe["visitorUp"]
    BY <1>3
  <2> QED
    BY <2>1, <1>0, <1>1 DEF Reasons, Failed
<1>9. QuietTasks'
  BY <1>0, <1>1, <1>3 DEF QuietTasks, Quiet, PhaseOf, RelayTask
<1>10. Onward
  BY <1>0, <1>1 DEF Onward, Failed
<1>11. ASSUME NEW e \in SocketEnd
       PROVE  Way(Dir(e)')
  <2>1. /\ Same(Dir(e), Dir(e)', {"mid", "midReader", "first"}) /\ Dir(e)'.first \in {0, 1}
        /\ Dir(e)'.mid = z /\ Dir(e)'.midReader = "gone"
    BY <1>0, <1>1, <1>3 DEF Same, Fields, Dir, Reader, First, StreamTypes
  <2>2. Turns(Dir(e), Dir(e)', {"mid", "midReader", "first"})
    BY <2>1, <1>4, <1>10, Turning
  <2> QED
    BY <2>1, <2>2, <1>2, WayDropMid
<1>12. Directions'
  BY <1>11 DEF Directions
<1> QED
  BY <1>4, <1>5, <1>6, <1>7, <1>8, <1>9, <1>12 DEF StreamInv

\* What is known of a task that is running: someone reads what it reads from, unless the
\* tunnel is lost, connect has been sent, and only chunks and marks come to it.
LEMMA Running ==
    ASSUME StreamInv, NEW t \in Task, task[t] = "running", pipe[From[t]] # <<>>
    PROVE  /\ Unsent => tunnelLink = "lost"
           /\ t \in RelayTask => relayPhase = "proxy"
           /\ t \notin RelayTask => clientPhase = "proxy"
           /\ From[t] \in unread => tunnelLink = "lost"
           /\ Socket(t) => From[t] \notin unread
           /\ Head(pipe[From[t]]).kind = "data" \/ Head(pipe[From[t]]).kind \in EndMark
<1> USE Names
<1>0. StreamTypes /\ Phases /\ Reasons /\ Directions
  BY DEF StreamInv
<1>1. /\ t \in RelayTask => relayPhase = "proxy"
      /\ t \notin RelayTask => clientPhase = "proxy"
  BY <1>0 DEF Phases, RelayTask, StreamTypes
<1>2. Unsent => tunnelLink = "lost"
  BY <1>0, <1>1 DEF Phases, Unsent, RelayTask, StreamTypes
<1>3. (From[t] \in unread => tunnelLink = "lost") /\ (Socket(t) => From[t] \notin unread)
  BY <1>0, <1>1 DEF Reasons, Failed, RelayTask, Socket, Tunnel
<1>4. Head(pipe[From[t]]).kind = "data" \/ Head(pipe[From[t]]).kind \in EndMark
  <2>1. PICK q \in Items : q = pipe[From[t]]
    BY <1>0 DEF StreamTypes
  <2>2. PICK r \in Presence, m \in Nat, n \in Nat : Leg(q, r, 0, m, n)
    <3>1. Dir("visitor") \in Ways /\ Way(Dir("visitor")) /\ Dir("service") \in Ways /\ Way(Dir("service"))
      BY <1>0, DirType DEF Directions
    <3>2. PICK s \in {0, 1}, a \in Nat, b \in Nat :
            /\ Leg(pipe["tunnelDown"], Reader("tunnelDown"), s, a, b)
            /\ Leg(pipe["serviceDown"], Reader("serviceDown"), 0, b, wrote["service"])
            /\ s <= First("visitor")
      BY <3>1, Unfolded, ZenonT(60) DEF Dir
    <3>3. PICK u \in {0, 1}, c \in Nat, d \in Nat :
            /\ Leg(pipe["tunnelUp"], Reader("tunnelUp"), u, c, d)
            /\ Leg(pipe["visitorUp"], Reader("visitorUp"), 0, d, wrote["visitor"])
            /\ u <= First("service")
      BY <3>1, Unfolded, ZenonT(60) DEF Dir
    <3>4. \A p \in Pipe : Reader(p) \in Presence
      BY DEF Reader, Presence
    <3>5. s = 0 /\ wrote["service"] \in Nat /\ wrote["visitor"] \in Nat /\ (t = "upClient" => u = 0)
      BY <3>2, <3>3, <1>0, <1>1 DEF First, StreamTypes, RelayTask
    <3> QED
      BY <2>1, <3>2, <3>3, <3>4, <3>5
  <2> QED
    BY <2>1, <2>2, LegHeads
<1> QED
  BY <1>1, <1>2, <1>3, <1>4

\* A task moves a chunk.
LEMMA MoveDataKeeps ==
    ASSUME StreamInv, NEW t \in Task, task[t] = "running", pipe[From[t]] # <<>>,
           Head(pipe[From[t]]).kind = "data", To[t] \notin unread,
           pipe' = Put([pipe EXCEPT ![From[t]] = Tail(@)], To[t], <<Head(pipe[From[t]])>>),
           UNCHANGED <<unread, task, relayPhase, record, clientPhase, wrote, got, end, saw, tunnelLink, kind>>
    PROVE  StreamInv'
<1> USE Names
<1>0. StreamTypes /\ SocketKinds /\ Phases /\ Recorded /\ Reasons /\ QuietTasks /\ Directions
  BY DEF StreamInv
<1>1. PICK q \in Items : q = pipe[From[t]] /\ q # <<>> /\ Head(q).kind = "data"
  BY <1>0 DEF StreamTypes
<1>2. PICK r \in Items : r = Tail(q) /\ (Marked(r) => Marked(q))
  BY <1>1, HeadTail, MarksTaken
<1>3. PICK m \in Items : m = pipe[To[t]]
  BY <1>0 DEF StreamTypes
<1>4. PICK x \in Item : x = Head(q) /\ x.kind = "data" /\ x.kind \notin EndMark
  BY <1>1, HeadTail, ItemKinds
<1>5. PICK z \in Items : z = <<x>> /\ ~Marked(z) /\ Plain(z)
  BY <1>4, Single, MarksOf
<1>6. PICK p \in Items : /\ p = m \o z
                         /\ Marked(p) <=> Marked(m) \/ Marked(z)
                         /\ Plain(m) /\ Plain(z) => Plain(p)
                         /\ m # <<>> => p # <<>> /\ Head(p) = Head(m)
  BY Appended, Zenon
<1>7. /\ pipe' \in [Pipe -> Items] /\ pipe'[From[t]] = r /\ pipe'[To[t]] = p
      /\ \A k \in Pipe : k \notin {From[t], To[t]} => pipe'[k] = pipe[k]
  <2>1. From[t] \in Pipe /\ To[t] \in Pipe /\ From[t] # To[t]
    OBVIOUS
  <2>2. pipe' = Put([pipe EXCEPT ![From[t]] = r], To[t], z)
    BY <1>1, <1>2, <1>4, <1>5
  <2>3. pipe' = [pipe EXCEPT ![From[t]] = r, ![To[t]] = p]
    BY <2>1, <2>2, <1>0, <1>3, <1>6 DEF Put, StreamTypes
  <2>4. PICK u \in Pipe, v \in Pipe : u = From[t] /\ v = To[t] /\ u # v
    BY <2>1
  <2>5. pipe' = [pipe EXCEPT ![u] = r, ![v] = p] /\ pipe \in [Pipe -> Items]
    BY <2>3, <2>4, <1>0 DEF StreamTypes
  <2>6. /\ pipe' \in [Pipe -> Items] /\ pipe'[u] = r /\ pipe'[v] = p
        /\ \A k \in Pipe : k \notin {u, v} => pipe'[k] = pipe[k]
    BY <2>4, <2>5, ZenonT(60)
  <2> QED
    BY <2>4, <2>6
<1>8. \A k \in Pipe : Marked(pipe'[k]) => Marked(pipe[k])
  BY <1>1, <1>2, <1>3, <1>5, <1>6, <1>7, ZenonT(60)
<1>9. /\ Unsent => tunnelLink = "lost"
      /\ t \in RelayTask => relayPhase = "proxy"
      /\ t \notin RelayTask => clientPhase = "proxy"
  BY Running
<1>10. StreamTypes'
  BY <1>0, <1>7 DEF StreamTypes
<1>11. SocketKinds'
  <2>1. \A k \in Pipe : k # From[t] /\ Plain(pipe[k]) => Plain(pipe'[k])
    BY <1>3, <1>5, <1>6, <1>7, ZenonT(60)
  <2> QED
    BY <2>1, <1>0 DEF SocketKinds
<1>12. Phases'
  <2>1. kind = "tls" /\ relayPhase = "open" => pipe'["visitorUp"] = pipe["visitorUp"]
    BY <1>7, <1>9 DEF RelayTask
  <2>2. Unsent' = Unsent
    BY DEF Unsent
  <2> QED
    BY <2>1, <2>2, <1>0, <1>9 DEF Phases
<1>13. Recorded'
  BY <1>0 DEF Recorded, RecordClosed
<1>14. Reasons'
  BY <1>0, <1>8 DEF Reasons, Failed
<1>15. QuietTasks'
  BY <1>0, <1>8 DEF QuietTasks, Quiet, PhaseOf
<1>16. Onward
  BY <1>0 DEF Onward, Failed
<1>17. PICK e \in SocketEnd, o \in SocketEnd :
         /\ \A g \in SocketEnd : g \in {e, o}
         /\ e = "service" <=> t \in {"upRelay", "upClient"}
         /\ e # o
  <2>1. CASE t \in {"upRelay", "upClient"}
    BY <2>1
  <2>2. CASE t \in {"downRelay", "downClient"}
    BY <2>2
  <2> QED
    BY <2>1, <2>2
<1>18. Way(Dir(o)')
  <2>1. Same(Dir(o), Dir(o)', {})
    BY <1>0, <1>7, <1>17 DEF Same, Fields, Dir, Reader, First
  <2> QED
    BY <2>1, <1>10, <1>16, Turning, WayStays
<1>19. Way(Dir(e)')
  <2>0. ~Marked(m)
    BY <1>0, <1>3 DEF QuietTasks, Quiet
  <2>1. CASE t = "upRelay"
    <3>1. /\ pipe["visitorUp"] = q /\ pipe["tunnelUp"] = m /\ pipe'["visitorUp"] = r /\ pipe'["tunnelUp"] = p
          /\ pipe'["serviceUp"] = pipe["serviceUp"] /\ "tunnelUp" \notin unread
      BY <2>1, <1>1, <1>3, <1>7
    <3>2. Same(Dir("service"), Dir("service")', {"out", "mid"})
      BY <3>1 DEF Same, Fields, Dir, Reader, First
    <3>3. /\ Dir("service").midReader = "there"
          /\ Dir("service").out = q /\ Dir("service").mid = m /\ Dir("service")'.out = r /\ Dir("service")'.mid = p
      BY <3>1, <2>1, <1>9 DEF Dir, Reader, First, RelayTask
    <3>4. Turns(Dir("service"), Dir("service")', {"out", "mid"})
      BY <3>2, <1>10, <1>16, Turning
    <3>5. Dir("service")'.out = Tail(Dir("service").out) /\ Dir("service")'.mid = Dir("service").mid \o <<Head(Dir("service").out)>>
      BY <3>3, <1>2, <1>4, <1>5, <1>6
    <3>6. Way(Dir("service")')
      BY <3>3, <3>4, <3>5, <2>0, <1>1, WayMoveOut
    <3> QED
      BY <3>6, <2>1, <1>17
  <2>2. CASE t = "downClient"
    <3>1. /\ pipe["serviceDown"] = q /\ pipe["tunnelDown"] = m /\ pipe'["serviceDown"] = r /\ pipe'["tunnelDown"] = p
          /\ pipe'["visitorDown"] = pipe["visitorDown"] /\ "tunnelDown" \notin unread
      BY <2>2, <1>1, <1>3, <1>7
    <3>2. Same(Dir("visitor"), Dir("visitor")', {"out", "mid"})
      BY <3>1 DEF Same, Fields, Dir, Reader, First
    <3>3. /\ Dir("visitor").midReader = "there"
          /\ Dir("visitor").out = q /\ Dir("visitor").mid = m /\ Dir("visitor")'.out = r /\ Dir("visitor")'.mid = p
      BY <3>1, <2>2, <1>9 DEF Dir, Reader, First, RelayTask
    <3>4. Turns(Dir("visitor"), Dir("visitor")', {"out", "mid"})
      BY <3>2, <1>10, <1>16, Turning
    <3>5. Dir("visitor")'.out = Tail(Dir("visitor").out) /\ Dir("visitor")'.mid = Dir("visitor").mid \o <<Head(Dir("visitor").out)>>
      BY <3>3, <1>2, <1>4, <1>5, <1>6
    <3>6. Way(Dir("visitor")')
      BY <3>3, <3>4, <3>5, <2>0, <1>1, WayMoveOut
    <3> QED
      BY <3>6, <2>2, <1>17
  <2>3. CASE t = "upClient"
    <3>1. /\ pipe["tunnelUp"] = q /\ pipe["serviceUp"] = m /\ pipe'["tunnelUp"] = r /\ pipe'["serviceUp"] = p
          /\ pipe'["visitorUp"] = pipe["visitorUp"] /\ "serviceUp" \notin unread
      BY <2>3, <1>1, <1>3, <1>7
    <3>2. Same(Dir("service"), Dir("service")', {"mid", "in"})
      BY <3>1 DEF Same, Fields, Dir, Reader, First
    <3>3. /\ Dir("service").inReader = "there" /\ Dir("service").first = 0
          /\ Dir("service").mid = q /\ Dir("service").in = m /\ Dir("service")'.mid = r /\ Dir("service")'.in = p
      BY <3>1, <2>3, <1>9 DEF Dir, Reader, First, RelayTask
    <3>4. Turns(Dir("service"), Dir("service")', {"mid", "in"})
      BY <3>2, <1>10, <1>16, Turning
    <3>5. Dir("service")'.mid = Tail(Dir("service").mid) /\ Dir("service")'.in = Dir("service").in \o <<Head(Dir("service").mid)>>
      BY <3>3, <1>2, <1>4, <1>5, <1>6
    <3>6. Way(Dir("service")')
      BY <3>3, <3>4, <3>5, <2>0, <1>1, WayMoveMid
    <3> QED
      BY <3>6, <2>3, <1>17
  <2>4. CASE t = "downRelay"
    <3>1. /\ pipe["tunnelDown"] = q /\ pipe["visitorDown"] = m /\ pipe'["tunnelDown"] = r /\ pipe'["visitorDown"] = p
          /\ pipe'["serviceDown"] = pipe["serviceDown"] /\ "visitorDown" \notin unread
      BY <2>4, <1>1, <1>3, <1>7
    <3>2. Same(Dir("visitor"), Dir("visitor")', {"mid", "in"})
      BY <3>1 DEF Same, Fields, Dir, Reader, First
    <3>3. /\ Dir("visitor").inReader = "there" /\ Dir("visitor").first = 0
          /\ Dir("visitor").mid = q /\ Dir("visitor").in = m /\ Dir("visitor")'.mid = r /\ Dir("visitor")'.in = p
      BY <3>1, <2>4, <1>9 DEF Dir, Reader, First, RelayTask
    <3>4. Turns(Dir("visitor"), Dir("visitor")', {"mid", "in"})
      BY <3>2, <1>10, <1>16, Turning
    <3>5. Dir("visitor")'.mid = Tail(Dir("visitor").mid) /\ Dir("visitor")'.in = Dir("visitor").in \o <<Head(Dir("visitor").mid)>>
      BY <3>3, <1>2, <1>4, <1>5, <1>6
    <3>6. Way(Dir("visitor")')
      BY <3>3, <3>4, <3>5, <2>0, <1>1, WayMoveMid
    <3> QED
      BY <3>6, <2>4, <1>17
  <2> QED
    BY <2>1, <2>2, <2>3, <2>4
<1>20. Directions'
  BY <1>17, <1>18, <1>19 DEF Directions
<1> QED
  BY <1>10, <1>11, <1>12, <1>13, <1>14, <1>15, <1>20 DEF StreamInv

\* The tasks ts end with t, and the pipes in closed lose their reader.
Rest(t, p) == IF p = From[t] THEN Tail(pipe[p]) ELSE pipe[p]
Told(ts, p) == p \notin unread /\ \E u \in ts : p = To[u]

Ends(t, ts, closed) ==
    /\ t \in ts /\ \A u \in ts : task[u] = "running"
    /\ ts = {t} \/ (kind = "tls" /\ t \in RelayTask /\ ts = RelayTask)
    /\ task' = [u \in Task |-> IF u \in ts THEN "done" ELSE task[u]]
    /\ closed \subseteq {"tunnelUp", "tunnelDown", "visitorUp", "serviceDown"}
    /\ "tunnelUp" \in closed <=> "upClient" \in ts
    /\ "tunnelDown" \in closed <=> "downRelay" \in ts
    /\ "visitorUp" \in closed => task'["upRelay"] = "done" /\ task'["downRelay"] = "done"
    /\ "serviceDown" \in closed => task'["upClient"] = "done" /\ task'["downClient"] = "done"
    /\ unread' = unread \cup closed
    /\ pipe' \in [Pipe -> Items]
    /\ \A p \in closed : pipe'[p] = <<>>
    /\ \A p \in Pipe \ closed :
         /\ ~Told(ts, p) => pipe'[p] = Rest(t, p)
         /\ Told(ts, p) => \E z \in Items : pipe'[p] = Rest(t, p) \o z /\ OnlyMarks(z) /\ (p \notin Tunnel => Plain(z))

\* That is what happens when a task meets the end of its input or cannot write.
LEMMA MoveEnds ==
    ASSUME StreamTypes, NEW t \in Task, task[t] = "running", pipe[From[t]] # <<>>, NEW item, NEW rest,
           rest = [pipe EXCEPT ![From[t]] = Tail(@)],
           TasksEnd(Ending(t), IF Farewell(t, item) THEN Put(rest, To[t], <<Mark("close")>>) ELSE rest)
    PROVE  \E ts, closed : Ends(t, ts, closed)
<1> USE Names
<1> DEFINE ts == Ending(t)
           done(u) == u \in ts \/ task[u] = "done"
           closed == {From[u] : u \in {v \in ts : ~Socket(v)}}
                       \cup (IF done("upRelay") /\ done("downRelay") THEN {"visitorUp"} ELSE {})
                       \cup (IF done("upClient") /\ done("downClient") THEN {"serviceDown"} ELSE {})
           ps == IF Farewell(t, item) THEN Put(rest, To[t], <<Mark("close")>>) ELSE rest
           finished == {To[u] : u \in ts} \ unread
<1>1. /\ task' = [u \in Task |-> IF u \in ts THEN "done" ELSE task[u]]
      /\ unread' = unread \cup closed
      /\ pipe' = [p \in Pipe |-> IF p \in closed THEN <<>>
                                 ELSE IF p \in finished /\ ~(p \in Tunnel /\ tunnelLink = "lost")
                                 THEN Append(ps[p], Mark("fin")) ELSE ps[p]]
  BY DEF TasksEnd
<1>2. \A p : p \in finished <=> Told(ts, p)
  <2> HIDE DEF ts
  <2> QED
    BY DEF Told
<1>3. /\ closed \subseteq {"tunnelUp", "tunnelDown", "visitorUp", "serviceDown"}
      /\ "visitorUp" \in closed => done("upRelay") /\ done("downRelay")
      /\ "serviceDown" \in closed => done("upClient") /\ done("downClient")
      /\ "tunnelUp" \in closed <=> "upClient" \in ts
      /\ "tunnelDown" \in closed <=> "downRelay" \in ts
  BY DEF Socket, Tunnel, Ending, RelayTask
<1>4. ps = IF Farewell(t, item) THEN Put(rest, To[t], <<Mark("close")>>) ELSE rest
  OBVIOUS
<1>5. ts = Ending(t)
  OBVIOUS
<1> HIDE DEF ts, closed, ps, finished
<1>6. /\ t \in ts /\ ts \subseteq Task /\ \A u \in ts : task[u] = "running"
      /\ ts = {t} \/ (kind = "tls" /\ t \in RelayTask /\ ts = RelayTask)
  BY <1>5 DEF Ending, RelayTask
<1>7. /\ "visitorUp" \in closed => task'["upRelay"] = "done" /\ task'["downRelay"] = "done"
      /\ "serviceDown" \in closed => task'["upClient"] = "done" /\ task'["downClient"] = "done"
  BY <1>1, <1>3
<1>8. ASSUME NEW p \in Pipe
       PROVE  /\ Rest(t, p) \in Items
              /\ \E c \in Items : /\ c \in {<<>>, <<Mark("close")>>} /\ ps[p] = Rest(t, p) \o c
                                  /\ ~Told(ts, p) => ps[p] = Rest(t, p)
                                  /\ p \notin Tunnel => c = <<>>
  <2>1. rest[p] = Rest(t, p) /\ Rest(t, p) \in Items /\ rest \in [Pipe -> Items]
    BY HeadTail DEF StreamTypes, Rest
  <2>2. <<>> \in Items /\ Rest(t, p) \o <<>> = Rest(t, p)
    BY <2>1, MarksOf, ConcatEmptySeq DEF Items
  <2>3. <<Mark("close")>> \in Items
    BY ItemKinds, Single DEF EndMark
  <2>4. CASE Farewell(t, item) /\ p = To[t] /\ p \notin unread
    <3>1. ps[p] = Rest(t, p) \o <<Mark("close")>>
      BY <2>1, <2>4, <1>4 DEF Put
    <3>2. Told(ts, p) /\ p \in Tunnel
      BY <2>4, <1>6 DEF Told, Farewell, Socket, Tunnel
    <3> QED
      BY <3>1, <3>2, <2>1, <2>3
  <2>5. CASE ~(Farewell(t, item) /\ p = To[t] /\ p \notin unread)
    <3>1. ps[p] = Rest(t, p)
      BY <2>1, <2>5, <1>4 DEF Put
    <3> QED
      BY <3>1, <2>1, <2>2
  <2> QED
    BY <2>4, <2>5
<1>9. ASSUME NEW p \in Pipe, p \notin closed
       PROVE  /\ pipe'[p] \in Items
              /\ ~Told(ts, p) => pipe'[p] = Rest(t, p)
              /\ Told(ts, p) => \E z \in Items : pipe'[p] = Rest(t, p) \o z /\ OnlyMarks(z) /\ (p \notin Tunnel => Plain(z))
  <2>1. PICK c \in Items : /\ c \in {<<>>, <<Mark("close")>>} /\ ps[p] = Rest(t, p) \o c
                           /\ ~Told(ts, p) => ps[p] = Rest(t, p)
                           /\ p \notin Tunnel => c = <<>>
    BY <1>8
  <2>2. PICK q \in Items : q = Rest(t, p)
    BY <1>8
  <2>3. PICK z \in Items : Append(q \o c, Mark("fin")) = q \o z /\ OnlyMarks(z) /\ (c = <<>> => Plain(z))
    BY <2>1, Trail
  <2>4. OnlyMarks(c) /\ (c = <<>> => Plain(c)) /\ q \o c \in Items /\ q \o z \in Items
    BY <2>1, Trail, Joined
  <2>5. p \in finished <=> Told(ts, p)
    BY <1>2
  <2>6. pipe'[p] = IF p \in finished /\ ~(p \in Tunnel /\ tunnelLink = "lost") THEN Append(ps[p], Mark("fin")) ELSE ps[p]
    BY <1>1, <1>9
  <2>7. CASE p \in finished /\ ~(p \in Tunnel /\ tunnelLink = "lost")
    <3>1. pipe'[p] = q \o z
      BY <2>6, <2>7, <2>1, <2>2, <2>3
    <3> QED
      BY <3>1, <2>1, <2>2, <2>3, <2>4, <2>5, <2>7
  <2>8. CASE ~(p \in finished /\ ~(p \in Tunnel /\ tunnelLink = "lost"))
    <3>1. pipe'[p] = ps[p]
      BY <2>6, <2>8
    <3> QED
      BY <3>1, <2>1, <2>2, <2>4
  <2> QED
    BY <2>7, <2>8
<1>10. \A p \in closed : pipe'[p] = <<>>
  BY <1>1, <1>3
<1>11. pipe' \in [Pipe -> Items]
  BY <1>1, <1>9, <1>10, MarksOf
<1>12. Ends(t, ts, closed)
  BY <1>1, <1>3, <1>6, <1>7, <1>9, <1>10, <1>11, ZenonT(60) DEF Ends
<1> QED
  BY <1>12

\* A task of the tunnel's ends because of what is in front of it or behind it, and the
\* other task of a TLS visitor has an excuse to end with it.
LEMMA Causes ==
    ASSUME StreamInv, NEW t \in Task, task[t] = "running", pipe[From[t]] # <<>>,
           Head(pipe[From[t]]).kind # "data" \/ To[t] \in unread
    PROVE  /\ To[t] \notin unread => Head(pipe[From[t]]).kind \in EndMark /\ Marked(pipe[From[t]])
           /\ t = "upRelay" /\ kind = "tls" => Excused("visitor")
           /\ t = "downRelay" /\ kind = "tls" => Excused("service")
           /\ t = "upClient" => tunnelLink = "lost" \/ task["upRelay"] = "done" \/ end["service"] = "aborted"
           /\ t = "downClient" /\ To[t] \notin unread => end["service"] # "open"
           /\ t = "upRelay" /\ To[t] \notin unread => end["visitor"] # "open"
<1> USE Names
<1>0. StreamTypes /\ Phases /\ Reasons /\ QuietTasks
  BY DEF StreamInv
<1>1. PICK q \in Items : q = pipe[From[t]] /\ q # <<>>
  BY <1>0 DEF StreamTypes
<1>2. To[t] \notin unread => Head(q).kind \in EndMark /\ Marked(q)
  BY <1>1, Running, MarksTaken
<1>3. /\ Unsent => tunnelLink = "lost"
      /\ t \in RelayTask => relayPhase = "proxy"
      /\ From[t] \in unread => tunnelLink = "lost"
  BY Running
<1>4. t = "upRelay" /\ To[t] \notin unread => end["visitor"] # "open"
  BY <1>0, <1>1, <1>2 DEF Reasons
<1>5. t = "downClient" /\ To[t] \notin unread => end["service"] # "open"
  BY <1>0, <1>1, <1>2 DEF Reasons
<1>6. t = "upRelay" /\ kind = "tls" => Excused("visitor")
  BY <1>0, <1>4 DEF Reasons, Excused
<1>7. t = "downRelay" /\ kind = "tls" => Excused("service")
  BY <1>0, <1>1, <1>2, <1>3 DEF Reasons, Excused
<1>8. t = "upClient" => tunnelLink = "lost" \/ task["upRelay"] = "done" \/ end["service"] = "aborted"
  <2> SUFFICES ASSUME t = "upClient", tunnelLink # "lost", end["service"] # "aborted", task["upRelay"] # "done"
               PROVE  FALSE
    OBVIOUS
  <2>1. "serviceUp" \notin unread /\ "tunnelUp" \notin unread
    BY <1>0, <1>3 DEF Reasons
  <2>2. Marked(pipe["tunnelUp"])
    BY <2>1, <1>1, <1>2
  <2>3. ~(task["upRelay"] = "running" \/ (task["upRelay"] = "idle" /\ relayPhase # "over"))
    BY <2>1, <2>2, <1>0 DEF QuietTasks, Quiet, PhaseOf, RelayTask
  <2>4. Unsent
    BY <2>3, <1>0 DEF Unsent, StreamTypes
  <2> QED
    BY <2>4, <1>3
<1> QED
  BY <1>1, <1>2, <1>4, <1>5, <1>6, <1>7, <1>8

\* What a task's end leaves of the marks.
LEMMA EndMarks ==
    ASSUME StreamTypes, NEW t \in Task, pipe[From[t]] # <<>>, NEW ts, NEW closed, Ends(t, ts, closed)
    PROVE  /\ \A p \in Pipe : Marked(pipe'[p]) => Marked(pipe[p]) \/ Told(ts, p)
           /\ \A p \in {"visitorDown", "serviceUp"} : Plain(pipe[p]) => Plain(pipe'[p])
           /\ \A p \in Pipe \ closed : p # From[t] /\ ~Told(ts, p) => pipe'[p] = pipe[p]
<1> USE Names
<1>0. \A p \in Pipe \ closed :
         /\ ~Told(ts, p) => pipe'[p] = Rest(t, p)
         /\ Told(ts, p) => \E z \in Items : pipe'[p] = Rest(t, p) \o z /\ OnlyMarks(z) /\ (p \notin Tunnel => Plain(z))
  BY DEF Ends
<1>1. ASSUME NEW p \in Pipe
      PROVE  Rest(t, p) \in Items /\ (Marked(Rest(t, p)) => Marked(pipe[p])) /\ (p # From[t] => Rest(t, p) = pipe[p])
  BY HeadTail, MarksTaken DEF StreamTypes, Rest
<1>2. ASSUME NEW p \in Pipe
      PROVE  Marked(pipe'[p]) => Marked(pipe[p]) \/ Told(ts, p)
  <2>1. CASE p \in closed
    BY <2>1, MarksOf DEF Ends
  <2>2. CASE p \notin closed
    BY <2>2, <1>1 DEF Ends
  <2> QED
    BY <2>1, <2>2
<1>3. ASSUME NEW p \in {"visitorDown", "serviceUp"}, Plain(pipe[p])
      PROVE  Plain(pipe'[p])
  <2>1. p \in Pipe /\ p \notin closed /\ p \notin Tunnel /\ p # From[t]
    BY DEF Ends, Tunnel
  <2>2. PICK q \in Items : q = Rest(t, p) /\ q = pipe[p]
    BY <2>1, <1>1
  <2>3. CASE Told(ts, p)
    <3>1. PICK z \in Items : pipe'[p] = q \o z /\ Plain(z)
      BY <2>1, <2>2, <2>3, <1>0
    <3> QED
      BY <3>1, <2>2, <1>3, MarksJoined
  <2>4. CASE ~Told(ts, p)
    BY <2>1, <2>2, <2>4, <1>0, <1>3
  <2> QED
    BY <2>3, <2>4
<1>4. \A p \in Pipe \ closed : p # From[t] /\ ~Told(ts, p) => pipe'[p] = pipe[p]
  BY <1>1 DEF Ends
<1> QED
  BY <1>2, <1>3, <1>4

\* Tasks end: everything but the directions.
LEMMA EndKeepsRest ==
    ASSUME StreamInv, NEW t \in Task, task[t] = "running", pipe[From[t]] # <<>>,
           Head(pipe[From[t]]).kind # "data" \/ To[t] \in unread,
           NEW ts, NEW closed, Ends(t, ts, closed),
           UNCHANGED <<relayPhase, record, clientPhase, wrote, got, end, saw, tunnelLink, kind>>
    PROVE  StreamTypes' /\ SocketKinds' /\ Phases' /\ Recorded' /\ Reasons' /\ QuietTasks' /\ Onward
<1> USE Names
<1>0. StreamTypes /\ SocketKinds /\ Phases /\ Recorded /\ Reasons /\ QuietTasks
  BY DEF StreamInv
<1>1. /\ t \in ts /\ \A u \in ts : task[u] = "running"
      /\ ts = {t} \/ (kind = "tls" /\ t \in RelayTask /\ ts = RelayTask)
      /\ task' = [u \in Task |-> IF u \in ts THEN "done" ELSE task[u]]
      /\ unread' = unread \cup closed /\ pipe' \in [Pipe -> Items]
  BY DEF Ends
<1>2. /\ closed \subseteq {"tunnelUp", "tunnelDown", "visitorUp", "serviceDown"}
      /\ "tunnelUp" \in closed <=> "upClient" \in ts
      /\ "tunnelDown" \in closed <=> "downRelay" \in ts
      /\ "visitorUp" \in closed => task'["upRelay"] = "done" /\ task'["downRelay"] = "done"
      /\ "serviceDown" \in closed => task'["upClient"] = "done" /\ task'["downClient"] = "done"
  BY DEF Ends
<1>3. \A p \in Pipe : Marked(pipe'[p]) => Marked(pipe[p]) \/ Told(ts, p)
  BY <1>0, EndMarks
<1>4. \A p \in {"visitorDown", "serviceUp"} : Plain(pipe[p]) => Plain(pipe'[p])
  BY <1>0, EndMarks
<1>5. \A p \in Pipe \ closed : p # From[t] /\ ~Told(ts, p) => pipe'[p] = pipe[p]
  BY <1>0, EndMarks
<1>6. /\ Unsent => tunnelLink = "lost"
      /\ t \in RelayTask => relayPhase = "proxy"
      /\ t \notin RelayTask => clientPhase = "proxy"
  BY Running
<1>7. \A u \in Task : /\ task'[u] = "idle" <=> task[u] = "idle"
                      /\ task'[u] = "running" => task[u] = "running" /\ u \notin ts
                      /\ task[u] = "done" => task'[u] = "done"
                      /\ u \in ts => task'[u] = "done"
  BY <1>1
<1>8. StreamTypes'
  <2>1. task' \in [Task -> {"idle", "running", "done"}]
    BY <1>0, <1>1 DEF StreamTypes
  <2>2. unread' \subseteq Pipe
    BY <1>0, <1>1, <1>2 DEF StreamTypes
  <2> QED
    BY <2>1, <2>2, <1>0, <1>1 DEF StreamTypes
<1>9. SocketKinds'
  BY <1>0, <1>4 DEF SocketKinds
<1>10. Phases'
  <2>1. Unsent' <=> Unsent
    BY <1>7 DEF Unsent
  <2>2. kind = "tls" /\ relayPhase = "open" => pipe'["visitorUp"] = pipe["visitorUp"]
    <3> SUFFICES ASSUME kind = "tls", relayPhase = "open" PROVE pipe'["visitorUp"] = pipe["visitorUp"]
      OBVIOUS
    <3>1. t \notin RelayTask /\ task["upRelay"] = "idle"
      BY <1>0, <1>6 DEF Phases
    <3>2. "visitorUp" \notin closed
      BY <3>1, <1>2, <1>7
    <3>3. "visitorUp" # From[t] /\ ~Told(ts, "visitorUp")
      BY <3>1, <1>1 DEF RelayTask, Told
    <3> QED
      BY <3>2, <3>3, <1>5
  <2>3. /\ "tunnelUp" \in unread => "tunnelUp" \in unread'
        /\ "tunnelDown" \in unread => "tunnelDown" \in unread'
    BY <1>1
  <2> QED
    BY <2>1, <2>2, <2>3, <1>0, <1>6, <1>7 DEF Phases
<1>11. Recorded'
  BY <1>0, <1>7 DEF Recorded, RecordClosed
<1>12. Failed' <=> Failed
  BY <1>7 DEF Failed
<1>13. Reasons'
  <2>1. \A e \in SocketEnd : end[e] = "open" => ~Marked(pipe'[Out[e]])
    <3>1. ~Told(ts, "visitorUp") /\ ~Told(ts, "serviceDown")
      BY <1>1 DEF Told, RelayTask
    <3> QED
      BY <3>1, <1>0, <1>3 DEF Reasons
  <2>2. \A e \in SocketEnd : In[e] \in unread' => end[e] = "aborted"
    BY <1>0, <1>1, <1>2 DEF Reasons
  <2>3. "tunnelDown" \notin unread' /\ Marked(pipe'["tunnelDown"]) => end["service"] # "open" \/ Failed
    <3> SUFFICES ASSUME "tunnelDown" \notin unread', Marked(pipe'["tunnelDown"])
                 PROVE  end["service"] # "open" \/ Failed
      OBVIOUS
    <3>1. "tunnelDown" \notin unread
      BY <1>1
    <3>2. CASE Marked(pipe["tunnelDown"])
      BY <3>1, <3>2, <1>0 DEF Reasons
    <3>3. CASE Told(ts, "tunnelDown")
      <4>1. t = "downClient"
        BY <3>3, <1>1 DEF Told, RelayTask
      <4> QED
        BY <4>1, <3>1, Causes
    <3> QED
      BY <3>2, <3>3, <1>3
  <2>4. "tunnelUp" \in unread' =>
          \/ tunnelLink = "lost" \/ Failed
          \/ task'["upClient"] = "done" /\ (task'["upRelay"] = "done" \/ end["service"] = "aborted")
    <3>1. CASE "tunnelUp" \in unread
      BY <3>1, <1>0, <1>7 DEF Reasons
    <3>2. CASE "tunnelUp" \in closed
      <4>1. t = "upClient" /\ task'["upClient"] = "done"
        BY <3>2, <1>1, <1>2, <1>7 DEF RelayTask
      <4>2. tunnelLink = "lost" \/ task["upRelay"] = "done" \/ end["service"] = "aborted"
        BY <4>1, Causes
      <4> QED
        BY <4>1, <4>2, <1>7
    <3> QED
      BY <3>1, <3>2, <1>1
  <2>5. "tunnelDown" \in unread' => tunnelLink = "lost" \/ task'["downRelay"] = "done"
    BY <1>0, <1>1, <1>2, <1>7 DEF Reasons
  <2>6. /\ "visitorUp" \in unread' => relayPhase = "over" \/ task'["upRelay"] = "done"
        /\ "serviceDown" \in unread' => task'["downClient"] = "done"
    BY <1>0, <1>1, <1>2, <1>7 DEF Reasons
  <2> QED
    BY <2>1, <2>2, <2>3, <2>4, <2>5, <2>6, <1>12 DEF Reasons
<1>14. QuietTasks'
  <2> SUFFICES ASSUME NEW u \in Task, task'[u] = "running" \/ (task'[u] = "idle" /\ PhaseOf(u) # "over")
               PROVE  To[u] \in unread' \/ ~Marked(pipe'[To[u]])
    BY DEF QuietTasks, Quiet, PhaseOf
  <2>1. To[u] \in unread \/ ~Marked(pipe[To[u]])
    BY <1>0, <1>7 DEF QuietTasks, Quiet
  <2>2. u \notin ts
    BY <1>7
  <2>3. ~Told(ts, To[u])
    BY <2>2, <1>1 DEF Told, RelayTask
  <2> QED
    BY <2>1, <2>3, <1>1, <1>3
<1>15. Onward
  BY <1>12 DEF Onward
<1> QED
  BY <1>8, <1>9, <1>10, <1>11, <1>13, <1>14, <1>15

\* Tasks end: the directions.
LEMMA EndDirections ==
    ASSUME StreamInv, NEW t \in Task, task[t] = "running", pipe[From[t]] # <<>>,
           Head(pipe[From[t]]).kind # "data" \/ To[t] \in unread,
           NEW ts, NEW closed, Ends(t, ts, closed), StreamTypes', Onward,
           UNCHANGED <<relayPhase, record, clientPhase, wrote, got, end, saw, tunnelLink, kind>>
    PROVE  Directions'
<1> USE Names
<1> DEFINE Kept(p) == IF p \in closed THEN Rest(t, p) ELSE pipe'[p]
<1>0. StreamTypes /\ Phases /\ Reasons
  BY DEF StreamInv
<1>1. /\ t \in ts
      /\ ts = {t} \/ (kind = "tls" /\ t \in RelayTask /\ ts = RelayTask)
      /\ task' = [u \in Task |-> IF u \in ts THEN "done" ELSE task[u]]
      /\ unread' = unread \cup closed
      /\ closed \subseteq {"tunnelUp", "tunnelDown", "visitorUp", "serviceDown"}
      /\ "tunnelUp" \in closed <=> "upClient" \in ts
      /\ "tunnelDown" \in closed <=> "downRelay" \in ts
  BY DEF Ends
<1>2. /\ \A p \in closed : pipe'[p] = <<>>
      /\ \A p \in Pipe \ closed :
           /\ ~Told(ts, p) => pipe'[p] = Rest(t, p)
           /\ Told(ts, p) => \E z \in Items : pipe'[p] = Rest(t, p) \o z /\ OnlyMarks(z)
  BY DEF Ends
<1>3. \A p \in Pipe : Rest(t, p) \in Items /\ (p # From[t] => Rest(t, p) = pipe[p])
  BY <1>0, HeadTail DEF StreamTypes, Rest
<1>4. Rest(t, From[t]) = Tail(pipe[From[t]])
  BY DEF Rest
<1>5. \A p \in Pipe : /\ Kept(p) \in Items
                      /\ p \in closed \/ ~Told(ts, p) => Kept(p) = Rest(t, p)
                      /\ p \notin closed /\ Told(ts, p) => \E z \in Items : Kept(p) = Rest(t, p) \o z /\ OnlyMarks(z)
                      /\ p \notin closed => pipe'[p] = Kept(p)
  <2> SUFFICES ASSUME NEW p \in Pipe
               PROVE  /\ Kept(p) \in Items
                      /\ p \in closed \/ ~Told(ts, p) => Kept(p) = Rest(t, p)
                      /\ p \notin closed /\ Told(ts, p) => \E z \in Items : Kept(p) = Rest(t, p) \o z /\ OnlyMarks(z)
                      /\ p \notin closed => pipe'[p] = Kept(p)
    OBVIOUS
  <2>1. pipe'[p] \in Items /\ Rest(t, p) \in Items
    BY <1>3 DEF StreamTypes
  <2>2. CASE p \in closed
    BY <2>1, <2>2
  <2>3. CASE p \notin closed
    BY <2>1, <2>3, <1>2
  <2> QED
    BY <2>2, <2>3
<1>6. \A p \in Pipe : Closing(Kept(p), Reader(p), pipe'[p], Reader(p)')
  BY <1>1, <1>2 DEF Closing, Reader
<1> HIDE DEF Kept
<1>7. \A e \in SocketEnd : Status(e)' = Status(e)
  <2>1. Failed' <=> Failed
    BY <1>1 DEF Failed, Ends
  <2> QED
    BY <2>1 DEF Status, Excused
<1>8. ASSUME NEW e \in SocketEnd,
             Ended(Dir(e), Dir(e)', Kept(Out[Peer[e]]), Kept(Middle[e]), Kept(In[e]))
      PROVE  Way(Dir(e)')
  <2>1. Same(Dir(e), Dir(e)', {"out", "outReader", "mid", "midReader", "in"})
    BY <1>1 DEF Same, Fields, Dir, Reader, First
  <2>2. Turns(Dir(e), Dir(e)', {"out", "outReader", "mid", "midReader", "in"})
    BY <2>1, Turning
  <2>3. Out[Peer[e]] \in Pipe /\ Middle[e] \in Pipe /\ In[e] \in Pipe /\ In[e] \notin closed
    BY <1>1
  <2>4. PICK o \in Items, m \in Items, i \in Items : o = Kept(Out[Peer[e]]) /\ m = Kept(Middle[e]) /\ i = Kept(In[e])
    BY <2>3, <1>5
  <2>5. Dir(e)'.in = i
    BY <2>3, <2>4, <1>5 DEF Dir
  <2>6. /\ Closing(o, Dir(e).outReader, Dir(e)'.out, Dir(e)'.outReader)
        /\ Closing(m, Dir(e).midReader, Dir(e)'.mid, Dir(e)'.midReader)
    BY <2>3, <2>4, <1>6 DEF Dir
  <2> QED
    BY <2>2, <2>4, <2>5, <2>6, <1>8, WayEnds
<1>9. /\ To[t] \notin unread => Head(pipe[From[t]]).kind \in EndMark
      /\ t = "upRelay" /\ kind = "tls" => Excused("visitor")
      /\ t = "downRelay" /\ kind = "tls" => Excused("service")
      /\ t = "downClient" /\ To[t] \notin unread => end["service"] # "open"
      /\ t = "upRelay" /\ To[t] \notin unread => end["visitor"] # "open"
  BY Causes
<1>10. /\ t \notin RelayTask => clientPhase = "proxy"
       /\ From[t] \in unread => tunnelLink = "lost"
       /\ Socket(t) => From[t] \notin unread
  BY Running
<1>11. CASE t = "upRelay"
  <2>1. Ended(Dir("service"), Dir("service")', Kept("visitorUp"), Kept("tunnelUp"), Kept("serviceUp"))
    <3>1. Kept("visitorUp") = Tail(pipe["visitorUp"]) /\ Kept("serviceUp") = pipe["serviceUp"]
      BY <1>11, <1>1, <1>3, <1>4, <1>5 DEF Told, RelayTask
    <3>2. CASE "tunnelUp" \in unread
      <4>1. Kept("tunnelUp") = pipe["tunnelUp"] /\ Reader("tunnelUp") = "gone"
        BY <3>2, <1>11, <1>1, <1>3, <1>5 DEF Told, RelayTask, Reader
      <4> QED
        BY <3>1, <4>1, <1>11 DEF Ended, Dir
    <3>3. CASE "tunnelUp" \notin unread
      <4>1. \E z \in Items : Kept("tunnelUp") = pipe["tunnelUp"] \o z /\ OnlyMarks(z)
        BY <3>3, <1>11, <1>1, <1>3, <1>5 DEF Told, RelayTask
      <4>2. Head(pipe["visitorUp"]).kind \in EndMark /\ Reader("visitorUp") = "there"
        BY <3>3, <1>11, <1>9, <1>10 DEF Socket, Tunnel, Reader
      <4>3. Status("service")' \in {"excused", "shut"}
        BY <3>3, <1>11, <1>7, <1>9 DEF Status
      <4> QED
        BY <3>1, <4>1, <4>2, <4>3, <1>11 DEF Ended, Dir
    <3> QED
      BY <3>2, <3>3
  <2>2. Ended(Dir("visitor"), Dir("visitor")', Kept("serviceDown"), Kept("tunnelDown"), Kept("visitorDown"))
    <3>1. Kept("serviceDown") = pipe["serviceDown"] /\ Kept("tunnelDown") = pipe["tunnelDown"]
      BY <1>11, <1>1, <1>3, <1>5 DEF Told, RelayTask
    <3>2. CASE Told(ts, "visitorDown")
      <4>1. \E z \in Items : Kept("visitorDown") = pipe["visitorDown"] \o z /\ OnlyMarks(z)
        BY <3>2, <1>11, <1>1, <1>3, <1>5 DEF RelayTask
      <4>2. Status("visitor")' = "excused"
        BY <3>2, <1>11, <1>1, <1>7, <1>9 DEF Status, Told
      <4> QED
        BY <3>1, <4>1, <4>2 DEF Ended, Dir
    <3>3. CASE ~Told(ts, "visitorDown")
      <4>1. Kept("visitorDown") = pipe["visitorDown"]
        BY <3>3, <1>11, <1>3, <1>5
      <4> QED
        BY <3>1, <4>1 DEF Ended, Dir
    <3> QED
      BY <3>2, <3>3
  <2> QED
    BY <2>1, <2>2, <1>8 DEF Directions
<1>12. CASE t = "downRelay"
  <2>1. Ended(Dir("service"), Dir("service")', Kept("visitorUp"), Kept("tunnelUp"), Kept("serviceUp"))
    <3>1. Kept("visitorUp") = pipe["visitorUp"] /\ Kept("serviceUp") = pipe["serviceUp"]
      BY <1>12, <1>1, <1>3, <1>5 DEF Told, RelayTask
    <3>2. CASE Told(ts, "tunnelUp")
      <4>1. \E z \in Items : Kept("tunnelUp") = pipe["tunnelUp"] \o z /\ OnlyMarks(z)
        BY <3>2, <1>12, <1>1, <1>3, <1>5 DEF RelayTask
      <4>2. Status("service")' = "excused"
        BY <3>2, <1>12, <1>1, <1>7, <1>9 DEF Status, Told
      <4> QED
        BY <3>1, <4>1, <4>2 DEF Ended, Dir
    <3>3. CASE ~Told(ts, "tunnelUp")
      <4>1. Kept("tunnelUp") = pipe["tunnelUp"]
        BY <3>3, <1>12, <1>3, <1>5
      <4> QED
        BY <3>1, <4>1 DEF Ended, Dir
    <3> QED
      BY <3>2, <3>3
  <2>2. Ended(Dir("visitor"), Dir("visitor")', Kept("serviceDown"), Kept("tunnelDown"), Kept("visitorDown"))
    <3>1. Kept("tunnelDown") = Tail(pipe["tunnelDown"]) /\ Kept("serviceDown") = pipe["serviceDown"]
      BY <1>12, <1>1, <1>3, <1>4, <1>5 DEF Told, RelayTask
    <3>2. First("visitor") = 0
      BY <1>12, <1>10 DEF First, RelayTask
    <3>3. CASE "visitorDown" \in unread
      <4>1. Kept("visitorDown") = pipe["visitorDown"] /\ Reader("visitorDown") = "gone"
        BY <3>3, <1>12, <1>1, <1>3, <1>5 DEF Told, RelayTask, Reader
      <4> QED
        BY <3>1, <3>2, <4>1, <1>12 DEF Ended, Dir
    <3>4. CASE "visitorDown" \notin unread
      <4>1. \E z \in Items : Kept("visitorDown") = pipe["visitorDown"] \o z /\ OnlyMarks(z)
        BY <3>4, <1>12, <1>1, <1>3, <1>5 DEF Told, RelayTask
      <4>2. Head(pipe["tunnelDown"]).kind \in EndMark
        BY <3>4, <1>12, <1>9
      <4>3. Status("visitor")' = "excused" \/ Reader("tunnelDown") = "there"
        BY <1>12, <1>7, <1>10 DEF Status, Excused, Reader
      <4> QED
        BY <3>1, <3>2, <4>1, <4>2, <4>3, <1>12 DEF Ended, Dir
    <3> QED
      BY <3>3, <3>4
  <2> QED
    BY <2>1, <2>2, <1>8 DEF Directions
<1>13. CASE t = "upClient"
  <2>1. Ended(Dir("service"), Dir("service")', Kept("visitorUp"), Kept("tunnelUp"), Kept("serviceUp"))
    <3>1. Kept("tunnelUp") = Tail(pipe["tunnelUp"]) /\ Kept("visitorUp") = pipe["visitorUp"]
      BY <1>13, <1>1, <1>3, <1>4, <1>5 DEF Told, RelayTask
    <3>2. First("service") = 0
      BY <1>13, <1>10 DEF First, RelayTask
    <3>3. CASE "serviceUp" \in unread
      <4>1. Kept("serviceUp") = pipe["serviceUp"] /\ Reader("serviceUp") = "gone"
        BY <3>3, <1>13, <1>1, <1>3, <1>5 DEF Told, RelayTask, Reader
      <4> QED
        BY <3>1, <3>2, <4>1, <1>13 DEF Ended, Dir
    <3>4. CASE "serviceUp" \notin unread
      <4>1. \E z \in Items : Kept("serviceUp") = pipe["serviceUp"] \o z /\ OnlyMarks(z)
        BY <3>4, <1>13, <1>1, <1>3, <1>5 DEF Told, RelayTask
      <4>2. Head(pipe["tunnelUp"]).kind \in EndMark
        BY <3>4, <1>13, <1>9
      <4>3. Status("service")' = "excused" \/ Reader("tunnelUp") = "there"
        BY <1>13, <1>7, <1>10 DEF Status, Excused, Reader
      <4> QED
        BY <3>1, <3>2, <4>1, <4>2, <4>3, <1>13 DEF Ended, Dir
    <3> QED
      BY <3>3, <3>4
  <2>2. Ended(Dir("visitor"), Dir("visitor")', Kept("serviceDown"), Kept("tunnelDown"), Kept("visitorDown"))
    <3>1. Kept("serviceDown") = pipe["serviceDown"] /\ Kept("tunnelDown") = pipe["tunnelDown"] /\ Kept("visitorDown") = pipe["visitorDown"]
      BY <1>13, <1>1, <1>3, <1>5 DEF Told, RelayTask
    <3> QED
      BY <3>1 DEF Ended, Dir
  <2> QED
    BY <2>1, <2>2, <1>8 DEF Directions
<1>14. CASE t = "downClient"
  <2>1. Ended(Dir("service"), Dir("service")', Kept("visitorUp"), Kept("tunnelUp"), Kept("serviceUp"))
    <3>1. Kept("visitorUp") = pipe["visitorUp"] /\ Kept("tunnelUp") = pipe["tunnelUp"] /\ Kept("serviceUp") = pipe["serviceUp"]
      BY <1>14, <1>1, <1>3, <1>5 DEF Told, RelayTask
    <3> QED
      BY <3>1 DEF Ended, Dir
  <2>2. Ended(Dir("visitor"), Dir("visitor")', Kept("serviceDown"), Kept("tunnelDown"), Kept("visitorDown"))
    <3>1. Kept("serviceDown") = Tail(pipe["serviceDown"]) /\ Kept("visitorDown") = pipe["visitorDown"]
      BY <1>14, <1>1, <1>3, <1>4, <1>5 DEF Told, RelayTask
    <3>2. CASE "tunnelDown" \in unread
      <4>1. Kept("tunnelDown") = pipe["tunnelDown"] /\ Reader("tunnelDown") = "gone"
        BY <3>2, <1>14, <1>1, <1>3, <1>5 DEF Told, RelayTask, Reader
      <4> QED
        BY <3>1, <4>1, <1>14 DEF Ended, Dir
    <3>3. CASE "tunnelDown" \notin unread
      <4>1. \E z \in Items : Kept("tunnelDown") = pipe["tunnelDown"] \o z /\ OnlyMarks(z)
        BY <3>3, <1>14, <1>1, <1>3, <1>5 DEF Told, RelayTask
      <4>2. Head(pipe["serviceDown"]).kind \in EndMark /\ Reader("serviceDown") = "there"
        BY <3>3, <1>14, <1>9, <1>10 DEF Socket, Tunnel, Reader
      <4>3. Status("visitor")' \in {"excused", "shut"}
        BY <3>3, <1>14, <1>7, <1>9 DEF Status
      <4> QED
        BY <3>1, <4>1, <4>2, <4>3, <1>14 DEF Ended, Dir
    <3> QED
      BY <3>2, <3>3
  <2> QED
    BY <2>1, <2>2, <1>8 DEF Directions
<1> QED
  BY <1>11, <1>12, <1>13, <1>14

\* A task makes a step.
LEMMA MoveKeeps ==
    ASSUME StreamInv, NEW t \in Task, Move(t)
    PROVE  StreamInv'
<1> DEFINE item == Head(pipe[From[t]])
           rest == [pipe EXCEPT ![From[t]] = Tail(@)]
<1>1. /\ task[t] = "running" /\ pipe[From[t]] # <<>>
      /\ UNCHANGED <<relayPhase, record, clientPhase, wrote, got, end, saw, tunnelLink, kind>>
  BY DEF Move, endVars
<1>2. CASE item.kind = "data" /\ To[t] \notin unread
  <2>1. pipe' = Put(rest, To[t], <<item>>) /\ UNCHANGED <<unread, task>>
    BY <1>2 DEF Move
  <2> QED
    BY <1>1, <1>2, <2>1, MoveDataKeeps
<1>3. CASE ~(item.kind = "data" /\ To[t] \notin unread)
  <2>1. TasksEnd(Ending(t), IF Farewell(t, item) THEN Put(rest, To[t], <<Mark("close")>>) ELSE rest)
    BY <1>3 DEF Move
  <2>2. PICK ts, closed : Ends(t, ts, closed)
    BY <1>1, <2>1, MoveEnds DEF StreamInv
  <2>3. StreamTypes' /\ SocketKinds' /\ Phases' /\ Recorded' /\ Reasons' /\ QuietTasks' /\ Onward
    BY <1>1, <1>3, <2>2, EndKeepsRest
  <2>4. Directions'
    BY <1>1, <1>3, <2>2, <2>3, EndDirections
  <2> QED
    BY <2>3, <2>4 DEF StreamInv
<1> QED
  BY <1>2, <1>3

\* A connection that nobody has opened yet.
LEMMA InitRight ==
    ASSUME StreamInit
    PROVE  StreamInv
<1> USE Names
<1>1. <<>> \in Items /\ <<>> \in Seq(Nat) /\ Len(<<>>) = 0 /\ ~Marked(<<>>) /\ OnlyMarks(<<>>) /\ Plain(<<>>)
  BY MarksOf DEF Marked, OnlyMarks, Plain
<1>2. \A p \in Pipe : pipe[p] = <<>>
  BY DEF StreamInit
<1>3. StreamTypes
  BY <1>1 DEF StreamInit, StreamTypes, FirstPhase
<1>4. SocketKinds /\ Reasons /\ QuietTasks
  BY <1>1, <1>2 DEF StreamInit, SocketKinds, Reasons, QuietTasks, Quiet, FirstPhase
<1>5. Phases /\ Recorded
  BY <1>2 DEF StreamInit, Phases, Unsent, Recorded, RecordClosed, FirstPhase
<1>6. ASSUME NEW e \in SocketEnd
      PROVE  Way(Dir(e))
  <2>1. PICK d \in Ways : d = Dir(e)
    BY <1>3, DirType
  <2>2. /\ d.out = <<>> /\ d.mid = <<>> /\ d.in = <<>> /\ d.got = <<>> /\ d.wrote = 0 /\ d.saw = "nothing"
        /\ d.first \in {0, 1}
    BY <2>1, <1>2 DEF Dir, StreamInit, First
  <2>3. \A r : Leg(<<>>, r, 0, 0, 0)
    BY <1>1 DEF Leg, Carries
  <2>4. Chained(d, 0, 0, 0)
    BY <2>2, <2>3, <1>1 DEF Chained
  <2>5. Whole(d, 0, 0)
    BY <2>2, <1>1 DEF Whole
  <2> QED
    BY <2>1, <2>2, <2>4, <2>5, <1>1 DEF Way
<1> QED
  BY <1>3, <1>4, <1>5, <1>6 DEF StreamInv, Directions

\* The invariant is inductive.
LEMMA StreamInductive ==
    ASSUME StreamInv, [StreamNext]_streamVars
    PROVE  StreamInv'
<1>1. ASSUME NEW e \in SocketEnd, Write(e) \/ Shut(e) \/ Abort(e) \/ Read(e)
      PROVE  StreamInv'
  BY <1>1, WriteKeeps, ShutKeeps, AbortKeeps, ReadKeeps
<1>2. ASSUME NEW t \in Task, Move(t)
      PROVE  StreamInv'
  BY <1>2, MoveKeeps
<1>3. CASE Handlers
  BY <1>3, SendConnectKeeps, PhaseKeeps, ConnectLocalKeeps DEF Handlers
<1>4. CASE Refuse \/ ConnectNotSent
  BY <1>4, RefuseKeeps
<1>5. CASE LocalRefused
  BY <1>5, LocalRefusedKeeps
<1>6. CASE TunnelFails
  BY <1>6, TunnelFailsKeeps
<1>7. CASE UNCHANGED streamVars
  BY <1>7 DEF streamVars, StreamInv, StreamTypes, SocketKinds, Phases, Unsent, Recorded, RecordClosed,
     Reasons, Failed, QuietTasks, Quiet, PhaseOf, Directions, Dir, Reader, First, Status, Excused
<1> QED
  BY <1>1, <1>2, <1>3, <1>4, <1>5, <1>6, <1>7 DEF StreamNext

\* What the chain of a direction says about what its reader has.
LEMMA WayIntact ==
    ASSUME NEW d \in Ways, Way(d)
    PROVE  /\ d.got = [k \in 1 .. Len(d.got) |-> k] /\ Len(d.got) <= d.wrote
           /\ d.saw = "eof" /\ d.status # "excused" => Len(d.got) = d.wrote /\ d.status = "shut"
<1>1. PICK s \in {0, 1}, a \in Nat, b \in Nat :
        /\ Leg(d.in, d.inReader, 0, Len(d.got), a) /\ Leg(d.mid, d.midReader, s, a, b)
        /\ Leg(d.out, d.outReader, 0, b, d.wrote) /\ s <= d.first
        /\ Whole(d, a, b)
  BY Unfolded
<1>2. d.got \in Seq(Nat) /\ Len(d.got) \in Nat /\ d.wrote \in Nat
  BY Unfolded
<1>3. Len(d.got) <= d.wrote
  BY <1>1, <1>2 DEF Leg
<1>4. d.got = [k \in 1 .. Len(d.got) |-> k]
  <2>1. d.got \in [1 .. Len(d.got) -> Nat]
    BY <1>2, LenProperties
  <2> QED
    BY <2>1 DEF Way
<1> QED
  BY <1>1, <1>3, <1>4 DEF Whole

\* The invariant says what ProxiedRight says.
LEMMA StreamInvRight ==
    ASSUME StreamInv
    PROVE  ProxiedRight
<1>1. ASSUME NEW e \in SocketEnd
      PROVE  /\ got[e] = [i \in 1 .. Len(got[e]) |-> i] /\ Len(got[e]) <= wrote[Peer[e]]
             /\ saw[e] = "eof" /\ task["upClient"] # "idle" =>
                   \/ Len(got[e]) = wrote[Peer[e]] /\ end[Peer[e]] # "open"
                   \/ end[Peer[e]] = "aborted"
                   \/ tunnelLink = "lost"
                   \/ kind = "tls" /\ end[e] # "open"
  <2>1. Dir(e) \in Ways /\ Way(Dir(e))
    BY DirType DEF StreamInv, Directions
  <2>2. Dir(e).got = got[e] /\ Dir(e).wrote = wrote[Peer[e]] /\ Dir(e).saw = saw[e] /\ Dir(e).status = Status(e)
    BY DEF Dir
  <2>3. /\ got[e] = [i \in 1 .. Len(got[e]) |-> i] /\ Len(got[e]) <= wrote[Peer[e]]
        /\ saw[e] = "eof" /\ Status(e) # "excused" => Len(got[e]) = wrote[Peer[e]] /\ Status(e) = "shut"
    BY <2>1, <2>2, WayIntact
  <2>4. Status(e) = "shut" => end[Peer[e]] # "open"
    BY DEF Status
  <2>5. Status(e) = "excused" /\ task["upClient"] # "idle" =>
          end[Peer[e]] = "aborted" \/ tunnelLink = "lost" \/ (kind = "tls" /\ end[e] # "open")
    BY DEF Status, Excused, Failed
  <2> QED
    BY <2>3, <2>4, <2>5
<1>2. Intact
  BY <1>1 DEF Intact
<1> QED
  BY <1>2 DEF ProxiedRight, StreamInv, Recorded

-----------------------------------------------------------------------------
\* Through the proxies of the relay and the client an end reads what the other wrote, in
\* order and with nothing missing before the end of its input, unless the other aborted,
\* the tunnel was lost, or a TLS visitor's end had shut its own side; and the row of a
\* connection that is over does not stay active: for any number of chunks.
THEOREM ConnectionIntact == StreamSpec => []ProxiedRight
<1>1. StreamInit => StreamInv
  BY InitRight
<1>2. StreamInv /\ [StreamNext]_streamVars => StreamInv'
  BY StreamInductive
<1>3. StreamInv => ProxiedRight
  BY StreamInvRight
<1> QED
  BY <1>1, <1>2, <1>3, PTL DEF StreamSpec
=============================================================================
