---------------------------- MODULE WebSocketMux ----------------------------
(***************************************************************************)
(* The WebSocket transport (localup-transport-websocket): many streams     *)
(* over one socket, multiplexed by the two tasks of a WebSocketConnection. *)
(* The writer task puts the frames of every stream on the socket; the      *)
(* reader task takes frames off it and hands each to the channel of its    *)
(* stream, holding the read lock of the table of streams while it waits    *)
(* for room, and announces a stream it has not met to accept_stream.       *)
(*                                                                         *)
(* A conversation is the pair of ends that one open_stream meant to join;  *)
(* it is named after the end that opened it.  The messages it carries are  *)
(* numbered, and one frame holds one message, as send_message sends it.    *)
(***************************************************************************)
EXTENDS Integers, Sequences, SequencesExt, FiniteSets

CONSTANTS
    MaxCalls,       \* calls of open_stream, send_message, finish, close, drops and losses
    MaxOpened,      \* streams that one side opens
    MaxSent,        \* messages that one end of a stream sends
    ChannelRoom,    \* room of a stream's channel (256 in the code)
    FrameRoom,      \* room of the channel to the writer task (256)
    AcceptRoom      \* room of the accept channel (64)

ASSUME MuxBounds == {MaxCalls, MaxOpened, MaxSent, ChannelRoom, FrameRoom, AcceptRoom} \subseteq Nat \ {0}

Sides == {"client", "server"}
Across(s) == CHOOSE p \in Sides : p # s
Ids == 1 .. 2 * MaxOpened
FIN == 0                        \* stands for a message in a FIN frame, and for the
                                \* empty bytes that tell a stream it has ended

VARIABLES
    nextId,         \* AtomicU32 next_stream_id of each side
    opening,        \* the id an open_stream under way has drawn, or 0
    table,          \* per side: the ids in `streams'
    chan,           \* per side and id: what is in the channel of the stream
    stream,            \* per side and id: the WebSocketStream
    acceptQueue,    \* per side: the accept channel
    accepting,      \* per side: an accept_stream is waiting on that channel
    closedFlag,     \* per side: the flag `closed'
    released,       \* per side: the WebSocketConnection has been dropped
    reader, writer, \* per side: the two tasks
    out,            \* per side: the channel of frames to the writer task
    wire,           \* per side: frames on the socket on their way from it
    socket,           \* the socket: "up" or "down"
    calls           \* calls the users have made

muxVars == <<nextId, opening, table, chan, stream, acceptQueue, accepting, closedFlag,
             released, reader, writer, out, wire, socket, calls>>

\* closed, eof: the stream's own flag, and whether the end of the peer's side set it;
\* late: registered when the reader had already told all streams that it was ending.
NoEnd == [st |-> "none", opener |-> "nobody", closed |-> FALSE, eof |-> FALSE, late |-> FALSE,
          sent |-> 0, got |-> <<>>]
NewEnd(opener) == [NoEnd EXCEPT !.st = "open", !.opener = opener]
Reading == [st |-> "reading", id |-> 0, what |-> <<"nobody", FIN>>, todo |-> {}]

\* Fault: both sides draw from the same ids.
FirstId_Same(s) == 1
\* Server uses even stream ids, the client odd ones.
FirstId(s) == IF s = "server" THEN 2 ELSE 1

MuxInit ==
    /\ nextId = [s \in Sides |-> FirstId(s)]
    /\ opening = [s \in Sides |-> 0]
    /\ table = [s \in Sides |-> {}]
    /\ chan = [s \in Sides |-> [i \in Ids |-> <<>>]]
    /\ stream = [s \in Sides |-> [i \in Ids |-> NoEnd]]
    /\ acceptQueue = [s \in Sides |-> <<>>]
    /\ accepting = [s \in Sides |-> FALSE]
    /\ closedFlag = [s \in Sides |-> FALSE]
    /\ released = [s \in Sides |-> FALSE]
    /\ reader = [s \in Sides |-> Reading]
    /\ writer = [s \in Sides |-> "running"]
    /\ out = [s \in Sides |-> <<>>]
    /\ wire = [s \in Sides |-> <<>>]
    /\ socket = "up"
    /\ calls = 0

-----------------------------------------------------------------------------
(* The connection's operations *)

\* The reader holds the read lock of `streams' while it waits for room in a
\* stream's channel, and while it tells the streams that the socket is gone.
TableLocked(s) == reader[s].st \in {"sending", "telling"}

\* open_stream: the flag is looked at, the id drawn ...
open_stream(s) ==
    /\ ~released[s] /\ ~closedFlag[s] /\ opening[s] = 0 /\ nextId[s] \in Ids
    /\ opening' = [opening EXCEPT ![s] = nextId[s]]
    /\ nextId' = [nextId EXCEPT ![s] = @ + 2]
    /\ UNCHANGED <<table, chan, stream, acceptQueue, accepting, closedFlag, released, reader,
                   writer, out, wire, socket>>

\* ... and the stream registered once the write lock is free.
Register(s) ==
    /\ opening[s] # 0 /\ ~TableLocked(s)
    /\ table' = [table EXCEPT ![s] = @ \cup {opening[s]}]
    /\ chan' = [chan EXCEPT ![s][opening[s]] = <<>>]
    /\ stream' = [stream EXCEPT ![s][opening[s]] =
                   [NewEnd(s) EXCEPT !.late = reader[s].st = "ended"]]
    /\ opening' = [opening EXCEPT ![s] = 0]
    /\ UNCHANGED <<nextId, acceptQueue, accepting, closedFlag, released, reader, writer, out,
                   wire, socket>>

\* accept_stream looks at the flag and then waits on the accept channel, whose
\* sender the connection itself keeps: the wait has no end but a stream.
AcceptStream(s) ==
    /\ ~released[s] /\ ~closedFlag[s] /\ ~accepting[s]
    /\ accepting' = [accepting EXCEPT ![s] = TRUE]
    /\ UNCHANGED <<nextId, opening, table, chan, stream, acceptQueue, closedFlag, released,
                   reader, writer, out, wire, socket>>

Accepted(s) ==
    /\ accepting[s] /\ acceptQueue[s] # <<>>
    /\ stream' = [stream EXCEPT ![s][Head(acceptQueue[s])] = NewEnd(Across(s))]
    /\ acceptQueue' = [acceptQueue EXCEPT ![s] = Tail(@)]
    /\ accepting' = [accepting EXCEPT ![s] = FALSE]
    /\ UNCHANGED <<nextId, opening, table, chan, closedFlag, released, reader, writer, out,
                   wire, socket>>

\* close only sets the flag.
close_connection(s) ==
    /\ ~released[s] /\ ~closedFlag[s]
    /\ closedFlag' = [closedFlag EXCEPT ![s] = TRUE]
    /\ UNCHANGED <<nextId, opening, table, chan, stream, acceptQueue, accepting, released, reader,
                   writer, out, wire, socket>>

\* The owner is told None by accept_stream and drops the connection; streams
\* nobody accepted go with it.
DropConnection(s) ==
    /\ ~released[s] /\ closedFlag[s] /\ ~accepting[s] /\ opening[s] = 0
    /\ released' = [released EXCEPT ![s] = TRUE]
    /\ acceptQueue' = [acceptQueue EXCEPT ![s] = <<>>]
    /\ UNCHANGED <<nextId, opening, table, chan, stream, accepting, closedFlag, reader, writer,
                   out, wire, socket>>

-----------------------------------------------------------------------------
(* A stream's operations *)

Live(s, i) == stream[s][i].st = "open" /\ ~stream[s][i].closed

\* A frame for the writer task: waits for room, fails when the task has ended.
PutFrame(s, i, what) ==
    IF writer[s] = "ended" THEN UNCHANGED out
    ELSE /\ Len(out[s]) < FrameRoom
         /\ out' = [out EXCEPT ![s] =
                Append(@, [id |-> i, what |-> <<stream[s][i].opener, what>>])]

SendMessage(s, i) ==
    /\ Live(s, i) /\ stream[s][i].sent < MaxSent /\ writer[s] = "running"
    /\ PutFrame(s, i, stream[s][i].sent + 1)
    /\ stream' = [stream EXCEPT ![s][i].sent = @ + 1]
    /\ UNCHANGED <<nextId, opening, table, chan, acceptQueue, accepting, closedFlag, released,
                   reader, writer, wire, socket>>

\* finish sends a FIN, and closes the end for receiving as well.
Finish(s, i) ==
    /\ Live(s, i)
    /\ PutFrame(s, i, FIN)
    /\ stream' = [stream EXCEPT ![s][i].closed = TRUE]
    /\ UNCHANGED <<nextId, opening, table, chan, acceptQueue, accepting, closedFlag, released,
                   reader, writer, wire, socket>>

\* recv_message: the next message, or the empty bytes that end the stream; the
\* channel itself ends when the table goes, with the connection and the reader.
RecvMessage(s, i) ==
    /\ Live(s, i)
    /\ \/ /\ chan[s][i] # <<>>
          /\ LET c == Head(chan[s][i]) IN
             stream' = [stream EXCEPT ![s][i] =
                        IF c[2] = FIN THEN [@ EXCEPT !.closed = TRUE, !.eof = TRUE]
                                   ELSE [@ EXCEPT !.got = Append(stream[s][i].got, c)]]
          /\ chan' = [chan EXCEPT ![s][i] = Tail(@)]
       \/ /\ chan[s][i] = <<>> /\ released[s] /\ reader[s].st = "ended"
          /\ stream' = [stream EXCEPT ![s][i].closed = TRUE]
          /\ UNCHANGED chan
    /\ UNCHANGED <<nextId, opening, table, acceptQueue, accepting, closedFlag, released, reader,
                   writer, out, wire, socket>>

\* A WebSocketStream that is dropped tells the peer nothing.
DropStream(s, i) ==
    /\ stream[s][i].st = "open"
    /\ stream' = [stream EXCEPT ![s][i].st = "dropped"]
    /\ chan' = [chan EXCEPT ![s][i] = <<>>]
    /\ UNCHANGED <<nextId, opening, table, acceptQueue, accepting, closedFlag, released, reader,
                   writer, out, wire, socket>>

-----------------------------------------------------------------------------
(* The writer task *)

WriterTask(s) ==
    /\ writer[s] = "running" /\ out[s] # <<>>
    /\ IF socket = "up"
         THEN /\ wire' = [wire EXCEPT ![s] = Append(@, Head(out[s]))]
              /\ out' = [out EXCEPT ![s] = Tail(@)]
              /\ UNCHANGED <<writer, closedFlag>>
         ELSE /\ writer' = [writer EXCEPT ![s] = "ended"]
              /\ out' = [out EXCEPT ![s] = <<>>]
              /\ closedFlag' = [closedFlag EXCEPT ![s] = TRUE]
              /\ UNCHANGED wire
    /\ UNCHANGED <<nextId, opening, table, chan, stream, acceptQueue, accepting, released, reader,
                   socket>>

-----------------------------------------------------------------------------
(* The reader task *)

\* A frame of a stream in the table is handed over; a DATA frame of another
\* makes a stream; a FIN of a stream that is not there is passed over.
ReaderTask(s) ==
    /\ reader[s].st = "reading" /\ wire[Across(s)] # <<>>
    /\ LET f == Head(wire[Across(s)])
           new == f.id \notin table[s] /\ f.what[2] # FIN
       IN /\ table' = [table EXCEPT ![s] = IF new THEN @ \cup {f.id} ELSE @]
          /\ chan' = [chan EXCEPT ![s][f.id] = IF new THEN <<f.what>> ELSE @]
          /\ reader' = [reader EXCEPT ![s] =
                 IF f.id \in table[s] THEN [@ EXCEPT !.st = "sending", !.id = f.id, !.what = f.what]
                 ELSE IF new THEN [@ EXCEPT !.st = "announcing", !.id = f.id] ELSE @]
    /\ wire' = [wire EXCEPT ![Across(s)] = Tail(@)]
    /\ UNCHANGED <<nextId, opening, stream, acceptQueue, accepting, closedFlag, released, writer,
                   out, socket>>

\* What the reader hands over goes into the stream's channel when there is
\* room; nobody takes it when the stream has been dropped.
PutInChannel(s, i, what) ==
    LET dropped == stream[s][i].st = "dropped" \/ (stream[s][i].st = "none" /\ released[s])
    IN /\ dropped \/ Len(chan[s][i]) < ChannelRoom
       /\ chan' = [chan EXCEPT ![s][i] = IF dropped THEN @ ELSE Append(@, what)]

Deliver(s) ==
    /\ reader[s].st = "sending"
    /\ PutInChannel(s, reader[s].id, reader[s].what)
    /\ reader' = [reader EXCEPT ![s] = Reading]
    /\ UNCHANGED <<nextId, opening, table, stream, acceptQueue, accepting, closedFlag, released,
                   writer, out, wire, socket>>

\* A new stream is put in the accept channel when there is room; it is lost
\* when the connection that would accept it has been dropped.
Announce(s) ==
    /\ reader[s].st = "announcing"
    /\ released[s] \/ Len(acceptQueue[s]) < AcceptRoom
    /\ acceptQueue' = [acceptQueue EXCEPT ![s] =
                          IF released[s] THEN @ ELSE Append(@, reader[s].id)]
    /\ reader' = [reader EXCEPT ![s] = Reading]
    /\ UNCHANGED <<nextId, opening, table, chan, stream, accepting, closedFlag, released, writer,
                   out, wire, socket>>

\* Fault: the reader ends without telling the streams.
ReaderEnds_Silent(s) ==
    /\ reader[s].st = "reading" /\ socket = "down" /\ wire[Across(s)] = <<>>
    /\ closedFlag' = [closedFlag EXCEPT ![s] = TRUE]
    /\ reader' = [reader EXCEPT ![s] = [@ EXCEPT !.st = "telling", !.todo = {}]]
    /\ UNCHANGED <<nextId, opening, table, chan, stream, acceptQueue, accepting, released, writer,
                   out, wire, socket>>

\* The socket is at its end: the flag is set, and every stream of the table is
\* told with empty bytes, one after another, each when its channel has room.
ReaderEnds(s) ==
    /\ reader[s].st = "reading" /\ socket = "down" /\ wire[Across(s)] = <<>>
    /\ closedFlag' = [closedFlag EXCEPT ![s] = TRUE]
    /\ reader' = [reader EXCEPT ![s] = [@ EXCEPT !.st = "telling", !.todo = table[s]]]
    /\ UNCHANGED <<nextId, opening, table, chan, stream, acceptQueue, accepting, released, writer,
                   out, wire, socket>>

Tell(s) ==
    /\ reader[s].st = "telling"
    /\ IF reader[s].id = 0
         THEN /\ IF reader[s].todo = {}
                   THEN reader' = [reader EXCEPT ![s].st = "ended"]
                   ELSE \E i \in reader[s].todo :
                            reader' = [reader EXCEPT ![s] =
                                          [@ EXCEPT !.id = i, !.todo = reader[s].todo \ {i}]]
              /\ UNCHANGED chan
         ELSE /\ PutInChannel(s, reader[s].id, <<"nobody", FIN>>)
              /\ reader' = [reader EXCEPT ![s].id = 0]
    /\ UNCHANGED <<nextId, opening, table, stream, acceptQueue, accepting, closedFlag, released,
                   writer, out, wire, socket>>

\* The socket is lost, and with it some of what was on its way.
LoseLink ==
    /\ socket = "up"
    /\ socket' = "down"
    /\ \E n \in [Sides -> 0 .. 2] :
           /\ \A s \in Sides : n[s] <= Len(wire[s])
           /\ wire' = [s \in Sides |-> SubSeq(wire[s], 1, n[s])]
    /\ UNCHANGED <<nextId, opening, table, chan, stream, acceptQueue, accepting, closedFlag,
                   released, reader, writer, out>>

-----------------------------------------------------------------------------
\* What the users of the two connections decide to do: MaxCalls such calls.
Calls ==
    \/ LoseLink
    \/ \E s \in Sides :
          \/ open_stream(s) \/ close_connection(s)
          \/ \E i \in Ids :
                SendMessage(s, i) \/ Finish(s, i) \/ (Live(s, i) /\ DropStream(s, i))

\* What goes on by itself: the two tasks run; the owner of a connection accepts
\* streams until it is told that there are no more, and then lets go of it;
\* whoever holds a stream receives from it until it has ended, and drops it.
Goes(s) ==
    /\ \/ Register(s) \/ AcceptStream(s) \/ Accepted(s) \/ DropConnection(s) \/ WriterTask(s)
       \/ ReaderTask(s) \/ Deliver(s) \/ Announce(s) \/ ReaderEnds(s) \/ Tell(s)
       \/ \E i \in Ids : RecvMessage(s, i) \/ (~Live(s, i) /\ DropStream(s, i))
    /\ UNCHANGED calls

MuxNext ==
    \/ calls < MaxCalls /\ Calls /\ calls' = calls + 1
    \/ \E s \in Sides : Goes(s)

MuxSpec == MuxInit /\ [][MuxNext]_muxVars
-----------------------------------------------------------------------------
\* What an end has received is what the other end of the SAME conversation
\* sent, in the order in which it was sent and with nothing missing before it;
\* and an end that is told that its stream has ended, while the socket is up,
\* has received everything.  The two sides draw ids without asking each other
\* and the frames of all streams share one socket (WebSocketConnection::
\* open_stream, reader_task).
MuxIntact ==
    \A s \in Sides, i \in Ids :
        LET me == stream[s][i]
            other == stream[Across(s)][i]
        IN me.st # "none" =>
              /\ \A k \in 1 .. Len(me.got) : me.got[k] = <<me.opener, k>>
              /\ Len(me.got) <= other.sent
              /\ other.st # "none" => other.opener = me.opener
              /\ me.eof /\ socket = "up" => other.closed /\ Len(me.got) = other.sent

\* Once the socket is lost, whoever waits on a stream that was in the table
\* when the reader came to its end is told so (the loop "Close all streams" at
\* the end of reader_task), though each telling waits for room in a channel.
LossIsTold ==
    socket = "down" ~> \A s \in Sides, i \in Ids :
                         stream[s][i].st = "open" => stream[s][i].closed \/ stream[s][i].late
=============================================================================
