-------------------------- MODULE TransportStream --------------------------
(***************************************************************************)
(* One stream of a QUIC or an HTTP/2 connection (localup-transport-quic,   *)
(* localup-transport-h2), from open_stream to its end, and the codec that  *)
(* makes messages of the bytes that arrive (localup-proto codec.rs).       *)
(*                                                                         *)
(* quinn and h2 carry the bytes of a stream in order; they may come in     *)
(* pieces of any size.  A QUIC stream is known to the peer by its first    *)
(* bytes, an HTTP/2 stream by its request, which only the client can send  *)
(* and which accept_stream answers.  A byte is the number of its message,  *)
(* its place in it, the header first, and the length of the payload, which *)
(* is known with the last byte of the header.                              *)
(***************************************************************************)
EXTENDS Integers, Sequences, SequencesExt, FiniteSets

CONSTANTS
    HeaderSize,         \* bytes of the length in front of a message (4 in the code)
    MaxMessages,        \* messages the two ends send
    MaxLength,          \* MAX_MESSAGE_SIZE of the codec
    PipeRoom            \* bytes under way before write_all waits

ASSUME StreamBounds ==
    /\ HeaderSize \in Nat \ {0} /\ PipeRoom \in Nat \ {0}
    /\ MaxMessages \in Nat /\ MaxLength \in Nat

Ends == {"client", "server"}
Other(e) == CHOOSE o \in Ends : o # e

VARIABLES
    carrier,    \* "quic" or "h2"
    opener,     \* the end that opens the stream
    state,      \* per end: "none", "asked", "queued", "open", "failed", "dropped"
    closed,     \* per end and half: the flag(s) `closed'; unsplit ends have one
    split,      \* per end: the QuicStream has been split into its two halves
    sending,    \* per end: the bytes write_all has not written yet
    flow,       \* per end: bytes written and not yet read ...
    fin,        \* ... and what follows them: "no", "fin" or "reset"
    cut,        \* per end: write_all was left in the middle of the last message
    buffer,     \* per end: recv_buffer
    sent,       \* per end: lengths of the messages sent
    taken,      \* per end: messages decoded
    outcome,    \* per end: how receiving ended: "going", "none", "error", "early"
    alive       \* the connection is up

openVars == <<carrier, opener, state>>
sendVars == <<sending, flow, fin, cut, sent>>
recvVars == <<buffer, taken, outcome>>
tsVars == <<openVars, sendVars, recvVars, closed, split, alive>>

Halves == {"send", "recv"}

TsInit ==
    /\ carrier \in {"quic", "h2"}
    /\ opener \in Ends /\ (carrier = "h2" => opener = "client")
    /\ state = [e \in Ends |-> "none"]
    /\ closed = [e \in Ends |-> {}]
    /\ split = [e \in Ends |-> FALSE]
    /\ sending = [e \in Ends |-> <<>>]
    /\ flow = [e \in Ends |-> <<>>]
    /\ fin = [e \in Ends |-> "no"]
    /\ cut = [e \in Ends |-> FALSE]
    /\ buffer = [e \in Ends |-> <<>>]
    /\ sent = [e \in Ends |-> <<>>]
    /\ taken = [e \in Ends |-> <<>>]
    /\ outcome = [e \in Ends |-> "going"]
    /\ alive = TRUE

-----------------------------------------------------------------------------
(* TunnelCodec *)

\* encode: the length, then the payload.
Encode(n, length) ==
    [k \in 1 .. HeaderSize + length |-> [message |-> n, place |-> k - 1, length |-> length]]

\* decode: nothing until the buffer holds the header and the payload, which it then loses.
LengthIn(buf) == buf[HeaderSize].length
HoldsMessage(buf) == Len(buf) >= HeaderSize /\ Len(buf) >= HeaderSize + LengthIn(buf)
FirstMessage(buf) == SubSeq(buf, 1, HeaderSize + LengthIn(buf))
\* Fault: what follows a decoded message in the buffer is dropped.
AfterMessage_Cleared(buf) == <<>>
AfterMessage(buf) == SubSeq(buf, HeaderSize + LengthIn(buf) + 1, Len(buf))

-----------------------------------------------------------------------------
(* Opening a stream *)

\* QuicConnection::open_stream: open_bi asks nobody.
OpenBi ==
    /\ carrier = "quic" /\ alive /\ state[opener] = "none"
    /\ state' = [state EXCEPT ![opener] = "open"]
    /\ UNCHANGED <<carrier, opener, sendVars, recvVars, closed, split, alive>>

\* QuicConnection::accept_stream: accept_bi yields a stream of which something has arrived.
AcceptBi ==
    /\ carrier = "quic" /\ alive /\ state[Other(opener)] = "none"
    /\ flow[opener] # <<>> \/ fin[opener] # "no"
    /\ state' = [state EXCEPT ![Other(opener)] = "open"]
    /\ UNCHANGED <<carrier, opener, sendVars, recvVars, closed, split, alive>>

\* H2ClientConnection::open_stream sends a request and waits for the response ...
AskForStream ==
    /\ carrier = "h2" /\ alive /\ state["client"] = "none"
    /\ state' = [state EXCEPT ![opener] = "asked"]
    /\ UNCHANGED <<carrier, opener, sendVars, recvVars, closed, split, alive>>

\* ... which the driver task of the server puts in the accept channel ...
DriverAccepts ==
    /\ carrier = "h2" /\ alive /\ state["client"] = "asked" /\ state["server"] = "none"
    /\ state' = [state EXCEPT !["server"] = "queued"]
    /\ UNCHANGED <<carrier, opener, sendVars, recvVars, closed, split, alive>>

\* ... and H2ServerConnection::accept_stream answers with 200, or fails to.
RespondToStream ==
    /\ carrier = "h2" /\ state["server"] = "queued"
    /\ state' = [state EXCEPT !["server"] = IF alive /\ state["client"] = "asked"
                                              THEN "open" ELSE "failed"]
    /\ UNCHANGED <<carrier, opener, sendVars, recvVars, closed, split, alive>>

\* Fault: a stream asked for on a lost connection is waited for.
StreamAnswered_OrWaits ==
    /\ carrier = "h2" /\ state["client"] = "asked" /\ state["server"] = "open" /\ alive
    /\ state' = [state EXCEPT !["client"] = "open"]
    /\ UNCHANGED <<carrier, opener, sendVars, recvVars, closed, split, alive>>

StreamAnswered ==
    /\ carrier = "h2" /\ state["client"] = "asked"
    /\ \/ state["server"] = "open" /\ alive /\ state' = [state EXCEPT !["client"] = "open"]
       \/ ~alive /\ state' = [state EXCEPT !["client"] = "failed"]
    /\ UNCHANGED <<carrier, opener, sendVars, recvVars, closed, split, alive>>

-----------------------------------------------------------------------------
(* Using it *)

\* The one flag of an unsplit stream, or the flag of a half.
ClosedAfter(e, half) == IF split[e] THEN {half} ELSE Halves

\* An end that is not split is lent to one call at a time.
Sending(e) == state[e] = "open" /\ sending[e] = <<>> /\ "send" \notin closed[e]

\* QuicStream::split.
Split(e) ==
    /\ carrier = "quic" /\ Sending(e) /\ ~split[e]
    /\ split' = [split EXCEPT ![e] = TRUE]
    /\ UNCHANGED <<openVars, sendVars, recvVars, closed, alive>>

\* send_message: a closed stream and a message that is too long are errors; so are a lost
\* connection and a stream its reader has stopped, and the stream stays as it is.  HTTP/2
\* buffers the message, QUIC takes the bytes as there is room.
StreamSends(e, length) ==
    /\ Sending(e) /\ alive /\ ~cut[e]
    /\ length <= MaxLength /\ Len(sent["client"] \o sent["server"]) < MaxMessages
    /\ sent' = [sent EXCEPT ![e] = Append(@, length)]
    /\ LET bytes == Encode(Len(sent[e]) + 1, length) IN
       \/ carrier = "h2" /\ flow' = [flow EXCEPT ![e] = @ \o bytes] /\ UNCHANGED sending
       \/ carrier = "quic" /\ sending' = [sending EXCEPT ![e] = bytes] /\ UNCHANGED flow
    /\ UNCHANGED <<openVars, fin, cut, recvVars, closed, split, alive>>

\* write_all goes on.
StreamWrites(e) ==
    /\ alive /\ sending[e] # <<>> /\ Len(flow[e]) < PipeRoom
    /\ flow' = [flow EXCEPT ![e] = Append(@, Head(sending[e]))]
    /\ sending' = [sending EXCEPT ![e] = Tail(@)]
    /\ UNCHANGED <<openVars, fin, cut, sent, recvVars, closed, split, alive>>

\* write_all fails: the reader has dropped the stream.
WriteFails(e) ==
    /\ sending[e] # <<>> /\ state[Other(e)] = "dropped"
    /\ sending' = [sending EXCEPT ![e] = <<>>]
    /\ cut' = [cut EXCEPT ![e] = TRUE]
    /\ UNCHANGED <<openVars, flow, fin, sent, recvVars, closed, split, alive>>

\* finish.
StreamFinishes(e) ==
    /\ Sending(e) /\ alive /\ ~cut[e]
    /\ fin' = [fin EXCEPT ![e] = "fin"]
    /\ closed' = [closed EXCEPT ![e] = @ \cup ClosedAfter(e, "send")]
    /\ UNCHANGED <<openVars, sending, flow, cut, sent, recvVars, split, alive>>

\* A stream, or the sending half of a split one, is dropped, be it in the middle of
\* write_all (a select! that is left).  QUIC finishes it behind what was written, HTTP/2
\* resets it.
StreamDropped(e) ==
    /\ state[e] = "open" /\ alive /\ (split[e] => "send" \notin closed[e])
    /\ state' = [state EXCEPT ![e] = IF split[e] THEN "open" ELSE "dropped"]
    /\ sending' = [sending EXCEPT ![e] = <<>>]
    /\ cut' = [cut EXCEPT ![e] = @ \/ sending[e] # <<>>]
    /\ fin' = [fin EXCEPT ![e] = IF "send" \in closed[e] THEN @
                                 ELSE IF carrier = "quic" THEN "fin" ELSE "reset"]
    /\ closed' = [closed EXCEPT ![e] = @ \cup ClosedAfter(e, "send")]
    /\ UNCHANGED <<carrier, opener, flow, sent, recvVars, split, alive>>

\* recv_message, until it has told the caller of an end: the end is free for the call, and
\* goes past the test of the flag, which over HTTP/2 asks for an empty buffer too.
IsCalled(e) == state[e] = "open" /\ outcome[e] = "going" /\ (split[e] \/ sending[e] = <<>>)
Closed(e) == "recv" \in closed[e] /\ (carrier = "h2" => buffer[e] = <<>>)
Receiving(e) == IsCalled(e) /\ ~Closed(e)

\* Whatever the peer has sent or is still to send, an end that has finished is told None.
ReadsNothing(e) ==
    /\ IsCalled(e) /\ Closed(e)
    /\ outcome' = [outcome EXCEPT ![e] = "early"]
    /\ UNCHANGED <<openVars, sendVars, buffer, taken, closed, split, alive>>

\* A message the buffer holds is taken from it ...
StreamDecodes(e) ==
    /\ Receiving(e) /\ HoldsMessage(buffer[e])
    /\ taken' = [taken EXCEPT ![e] = Append(@, FirstMessage(buffer[e]))]
    /\ buffer' = [buffer EXCEPT ![e] = AfterMessage(@)]
    /\ UNCHANGED <<openVars, sendVars, outcome, closed, split, alive>>

\* ... otherwise some bytes that have arrived are added to it ...
StreamReads(e) ==
    /\ Receiving(e) /\ ~HoldsMessage(buffer[e])
    /\ \E n \in 1 .. Len(flow[Other(e)]) :
          /\ buffer' = [buffer EXCEPT ![e] = @ \o SubSeq(flow[Other(e)], 1, n)]
          /\ flow' = [flow EXCEPT ![Other(e)] = SubSeq(@, n + 1, Len(@))]
    /\ UNCHANGED <<openVars, sending, fin, cut, sent, taken, outcome, closed, split, alive>>

\* ... unless the peer has finished: None, or an error when a message is left
\* incomplete, which the receiving half of a split stream does not look at ...
ReadsEnd(e) ==
    /\ Receiving(e) /\ ~HoldsMessage(buffer[e])
    /\ flow[Other(e)] = <<>> /\ fin[Other(e)] # "no"
    /\ outcome' = [outcome EXCEPT ![e] =
                      IF fin[Other(e)] = "fin" /\ (buffer[e] = <<>> \/ split[e])
                        THEN "none" ELSE "error"]
    /\ closed' = [closed EXCEPT ![e] = @ \cup ClosedAfter(e, "recv")]
    /\ UNCHANGED <<openVars, sendVars, buffer, taken, split, alive>>

\* ... or the connection is lost.
ReadFails(e) ==
    /\ Receiving(e) /\ ~HoldsMessage(buffer[e])
    /\ ~alive /\ flow[Other(e)] = <<>> /\ fin[Other(e)] = "no"
    /\ outcome' = [outcome EXCEPT ![e] = "error"]
    /\ closed' = [closed EXCEPT ![e] = @ \cup ClosedAfter(e, "recv")]
    /\ UNCHANGED <<openVars, sendVars, buffer, taken, split, alive>>

\* The connection is lost, with what is on its way, and a write_all fails: what the peer's
\* library had already received may still be read.
ConnectionLost ==
    /\ alive /\ alive' = FALSE
    /\ \E c \in 0 .. Len(flow["client"]), s \in 0 .. Len(flow["server"]), came \in SUBSET Ends :
          LET n == [e \in Ends |-> IF e = "client" THEN c ELSE s] IN
          /\ flow' = [e \in Ends |-> SubSeq(flow[e], 1, n[e])]
          /\ fin' = [e \in Ends |-> IF e \in came /\ n[e] = Len(flow[e]) THEN fin[e] ELSE "no"]
    /\ sending' = [e \in Ends |-> <<>>]
    /\ UNCHANGED <<openVars, cut, sent, recvVars, closed, split>>

TsGoes ==
    \/ DriverAccepts \/ RespondToStream \/ StreamAnswered \/ AcceptBi
    \/ \E e \in Ends :
          \/ StreamWrites(e) \/ WriteFails(e)
          \/ ReadsNothing(e) \/ StreamDecodes(e) \/ StreamReads(e) \/ ReadsEnd(e) \/ ReadFails(e)

TsNext ==
    \/ OpenBi \/ AskForStream \/ ConnectionLost \/ TsGoes
    \/ \E e \in Ends :
          \/ Split(e) \/ StreamFinishes(e) \/ StreamDropped(e)
          \/ \E l \in 0 .. MaxLength + 1 : StreamSends(e, l)

TsSpec == TsInit /\ [][TsNext]_tsVars
-----------------------------------------------------------------------------
\* However the bytes of a stream are cut, the header's too, the messages
\* decoded are those the other end sent, whole and in order.  An end that is
\* told None by its peer has had all of them but one whose sending was left
\* half way, and an end that is told of an error has lost its connection or
\* its peer in the middle of something (TunnelCodec::decode and the loop of
\* recv_message).  The None of an end that has itself finished says nothing.
DecodedAsSent ==
    \A e \in Ends :
        LET o == Other(e) IN
        /\ Len(taken[e]) <= Len(sent[o])
        /\ \A k \in DOMAIN taken[e] : taken[e][k] = Encode(k, sent[o][k])
        /\ outcome[e] = "none" => Len(taken[e]) = Len(sent[o]) - (IF cut[o] THEN 1 ELSE 0)
        /\ outcome[e] = "error" => ~alive \/ cut[o] \/ fin[o] = "reset"

\* An end that goes on receiving is told of an end once its peer has finished or the
\* connection is lost, and an open_stream that waits for its answer as well; unless it is
\* itself in a write_all that never ends, because the peer does not read.
SendHangs(e) == <>[](sending[e] # <<>>)
ReceivingEnds ==
    \A e \in Ends :
        \/ SendHangs(e)
        \/ (state[e] \in {"asked", "open"} /\ (~alive \/ (state[e] = "open" /\ fin[Other(e)] # "no")))
              ~> (outcome[e] # "going" \/ state[e] \in {"failed", "dropped"})
=============================================================================
