------------------------------ MODULE Carrier -------------------------------
(***************************************************************************)
(* What the transports promise to the parts above them: the WebSocket      *)
(* multiplexer, and the codec on the streams of QUIC and HTTP/2.           *)
(***************************************************************************)
EXTENDS WebSocketMux, TransportStream

\* What is received over a transport is what was sent: by the multiplexer, whose streams
\* share a socket, and by the codec, whose messages share a stream of bytes.
CarriedIntact == MuxIntact /\ DecodedAsSent
=============================================================================
