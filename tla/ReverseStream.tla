--------------------------- MODULE ReverseStream ---------------------------
(***************************************************************************)
(* One connection of a reverse tunnel: a program on the client's machine   *)
(* (the local end) reaches a service behind an agent (the target).  The    *)
(* client opens a stream to the relay and forwards at once                 *)
(* (localup-client reverse_tunnel.rs); the relay asks the agent and then   *)
(* moves both directions in one loop (localup-control handler.rs,          *)
(* handle_reverse_stream); the agent answers before it has dialled the     *)
(* target, and forwards in two tasks it waits for (localup-agent agent.rs, *)
(* forwarder.rs).                                                          *)
(*                                                                         *)
(*   local -> localUp -> clientUp -> agentUp -> targetUp -> target         *)
(*   local <- localDown <- clientDown <- agentDown <- targetDown <- target *)
(***************************************************************************)
EXTENDS Naturals, Sequences

CONSTANT Pieces    \* bound: pieces of data each end writes

ASSUME ReverseAssumption == Pieces \in Nat

VARIABLES
    flow,        \* pipe -> what is on its way in it
    deaf,        \* pipes whose reader is gone
    shut,        \* pipes whose writer has ended
    hop,         \* task or direction -> "idle", "running", "done"
    relayAt,     \* the relay's handler
    agentAt,     \* the agent's handler
    entry,       \* is the connection in the agent's ConnectionManager
    sent,        \* end -> number of pieces written
    received,    \* end -> what it has read
    heard,       \* ends that have read the end of their input
    cut          \* connections that are lost, "client" or "agent"

streamVars == <<flow, deaf, shut, hop, relayAt, agentAt, entry, sent, received, heard, cut>>
restVars == <<relayAt, agentAt, entry, sent, received, heard, cut>>

Source == [tcpToQuic |-> "localUp", clientToAgent |-> "clientUp", localupToRemote |-> "agentUp",
           remoteToTunnel |-> "targetDown", agentToClient |-> "agentDown", quicToTcp |-> "clientDown"]
Sink == [tcpToQuic |-> "clientUp", clientToAgent |-> "agentUp", localupToRemote |-> "targetUp",
         remoteToTunnel |-> "agentDown", agentToClient |-> "clientDown", quicToTcp |-> "localDown"]

Hop == DOMAIN Source
AtClient == {"tcpToQuic", "quicToTcp"}
AtRelay == {"clientToAgent", "agentToClient"}
AtAgent == {"localupToRemote", "remoteToTunnel"}
PipesOf == [client |-> {"clientUp", "clientDown"}, agent |-> {"agentUp", "agentDown"}]
Conduit == {Source[t] : t \in Hop} \cup {"targetUp", "localDown"}

Side == {"local", "target"}
Writes == [local |-> "localUp", target |-> "targetDown"]
Reads == [local |-> "localDown", target |-> "targetUp"]
Opposite == [local |-> "target", target |-> "local"]

Piece(n) == [kind |-> "data", n |-> n]
Sign(k) == [kind |-> k, n |-> 0]

StreamInit ==
    /\ flow = [p \in Conduit |-> <<>>] /\ deaf = {} /\ shut = {}
    /\ hop = [t \in Hop |-> "idle"]
    /\ relayAt = "unasked" /\ agentAt = "unasked" /\ entry = FALSE
    /\ sent = [e \in Side |-> 0] /\ received = [e \in Side |-> <<>>]
    /\ heard = {} /\ cut = {}

\* What the pipes hold after items are put into p, then the writers of ps end and the
\* readers of qs go away.
After(p, items, ps, qs) ==
    [q \in Conduit |->
        IF q \in qs THEN <<>>
        ELSE IF q \in deaf \cup shut THEN flow[q]
        ELSE (IF q = p THEN flow[q] \o items ELSE flow[q])
               \o (IF q \in ps THEN <<Sign("fin")>> ELSE <<>>)]

Close(p, items, ps, qs) ==
    /\ flow' = After(p, items, ps, qs)
    /\ shut' = shut \cup ps /\ deaf' = deaf \cup qs

-----------------------------------------------------------------------------
(***************************************************************************)
(* The two ends and the network, which are not part of this program.       *)
(***************************************************************************)
Attached(e) == e = "local" \/ hop["localupToRemote"] # "idle"
Leaving(e) == Reads[e] \in deaf

Sends(e) ==
    /\ Attached(e) /\ Writes[e] \notin shut /\ sent[e] < Pieces
    /\ sent' = [sent EXCEPT ![e] = @ + 1]
    /\ flow' = After(Writes[e], <<Piece(sent[e] + 1)>>, {}, {})
    /\ UNCHANGED <<deaf, shut, hop, relayAt, agentAt, entry, received, heard, cut>>

ShutsDown(e) ==
    /\ Attached(e) /\ Writes[e] \notin shut
    /\ Close(Writes[e], <<>>, {Writes[e]}, {})
    /\ UNCHANGED <<hop, restVars>>

\* An end closes its socket, or resets it.
Leaves(e) ==
    /\ Attached(e) /\ ~Leaving(e)
    /\ \E k \in {"fin", "reset"} : flow' = [After(Writes[e], <<Sign(k)>>, {}, {}) EXCEPT ![Reads[e]] = <<>>]
    /\ shut' = shut \cup {Writes[e]} /\ deaf' = deaf \cup {Reads[e]}
    /\ UNCHANGED <<hop, restVars>>

Receives(e) ==
    /\ ~Leaving(e) /\ flow[Reads[e]] # <<>>
    /\ LET item == Head(flow[Reads[e]])
       IN  IF item.kind = "data"
           THEN received' = [received EXCEPT ![e] = Append(@, item.n)] /\ UNCHANGED heard
           ELSE heard' = heard \cup {e} /\ UNCHANGED received
    /\ flow' = [flow EXCEPT ![Reads[e]] = Tail(@)]
    /\ UNCHANGED <<deaf, shut, hop, relayAt, agentAt, entry, sent, cut>>

Cut(c) ==
    /\ c \notin cut
    /\ cut' = cut \cup {c}
    /\ flow' = [p \in Conduit |-> IF p \in PipesOf[c] THEN <<Sign("reset")>> ELSE flow[p]]
    /\ deaf' = deaf \cup PipesOf[c]
    /\ UNCHANGED <<shut, hop, relayAt, agentAt, entry, sent, received, heard>>

-----------------------------------------------------------------------------
(***************************************************************************)
(* Setting up.                                                             *)
(***************************************************************************)
\* handle_reverse_connection: open a stream, send ReverseConnect, start both tasks.
OpenToRelay ==
    /\ relayAt = "unasked"
    /\ IF "client" \notin cut
       THEN /\ relayAt' = "asked"
            /\ hop' = [t \in Hop |-> IF t \in AtClient THEN "running" ELSE hop[t]]
            /\ UNCHANGED <<flow, shut, deaf, agentAt>>
       ELSE /\ Close("localDown", <<>>, {"localDown"}, {"localUp"})
            /\ relayAt' = "over" /\ agentAt' = "over" /\ UNCHANGED hop
    /\ UNCHANGED <<entry, sent, received, heard, cut>>

\* The handler returns: both streams are dropped.
RelayDrops(p, items) ==
    /\ Close(p, items, {"clientDown", "agentUp"}, {"clientUp", "agentDown"})
    /\ relayAt' = "over"

\* ReverseConnect has been read: open a stream to the agent and send ForwardRequest.
AskAgent ==
    /\ relayAt = "asked"
    /\ IF cut = {}
       THEN relayAt' = "answer" /\ agentAt' = "asked" /\ UNCHANGED <<flow, shut, deaf>>
       ELSE RelayDrops("clientDown", <<>>) /\ agentAt' = "over"
    /\ UNCHANGED <<hop, entry, sent, received, heard, cut>>

\* The agent refuses a bad token or another address.
Reject ==
    /\ agentAt = "asked"
    /\ Close("agentDown", <<Sign("reject")>>, {"agentDown"}, {"agentUp"})
    /\ agentAt' = "over"
    /\ UNCHANGED <<hop, relayAt, entry, sent, received, heard, cut>>

AcceptForward ==
    /\ agentAt = "asked"
    /\ IF "agent" \in cut
       THEN agentAt' = "over" /\ Close("agentDown", <<>>, {"agentDown"}, {"agentUp"})
       ELSE agentAt' = "enter" /\ Close("agentDown", <<Sign("accept")>>, {}, {})
    /\ UNCHANGED <<hop, relayAt, entry, sent, received, heard, cut>>

RegisterConnection ==
    /\ agentAt = "enter"
    /\ agentAt' = "dial" /\ entry' = TRUE
    /\ UNCHANGED <<flow, shut, deaf, hop, relayAt, sent, received, heard, cut>>

\* The relay has been told "accept" already.
Dial ==
    /\ agentAt = "dial"
    /\ \/ /\ agentAt' = "proxy"
          /\ hop' = [t \in Hop |-> IF t \in AtAgent THEN "running" ELSE hop[t]]
          /\ UNCHANGED <<flow, shut, deaf>>
       \/ /\ agentAt' = "leave"
          /\ Close("agentDown", <<>>, {"agentDown"}, {"agentUp"})
          /\ UNCHANGED hop
    /\ UNCHANGED <<relayAt, entry, sent, received, heard, cut>>

\* Fault: what the client has sent meanwhile is read and thrown away.
ReadAnswer_Discards ==
    /\ relayAt = "answer" /\ flow["agentDown"] # <<>>
    /\ LET answer == Head(flow["agentDown"]).kind
       IN  IF answer = "accept"
           THEN /\ relayAt' = "proxy"
                /\ hop' = [t \in Hop |-> IF t \in AtRelay THEN "running" ELSE hop[t]]
                /\ flow' = [flow EXCEPT !["agentDown"] = Tail(@),
                                        !["clientUp"] = SelectSeq(@, LAMBDA i : i.kind # "data")]
                /\ UNCHANGED <<shut, deaf>>
           ELSE /\ RelayDrops("clientDown", IF answer = "reject" THEN <<Sign("close")>> ELSE <<>>)
                /\ UNCHANGED hop
    /\ UNCHANGED <<agentAt, entry, sent, received, heard, cut>>

ReadAnswer ==
    /\ relayAt = "answer" /\ flow["agentDown"] # <<>>
    /\ LET answer == Head(flow["agentDown"]).kind
       IN  IF answer = "accept"
           THEN /\ relayAt' = "proxy"
                /\ hop' = [t \in Hop |-> IF t \in AtRelay THEN "running" ELSE hop[t]]
                /\ flow' = [flow EXCEPT !["agentDown"] = Tail(@)] /\ UNCHANGED <<shut, deaf>>
           ELSE /\ RelayDrops("clientDown", IF answer = "reject" THEN <<Sign("close")>> ELSE <<>>)
                /\ UNCHANGED hop
    /\ UNCHANGED <<agentAt, entry, sent, received, heard, cut>>

-----------------------------------------------------------------------------
(***************************************************************************)
(* Forwarding.  Data that meets a reader who is gone may still be taken by *)
(* the system, or fail the write.                                          *)
(***************************************************************************)
Next1(t) == Head(flow[Source[t]])
Rest1(t) == [flow EXCEPT ![Source[t]] = Tail(@)]

Forward(t) ==
    /\ hop[t] = "running" /\ flow[Source[t]] # <<>> /\ Next1(t).kind = "data"
    /\ flow' = IF Sink[t] \in deaf \cup shut THEN Rest1(t)
               ELSE [Rest1(t) EXCEPT ![Sink[t]] = Append(@, Next1(t))]
    /\ UNCHANGED <<deaf, shut, hop, restVars>>

\* A task has something that ends it: no data, or data nobody takes.
Ends(t) ==
    /\ hop[t] = "running" /\ flow[Source[t]] # <<>>
    /\ Next1(t).kind = "data" => Sink[t] \in deaf

\* The client's tasks own one half of each side: the local socket's reading side goes with
\* the second of them.
ClientHopEnds(t) ==
    /\ t \in AtClient /\ Ends(t)
    /\ hop' = [hop EXCEPT ![t] = "done"]
    /\ Close(Sink[t], IF t = "tcpToQuic" /\ Next1(t).kind = "fin" THEN <<Sign("close")>> ELSE <<>>,
             {Sink[t]},
             (IF t = "quicToTcp" THEN {"clientDown"} ELSE {})
               \cup (IF \A u \in AtClient \ {t} : hop[u] = "done" THEN {"localUp"} ELSE {}))
    /\ UNCHANGED restVars

\* The relay's loop ends both directions at once.
RelayLoopEnds(t) ==
    /\ t \in AtRelay /\ Ends(t)
    /\ hop' = [u \in Hop |-> IF u \in AtRelay THEN "done" ELSE hop[u]]
    /\ RelayDrops(Sink[t], IF Next1(t).kind = "close" THEN <<Sign("close")>> ELSE <<>>)
    /\ UNCHANGED <<agentAt, entry, sent, received, heard, cut>>

\* An orderly end is passed on; after an error the halves stay as they are until the other
\* task has ended, too.
AgentHopEnds(t) ==
    /\ t \in AtAgent /\ Ends(t)
    /\ hop' = [hop EXCEPT ![t] = "done"]
    /\ LET orderly == Next1(t).kind \in {"fin", "close"}
           last == \A u \in AtAgent \ {t} : hop[u] = "done"
       IN  Close(Sink[t], IF orderly /\ t = "remoteToTunnel" THEN <<Sign("close")>> ELSE <<>>,
                 (IF orderly THEN {Sink[t]} ELSE {}) \cup (IF last THEN {"targetUp", "agentDown"} ELSE {}),
                 IF last THEN {"agentUp", "targetDown"} ELSE {})
    /\ UNCHANGED restVars

\* Fault: the entry of a connection whose target was not reached is left.
UnregisterConnection_OfForwarded ==
    /\ agentAt = "leave" \/ (agentAt = "proxy" /\ \A t \in AtAgent : hop[t] = "done")
    /\ agentAt' = "over" /\ entry' = (agentAt = "leave")
    /\ UNCHANGED <<flow, shut, deaf, hop, relayAt, sent, received, heard, cut>>

UnregisterConnection ==
    /\ agentAt = "leave" \/ (agentAt = "proxy" /\ \A t \in AtAgent : hop[t] = "done")
    /\ agentAt' = "over" /\ entry' = FALSE
    /\ UNCHANGED <<flow, shut, deaf, hop, relayAt, sent, received, heard, cut>>

-----------------------------------------------------------------------------
SettingUp == OpenToRelay \/ AskAgent \/ ReadAnswer \/ Reject \/ AcceptForward \/ RegisterConnection \/ Dial
             \/ UnregisterConnection
Task(t) == Forward(t) \/ ClientHopEnds(t) \/ RelayLoopEnds(t) \/ AgentHopEnds(t)

StreamNext ==
    \/ \E e \in Side : Sends(e) \/ ShutsDown(e) \/ Leaves(e) \/ Receives(e)
    \/ \E c \in DOMAIN PipesOf : Cut(c)
    \/ SettingUp
    \/ \E t \in Hop : Task(t)

ReverseSpec == StreamInit /\ [][StreamNext]_streamVars

-----------------------------------------------------------------------------
StreamOver ==
    /\ relayAt = "over" /\ agentAt = "over" /\ ~entry
    /\ \A t \in Hop : hop[t] # "running"

\* What an end reads is what the other wrote, in order.  And of two ends that only shut
\* down their own side when they are done, the one that is still open has everything
\* when it reads the end, unless a connection was lost; an end that has shut its own side
\* may lose what is under way to it, because the relay's loop ends both directions
\* (handler.rs:978 and 1015).
ReverseIntact ==
    \A e \in Side :
        LET o == Opposite[e]
        IN  /\ received[e] = [i \in 1..Len(received[e]) |-> i] /\ Len(received[e]) <= sent[o]
            /\ (/\ e \in heard /\ Writes[e] \notin shut /\ ~Leaving(o)
                /\ cut = {} /\ hop["localupToRemote"] # "idle")
                 => Len(received[e]) = sent[o] /\ Writes[o] \in shut

Finished(p) == flow[p] # <<>> /\ flow[p][Len(flow[p])].kind = "fin"

\* A connection whose local end is done, or whose target has finished, comes to its end
\* everywhere: no task is left, and the agent's table has forgotten it.  Two errors at the
\* agent are not passed on, because the task that meets one leaves its halves to the other
\* task, which goes on waiting (forwarder.rs:115-141 and 176-178): that the connection to
\* the relay is lost, when the target stays silent; and that the target has reset its
\* connection, until the local end writes or closes.
ReverseEnds ==
    (Finished("targetDown") \/ (Writes["local"] \in shut /\ "agent" \notin cut))
    ~> (StreamOver \/ ("agent" \in cut /\ Writes["target"] \notin shut))
=============================================================================
