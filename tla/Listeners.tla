----------------------------- MODULE Listeners -----------------------------
(***************************************************************************)
(* How a relay's transport listeners (QuicListener, WebSocketListener,     *)
(* H2Listener) turn those who knock into connections: accept takes one at  *)
(* a time and shakes hands with it before it looks at the next, and one    *)
(* that fails is passed over.  A WebSocket or HTTP/2 handshake waits for   *)
(* its peer without a time limit; quinn gives up on a silent one.          *)
(***************************************************************************)
EXTENDS Naturals, FiniteSets

CONSTANT Knocker        \* those who knock

Manners == {"sound", "silent", "bad_tls", "bad_upgrade"}

VARIABLES
    listener,   \* "quic", "ws" or "h2"
    manner,     \* how each knocker behaves
    at,         \* each knocker: "away", "backlog", "tls", "upgrade", "connected", "failed"
    listening   \* the accept loop goes on

listenerVars == <<listener, manner, at, listening>>

ListenersInit ==
    /\ listener \in {"quic", "ws", "h2"}
    /\ manner \in [Knocker -> Manners]
    /\ at = [k \in Knocker |-> "away"]
    /\ listening = TRUE

Busy == \E k \in Knocker : at[k] \in {"tls", "upgrade"}

\* connect of a connector reaches the listener's socket.
Knock(k) ==
    /\ at[k] = "away"
    /\ at' = [at EXCEPT ![k] = "backlog"]
    /\ UNCHANGED <<listener, manner, listening>>

\* accept takes the next one.
Take(k) ==
    /\ listening /\ ~Busy /\ at[k] = "backlog"
    /\ at' = [at EXCEPT ![k] = "tls"]
    /\ UNCHANGED <<listener, manner, listening>>

\* Fault: a failed handshake ends the accept loop.
PassOver_Ends(k) ==
    /\ at' = [at EXCEPT ![k] = "failed"]
    /\ listening' = FALSE
    /\ UNCHANGED <<listener, manner>>

\* `continue' after a handshake that failed.
PassOver(k) ==
    /\ at' = [at EXCEPT ![k] = "failed"]
    /\ UNCHANGED <<listener, manner, listening>>

Established(k) ==
    /\ at' = [at EXCEPT ![k] = "connected"]
    /\ UNCHANGED <<listener, manner, listening>>

\* QuicListener::accept awaits `connecting'; the idle timeout ends a silent one.
QuicHandshake(k) ==
    /\ listener = "quic" /\ at[k] = "tls"
    /\ \/ manner[k] \in {"sound", "bad_upgrade"} /\ Established(k)
       \/ manner[k] \in {"silent", "bad_tls"} /\ PassOver(k)

\* WebSocketListener::accept: TLS, then the upgrade, whose path must be right.
WsHandshake(k) ==
    /\ listener = "ws"
    /\ \/ at[k] = "tls" /\ manner[k] = "bad_tls" /\ PassOver(k)
       \/ /\ at[k] = "tls" /\ manner[k] \notin {"bad_tls", "silent"}
          /\ at' = [at EXCEPT ![k] = "upgrade"]
          /\ UNCHANGED <<listener, manner, listening>>
       \/ at[k] = "upgrade" /\ manner[k] = "bad_upgrade" /\ PassOver(k)
       \/ at[k] = "upgrade" /\ manner[k] = "sound" /\ Established(k)

\* H2Listener::accept: TLS, then the HTTP/2 handshake.
H2Handshake(k) ==
    /\ listener = "h2"
    /\ \/ at[k] = "tls" /\ manner[k] = "bad_tls" /\ PassOver(k)
       \/ /\ at[k] = "tls" /\ manner[k] \notin {"bad_tls", "silent"}
          /\ at' = [at EXCEPT ![k] = "upgrade"]
          /\ UNCHANGED <<listener, manner, listening>>
       \/ at[k] = "upgrade" /\ manner[k] = "bad_upgrade" /\ PassOver(k)
       \/ at[k] = "upgrade" /\ manner[k] = "sound" /\ Established(k)

Handshake(k) == QuicHandshake(k) \/ WsHandshake(k) \/ H2Handshake(k)

ListenersNext == \E k \in Knocker : Knock(k) \/ Take(k) \/ Handshake(k)
ListenersGo == \E k \in Knocker : Take(k) \/ Handshake(k)

ListenersSpec == ListenersInit /\ [][ListenersNext]_listenerVars
-----------------------------------------------------------------------------
\* A sound peer that knocks gets its connection, whatever those before it do,
\* unless one of them keeps a WebSocket or HTTP/2 listener waiting for a
\* handshake it never finishes (the `loop' of accept).
KnockIsAnswered ==
    \A k \in Knocker :
        (manner[k] = "sound" /\ at[k] = "backlog")
            ~> \/ at[k] = "connected"
               \/ listener # "quic" /\ \E o \in Knocker : manner[o] = "silent" /\ at[o] = "tls"
=============================================================================
