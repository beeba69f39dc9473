---------------------------- MODULE MetricsFeed ----------------------------
(***************************************************************************)
(* A connection to the desktop application's daemon (daemon/client.rs and  *)
(* daemon/service.rs): calls that are answered, and a subscription to a    *)
(* tunnel's metrics, whose events come until the subscriber asks for their *)
(* end or the tunnel's channel closes.                                     *)
(***************************************************************************)
EXTENDS Naturals, Sequences

CONSTANT MaxEvents      \* bound: events of the tunnel

ASSUME FeedAssumption == MaxEvents \in Nat

VARIABLES
    user,        \* the client's side of the connection
    toDaemon,    \* requests on their way
    toUser,      \* responses on their way
    server,      \* the daemon's side: "plain", "subscribed", "closed"
    channel,     \* the tunnel's metrics: "none", "open", "closed"
    events       \* events of the tunnel so far

feedVars == <<user, toDaemon, toUser, server, channel, events>>

FeedInit ==
    /\ user = "idle" /\ toDaemon = <<>> /\ toUser = <<>>
    /\ server = "plain" /\ channel \in {"none", "open"} /\ events = 0

-----------------------------------------------------------------------------
\* send: a call, awaited for at most the default time.
Call ==
    /\ user = "idle"
    /\ user' = "calling" /\ toDaemon' = Append(toDaemon, "call")
    /\ UNCHANGED <<toUser, server, channel, events>>

\* subscribe_metrics: awaited for as long as it takes.
Subscribe ==
    /\ user = "idle"
    /\ user' = "subscribing" /\ toDaemon' = Append(toDaemon, "subscribe")
    /\ UNCHANGED <<toUser, server, channel, events>>

Unsubscribe ==
    /\ user = "subscribed"
    /\ user' = "leaving" /\ toDaemon' = Append(toDaemon, "unsubscribe")
    /\ UNCHANGED <<toUser, server, channel, events>>

\* What the next response means is up to what the client is waiting for: an event that
\* is read while leaving is taken for the confirmation.
Receive ==
    /\ toUser # <<>> /\ user \in {"calling", "subscribing", "subscribed", "leaving"}
    /\ toUser' = Tail(toUser)
    /\ user' = CASE user = "calling" -> "idle"
                 [] user = "subscribing" -> IF Head(toUser) = "subscribed" THEN "subscribed" ELSE "over"
                 [] user = "subscribed" -> IF Head(toUser) = "event" THEN "subscribed" ELSE "over"
                 [] OTHER -> "over"
    /\ UNCHANGED <<toDaemon, server, channel, events>>

\* 10 seconds for a call, 2 for the end of a subscription.
GiveUp ==
    /\ user \in {"calling", "leaving"}
    /\ user' = "over"
    /\ UNCHANGED <<toDaemon, toUser, server, channel, events>>

\* Whatever the client waited for, a closed connection ends it.
Cut ==
    /\ server = "closed" /\ toUser = <<>> /\ user \notin {"idle", "over"}
    /\ user' = "over"
    /\ UNCHANGED <<toDaemon, toUser, server, channel, events>>

-----------------------------------------------------------------------------
Taken(request) == toDaemon # <<>> /\ Head(toDaemon) = request /\ toDaemon' = Tail(toDaemon)
Reply(response) == toUser' = Append(toUser, response)

\* handle_request; a late request for the end of a subscription is an error.
Answer ==
    /\ server = "plain"
    /\ Taken("call") \/ Taken("unsubscribe")
    /\ Reply("answer")
    /\ UNCHANGED <<user, server, channel, events>>

\* Fault: a tunnel without metrics is not reported.
Begin_Silent ==
    /\ server = "plain" /\ Taken("subscribe")
    /\ IF channel = "open" THEN Reply("subscribed") /\ server' = "subscribed"
       ELSE UNCHANGED <<toUser, server>>
    /\ UNCHANGED <<user, channel, events>>

Begin ==
    /\ server = "plain" /\ Taken("subscribe")
    /\ IF channel = "open" THEN Reply("subscribed") /\ server' = "subscribed"
       ELSE Reply("error") /\ UNCHANGED server
    /\ UNCHANGED <<user, channel, events>>

End ==
    /\ server = "subscribed" /\ Taken("unsubscribe")
    /\ Reply("answer") /\ server' = "plain"
    /\ UNCHANGED <<user, channel, events>>

Event ==
    /\ channel = "open" /\ events < MaxEvents
    /\ events' = events + 1
    /\ toUser' = IF server = "subscribed" THEN Append(toUser, "event") ELSE toUser
    /\ UNCHANGED <<user, toDaemon, server, channel>>

\* The tunnel ends, and with it, silently, the subscription.
ChannelCloses ==
    /\ channel = "open" /\ channel' = "closed"
    /\ server' = IF server = "subscribed" THEN "plain" ELSE server
    /\ UNCHANGED <<user, toDaemon, toUser, events>>

\* The client has dropped the connection, or the daemon has exited.
Disconnect ==
    /\ server # "closed" /\ server' = "closed" /\ toDaemon' = <<>>
    /\ UNCHANGED <<user, toUser, channel, events>>

FeedServer == Answer \/ Begin \/ End
FeedUser == Receive \/ GiveUp \/ Cut
FeedNext ==
    \/ Call \/ Subscribe \/ Unsubscribe \/ FeedUser \/ FeedServer
    \/ Event \/ ChannelCloses \/ Disconnect

FeedSpec == FeedInit /\ [][FeedNext]_feedVars
-----------------------------------------------------------------------------
\* Whatever becomes of the tunnel meanwhile, a client that asks for metrics is told
\* whether it gets them, though nothing limits its wait (client.rs:510), and one that
\* leaves is let go.
SubscriptionAnswered == user \in {"subscribing", "leaving"} ~> user \notin {"subscribing", "leaving"}
=============================================================================
