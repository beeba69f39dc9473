------------------------------ MODULE Traffic ------------------------------
(***************************************************************************)
(* What the management API tells of tunnels (localup-api handlers.rs): the *)
(* list of tunnels and the state of one, put together from the connection  *)
(* manager and from the recorded traffic while both change.  The status of *)
(* each tunnel's service, which is read along with them, is in Captured.   *)
(***************************************************************************)
EXTENDS Captured

VARIABLES
    connected,     \* tunnels in the connection manager
    tcp, http,     \* tunnels in captured_tcp_connections and captured_requests
    listing,       \* a call of list_tunnels or get_tunnel
    was, stayed,   \* history: connected at some time, all the time, since it began
    had            \* history: recorded when it began

trafficVars == <<connected, tcp, http, listing, was, stayed, had>>

BeforeListing == [op |-> "none", at |-> "idle", asked |-> {}, todo |-> {}, but |-> {}, up |-> {}, down |-> {}]

TrafficInit ==
    /\ connected = {} /\ tcp = {} /\ http = {}
    /\ listing = BeforeListing /\ was = {} /\ stayed = {} /\ had = {}

Connects(i) ==
    /\ connected' = connected \cup {i} /\ was' = was \cup {i}
    /\ UNCHANGED <<tcp, http, listing, stayed, had>>

\* The client leaves, or delete_tunnel unregisters its connection.
Leaves(i) ==
    /\ connected' = connected \ {i} /\ stayed' = stayed \ {i}
    /\ UNCHANGED <<tcp, http, listing, was, had>>

Recorded(i) ==
    /\ \/ tcp' = tcp \cup {i} /\ UNCHANGED http
       \/ http' = http \cup {i} /\ UNCHANGED tcp
    /\ UNCHANGED <<connected, listing, was, stayed, had>>

-----------------------------------------------------------------------------
\* A call begins: list_tunnels reads the ids, with or without the inactive tunnels later;
\* get_tunnel asks for one.
BeginListing(call) ==
    /\ listing.at = "idle" /\ listing' = call
    /\ was' = connected /\ stayed' = connected /\ had' = tcp \cup http
    /\ UNCHANGED <<connected, tcp, http>>

list_tunnels ==
    \E op \in {"active", "all"} :
      BeginListing([BeforeListing EXCEPT !.op = op, !.at = "each", !.asked = Id, !.todo = connected, !.but = connected])

get_tunnel(i) ==
    BeginListing([BeforeListing EXCEPT !.op = "one", !.at = "each", !.asked = {i}, !.todo = {i}])

\* One by one, those that have endpoints by now.
ReadEndpoints ==
    /\ listing.at = "each"
    /\ \/ \E i \in listing.todo :
            listing' = [listing EXCEPT !.todo = @ \ {i},
                                       !.up = IF i \in connected THEN @ \cup {i} ELSE @]
       \/ /\ listing.todo = {}
          /\ listing' = [listing EXCEPT !.at = IF listing.op = "all" \/ (listing.op = "one" /\ listing.up = {})
                                               THEN "tcp" ELSE "done"]
    /\ UNCHANGED <<connected, tcp, http, was, stayed, had>>

\* Fault: what is connected by now is left out, not what was connected at first.
ReadTable_Now(table) == listing.asked \cap (table \ connected)

\* A query for ids that are recorded; those of the first step are left out.
ReadTable(table) == listing.asked \cap (table \ listing.but)

\* Either query may fail, and with it the call.
ReadTcp ==
    /\ listing.at = "tcp"
    /\ \/ listing' = [listing EXCEPT !.at = "http", !.down = ReadTable(tcp)]
       \/ listing' = [listing EXCEPT !.at = "failed"]
    /\ UNCHANGED <<connected, tcp, http, was, stayed, had>>

ReadHttp ==
    /\ listing.at = "http"
    /\ \/ listing' = [listing EXCEPT !.at = "done", !.down = @ \cup ReadTable(http)]
       \/ listing' = [listing EXCEPT !.at = "failed"]
    /\ UNCHANGED <<connected, tcp, http, was, stayed, had>>

TrafficNext ==
    \/ \E i \in Id : Connects(i) \/ Leaves(i) \/ Recorded(i) \/ get_tunnel(i)
    \/ list_tunnels \/ ReadEndpoints \/ ReadTcp \/ ReadHttp

TrafficSpec == TrafficInit /\ [][TrafficNext]_trafficVars
-----------------------------------------------------------------------------
\* What an answer says, whatever came and went while it was put together: a tunnel is not
\* told to be both; one told to be connected was so during the call, and one that was so
\* all the time is told to be; one told to be disconnected is recorded and was away for a
\* while; and where the inactive are asked for, one that was recorded and away all the
\* time is told.
ListingTrue ==
    listing.at = "done" =>
      /\ listing.up \cap listing.down = {}
      /\ listing.up \subseteq was /\ stayed \cap listing.asked \subseteq listing.up
      /\ listing.down \subseteq (tcp \cup http) \ stayed
      /\ listing.op # "active" => (had \cap listing.asked) \ was \subseteq listing.down

\* What the API shows of tunnels and their traffic was so while it answered: its lists,
\* the status of a service and its pages.
ViewsTrue == ListingTrue /\ StatusTrue /\ PagesCover
=============================================================================
