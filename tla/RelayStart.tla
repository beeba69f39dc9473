----------------------------- MODULE RelayStart -----------------------------
(***************************************************************************)
(* How a relay comes up and goes down, in each of its three programs: the  *)
(* `relay' command of localup-cli, the exit node, and the Relay of the     *)
(* library.  Each walks through its steps in order and gives up at the     *)
(* first that fails; but most servers are only spawned on the way, bind    *)
(* their address in a task of their own, and say no more than a line in    *)
(* the log when they cannot.  The database outlives the process, so a      *)
(* start may find what one that was broken off has left.                   *)
(*                                                                         *)
(* The command line is chosen where the code first looks at it.            *)
(***************************************************************************)
EXTENDS Naturals, Sequences, FiniteSets

CONSTANTS
    MaxStarts,      \* starts of a relay on one database
    MaxServers      \* servers besides the control plane and the API in one start

Programs == {"cli", "exit_node", "library"}
Controls == {"quic", "websocket", "h2"}
Servers == {"http", "https", "tls", "redirect", "passthrough", "api"} \cup Controls
Addresses == {1, 2}
DefaultPort == 1                           \* 4443
Network(s) == IF s = "quic" THEN "udp" ELSE "tcp"

VARIABLES
    program,    \* the program that runs
    step,       \* where it is in its steps, 0 when it does not run
    place,      \* the port of each server, 0 for none
    serving,    \* "off", "spawned", "listening" or "failed"
    told,       \* the servers whose ports the handler tells to tunnels
    advertised, \* the discovery response: transports and their ports
    withAdmin,  \* --admin-email and --admin-password are given
    inserting,  \* the row of the admin account that is to be inserted next
    adminRows,  \* rows of the admin account in the database
    cutOff,     \* a start has ended between two of these insertions
    signedUp,   \* someone has registered the admin's e-mail through the API
    starts

startVars == <<program, step, place, serving, told, advertised, withAdmin, inserting,
               adminRows, cutOff, signedUp, starts>>

\* Fault: the API server, which advertises the transports, starts before them.
Order_ApiFirst(p) ==
    CASE p = "cli" -> <<"database", "admin", "ports", "http", "https", "tls", "redirect", "passthrough",
                        "handler", "api", "control", "wait">>
      [] p = "exit_node" -> <<"database", "ports", "http", "https", "tls", "handler", "api", "control",
                              "wait">>
      [] p = "library" -> <<"build", "https", "tls", "quic", "websocket", "h2", "wait">>

\* The steps of each program, in the order of its code.
Order(p) ==
    CASE p = "cli" -> <<"database", "admin", "ports", "http", "https", "tls", "redirect", "passthrough",
                        "handler", "control", "api", "wait">>
      [] p = "exit_node" -> <<"database", "ports", "http", "https", "tls", "handler", "api", "control",
                              "wait">>
      [] p = "library" -> <<"build", "https", "tls", "quic", "websocket", "h2", "wait">>

At(x) == step # 0 /\ Order(program)[step] = x

StartInit ==
    /\ program \in Programs /\ step = 0
    /\ place = [s \in Servers |-> 0]
    /\ serving = [s \in Servers |-> "off"]
    /\ told = {} /\ advertised = {}
    /\ withAdmin = FALSE /\ inserting = "none" /\ adminRows = {} /\ cutOff = FALSE /\ signedUp = FALSE
    /\ starts = 0

\* handle_relay_command, main and Relay::run are entered.  The first two have
\* one transport for the control plane, the exit node always QUIC.
StartRelay(p, control, port) ==
    /\ step = 0 /\ starts < MaxStarts
    /\ p = "exit_node" => control = "quic"
    /\ program' = p /\ step' = 1 /\ starts' = starts + 1
    /\ place' = [s \in Servers |-> IF p # "library" /\ s = control THEN port ELSE 0]
    /\ withAdmin' \in IF p = "cli" THEN BOOLEAN ELSE {FALSE}
    /\ UNCHANGED <<serving, told, advertised, inserting, adminRows, cutOff, signedUp>>

\* The process ends, with an error, by a signal or by a crash, and its sockets with it.
ProcessEnds ==
    /\ step' = 0
    /\ place' = [s \in Servers |-> 0]
    /\ serving' = [s \in Servers |-> "off"]
    /\ told' = {} /\ advertised' = {} /\ inserting' = "none"
    /\ withAdmin' = FALSE
    /\ cutOff' = (cutOff \/ inserting \in {"team", "member"})
    /\ UNCHANGED <<program, adminRows, signedUp, starts>>

GoOn == step' = step + 1

-----------------------------------------------------------------------------
(* The steps before the servers *)

\* connect and migrate.
OpenDatabase ==
    /\ At("database")
    /\ \/ ProcessEnds
       \/ /\ GoOn
          /\ UNCHANGED <<program, place, serving, told, advertised, withAdmin, inserting,
                         adminRows, cutOff, signedUp, starts>>

\* Auto-create admin user: nothing is done for one that exists ...
LookUpAdmin ==
    /\ At("admin") /\ inserting = "none"
    /\ IF withAdmin /\ "user" \notin adminRows
         THEN inserting' = "user" /\ UNCHANGED step
         ELSE GoOn /\ UNCHANGED inserting
    /\ UNCHANGED <<program, place, serving, told, advertised, withAdmin, adminRows, cutOff, signedUp, starts>>

\* ... otherwise the user, a team and the membership, in three insertions of their own ...
InsertAdminRow ==
    /\ At("admin") /\ inserting # "none"
    /\ adminRows' = adminRows \cup {inserting}
    /\ CASE inserting = "user"   -> inserting' = "team" /\ UNCHANGED step
         [] inserting = "team"   -> inserting' = "member" /\ UNCHANGED step
         [] inserting = "member" -> inserting' = "none" /\ GoOn
    /\ UNCHANGED <<program, place, serving, told, advertised, withAdmin, cutOff, signedUp, starts>>

\* Fault: a failed insertion is only logged, and the start goes on.
InsertionFails_Logged ==
    /\ At("admin") /\ inserting # "none"
    /\ inserting' = "none" /\ GoOn
    /\ UNCHANGED <<program, place, serving, told, advertised, withAdmin, adminRows, cutOff, signedUp, starts>>

\* ... each of which may fail, as when another team has the slug made of the name.
InsertionFails == At("admin") /\ inserting # "none" /\ ProcessEnds

\* The port allocator is made and its clean-up task started; a range that does not
\* parse, or whose start is not below its end, ends the start.
MakeAllocator ==
    /\ At("ports")
    /\ \/ ProcessEnds
       \/ /\ GoOn
          /\ UNCHANGED <<program, place, serving, told, advertised, withAdmin, inserting,
                         adminRows, cutOff, signedUp, starts>>

\* to_discovery_response: every transport that is enabled, at its port.
DiscoveryResponse(places) == {<<t, places[t]>> : t \in {t \in Controls : places[t] # 0}}

\* build_internal of the library: one server or none, and a discovery response made of
\* the transports and ports that are configured.  A bad address ends it.
BuildRelay ==
    /\ At("build")
    /\ \/ ProcessEnds
       \/ /\ \E server \in {"https", "tls", "none"}, ports \in [Controls -> Addresses \cup {0}],
                port \in Addresses :
                 place' = [s \in Servers |-> IF s = server THEN port ELSE IF s \in Controls THEN ports[s] ELSE 0]
          /\ advertised' = DiscoveryResponse(place')
          /\ GoOn
          /\ UNCHANGED <<program, serving, told, withAdmin, inserting, adminRows, cutOff, signedUp, starts>>

-----------------------------------------------------------------------------
(* The servers *)

Spawn(s, port) ==
    /\ place' = [place EXCEPT ![s] = port]
    /\ serving' = [serving EXCEPT ![s] = "spawned"]

Spawned == {s \in Servers \ (Controls \cup {"api"}) : serving[s] # "off"}

\* A server the command line asks for is spawned; an address that does not parse
\* ends the start, and so does an HTTPS server without its certificate.
StartServer(s) ==
    /\ At(s) /\ program # "library"
    /\ \/ ProcessEnds
       \/ /\ program = "cli" \/ s # "http"       \* the exit node always has this one
          /\ GoOn
          /\ UNCHANGED <<program, place, serving, told, advertised, withAdmin, inserting,
                         adminRows, cutOff, signedUp, starts>>
       \/ /\ Cardinality(Spawned) < MaxServers
          /\ \E port \in Addresses : Spawn(s, port)
          /\ GoOn
          /\ UNCHANGED <<program, told, advertised, withAdmin, inserting, adminRows, cutOff, signedUp, starts>>

StartHttp == StartServer("http")
StartHttps == StartServer("https")
StartTls == StartServer("tls")
StartRedirect == StartServer("redirect")
StartPassthrough == StartServer("passthrough")

\* Relay::run spawns what build has configured, each in a task of the JoinSet.
SpawnConfigured(s) ==
    /\ At(s) /\ program = "library"
    /\ serving' = [serving EXCEPT ![s] = IF place[s] # 0 THEN "spawned" ELSE @]
    /\ GoOn
    /\ UNCHANGED <<program, place, told, advertised, withAdmin, inserting, adminRows, cutOff, signedUp, starts>>

SpawnServers == SpawnConfigured("https") \/ SpawnConfigured("tls")
SpawnQuic == SpawnConfigured("quic")
SpawnWebSocket == SpawnConfigured("websocket")
SpawnH2 == SpawnConfigured("h2")

\* The TunnelHandler of the command is told the ports of the servers ...
MakeHandler ==
    /\ At("handler") /\ program = "cli"
    /\ told' = {s \in {"http", "https", "tls"} : place[s] # 0}
    /\ GoOn
    /\ UNCHANGED <<program, place, serving, advertised, withAdmin, inserting, adminRows, cutOff, signedUp, starts>>

\* ... and that of the exit node is not.
MakeExitHandler ==
    /\ At("handler") /\ program = "exit_node"
    /\ GoOn
    /\ UNCHANGED <<program, place, serving, told, advertised, withAdmin, inserting, adminRows,
                   cutOff, signedUp, starts>>

Free(s) == \A o \in Servers \ {s} :
    serving[o] = "listening" => <<Network(o), place[o]>> # <<Network(s), place[s]>>

\* The control plane's listener is bound on the way; a port that is taken, or a
\* certificate that cannot be read, ends the start.
BindControl ==
    /\ At("control") /\ program = "cli"
    /\ \E t \in {t \in Controls : place[t] # 0} :
          \/ ProcessEnds
          \/ /\ Free(t)
             /\ serving' = [serving EXCEPT ![t] = "listening"]
             /\ GoOn
             /\ UNCHANGED <<program, place, told, advertised, withAdmin, inserting, adminRows,
                            cutOff, signedUp, starts>>

\* The exit node has only QUIC, and leaves when it is asked for anything else (--insecure).
BindQuic ==
    /\ At("control") /\ program = "exit_node"
    /\ \/ ProcessEnds
       \/ /\ Free("quic")
          /\ serving' = [serving EXCEPT !["quic"] = "listening"]
          /\ GoOn
          /\ UNCHANGED <<program, place, told, advertised, withAdmin, inserting, adminRows,
                         cutOff, signedUp, starts>>

\* --no-api, a bad address, an HTTPS API without its certificate; or the API server is
\* spawned with the discovery response it is to serve, the transport of the command line.
StartApi ==
    /\ At("api") /\ program = "cli"
    /\ \/ ProcessEnds
       \/ /\ GoOn
          /\ UNCHANGED <<program, place, serving, told, advertised, withAdmin, inserting,
                         adminRows, cutOff, signedUp, starts>>
       \/ /\ \E port \in Addresses : Spawn("api", port)
          /\ advertised' = DiscoveryResponse(place)
          /\ GoOn
          /\ UNCHANGED <<program, told, withAdmin, inserting, adminRows, cutOff, signedUp, starts>>

\* The exit node's API needs the JWT secret.  It is given no discovery response, and then
\* answers with QUIC on the default port, whatever --localup-addr says.
StartExitApi ==
    /\ At("api") /\ program = "exit_node"
    /\ \/ ProcessEnds
       \/ /\ GoOn
          /\ UNCHANGED <<program, place, serving, told, advertised, withAdmin, inserting,
                         adminRows, cutOff, signedUp, starts>>
       \/ /\ \E port \in Addresses : Spawn("api", port)
          /\ advertised' = {<<"quic", DefaultPort>>}
          /\ GoOn
          /\ UNCHANGED <<program, told, withAdmin, inserting, adminRows, cutOff, signedUp, starts>>

\* The task of a spawned server binds its address, or logs that it cannot and ends.
ServerBinds(s) ==
    /\ serving[s] = "spawned"
    /\ \/ Free(s) /\ serving' = [serving EXCEPT ![s] = "listening"]
       \/ serving' = [serving EXCEPT ![s] = "failed"]
    /\ UNCHANGED <<program, step, place, told, advertised, withAdmin, inserting, adminRows,
                   cutOff, signedUp, starts>>

\* So does that of the API, ApiServer::start.
ApiBinds == ServerBinds("api")

\* register, where sign-up is allowed: the admin's e-mail is as good as any other, and its
\* user gets no team.
RegisterEmail ==
    /\ serving["api"] = "listening" /\ "user" \notin adminRows
    /\ adminRows' = adminRows \cup {"user"} /\ signedUp' = TRUE
    /\ UNCHANGED <<program, step, place, serving, told, advertised, withAdmin, inserting, cutOff, starts>>

\* ctrl_c (or SIGTERM): tasks are aborted and the program returns.
StopRelay == At("wait") /\ ProcessEnds

Crash == step # 0 /\ ~At("wait") /\ ProcessEnds

StartNext ==
    \/ \E p \in Programs, t \in Controls, port \in Addresses : StartRelay(p, t, port)
    \/ OpenDatabase \/ LookUpAdmin \/ InsertAdminRow \/ InsertionFails \/ MakeAllocator
    \/ StartHttp \/ StartHttps \/ StartTls \/ StartRedirect \/ StartPassthrough
    \/ MakeHandler \/ BindControl \/ StartApi
    \/ MakeExitHandler \/ StartExitApi \/ BindQuic
    \/ BuildRelay \/ SpawnServers \/ SpawnQuic \/ SpawnWebSocket \/ SpawnH2
    \/ ApiBinds \/ \E s \in Servers \ {"api"} : ServerBinds(s)
    \/ RegisterEmail \/ StopRelay \/ Crash

StartSpec == StartInit /\ [][StartNext]_startVars
-----------------------------------------------------------------------------
\* A client that asks the API which transports there are is told one that can be
\* dialled: whatever fails, and in whichever order the spawned servers come to
\* bind their ports, the API of the command answers only with the control plane
\* behind it, at the port it names.  The API of the exit node names the default port:
\* there it is so once the start is over, where that is the port of the control plane.
\* And no tunnel is given the port of a server that was never started
\* (handle_relay_command: the listener is bound before the API server is spawned, the
\* handler is made after the servers).
AdvertisedIsServed ==
    /\ serving["api"] = "listening" =>
          \A e \in advertised :
             \/ serving[e[1]] = "listening" /\ place[e[1]] = e[2]
             \/ program = "exit_node" /\ (~At("wait") \/ place["quic"] # DefaultPort)
    /\ \A s \in told : serving[s] # "off"

\* A relay that runs with admin credentials has the admin's user, and its team and
\* membership as well, unless an earlier start was cut off between the insertions or
\* someone had registered that e-mail; a membership is never without its team nor a
\* team without its owner (the three insertions of handle_relay_command, which share no
\* transaction, and register).
AdminComplete ==
    /\ "member" \in adminRows => "team" \in adminRows
    /\ "team" \in adminRows => "user" \in adminRows
    /\ At("wait") /\ withAdmin =>
          "user" \in adminRows /\ (cutOff \/ signedUp \/ adminRows = {"user", "team", "member"})

\* Start-up leaves no half of a thing: what clients are told is served, and an
\* administrator has a team, but for the failures the parts of this property name.
StartedWhole == AdvertisedIsServed /\ AdminComplete
=============================================================================
