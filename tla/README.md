# Verification of localup

localup exposes a local service through a public relay (the *exit node*). A client on the
user's machine keeps one connection to the relay open; the relay listens for visitors and
carries each visitor's connection over a stream of its own to the client, which connects to
the local service. *Agents* turn this round: they register with the relay so that clients can
reach a service behind the agent. A daemon, a desktop application and a management API stand
around that core. This directory holds TLA+ models of the system, the TLC configurations that
check them and proofs checked by TLAPS. All paths below are relative to the repository;
crates are under `crates/`.

## 1. Inventory

| Part | State it keeps | Operations | Interacts with |
|---|---|---|---|
| Port pool (`localup-exit-node/src/main.rs`; a copy in `localup-cli/src/main.rs`) | free ports; per tunnel a port, active or reserved until a time | allocate, deallocate, get_allocated_port, cleanup_expired (periodic task) | control handlers; the operating system, by probing ports |
| Tunnel control (`localup-control/src/handler.rs`, `connection.rs`) | one handler per connection; connection manager | handle_connection, register_route, heartbeat, unregister_route | route registry, port pool, TCP proxy tasks |
| Route registry (`localup-router`) | exact routes, wildcard routes (concurrent maps) | register, unregister, lookup with wildcard fallback | control handlers, all public servers |
| TCP proxy tasks (`localup-server-tcp-proxy`, `task_tracker.rs`) | tracked outer task, untracked inner task with the listening socket | spawn, bind with retries, abort | control handlers, port pool |
| Data plane (`server-tcp-proxy`, `server-tls`, `localup.rs`) | two copy tasks at each end; a database row per connection | open stream, copy, half close, record | visitor, tunnel stream, local service |
| HTTP and HTTPS servers (`server-tcp`, `server-https`; `localup.rs`, `http_proxy.rs`, `metrics.rs` at the client) | request in progress, pooled connection, record of the request at both ends | route, authenticate, forward, upgrade, time out, capture | registry, connection manager, tunnel streams |
| Control stream (`handler.rs`, `localup-client/src/localup.rs`) | ping outstanding, pong deadline; shutdown channel | ping and pong, Disconnect and its acknowledgement | both ends of a tunnel |
| Connecting (`localup.rs`, `transport_discovery.rs`, `relay_discovery.rs`) | progress of one attempt | choose relay, discover transports, dial, register | relay's API, control handler |
| Transports and codec (`localup-transport-*`, `localup-proto/src/codec.rs`) | streams of a connection, bounded channels, buffered bytes | open, accept, send, receive, finish, close | everything above |
| Agents and reverse tunnels (`handler.rs`, `agent_registry.rs`, `localup-agent`, `localup-agent-server`, `reverse_tunnel.rs`) | agent registry and agent connections (two maps, two locks), the agent's table of connections | register or replace, find by address, forward both ways, heartbeat, accept again | control handlers, reverse clients |
| Standalone client (`localup-cli/src/main.rs`, `run_standalone`) | attempt counter, session task, cancellation | backoff, connect, wait, leave | client library |
| Daemon and its IPC (`localup-cli/src/daemon.rs`, `ipc.rs`) | handles with status, runners, command queue, cached project file; socket file | start, stop, reload, shutdown, run_tunnel; look, bind, accept | client library, files, commands |
| Relay start-up (`localup-cli`, `localup-exit-node`, `localup-lib`) | servers bound or not, what clients are told, the administrator's rows | ordered steps, spawned servers, shutdown | everything at the relay |
| Management API (`localup-api`, `localup-cert`, `localup-auth`) | users, tokens, domains, challenges, certificate files, captured traffic | register, login, token and domain handlers, ACME orders, views | control plane, HTTPS server |
| Desktop application (`apps/localup-desktop/src-tauri`) | tunnel manager, task handles, its own daemon with subscriptions | start, stop, update, tray and start-up commands | client library |
| Dashboards, Go and Node SDKs | user interface state | | API, protocol |

What is hard here is concurrency between handlers that share maps keyed by tunnel or agent id
(never by connection), reconnection while an earlier connection is still being torn down,
tasks that outlive the task that spawned them, partial failure in the middle of a
registration or of several insertions, two states that are written one after the other
(memory and database, certificate and key file, task and handle), races between a timeout and
a late message, half-closed connections, and waits that nothing limits. The main ones, with
the line of each and the properties about it, are `hazards` in `PROJECT.json`; those that no
property covers are at the end of section 6. What makes each part correct is stated by the
properties of section 3.

## 2. Modules

One action is one operation on shared state, or everything a task does between two points
where another task can run. Definitions keep the names of the code where they translate a
function. Each operator whose comment begins with *Fault:* is a variant of the definition
next to it with a plausible mistake in it; nothing refers to it unless a definition is
replaced by it, which is how the properties are tested (`mutants` in `PROJECT.json`).

The relay:

* **PortAllocator**: the pool. `allocate` has the four paths of the code (requested,
  preferred by hash, nearby, fallback); each gives the set of outcomes for the ports that
  the operating system reports busy, because a probe drops a busy port from the pool. The
  clock is an integer; the bound on it is `MaxTime`.
* **PortLease**: what the pool promises the control plane (trait `PortAllocator` in
  `handler.rs`): a tunnel holds at most one port, a port has at most one holder, a held port
  is kept on release and comes back to the same tunnel until it lapses. `PortAllocator`
  implements it (`LeasePromise`), and `RelayControl` is built on it. The `relay` command of
  `localup-cli` has its own copy of the allocator, the same but for logging; the steps of
  `PortLease` are mapped to that copy.
* **RelayControl**: handlers of tunnel connections. `register_route` is split where the
  concurrent registry lets another handler in: exists, lookup, unregister, the test and the
  insertion of `register`. Custom domains and tokens that are refused are choices. A TLS
  endpoint with several SNI patterns is a sequence of TLS endpoints. What a tunnel asks for
  is fixed by its id: a generated subdomain also depends on the client's IP address
  (`handler.rs:1696`), so clients return from where they were. A constant `Overlap` says
  whether a client may come back before its old handler has ended.
* **RouteRegistry**: the two maps and `WildcardPattern` on texts as sequences of characters.
* **TcpProxy**: the listeners of TCP tunnels composed with `PortAllocator` (instance `Pool`).
  The spawner's outer task, which the tracker can abort, starts an inner task, which it
  cannot, and that one owns the socket.
* **StreamProxy**: one visitor's connection through the TCP proxy or the TLS server (`kind`).
  Four tasks move chunks between six pipes. Dropping halves of sockets and streams is
  modelled by what the peer sees of it. A database is assumed to be configured. The HTTP
  passthrough server has the steps of the TLS server and is the same `kind`.
* **HttpTunnel**: requests of visitors through the HTTP and HTTPS servers, the client's
  handlers and its proxy with a pooled connection, the row of the relay and the client's
  metrics. A visitor writes a request whole, or cut in its head or in its body, and perhaps
  before the one before is answered (`eager`); every read takes any number of the pieces that
  have come (`Joined`), so that a chunk may begin in the middle of a request and hold parts of
  several. What lies behind the first request of a chunk is its body to the client's proxy, and
  a chunk that does not begin like a request is ignored; `skipped` records the requests lost so.
  A visitor's flaw (no Host header, a challenge's path, a denied address, no credentials) is
  chosen at the start. A client may come back with an authenticator it did not have (`Guarded`).
* **RelayStart**: the steps of the three programs that are a relay, the servers that bind in
  their own tasks, what each program's API answers to discovery (the exit node always QUIC on
  port 4443), and the rows that a first start inserts beside those the API may have inserted.
* **Domains**, **Accounts**, **Traffic**, **Captured**: the management API. A request is a call
  that runs concurrently with others; one action is one access to the database, the files, the
  ACME client's orders or the challenges in memory, and most of these may fail. Their readers
  outside the API are part of them: `is_custom_domain_registered` of the control plane, the
  HTTPS server's resolver, `validate_auth_token`. Which of these have the database depends on
  the program: `checks` in `Accounts` is chosen at the start, and in `Domains` the readers take
  the program as a parameter (`Database`). `Captured` has the status of a service, worked out by
  four queries between which rows are stored, and a reader of pages.

The client and the transports:

* **Connecting**: `TunnelConnector::connect`. Policies, priorities, capacities and the
  transports offered are small sets; orders of lists are choices.
* **Backoff**: `min(2u64.pow(attempt - 1), 30)` in 64 bits, as a release build computes it
  (it wraps; a debug build panics).
* **Reconnect**: the loop of `run_standalone`, its session task and Ctrl-C.
* **ControlStream**: both ends of the control stream of one session over QUIC or HTTP/2, with a
  link that may fail, and the client's accept loop, whose return makes the caller reconnect. The
  relay never closes a connection: QUIC does with its last handle, which a visitor's task may
  hold after the handler has returned.
* **Session**: what the client promises of these two together (`Paced`, `CtrlCObeyed`).
* **WebSocketMux**: reader and writer task of a `WebSocketConnection` on both sides, the table
  of streams with its lock, bounded channels, ids.
* **TransportStream**: one stream of QUIC or HTTP/2 and `TunnelCodec`. Bytes are single and a
  message's length is several of them (`HeaderSize`), so reads cut headers too. A QUIC send goes
  byte by byte as there is room and may be left half way by a `select!`; dropping a stream
  finishes it over QUIC and resets it over HTTP/2; `recv_message` answers `None` at once when the
  end's own flag is set.
* **Carrier**: what the last two promise together to the parts above them (`CarriedIntact`).
* **Listeners**: the accept loops of the three listeners.

Reverse tunnels:

* **AgentControl**: agents and reverse-tunnel requests over the two maps. `early` records the
  agents that came back before an old handler had ended.
* **ReverseStream**: one connection through client, relay loop and agent to the target.
* **ReverseControl**: `localup connect` with its client, the agent with its tasks, the agent
  server, and the loss of either's connection.

The user's machine:

* **Daemon**: command loop and runners. A run is one call of `run_tunnel`; its session is the
  task spawned by it, which may outlive it. Stopping a tunnel sends a cancellation and aborts
  the runner; whether the runner is polled in between is a choice. `connected_at`, the
  protocol and the port shown by the status command are left out, and the command channel
  holds what `MaxRequests` allows (the code's holds 32).
* **Ipc**: the daemon's address and the connections to it.
* **Desktop**: commands and tasks of a tunnel in the application or in its daemon (`host`);
  `odd` records the races that `ShownTrue` excepts.
* **MetricsFeed**: a connection to the application's daemon and its subscription.

The proofs of section 5 are in eight modules, each of which extends the parts it is about:
**PortAllocatorProofs**, **TcpProxyProofs** (`TcpProxy`, on top of the former, and
`RouteRegistry`), **RelayControlProofs** (`RelayControl`, `Session` and the `Carrier` below
them), **AgentControlProofs** (`AgentControl`, `ReverseStream`), **StreamProxyProofs**
(`StreamProxy`), **HttpTunnelProofs** (`HttpTunnel`), **DaemonProofs** (`Daemon`, `Ipc`,
`Connecting`, `Desktop`) and **ApiProofs** (`Accounts`, `Domains`, `Traffic` with `Captured`, `RelayStart`).
They extend no `MC` module, so no bound of a run enters a proof.

What is external (the user, the network, other processes, the clock, the ends of a proxied
connection) is an action of its own and is marked so in the map.

The `MC` modules give constants their values, state fairness, and put parts together. Parts
that share state are composed in their modules (`TcpProxy` with `PortAllocator`,
`RelayControl` with `PortLease`). `MCServers`, `MCTunnel`, `MCAgentControl`, `MCRelayState`
and `MCDesktop` each hold several parts that share no state: a variable `part` chooses at the
start whose behaviour it is and the other parts stand still, so that the states add up
instead of multiplying. What a lower part promises (streams that carry messages whole and in
order) is an assumption of the parts above it, and a theorem about the lower one
(`CarriedRight`).

## 3. Runs

| Run | Question | Distinct states |
|---|---|---|
| `ports` | Is a port ever held twice, lost, or kept from the tunnel it is reserved for? Does a reservation end? Does the pool keep its promise? | 5,344 |
| `relay_orderly` | Is every connected tunnel reachable, when clients come back only after the relay has noticed that they left? Does every handler whose client is gone end? | 45,371 |
| `relay_overlap` | Do overlapping handlers of contending tunnels leave routes, ports or connections behind, other than those of a handler that failed? | 152,848 |
| `relay_reconnect` | Can a client that came back early be reached once its old handlers have ended: **violated** | |
| `servers` | Do answers come in the order of their requests however reads cut these, is what is recorded true, do bytes arrive in order and in full, does every visit end? | 533,885 |
| `tunnel` | Is the best relay and transport chosen, are retries and pings paced, do messages arrive as sent over each transport, is Ctrl-C obeyed, is a lost peer noticed? | 267,104 |
| `agents` | Are agents listed exactly while served, does a reverse stream only reach the target it asked for and arrive intact, does it end, is a lost connection noticed? | 362,064 |
| `reverse_reconnect` | Does `localup connect` reconnect after a loss: **violated** | |
| `daemon` | One runner per tunnel, a status that follows it, shutdown obeyed | 868,346 |
| `daemon_exit` | Are sessions down when the daemon exits: **violated** | |
| `relay_state` | Are certificates those of their domains and registered domains covered, revoked tokens refused and given ones accepted, views true, start-up whole, routes found exactly, TCP visitors never misdelivered? | 1,476,649 |
| `desktop` | Is the status shown that of the one task, does a task without a handle end, does a daemon keep its address, is every caller answered? | 460,534 |

Properties that are conjunctions name what each part promises: `Accounted` (routes, leases,
connections), `RecordsTrue`, `ProxiedRight`, `VisitsEnd`, `Paced`, `CarriedIntact`,
`CtrlCObeyed`, `WaitsEnd`, `AgentsRight`, `RunnersKept`, `DomainsCovered`, `StartedWhole`,
`RoutesRight`, `CallsEnd`. Each of their parts has a mutant of its own where parts of
different modules are joined.

Bounds. Two tunnels that prefer the same port of a range of two or three, with a neighbourhood
of one, reach all paths of `allocate`, exhaustion included; a clock of three outlives a
reservation of one. Three connections are the least with which one tunnel overlaps with itself
while another contends. Two chunks per direction suffice for one chunk to be in flight while
another is read or lost. A visitor with two requests in four pieces and a client that comes
back once reach every way of cutting and joining two requests and every change between the
relay's lookups; one entry in the metrics store makes it overflow at once. 66 attempts pass
the width of the backoff's integer. Channels of the multiplexer with room for one, and two
messages per stream, block the reader. A header of two bytes and payloads of none or one are
cut at every place, and a pipe with room for two makes a send wait. Two knockers are one that
fails or is silent before one that is sound. Two relays and two ports of discovery give a
choice. Three concurrent calls are two that conflict and a change between them; a domain and
its wildcard are the two levels the resolver looks at. Three captured rows on a clock of
three, two of it recent, are one before, one between and one after a query, and fill a page
and a half. Three requests or edits of the daemon are an edit, a reload and a stop, or a stop
between two starts. Texts in the route registry allow two labels, an asterisk and an empty
label at every place. `ControlStream` needs no bound: the heartbeat keeps its queues short.
Symmetry is used only in `relay_overlap`, over connections, which are interchangeable there
(all are QUIC), and with invariants only; `MCTunnel` and `MCAgentControl` use interchangeable
sides and connections in a fixed order instead. Deadlock checking is off where the system may
come to rest: all connections used up, the process exited, the session over.

Fairness, stated in the `MC` modules. Weak fairness on the steps of tasks says that the runtime
polls what is ready; on timers, that an armed timer fires. `MCPortAllocator` assumes it of the
periodic cleanup and of time. In `MCServers` and `MCAgentControl` an end of a proxied
connection reads what arrives and shuts its side after it has read the end of the other's;
without that a half-open connection may rightly last for ever. The steps of
connecting are assumed to go on where the code or the transport limits them. The waits that
nothing limits are not assumed to end, and the properties name them: the answer to Connect, a
discovery port that accepts and says nothing, over HTTP/2 the TLS and HTTP/2 handshakes and the
response that opens a stream (`WaitsUnlimited`; `ConnectReturns` ends there), `TunnelClient::connect`
as a whole in the client's loop (`ConnectHangs` in `CtrlCEnds`), a visitor's task that holds the
connection (`DropIsNoticed` is stated once there is none), a handshake in a WebSocket or HTTP/2
listener, and a send to a peer that never reads (`SendHangs`). Nothing is assumed of users,
of the network failing, or of sessions ending by themselves.

## 4. Disagreements between the code and what it says

Three are kept as runs (`findings`):

* `relay_reconnect`: cleanup is by tunnel id and host (`handler.rs:612` to `617`), so the handler
  of a lost connection removes what the client's new connection has registered, and the client
  stays connected without a route (`ReconnectionPreserves`, stated of clients whose earlier
  handlers have all run to their end); `README.md:12` promises port and subdomain preservation.
  Even before that cleanup a handler that has not noticed the loss may take the route over from
  its successor (`handler.rs:2047`). The same shape exists for agents (`handler.rs:1596`);
  `AgentReachable` is therefore stated for agents that never came back early.
* `daemon_exit`: `docs/daemon.md:420` says tunnels are stopped gracefully and acknowledgements
  awaited; `stop_all` cancels, aborts and returns (`daemon.rs:713`).
* `reverse_reconnect`: `localup-cli/src/main.rs:1982` says "automatic reconnection on
  disconnect"; `ReverseTunnelClient::wait` returns only when its own `close` has been called
  (`reverse_tunnel.rs:298`), so the loop never comes round.

Others met while modelling are in the models as the code has them, and the properties say
where they end:

* `RouteRegistry::register` tests and inserts in two steps (`registry.rs:89`): of two tunnels
  that register a free host together the second takes it from the first, and both are told
  Connected. `Accounted` still holds; `Reachable` is checked without contention.
* A refused endpoint returns without removing the endpoints before it (`handler.rs:463`);
  `Accounted` counts such a handler among those that failed.
* A TLS endpoint has no takeover (`handler.rs:2199`): an early return is refused because of
  its own route.
* Aborting the tracked task does not close the listening socket (`main.rs:475` of the exit
  node; `handler.rs:2282` expects it to). `NoMisdelivery` shows why visitors are not sent to
  the wrong tunnel all the same: the probe in `allocate` finds the old listener.
* After Disconnect the client takes any message for the acknowledgement (`localup.rs:1072`);
  a disconnect before `run()` has stored its channel does nothing (`localup.rs:1007`).
* TLS passthrough drops both directions when one ends (`server-tls/src/server.rs:582`);
  `Intact` says for whom data is still complete. A row is left active when no stream can be
  opened (`server.rs:272`); `RecordClosed` is stated for connections that were proxied.
* A later request of a keep-alive connection that the client fails to serve gets no answer
  (`localup.rs:1426`), and the record of a request whose answer breaks off stays open
  (`http_proxy.rs:294`); `AnswersMatch` and `MetricsSettled` name these. What follows the
  first read of a request to the HTTPS server is not part of the message.
* Requests that a visitor sends before the one before is answered may come in one read. The
  client's proxy takes what follows the first for its body (`http_proxy.rs:142`) and ignores a
  chunk that does not begin like a request (`localup.rs:1431`), so such requests are never
  answered; `AnswersMatch` names these too, and says more of a visitor that waits for its answers.
* The authenticator and the connection are looked up one after the other
  (`server-tcp/src/server.rs:303` and `327`): a client that comes back in between with an
  authenticator gets a request that was not asked for credentials. Nothing in the code ties the
  two together, so no property is stated about it.
* `accept_stream` "returns `None` when the connection is closed" (`localup-transport/src/lib.rs:132`);
  the HTTP/2 client's does so at once, because the only sender of its channel is dropped where it
  is made (`transport-h2/src/connection.rs:200`). A tunnel over HTTP/2 ends as soon as it is up.
* The relay's handler drops a connection and does not close it. While a visitor's task has a handle
  of it (`server-tcp-proxy/src/server.rs:192`), a client whose tunnel was given up stays in its session:
  its control task has ended, its accept loop waits, and it does not reconnect.
* Ctrl-C is not looked for while `TunnelClient::connect` is awaited (`localup-cli/src/main.rs:1682`),
  which has no limit.
* An end of a stream that has finished sending is told `None` by its next `recv_message`, whatever the
  peer has still sent (`transport-quic/src/stream.rs:69`, `transport-h2/src/stream.rs:64`); and a
  `send_message` left half way (`server-tls/src/server.rs:582`) ends a QUIC stream in the middle of a
  message, an error to a reader with the whole stream and an orderly end to one with the receiving half.
* The WebSocket transport can be selected and is then refused (`localup.rs:716`); a stream
  opened while the reader ends is never told (`websocket/src/connection.rs:251`).
* The agent's forwarder does not pass on a reset by the target (`forwarder.rs:176`), and the
  relay's loop ends both directions at the first close (`handler.rs:978`).
* Certificate and key are two files and a row, written without a lock (`handlers.rs:903`); a
  challenge lives in memory and does not survive a restart (`handlers.rs:1249`); completing
  removes nothing from memory (`handlers.rs:1554`); the HTTPS server loads custom
  certificates at its start only. A database error in the middle of a restart leaves a pending
  row without its token (`handlers.rs:1926`, `2024`).
* Only the exit node gives its tunnel handler the database. With the `relay` command
  (`localup-cli/src/main.rs:2793`) and the library every custom domain is taken for registered
  (`handler.rs:145`), and a revoked or deleted token is accepted until it expires
  (`handler.rs:1686`); without a secret every token is (`handler.rs:1617`). Only the `relay` command
  gives its HTTPS server the database. `TokensHonoured` and `DomainsCovered` say which program
  they are about.
* The status of a service comes from four queries (`handlers.rs:29` to `69`), each taken for zero when
  it fails. A 502 stored between the first and the second makes a service "up" of which no recent
  request was answered, against the comment at `handlers.rs:57`; `StatusTrue` names the case.
* The exit node's API answers discovery with QUIC on port 4443, whatever port its control plane is
  on and before it is bound (`handlers.rs:3573`); `StartedWhole` is stated for it once it is up there.
* The administrator, the team and the membership are inserted without a transaction
  (`localup-cli/src/main.rs:2532`): a start that fails in between leaves an administrator without a
  team, and so does an e-mail that was registered through the API before.
* Registration tells a default token also when it was not saved (`handlers.rs:2655`).
* The backoff wraps to zero from the 65th failure on (`localup-cli/src/main.rs:1649`,
  `daemon.rs:740`); `RetriesPaced` ends there.
* A stopped tunnel's session may go on (`daemon.rs:700`), a runner that gave up blocks a new
  start (`daemon.rs:636`), a reload ignores changed configurations (`daemon.rs:412`), and the
  status stays Connected after a drop (`daemon.rs:805`).
* Two daemons that start together can take each other's socket file (`ipc.rs:272`);
  `AddressKept` is stated for daemons that do not.
* In the desktop application a task spawned before its handle is stored, a replaced task and
  an abort that a step overtakes can each leave a wrong status (`tunnels.rs:541`, `632`,
  `service.rs:518`); `ShownTrue` names them.
* `RouteRegistry::lookup` is documented as falling back to wildcards for HTTP hosts only
  (`registry.rs:127`) and does so for TLS names too; `FoundRight` is stated for both.

## 5. Proofs

All theorems hold for every value of the constants that the named assumption of the module
allows. The assumptions give the constants their types (bounds are natural numbers, positive
where nothing would run otherwise; sets of names do not contain the values that stand for
"none"); `PortAssumption` asks in addition for a range of 16-bit ports that is not empty and
whose size fits 16 bits. `ConnectedReachable` has two hypotheses of its own, see
below. About 24,800 obligations are checked by the SMT, Zenon and LS4 backends.

| Theorem | States | Module (obligations) |
|---|---|---|
| `TypeCorrect` | `Spec => []TypeOK` | PortAllocatorProofs (441) |
| `Exclusive` | `Spec => []PortsExclusive` | |
| `Honoured` | `Spec => ReservationHonoured` | |
| `Conserved` | `Spec => NoPortVanishes` | |
| `Implements` | `Spec => LeasePromise`, refinement of `PortLease` | |
| `Delivered` | `TcpSpec => []NoMisdelivery` | TcpProxyProofs (1039) |
| `PoolExclusive` | `TcpSpec => []Pool!PortsExclusive` | |
| `StaysServed` | `TcpSpec => Served` | |
| `RoutesFound` | `RoutesSpec => []RoutesRight` | |
| `TypeCorrect` | `Spec => []TypeOK` | RelayControlProofs (7037) |
| `Answered` | `Spec => []Accounted` | |
| `ConnectedReachable` | `Spec => []Reachable`, if `~Overlap` and `SlotsApart` | |
| `SessionPaced` | `ControlSpec /\ ReconnectSpec => []Paced` | |
| `CarriedRight` | `MuxSpec /\ TsSpec => []CarriedIntact` | |
| `TypeCorrect` | `Spec => []TypeOK` | AgentControlProofs (3846) |
| `ForwardedRight` | `Spec => []ForwardsToTarget` | |
| `RegistryRight` | `Spec => []AgentsRight` | |
| `ReverseRight` | `ReverseSpec => []ReverseIntact` | |
| `ConnectionIntact` | `StreamSpec => []ProxiedRight` | StreamProxyProofs (3810) |
| `AnswersInOrder` | `HttpSpec => []AnswersMatch` | HttpTunnelProofs (3538) |
| `RecordsKept` | `HttpSpec => []RecordsTrue` | |
| `RunnersRight` | `DaemonSpec => []RunnersKept` | DaemonProofs (2082) |
| `AddressRight` | `IpcSpec => []AddressKept` | |
| `ChoiceRight` | `ConnectingSpec => []ChosenIsBest` | |
| `ShownRight` | `DesktopSpec => []ShownTrue` | |
| `TokensRight` | `AccountsSpec => []TokensHonoured` | ApiProofs (2962) |
| `CertificatesRight` | `DomainsSpec => []CertOfDomain` | |
| `Covered` | `DomainsSpec => []DomainsCovered` | |
| `TrafficRight` | `TrafficSpec => []ViewsTrue` | |
| `StartRight` | `StartSpec => []StartedWhole` | |

The arguments. Few of the properties are inductive as they stand; what each needs beside
itself was checked by TLC as an invariant before it was proved.

* *Port pool.* A step of `allocate` hands out a port of the pool, so exclusiveness needs to
  know that the pool holds no port that is held, and the types. The work is in a lemma that
  describes every outcome of `allocate`, whichever path produced it: it grants the port
  already held, or a port of the pool and takes it out of there, or nothing; in each case the
  pool only loses ports found busy. Actions, action properties and the refinement follow from
  it. A grant or a renewal maps to `Grant` or `Renew`, a release to `Release`, cleanup to
  `Lapse` or a stutter, all else to a stutter.
* *TCP proxy.* The facts of the pool are instantiated. `TcpInv` adds that a task which still
  has to bind aims at the port its tunnel is leased, and that a tunnel with a pending task
  keeps its lease; a listener left over then makes the probe fail for everybody else.
* *Routes.* The work is in what the operators on texts compute, for texts of any length:
  where a text is split, what its labels are, that joining them gives it back. From this the
  parser accepts exactly an asterisk over a domain name of two labels or more, and a parsed
  pattern that covers a name is the one that `extract_parent_wildcard` builds from it, so that
  one probe of the second map is enough. The inductive part is small: every registered
  wildcard was accepted by the parser.
* *Tunnel control.* `Accounted` is inductive with the types; its lemma `Keeps` says which
  handlers go on answering for what they have taken. `Reachable` is false when a client comes
  back early (`relay_reconnect`) or when tunnels ask for one slot, hence the hypotheses:
  `~Overlap` is what `relay_orderly` checks, `SlotsApart` that no two tunnels name the same
  host or name. The invariant `Standing` says of every handler, also of one that is still being
  set up, that what it has taken stands, and that a tunnel has one live handler at most.
* *Session.* `Beat` says of the two queues that a ping or pong on the way is the only one of
  either and that the relay waits for it. A client that connects has waited exactly
  `BackoffSeconds(attempt)`, which a lemma shows to be at least one up to the width of the
  integer.
* *Codec.* The bytes between the two ends, those in the buffer of the receiver, those under way
  and those that `write_all` still has, are the encodings of the messages still to come, in order
  and without a gap (`Line`), to the end of the last (`Whole`) or, once a send was left half way, short of it
  (`Short`); a lost connection may have cut a tail. A message is decoded when the line holds all of
  it, and then it is the next one; `None` is told only when the line is empty behind the last.
* *Multiplexer.* The two sides number their streams apart, so an id tells who opened it
  (`IdsRight`), and both ends of an id belong to one conversation, also for a stream announced by
  a frame. For an end that still takes messages, `Way` describes the way to it: what
  it has received, its channel, the message in the reader task's hand, and the frames on the socket
  and in the queue of the other side's writer hold its messages each after the one before, among
  those of other streams, and FIN behind the last. Frames belong to an end that sent them
  (`FramesRight`), a stream waits at most once to be accepted (`AcceptRight`), and the tasks
  end only with the socket (`TasksRight`), so that a FIN made up by the reader is never taken
  for the peer's while the socket is up.
* *Agents.* A request keeps agent and target (`Fixed`), and only QUIC connections are stored,
  so that what was looked up before the await is still right after it. `RegistryRight` needs
  `OneHandler` (agents that came back early excepted) and `Settled`, which ties the place of
  each handler to the two maps.
* *Reverse connection.* Each direction is a chain of four pipes, through client, relay and agent.
  For each pipe, how many pieces were put in and taken out gives the pieces it holds; what one hop
  has taken the next pipe has been given. Signs of the end stand behind the pieces, and behind one
  nothing is missing unless a connection was lost, the request refused or an end left: the invariant has, for a pipe
  that is shut or deaf and for a hop that is done, the reason why.
* *Proxied connection.* Each direction is a chain of three pipes; there are numbers *a* and *b*
  such that the reader has 1 to *got*, its pipe carries *got+1* to *a*, the tunnel *a+1* to *b*
  and the writer's pipe *b+1* to *wrote*. Marks of the end stand behind the chunks of a pipe, and
  behind a mark nothing is missing unless the connection is excused. `Directions` says so for
  both ways by one formula over a record, so that a lemma about a step of a pipe serves both
  ways; `QuietTasks`, `Phases` and `Reasons` tie tasks and excuses to the pipes.
* *HTTP.* A visit is described by one formula over its six records (`Visit`). Chunks are
  intervals of requests, each of which begins where the one before ended or in the middle of its
  last request (`Chained`), and joining those of a read gives a chunk that takes their place; on the
  way down answers increase, and what lies between two of them was dropped (`Told`, `Passed`). The
  two meet in how far the client has dealt with what it took (`BytesUp`, `BytesDown`). Every action
  touches one visit, so there is a lemma per action over these records. The metrics' ring
  has an invariant of its own, that whatever is open in it has a handler.
* *Daemon.* `Kept` adds to `RunnersKept` that the handle's runner is the tunnel's and that a
  status written through a handle belongs to that runner. *IPC*: a daemon about to remove or
  bind found nobody listening, unless `mixed`. *Connecting*: the partial result of the
  selection beats what has been looked at so far. *Desktop*: as long as `odd` is empty, one
  command at most is past its first step and one task at most is alive; `Calm` says, per place of
  that command, which task the handle, the status and the metrics belong to.
* *API.* Accounts: a call that has read a row may write it later, so the invariant says what
  such a call still knows of the row. Domains: what a call carries (issue, files, order) is of
  its domain, and what it found is unchanged unless another call was at work (`Alone`, `Apart`).
  Traffic: the list gathered so far is right for the ids already visited; what was counted is still
  there, since rows are only added, and a row that a reader of pages has yet to see is on a page
  it has yet to ask for. Start-up: what has been
  started is determined by the step reached, and rows are inserted in one order.

Every safety property that a run checks to hold, invariants and action properties alike, is
stated by a theorem. Only model-checked: the liveness properties (`ReservationEnds`,
`HandlersEnd`, `VisitsEnd`, `CtrlCObeyed`, `DropIsNoticed`, `WaitsEnd`, `ReverseEnds`,
`LossIsNoticed`, `ShutdownObeyed`, `StrayEnds`, `CallsEnd`), which are outside what the prover
does; and the properties of the runs that are expected to be violated.

## 6. Not modelled

`components` in `PROJECT.json` lists every part with the reason. In short: parsers and text
(HTTP heads, SNI, project files), stateless checks (header authentication, IP filter,
allow-lists, subdomain policy), services of launchd and systemd, the web applications and the
SDKs in other languages, and code that nothing uses in this commit (`localup-connection`,
`PendingRequests`, `mux.rs`). Within modelled parts: logging, byte counters of the connection
records, the metrics' HTTP view, teams and user administration, `SimplePortAllocator` of the
library, and the insecure TCP mode of the exit node.

Hazards that were met and that no property covers:

* the size of the port range is computed in 16 bits (`localup-exit-node/src/main.rs:761`), so
  that the full range would overflow; `PortAllocator` assumes a range whose size fits;
* of two agents with one target address `find_by_address` returns either
  (`agent_registry.rs:146`), and the request is refused when it is not the one the client
  named; a retry need not fare better, so no liveness property can be stated;
* a periodic update of a connection's row that is under way when the connection ends may
  overwrite its final byte counts (`server-tcp-proxy/src/server.rs:427`), which are left out;
* a tunnel lost with data under way looks like an orderly end to the peer
  (`server-tcp-proxy/src/server.rs:382`); `Intact` is stated where nothing failed;
* a reload keeps the old configuration of a running tunnel (`daemon.rs:412`), and nothing says
  whether it should;
* a stream that is opened while the WebSocket reader ends (`connection.rs:251`), the answer to
  Connect (`localup.rs:808`), a discovery port that accepts and says nothing
  (`transport_discovery.rs:171`), the handshakes of the HTTP/2 connector
  (`transport-h2/src/listener.rs:163`) and the response to its `open_stream` (`connection.rs:268`)
  are waited for without a limit; `WaitsEnd` excepts them;
* a client comes back between the check of its authenticator and the choice of its connection
  (`server-tcp/src/server.rs:327`), see section 4;
* `SimplePortAllocator` hands out a requested port without asking whether it is in use
  (`localup-lib/src/relay.rs:126`).

## 7. Plan

Done: port pool with its promise and proofs; tunnel control; TCP proxy tasks; control stream;
agents and reverse streams; data plane; HTTP over a tunnel; connecting; transports and codec;
client loop; daemon and IPC; route registry; start-up; management API; desktop application.

Proofs: all safety properties that the runs check to hold.

Left open: `SimplePortAllocator` of the library against `PortLease` (it would not implement
it, see the end of section 6); the byte counters of the connection records; liveness beyond
the instances of section 3.
