------------------------- MODULE AgentControlProofs -------------------------
(***************************************************************************)
(* Proofs about the relay's control plane for reverse tunnels, for every   *)
(* set of agents, addresses, agent connections and clients; and about one  *)
(* connection of a reverse tunnel, however much its ends write.            *)
(***************************************************************************)
EXTENDS AgentControl, ReverseStream, SequenceTheorems, TLAPS

USE AgentAssumption

Label == {"idle", "register", "announce", "store", "serving", "leaving", "unstore", "closed", "failed"}

Outcome == {"idle", "found", "mismatch", "refused", "accepted"}

\* The two maps, the handlers and the requests have their types.  A handler has
\* an agent and a target from its start on, and an accepted request a connection.
TypeOK ==
    /\ agents \in [Agent -> Address \cup {NoAddress}]
    /\ agentConnections \in [Agent -> Conn \cup {NoConn}]
    /\ pc \in [Conn -> Label]
    /\ agent \in [Conn -> Agent \cup {NoAgent}]
    /\ target \in [Conn -> Address \cup {NoAddress}]
    /\ gone \subseteq Conn /\ early \subseteq Agent
    /\ request \in [Client -> Outcome]
    /\ via \in [Client -> Conn \cup {NoConn}]
    /\ forwarded \subseteq [client : Client, conn : Conn]
    /\ \A c \in Conn : pc[c] # "idle" => agent[c] \in Agent /\ target[c] \in Address
    /\ \A c \in Conn : pc[c] = "idle" => agent[c] = NoAgent
    /\ \A r \in Client : request[r] = "accepted" => via[r] # NoConn

\* The state keeps its types.
THEOREM TypeCorrect == Spec => []TypeOK
<1>1. Init => TypeOK
  BY DEF Init, TypeOK, Label, Outcome
<1>2. TypeOK /\ [Next]_vars => TypeOK'
  <2> SUFFICES ASSUME TypeOK, [Next]_vars PROVE TypeOK'
    OBVIOUS
  <2>1. ASSUME NEW c \in Conn, NEW x \in Agent, NEW addr \in Address, AgentRegister(c, x, addr)
        PROVE  TypeOK'
    BY <2>1 DEF AgentRegister, clientVars, TypeOK, Label
  <2>2. ASSUME NEW c \in Conn, AgentLeaves(c) PROVE TypeOK'
    BY <2>2 DEF AgentLeaves, agentVars, clientVars, TypeOK
  <2>3. ASSUME NEW c \in Conn, RegisterOrReplace(c) PROVE TypeOK'
    BY <2>3 DEF RegisterOrReplace, Goto, clientVars, TypeOK, Label
  <2>4. ASSUME NEW c \in Conn, Announce(c) PROVE TypeOK'
    BY <2>4 DEF Announce, Unregister, Goto, clientVars, TypeOK, Label
  <2>5. ASSUME NEW c \in Conn, StoreConnection(c) PROVE TypeOK'
    BY <2>5 DEF StoreConnection, Unregister, Goto, clientVars, TypeOK, Label
  <2>6. ASSUME NEW c \in Conn, HeartbeatEnds(c) PROVE TypeOK'
    BY <2>6 DEF HeartbeatEnds, Goto, clientVars, TypeOK, Label
  <2>7. ASSUME NEW c \in Conn, UnregisterAgent(c) PROVE TypeOK'
    BY <2>7 DEF UnregisterAgent, Unregister, Goto, clientVars, TypeOK, Label
  <2>8. ASSUME NEW c \in Conn, DropConnection(c) PROVE TypeOK'
    BY <2>8 DEF DropConnection, Goto, clientVars, TypeOK, Label
  <2>9. ASSUME NEW r \in Client, FindAgent(r) PROVE TypeOK'
    <3>1. PICK o \in {"refused", "found", "mismatch"} : request' = [request EXCEPT ![r] = o]
      BY <2>9 DEF FindAgent
    <3> QED
      BY <2>9, <3>1 DEF FindAgent, agentVars, TypeOK, Outcome
  <2>10. ASSUME NEW r \in Client, GetConnection(r) PROVE TypeOK'
    BY <2>10 DEF GetConnection, agentVars, TypeOK, Outcome
  <2>11. ASSUME NEW r \in Client, ForwardStream(r) PROVE TypeOK'
    <3>1. via[r] \in Conn
      BY <2>11 DEF ForwardStream, TypeOK
    <3> QED
      BY <2>11, <3>1 DEF ForwardStream, agentVars, TypeOK
  <2>12. ASSUME NEW r \in Client, Retry(r) PROVE TypeOK'
    BY <2>12 DEF Retry, agentVars, TypeOK, Outcome
  <2>13. CASE UNCHANGED vars
    BY <2>13 DEF vars, TypeOK
  <2> QED
    BY <2>1, <2>2, <2>3, <2>4, <2>5, <2>6, <2>7, <2>8, <2>9, <2>10, <2>11, <2>12, <2>13
       DEF Next, Handler
<1> QED
  BY <1>1, <1>2, PTL DEF Spec
-----------------------------------------------------------------------------
\* The connections on file are those of QUIC handlers: what the invariant
\* ForwardsToTarget needs to be inductive.
StoredQuic == \A x \in Agent : agentConnections[x] \in Quic \cup {NoConn}

\* An agent connection that has begun keeps its agent and its target.
Fixed == \A c \in Conn : pc[c] # "idle" => agent'[c] = agent[c] /\ target'[c] = target[c]

\* No step changes the agent or the target of a connection that has begun.
LEMMA StepFixed ==
    ASSUME TypeOK, Next
    PROVE  Fixed
<1>1. ASSUME NEW c \in Conn, NEW x \in Agent, NEW addr \in Address, AgentRegister(c, x, addr)
      PROVE  Fixed
  BY <1>1 DEF AgentRegister, Fixed, TypeOK
<1>2. ASSUME UNCHANGED <<agent, target>> PROVE Fixed
  BY <1>2 DEF Fixed
<1>3. ASSUME NEW c \in Conn, Handler(c) \/ AgentLeaves(c) PROVE UNCHANGED <<agent, target>>
  BY <1>3 DEF Handler, RegisterOrReplace, Announce, StoreConnection, HeartbeatEnds, UnregisterAgent,
              DropConnection, AgentLeaves, Goto, agentVars
<1>4. ASSUME NEW r \in Client, FindAgent(r) \/ GetConnection(r) \/ ForwardStream(r) \/ Retry(r)
      PROVE  UNCHANGED <<agent, target>>
  BY <1>4 DEF FindAgent, GetConnection, ForwardStream, Retry, agentVars
<1> QED
  BY <1>1, <1>2, <1>3, <1>4 DEF Next

\* Traffic is forwarded only by the agent and to the address the client asked
\* for, whenever the agent leaves and comes back, and with whatever target.
THEOREM ForwardedRight == Spec => []ForwardsToTarget
<1> DEFINE GivenRight == \A r \in Client : via[r] # NoConn => agent[via[r]] = Wants[r].agent /\ via[r] \in Quic
           StoredRight == \A x \in Agent : agentConnections[x] # NoConn =>
               agent[agentConnections[x]] = x /\ pc[agentConnections[x]] \in {"serving", "leaving", "unstore"}
           SentRight == \A f \in forwarded :
               agent[f.conn] = Wants[f.client].agent /\ target[f.conn] = Wants[f.client].address
           Inv == GivenRight /\ StoredRight /\ SentRight /\ StoredQuic
<1>1. Init => Inv
  BY DEF Init, StoredQuic
<1>2. TypeOK /\ Inv /\ [Next]_vars => Inv'
  <2>0. SUFFICES ASSUME TypeOK, GivenRight, StoredRight, SentRight, StoredQuic, Next PROVE Inv'
    BY DEF vars, StoredQuic
  <2> DEFINE Good == Inv'
  <2>1. Fixed
    BY <2>0, StepFixed
  <2>2. \A r \in Client : via[r] # NoConn => via[r] \in Conn /\ pc[via[r]] # "idle"
    BY <2>0 DEF TypeOK
  <2>3. \A f \in forwarded : f.conn \in Conn /\ f.client \in Client /\ pc[f.conn] # "idle"
    BY <2>0 DEF TypeOK
  <2>4. UNCHANGED via => GivenRight'
    BY <2>0, <2>1, <2>2 DEF Fixed
  <2>5. UNCHANGED forwarded => SentRight'
    BY <2>0, <2>1, <2>3 DEF Fixed
  <2>6. ASSUME UNCHANGED agentConnections,
               \A c \in Conn : pc[c] \in {"serving", "leaving", "unstore"} =>
                                  pc'[c] \in {"serving", "leaving", "unstore"}
        PROVE  StoredRight' /\ StoredQuic'
    <3>1. \A x \in Agent : agentConnections[x] # NoConn => agentConnections[x] \in Conn
      BY <2>0 DEF TypeOK
    <3>2. StoredRight'
      BY <2>0, <2>1, <2>6, <3>1 DEF Fixed
    <3> QED
      BY <2>0, <2>6, <3>2 DEF StoredQuic
  <2>7. ASSUME NEW c \in Conn, NEW x \in Agent, NEW addr \in Address, AgentRegister(c, x, addr)
        PROVE  Good
    <3>1. \A d \in Conn : pc[d] \in {"serving", "leaving", "unstore"} => pc'[d] = pc[d]
      BY <2>0, <2>7 DEF AgentRegister, TypeOK
    <3>2. UNCHANGED <<agentConnections, via, forwarded>>
      BY <2>7 DEF AgentRegister, clientVars
    <3> HIDE DEF GivenRight, StoredRight, SentRight
    <3> QED
      BY <2>4, <2>5, <2>6, <3>1, <3>2
  <2>8. ASSUME NEW c \in Conn, RegisterOrReplace(c) \/ Announce(c) \/ HeartbeatEnds(c)
                               \/ UnregisterAgent(c) \/ AgentLeaves(c)
        PROVE  Good
    <3>1. \A d \in Conn : pc[d] \in {"serving", "leaving", "unstore"} =>
             pc'[d] \in {"serving", "leaving", "unstore"}
      BY <2>0, <2>8 DEF RegisterOrReplace, Announce, HeartbeatEnds, UnregisterAgent, AgentLeaves,
                        Goto, agentVars, TypeOK
    <3>2. UNCHANGED <<agentConnections, via, forwarded>>
      BY <2>8 DEF RegisterOrReplace, Announce, HeartbeatEnds, UnregisterAgent, AgentLeaves, clientVars
    <3> HIDE DEF GivenRight, StoredRight, SentRight
    <3> QED
      BY <2>4, <2>5, <2>6, <3>1, <3>2
  <2>9. ASSUME NEW c \in Conn, StoreConnection(c) PROVE Good
    <3>1. UNCHANGED <<via, forwarded, agent>> /\ pc[c] = "store" /\ agent[c] \in Agent
      BY <2>0, <2>9 DEF StoreConnection, Goto, clientVars, TypeOK
    <3>2. CASE c \in Quic
      <4>1. agentConnections' = [agentConnections EXCEPT ![agent[c]] = c] /\ pc' = [pc EXCEPT ![c] = "serving"]
        BY <2>9, <3>2 DEF StoreConnection, Goto
      <4>2. ASSUME NEW x \in Agent, agentConnections'[x] # NoConn
            PROVE  /\ agent'[agentConnections'[x]] = x /\ agentConnections'[x] \in Quic
                   /\ pc'[agentConnections'[x]] \in {"serving", "leaving", "unstore"}
        <5>1. CASE x = agent[c]
          BY <2>0, <3>1, <3>2, <4>1, <5>1 DEF TypeOK
        <5>2. CASE x # agent[c]
          BY <2>0, <3>1, <4>1, <4>2, <5>2 DEF TypeOK, StoredQuic
        <5> QED
          BY <5>1, <5>2
      <4>3. StoredRight' /\ StoredQuic'
        BY <4>2 DEF StoredQuic
      <4> QED
        BY <2>4, <2>5, <3>1, <4>3
    <3>3. CASE c \notin Quic
      <4>1. UNCHANGED agentConnections /\ pc' = [pc EXCEPT ![c] = "failed"]
        BY <2>9, <3>3 DEF StoreConnection, Goto
      <4>2. \A d \in Conn : pc[d] \in {"serving", "leaving", "unstore"} => pc'[d] = pc[d]
        BY <2>0, <3>1, <4>1 DEF TypeOK
      <4> HIDE DEF GivenRight, StoredRight, SentRight
      <4> QED
        BY <2>4, <2>5, <2>6, <3>1, <4>1, <4>2
    <3> QED
      BY <3>2, <3>3
  <2>10. ASSUME NEW c \in Conn, DropConnection(c) PROVE Good
    <3>1. /\ UNCHANGED <<via, forwarded, agent>> /\ pc[c] = "unstore" /\ agent[c] \in Agent
          /\ agentConnections' = [agentConnections EXCEPT ![agent[c]] = NoConn]
          /\ pc' = [pc EXCEPT ![c] = "closed"]
      BY <2>0, <2>10 DEF DropConnection, Goto, clientVars, TypeOK
    <3>2. ASSUME NEW x \in Agent, agentConnections'[x] # NoConn
          PROVE  /\ agent'[agentConnections'[x]] = x /\ agentConnections'[x] \in Quic
                 /\ pc'[agentConnections'[x]] \in {"serving", "leaving", "unstore"}
      <4>1. x # agent[c] /\ agentConnections'[x] = agentConnections[x]
        BY <2>0, <3>1, <3>2 DEF TypeOK
      <4>2. agentConnections[x] \in Conn /\ agentConnections[x] # c
        BY <2>0, <3>2, <4>1 DEF TypeOK
      <4> QED
        BY <2>0, <3>1, <3>2, <4>1, <4>2 DEF TypeOK, StoredQuic
    <3>3. StoredRight' /\ StoredQuic'
      BY <3>1, <3>2 DEF StoredQuic, TypeOK
    <3> QED
      BY <2>4, <2>5, <3>1, <3>3
  <2>11. ASSUME NEW r \in Client, FindAgent(r) \/ Retry(r) \/ GetConnection(r) \/ ForwardStream(r)
         PROVE  UNCHANGED <<agentConnections, pc, agent, target>>
    BY <2>11 DEF FindAgent, Retry, GetConnection, ForwardStream, agentVars
  <2>12. ASSUME NEW r \in Client, FindAgent(r) \/ Retry(r) PROVE Good
    <3>1. UNCHANGED forwarded /\ \A q \in Client : via'[q] = via[q] \/ via'[q] = NoConn
      BY <2>0, <2>12 DEF FindAgent, Retry, TypeOK
    <3>2. GivenRight'
      BY <2>0, <2>11, <2>12, <3>1
    <3> HIDE DEF GivenRight, StoredRight, SentRight
    <3> QED
      BY <2>5, <2>6, <2>11, <2>12, <3>1, <3>2
  <2>13. ASSUME NEW r \in Client, GetConnection(r) PROVE Good
    <3>1. UNCHANGED forwarded /\ via' = [via EXCEPT ![r] = agentConnections[Wants[r].agent]]
      BY <2>13 DEF GetConnection
    <3>2. Wants[r].agent \in Agent
      OBVIOUS
    <3>3. ASSUME NEW q \in Client, via'[q] # NoConn
          PROVE  agent'[via'[q]] = Wants[q].agent /\ via'[q] \in Quic
      <4>1. CASE q = r
        BY <2>0, <2>11, <2>13, <3>1, <3>2, <3>3, <4>1 DEF TypeOK, StoredQuic
      <4>2. CASE q # r
        BY <2>0, <2>11, <2>13, <3>1, <3>3, <4>2 DEF TypeOK
      <4> QED
        BY <4>1, <4>2
    <3>4. GivenRight'
      BY <3>3
    <3> HIDE DEF GivenRight, StoredRight, SentRight
    <3> QED
      BY <2>5, <2>6, <2>11, <2>13, <3>1, <3>4
  <2>14. ASSUME NEW r \in Client, ForwardStream(r) PROVE Good
    <3>1. UNCHANGED via /\ request[r] = "accepted"
      BY <2>14 DEF ForwardStream
    <3>2. ASSUME NEW f \in forwarded'
          PROVE  agent[f.conn] = Wants[f.client].agent /\ target[f.conn] = Wants[f.client].address
      <4>1. CASE f \in forwarded
        BY <2>0, <4>1
      <4>2. CASE f \notin forwarded
        <5>1. f = [client |-> r, conn |-> via[r]] /\ Wants[r].address = target[via[r]]
          BY <2>14, <3>2, <4>2 DEF ForwardStream
        <5>2. agent[via[r]] = Wants[r].agent
          BY <2>0, <3>1 DEF TypeOK
        <5> QED
          BY <5>1, <5>2
      <4> QED
        BY <4>1, <4>2
    <3>3. SentRight'
      BY <2>11, <2>14, <3>2
    <3> HIDE DEF GivenRight, StoredRight, SentRight
    <3> QED
      BY <2>4, <2>6, <2>11, <2>14, <3>1, <3>3
  <2>15. Good
    <3> HIDE DEF Good
    <3> QED
      BY <2>0, <2>7, <2>8, <2>9, <2>10, <2>12, <2>13, <2>14 DEF Next, Handler
  <2> QED
    BY <2>15
<1>3. Inv => ForwardsToTarget
  BY DEF ForwardsToTarget
<1> HIDE DEF Inv
<1> QED
  BY <1>1, <1>2, <1>3, TypeCorrect, PTL DEF Spec
-----------------------------------------------------------------------------
(***************************************************************************)
(* The registry.  An agent that never came back early has at most one      *)
(* handler at work, and everything that handler has stored stands.         *)
(***************************************************************************)
Listing == {"announce", "store", "serving", "leaving"}

Storing == {"serving", "leaving", "unstore"}

OneHandler ==
    \A c, d \in Conn :
        agent[c] = agent[d] /\ agent[c] \notin early /\ pc[c] \notin Over /\ pc[d] \notin Over => c = d

Settled(c) ==
    agent[c] \notin early =>
        /\ pc[c] \in Listing => agents[agent[c]] = target[c]
        /\ pc[c] \in Storing => agentConnections[agent[c]] = c

\* A step of one handler changes its own agent's entries only, and leaves the
\* other handlers settled.
LEMMA HandlerSettled ==
    ASSUME TypeOK, OneHandler, \A d \in Conn : Settled(d), NEW c \in Conn, pc[c] \notin Over,
           NEW l \in Label \ {"idle", "register"}, Goto(c, l),
           \A x \in Agent : x # agent[c] => agents'[x] = agents[x] /\ agentConnections'[x] = agentConnections[x],
           l \in Listing => agents'[agent[c]] = target[c],
           l \in Storing => agentConnections'[agent[c]] = c
    PROVE  OneHandler' /\ \A d \in Conn : Settled(d)'
<1>1. /\ agent' = agent /\ target' = target /\ early' = early /\ pc'[c] = l
      /\ \A d \in Conn : d # c => pc'[d] = pc[d]
  BY DEF Goto, TypeOK
<1>2. OneHandler'
  BY <1>1 DEF OneHandler
<1>3. Settled(c)'
  BY <1>1 DEF Settled
<1>4. ASSUME NEW d \in Conn, d # c PROVE Settled(d)'
  <2> SUFFICES ASSUME agent[d] \notin early, pc[d] \in Listing \cup Storing PROVE Settled(d)'
    BY <1>1, <1>4 DEF Settled
  <2>1. agent[d] \in Agent /\ pc[d] \notin Over
    BY DEF TypeOK, Listing, Storing, Over
  <2>2. agent[d] # agent[c]
    BY <1>4, <2>1 DEF OneHandler
  <2> QED
    BY <1>1, <1>4, <2>1, <2>2 DEF Settled
<1> QED
  BY <1>2, <1>3, <1>4

\* Who is listed is served by a handler of its own, and who is connected, and
\* did not come back early, is listed and can be reached.
THEOREM RegistryRight == Spec => []AgentsRight
<1> DEFINE Inv == AgentsAccounted /\ OneHandler /\ \A c \in Conn : Settled(c)
<1>1. Init => Inv
  BY DEF Init, AgentsAccounted, OneHandler, Settled, Over, Listing, Storing
<1>2. TypeOK /\ Inv /\ [Next]_vars => Inv'
  <2>0. SUFFICES ASSUME TypeOK, AgentsAccounted, OneHandler, \A c \in Conn : Settled(c), [Next]_vars
                 PROVE  Inv'
    OBVIOUS
  <2> DEFINE Good == Inv'
  <2>1. ASSUME NEW c \in Conn, NEW x \in Agent, NEW addr \in Address, AgentRegister(c, x, addr)
        PROVE  Good
    <3>1. /\ pc[c] = "idle" /\ agent'[c] = x /\ UNCHANGED <<agents, agentConnections>>
          /\ pc'[c] \in {"register", "failed"}
          /\ early' = IF \E d \in Conn : agent[d] = x /\ pc[d] \notin Over THEN early \cup {x} ELSE early
          /\ \A d \in Conn : d # c => pc'[d] = pc[d] /\ agent'[d] = agent[d] /\ target'[d] = target[d]
      BY <2>0, <2>1 DEF AgentRegister, TypeOK
    <3>2. AgentsAccounted'
      BY <2>0, <3>1 DEF AgentsAccounted
    <3>3. OneHandler'
      <4> SUFFICES ASSUME NEW d \in Conn, NEW e \in Conn, agent'[d] = agent'[e], agent'[d] \notin early',
                          pc'[d] \notin Over, pc'[e] \notin Over, d # e
                   PROVE  FALSE
        BY DEF OneHandler
      <4>1. CASE d # c /\ e # c
        BY <2>0, <3>1, <4>1 DEF OneHandler
      <4>2. CASE d = c \/ e = c
        BY <3>1, <4>2
      <4> QED
        BY <4>1, <4>2
    <3>4. \A d \in Conn : Settled(d)'
      BY <2>0, <3>1 DEF Settled, Listing, Storing
    <3> QED
      BY <3>2, <3>3, <3>4
  <2>2. ASSUME NEW c \in Conn, RegisterOrReplace(c) PROVE Good
    <3>1. /\ pc[c] = "register" /\ Goto(c, "announce") /\ UNCHANGED <<agentConnections, agent, target>>
          /\ agents' = [agents EXCEPT ![agent[c]] = target[c]] /\ agent[c] \in Agent
          /\ pc' = [pc EXCEPT ![c] = "announce"]
      BY <2>0, <2>2 DEF RegisterOrReplace, Goto, TypeOK
    <3>2. AgentsAccounted'
      <4> SUFFICES ASSUME NEW x \in Agent, agents'[x] # NoAddress
                   PROVE  \E d \in Conn : agent[d] = x /\ target[d] = agents'[x]
                                          /\ pc'[d] \in {"announce", "store", "serving", "leaving"}
        BY <3>1 DEF AgentsAccounted
      <4>1. CASE x = agent[c]
        BY <2>0, <3>1, <4>1 DEF TypeOK
      <4>2. CASE x # agent[c]
        <5>1. agents'[x] = agents[x]
          BY <2>0, <3>1, <4>2 DEF TypeOK
        <5>2. PICK d \in Conn : agent[d] = x /\ target[d] = agents[x]
                                /\ pc[d] \in {"announce", "store", "serving", "leaving"}
          BY <2>0, <5>1 DEF AgentsAccounted
        <5> QED
          BY <2>0, <3>1, <5>1, <5>2 DEF TypeOK
      <4> QED
        BY <4>1, <4>2
    <3>3. OneHandler' /\ \A d \in Conn : Settled(d)'
      <4>1. pc[c] \notin Over /\ "announce" \in Label \ {"idle", "register"} /\ "announce" \notin Storing
        BY <3>1 DEF Over, Label, Storing
      <4>2. agents'[agent[c]] = target[c] /\ \A x \in Agent : x # agent[c] => agents'[x] = agents[x]
        BY <2>0, <3>1 DEF TypeOK
      <4> QED
        BY <2>0, <3>1, <4>1, <4>2, HandlerSettled
    <3> QED
      BY <3>2, <3>3
  <2>3. ASSUME NEW c \in Conn, pc[c] \in {"announce", "store", "leaving"}, Unregister(c),
               NEW l \in {"failed", "unstore"}, Goto(c, l), UNCHANGED agentConnections,
               l = "unstore" => pc[c] = "leaving"
        PROVE  Good
    <3>1. /\ agents' = [agents EXCEPT ![agent[c]] = NoAddress] /\ agent[c] \in Agent
          /\ pc' = [pc EXCEPT ![c] = l] /\ UNCHANGED <<agent, target, early>>
      BY <2>0, <2>3 DEF Unregister, Goto, TypeOK
    <3>2. AgentsAccounted'
      <4> SUFFICES ASSUME NEW x \in Agent, agents'[x] # NoAddress
                   PROVE  \E d \in Conn : agent[d] = x /\ target[d] = agents'[x]
                                          /\ pc'[d] \in {"announce", "store", "serving", "leaving"}
        BY <3>1 DEF AgentsAccounted
      <4>1. x # agent[c] /\ agents'[x] = agents[x]
        BY <2>0, <3>1 DEF TypeOK
      <4>2. PICK d \in Conn : agent[d] = x /\ target[d] = agents[x]
                              /\ pc[d] \in {"announce", "store", "serving", "leaving"}
        BY <2>0, <4>1 DEF AgentsAccounted
      <4> QED
        BY <2>0, <3>1, <4>1, <4>2 DEF TypeOK
    <3>3. OneHandler' /\ \A d \in Conn : Settled(d)'
      <4>1. pc[c] \notin Over /\ l \in Label \ {"idle", "register"} /\ l \notin Listing
        BY <2>3 DEF Over, Label, Listing
      <4>2. \A x \in Agent : x # agent[c] => agents'[x] = agents[x]
        BY <2>0, <3>1 DEF TypeOK
      <4>3. CASE l = "unstore" /\ agent[c] \notin early
        <5>1. agentConnections'[agent[c]] = c
          BY <2>0, <2>3, <4>3 DEF Settled, Storing
        <5> QED
          BY <2>0, <2>3, <4>1, <4>2, <5>1, HandlerSettled
      <4>4. CASE l = "failed"
        <5>1. l \notin Storing
          BY <4>4 DEF Storing
        <5> QED
          BY <2>0, <2>3, <4>1, <4>2, <5>1, HandlerSettled
      <4>5. CASE agent[c] \in early
        <5>1. OneHandler'
          BY <2>0, <3>1, <4>1 DEF OneHandler, TypeOK
        <5>2. ASSUME NEW d \in Conn, agent[d] \notin early, pc[d] \in Listing \cup Storing
              PROVE  Settled(d)'
          <6>1. agent[d] \in Agent /\ agent[d] # agent[c] /\ pc'[d] = pc[d]
            BY <2>0, <3>1, <4>5, <5>2 DEF TypeOK, Listing, Storing
          <6> QED
            BY <2>0, <2>3, <3>1, <4>2, <5>2, <6>1 DEF Settled
        <5>3. ASSUME NEW d \in Conn, agent[d] \in early \/ pc[d] \notin Listing \cup Storing
              PROVE  Settled(d)'
          BY <2>0, <3>1, <4>5, <5>3 DEF Settled, TypeOK
        <5> QED
          BY <5>1, <5>2, <5>3
      <4> QED
        BY <2>3, <4>3, <4>4, <4>5
    <3> QED
      BY <3>2, <3>3
  <2>4. ASSUME NEW c \in Conn, pc[c] \in {"announce", "store", "serving"},
               NEW l \in {"store", "serving", "leaving"}, Goto(c, l), UNCHANGED agents,
               \A x \in Agent : x # agent[c] => agentConnections'[x] = agentConnections[x],
               l \in Storing => agentConnections'[agent[c]] = c
                                \/ (agentConnections' = agentConnections /\ pc[c] = "serving")
        PROVE  Good
    <3>1. pc' = [pc EXCEPT ![c] = l] /\ UNCHANGED <<agent, target, early>> /\ agent[c] \in Agent
      BY <2>0, <2>4 DEF Goto, TypeOK
    <3>2. AgentsAccounted'
      BY <2>0, <2>4, <3>1 DEF AgentsAccounted, TypeOK
    <3>3. pc[c] \notin Over /\ l \in Label \ {"idle", "register"}
      BY <2>4 DEF Over, Label
    <3>4. OneHandler'
      BY <2>0, <3>1, <3>3 DEF OneHandler, TypeOK
    <3>5. Settled(c)'
      BY <2>0, <2>4, <3>1 DEF Settled, Listing, Storing, TypeOK
    <3>6. ASSUME NEW d \in Conn, d # c PROVE Settled(d)'
      <4> SUFFICES ASSUME agent[d] \notin early, pc[d] \in Listing \cup Storing PROVE Settled(d)'
        BY <2>0, <3>1, <3>6 DEF Settled, TypeOK
      <4>1. agent[d] \in Agent /\ pc[d] \notin Over
        BY <2>0 DEF TypeOK, Listing, Storing, Over
      <4>2. agent[d] # agent[c]
        BY <2>0, <3>3, <3>6, <4>1 DEF OneHandler
      <4> QED
        BY <2>0, <2>4, <3>1, <3>6, <4>1, <4>2 DEF Settled, TypeOK
    <3> QED
      BY <3>2, <3>4, <3>5, <3>6
  <2>5. ASSUME NEW c \in Conn, Announce(c) PROVE Good
    <3> HIDE DEF Good
    <3>1. pc[c] = "announce" /\ UNCHANGED agentConnections
      BY <2>5 DEF Announce
    <3>2. CASE Goto(c, "store") /\ UNCHANGED agents
      BY <2>4, <3>1, <3>2 DEF Storing
    <3>3. CASE Unregister(c) /\ Goto(c, "failed")
      BY <2>3, <3>1, <3>3
    <3> QED
      BY <2>5, <3>2, <3>3 DEF Announce
  <2>6. ASSUME NEW c \in Conn, StoreConnection(c) PROVE Good
    <3> HIDE DEF Good
    <3>1. pc[c] = "store" /\ agent[c] \in Agent
      BY <2>0, <2>6 DEF StoreConnection, TypeOK
    <3>2. CASE c \in Quic
      <4>1. /\ agentConnections' = [agentConnections EXCEPT ![agent[c]] = c]
            /\ Goto(c, "serving") /\ UNCHANGED agents
        BY <2>6, <3>2 DEF StoreConnection
      <4>2. /\ agentConnections'[agent[c]] = c
            /\ \A x \in Agent : x # agent[c] => agentConnections'[x] = agentConnections[x]
        BY <2>0, <3>1, <4>1 DEF TypeOK
      <4> QED
        BY <2>4, <3>1, <4>1, <4>2
    <3>3. CASE c \notin Quic
      BY <2>3, <2>6, <3>1, <3>3 DEF StoreConnection
    <3> QED
      BY <3>2, <3>3
  <2>7. ASSUME NEW c \in Conn, HeartbeatEnds(c) PROVE Good
    <3> HIDE DEF Good
    <3> QED
      BY <2>4, <2>7 DEF HeartbeatEnds
  <2>8. ASSUME NEW c \in Conn, UnregisterAgent(c) PROVE Good
    <3> HIDE DEF Good
    <3> QED
      BY <2>3, <2>8 DEF UnregisterAgent
  <2>9. ASSUME NEW c \in Conn, DropConnection(c) PROVE Good
    <3>1. /\ pc[c] = "unstore" /\ Goto(c, "closed") /\ UNCHANGED <<agents, agent, target>>
          /\ pc' = [pc EXCEPT ![c] = "closed"]
          /\ agentConnections' = [agentConnections EXCEPT ![agent[c]] = NoConn]
      BY <2>9 DEF DropConnection, Goto
    <3>2. AgentsAccounted'
      BY <2>0, <3>1 DEF AgentsAccounted, TypeOK
    <3>3. /\ pc[c] \notin Over /\ "closed" \in Label \ {"idle", "register"}
          /\ "closed" \notin Listing /\ "closed" \notin Storing
      BY <3>1 DEF Over, Label, Listing, Storing
    <3>4. \A x \in Agent : x # agent[c] => agentConnections'[x] = agentConnections[x]
      BY <2>0, <3>1 DEF TypeOK
    <3>5. OneHandler' /\ \A d \in Conn : Settled(d)'
      BY <2>0, <3>1, <3>3, <3>4, HandlerSettled
    <3> QED
      BY <3>2, <3>5
  <2>10. ASSUME UNCHANGED <<agents, agentConnections, agentVars>> PROVE Good
    BY <2>0, <2>10 DEF AgentsAccounted, OneHandler, Settled, agentVars
  <2>11. ASSUME NEW c \in Conn, AgentLeaves(c) PROVE Good
    BY <2>10, <2>11 DEF AgentLeaves
  <2>12. ASSUME NEW r \in Client, FindAgent(r) \/ GetConnection(r) \/ ForwardStream(r) \/ Retry(r)
         PROVE  Good
    BY <2>10, <2>12 DEF FindAgent, GetConnection, ForwardStream, Retry
  <2>13. ASSUME UNCHANGED vars PROVE Good
    BY <2>10, <2>13 DEF vars, agentVars
  <2>14. Good
    <3> HIDE DEF Good
    <3> QED
      BY <2>0, <2>1, <2>2, <2>5, <2>6, <2>7, <2>8, <2>9, <2>11, <2>12, <2>13 DEF Next, Handler
  <2> QED
    BY <2>14
<1>3. Inv => AgentsRight
  BY DEF AgentsRight, AgentReachable, Settled, Listing, Storing
<1> HIDE DEF Inv
<1> QED
  BY <1>1, <1>2, <1>3, TypeCorrect, PTL DEF Spec

HIDE AgentAssumption

-----------------------------------------------------------------------------
(***************************************************************************)
(* One reverse stream.  Each direction is a chain of four pipes, and the   *)
(* pieces are numbered: there are for each pipe a number of the last piece *)
(* put into it and one of the last piece taken out of it, so that it       *)
(* carries the pieces between the two, in order, and what one hop takes it *)
(* puts into the next pipe.  Signs of the end stand behind the pieces, and *)
(* behind a sign nothing is missing unless the reader has an excuse.       *)
(***************************************************************************)
EndSign == {"fin", "close", "reset", "reject"}
Item == [kind : EndSign \cup {"data", "accept"}, n : Nat]
Items == Seq(Item)

\* The kinds of the items of a pipe.
Only(q, K) == \A i \in 1 .. Len(q) : q[i].kind \in K
Unmarked(q) == Only(q, {"data", "accept"})

\* After an answer of the agent, q carries the pieces m + 1 .. n and then signs of the end.
Lead(q) == IF q # <<>> /\ q[1].kind = "accept" THEN 1 ELSE 0
Carries(q, m, n) ==
    /\ Lead(q) + (n - m) <= Len(q)
    /\ \A i \in 1 .. Len(q) :
         /\ i > Lead(q) /\ i <= Lead(q) + (n - m) => q[i] = Piece(m + (i - Lead(q)))
         /\ i > Lead(q) + (n - m) => q[i].kind \in EndSign

\* A pipe whose reader has left holds no data.
Leg(q, left, m, n) == m <= n /\ IF left THEN Only(q, EndSign) ELSE Carries(q, m, n)

\* The end a pipe leads to.
Toward == [localUp |-> "target", clientUp |-> "target", agentUp |-> "target", targetUp |-> "target",
           targetDown |-> "local", agentDown |-> "local", clientDown |-> "local", localDown |-> "local"]

\* The agent has refused, or has not reached the target.
Refused == hop["localupToRemote"] = "idle" /\ agentAt \in {"leave", "over"}

\* Why an end may read the end of its input before it has read everything.
Excused(e) == Writes[e] \in shut \/ Reads[Opposite[e]] \in deaf \/ cut # {} \/ Refused

Linked(put, taken) ==
    /\ \A e \in Side : put[Writes[e]] = sent[e] /\ taken[Reads[e]] = Len(received[e])
    /\ \A t \in Hop : put[Sink[t]] = taken[Source[t]]
Legs(put, taken) == \A p \in Conduit : Leg(flow[p], p \in deaf, taken[p], put[p])

\* Number n is that of the last piece e will ever be sent.
AllSent(e, n) == n = sent[Opposite[e]] /\ Writes[Opposite[e]] \in shut
Ended(put, taken) ==
    /\ \A e \in Side : e \in heard => Excused(e) \/ AllSent(e, taken[Reads[e]])
    /\ \A p \in Conduit :
         p \in deaf \/ Unmarked(flow[p]) \/ Excused(Toward[p]) \/ AllSent(Toward[p], put[p])

Numbered == \A e \in Side : \A k \in 1 .. Len(received[e]) : received[e][k] = k
Numbers(put, taken) == Linked(put, taken) /\ Legs(put, taken) /\ Ended(put, taken)
ReverseChain == Numbered /\ \E put \in [Conduit -> Nat], taken \in [Conduit -> Nat] : Numbers(put, taken)

\* The pipes that are lost with a connection.
Cuttable == {"clientUp", "clientDown", "agentUp", "agentDown"}

\* Which signs are where: a pipe with a sign of the end is shut or was cut, one whose reader
\* has left is empty unless it was cut, the answer of the agent stands before everything,
\* and a reset tells of its cause.
Kinds ==
    /\ \A p \in Conduit : Unmarked(flow[p]) \/ p \in shut \/ (p \in deaf /\ p \in Cuttable /\ cut # {})
    /\ \A p \in Conduit : p \in deaf => flow[p] = <<>> \/ (p \in Cuttable /\ cut # {})
    /\ \A p \in Conduit : p # "agentDown" \/ relayAt # "answer" => Only(flow[p], EndSign \cup {"data"})
    /\ Only(flow["targetDown"], IF "targetUp" \in deaf THEN {"data", "fin", "reset"} ELSE {"data", "fin"})
    /\ Only(flow["agentUp"], IF cut # {} THEN {"data", "fin", "close", "reset"} ELSE {"data", "fin", "close"})

\* What the relay finds when it waits for the agent's answer.
Answer ==
    /\ agentAt \in {"unasked", "asked"} => "agentDown" \in deaf \/ flow["agentDown"] = <<>>
    /\ relayAt = "answer" /\ cut = {} /\ (agentAt \in {"enter", "dial"} \/ hop["localupToRemote"] # "idle")
         => flow["agentDown"] # <<>> /\ Head(flow["agentDown"]).kind = "accept"

\* Where the hops are while the handlers are somewhere.
Steps ==
    /\ relayAt = "unasked" => \A t \in AtClient : hop[t] = "idle"
    /\ relayAt \in {"unasked", "asked"} => agentAt = "unasked"
    /\ relayAt \in {"unasked", "asked", "answer"} => \A t \in AtRelay : hop[t] = "idle"
    /\ relayAt = "over" => \A t \in AtRelay : hop[t] # "running"
    /\ agentAt \in {"unasked", "asked", "enter", "dial", "leave"} => \A t \in AtAgent : hop[t] = "idle"
    /\ agentAt = "over" => \A t \in AtAgent : hop[t] # "running"
    /\ agentAt = "proxy" => hop["localupToRemote"] # "idle"
    /\ hop["localupToRemote"] = "idle" <=> hop["remoteToTunnel"] = "idle"
    /\ agentAt = "asked" => relayAt = "answer" \/ "agentDown" \in deaf

\* Why a pipe is shut, has lost its reader, or a hop is done.
Reasons ==
    /\ \A e \in Side : Reads[e] \in deaf => Writes[e] \in shut
    /\ "clientUp" \in shut => hop["tcpToQuic"] = "done" /\ ("localUp" \in shut \/ "clientUp" \in deaf)
    /\ "localDown" \in shut => hop["quicToTcp"] = "done" \/ (relayAt = "over" /\ hop["quicToTcp"] = "idle")
    /\ "agentUp" \in shut \/ "clientDown" \in shut => relayAt = "over"
    /\ "targetUp" \in shut => hop["localupToRemote"] = "done"
    /\ "agentDown" \in shut =>
         /\ hop["remoteToTunnel"] = "done" \/ Refused
         /\ "targetDown" \in shut \/ Refused \/ cut # {} \/ "agentDown" \in deaf
    /\ "clientUp" \in deaf \/ "agentDown" \in deaf => cut # {} \/ relayAt = "over"
    /\ "clientDown" \in deaf => cut # {} \/ hop["quicToTcp"] = "done"
    /\ hop["quicToTcp"] = "done" => cut # {} \/ relayAt = "over" \/ "localDown" \in deaf
    /\ "agentUp" \in deaf => cut # {} \/ relayAt = "over" \/ Refused \/ "targetUp" \in deaf
    /\ hop["localupToRemote"] = "done" => cut # {} \/ relayAt = "over" \/ "targetUp" \in deaf
    /\ hop["remoteToTunnel"] = "done" => cut # {} \/ "agentDown" \in shut \cup deaf \/ "targetUp" \in deaf
    /\ hop["localupToRemote"] = "done" => cut # {} \/ "targetUp" \in shut \cup deaf

ReverseTypes ==
    /\ flow \in [Conduit -> Items] /\ deaf \subseteq Conduit /\ shut \subseteq Conduit
    /\ hop \in [Hop -> {"idle", "running", "done"}]
    /\ relayAt \in {"unasked", "asked", "answer", "proxy", "over"}
    /\ agentAt \in {"unasked", "asked", "enter", "dial", "proxy", "leave", "over"}
    /\ sent \in [Side -> Nat] /\ received \in [Side -> Seq(Nat)]
    /\ heard \subseteq Side /\ cut \subseteq {"client", "agent"}

ReverseInv == ReverseTypes /\ Kinds /\ Answer /\ Steps /\ Reasons /\ ReverseChain

\* The names of pipes and hops, spelled out.
LEMMA Names ==
    /\ Side = {"local", "target"} /\ Hop = {"tcpToQuic", "clientToAgent", "localupToRemote", "remoteToTunnel",
                                            "agentToClient", "quicToTcp"}
    /\ Conduit = {"localUp", "clientUp", "agentUp", "targetUp", "targetDown", "agentDown", "clientDown", "localDown"}
    /\ Source["tcpToQuic"] = "localUp" /\ Sink["tcpToQuic"] = "clientUp"
    /\ Source["clientToAgent"] = "clientUp" /\ Sink["clientToAgent"] = "agentUp"
    /\ Source["localupToRemote"] = "agentUp" /\ Sink["localupToRemote"] = "targetUp"
    /\ Source["remoteToTunnel"] = "targetDown" /\ Sink["remoteToTunnel"] = "agentDown"
    /\ Source["agentToClient"] = "agentDown" /\ Sink["agentToClient"] = "clientDown"
    /\ Source["quicToTcp"] = "clientDown" /\ Sink["quicToTcp"] = "localDown"
    /\ Writes["local"] = "localUp" /\ Reads["local"] = "localDown" /\ Opposite["local"] = "target"
    /\ Writes["target"] = "targetDown" /\ Reads["target"] = "targetUp" /\ Opposite["target"] = "local"
    /\ Toward["localUp"] = "target" /\ Toward["clientUp"] = "target" /\ Toward["agentUp"] = "target"
    /\ Toward["targetUp"] = "target" /\ Toward["targetDown"] = "local" /\ Toward["agentDown"] = "local"
    /\ Toward["clientDown"] = "local" /\ Toward["localDown"] = "local"
<1>1. Hop = {"tcpToQuic", "clientToAgent", "localupToRemote", "remoteToTunnel", "agentToClient", "quicToTcp"}
  BY DEF Hop, Source
<1>2. Conduit = {Source[t] : t \in Hop} \cup {"targetUp", "localDown"}
  BY DEF Conduit
<1>3. Conduit = {"localUp", "clientUp", "agentUp", "targetUp", "targetDown", "agentDown", "clientDown", "localDown"}
  BY <1>1, <1>2 DEF Source
<1> QED
  BY <1>1, <1>3 DEF Side, Source, Sink, Writes, Reads, Opposite, Toward

(***************************************************************************)
(* Items and legs.                                                         *)
(***************************************************************************)
\* The first item of a pipe and the rest of it.
LEMMA HeadTail ==
    ASSUME NEW q \in Items, q # <<>>
    PROVE  /\ Len(q) \in Nat \ {0} /\ Len(Tail(q)) = Len(q) - 1 /\ Tail(q) \in Items
           /\ Head(q) = q[1] /\ Head(q) \in Item
           /\ \A i \in 1 .. Len(Tail(q)) : i + 1 \in 1 .. Len(q) /\ Tail(q)[i] = q[i + 1]
<1>1. Len(q) \in Nat \ {0}
  BY EmptySeq, LenProperties DEF Items
<1>2. Head(q) = q[1] /\ q[1] \in Item
  BY <1>1, HeadTailProperties, ElementOfSeq DEF Items
<1> QED
  BY <1>1, <1>2, HeadTailProperties DEF Items

\* What has been appended stands behind what was there.
LEMMA Joined ==
    ASSUME NEW q \in Items, NEW r \in Items
    PROVE  /\ q \o r \in Items /\ Len(q \o r) = Len(q) + Len(r) /\ Len(q) \in Nat /\ Len(r) \in Nat
           /\ \A i \in 1 .. Len(q) : (q \o r)[i] = q[i]
           /\ \A i \in 1 .. Len(r) : (q \o r)[Len(q) + i] = r[i]
           /\ \A i \in 1 .. Len(q \o r) : i \notin 1 .. Len(q) =>
                (i - Len(q)) \in 1 .. Len(r) /\ (q \o r)[i] = r[i - Len(q)]
BY ConcatProperties, LenProperties DEF Items

\* One item as a pipe, and none.
LEMMA Single ==
    /\ \A x \in Item : <<x>> \in Items /\ Len(<<x>>) = 1 /\ <<x>>[1] = x /\ <<x>> # <<>>
    /\ <<>> \in Items /\ Len(<<>>) = 0
BY DEF Items

\* Signs and pieces are items.
LEMMA ItemKinds ==
    /\ \A n \in Nat : Piece(n) \in Item /\ Piece(n).kind = "data" /\ Piece(n).n = n
    /\ \A k \in EndSign \cup {"accept"} : Sign(k) \in Item /\ Sign(k).kind = k
BY DEF Item, Piece, Sign, EndSign

\* The kinds of items when one is taken, and when pipes are joined.
LEMMA OnlyTail ==
    ASSUME NEW K, NEW q \in Items, q # <<>>
    PROVE  Only(q, K) <=> Head(q).kind \in K /\ Only(Tail(q), K)
<1>1. Only(q, K) => Head(q).kind \in K /\ Only(Tail(q), K)
  BY HeadTail DEF Only
<1>2. ASSUME Head(q).kind \in K, Only(Tail(q), K), NEW i \in 1 .. Len(q) PROVE q[i].kind \in K
  <2>1. CASE i = 1
    BY <1>2, <2>1, HeadTail
  <2>2. CASE i # 1
    <3>1. i - 1 \in 1 .. Len(Tail(q)) /\ Tail(q)[i - 1] = q[i]
      BY <2>2, HeadTail
    <3> QED
      BY <1>2, <3>1 DEF Only
  <2> QED
    BY <2>1, <2>2
<1> QED
  BY <1>1, <1>2 DEF Only

LEMMA OnlyJoined ==
    ASSUME NEW K, NEW q \in Items, NEW r \in Items
    PROVE  Only(q \o r, K) <=> Only(q, K) /\ Only(r, K)
<1>0. PICK p : p = q \o r
  OBVIOUS
<1>1. /\ Len(p) = Len(q) + Len(r) /\ Len(q) \in Nat /\ Len(r) \in Nat
      /\ \A i \in 1 .. Len(q) : p[i] = q[i]
      /\ \A i \in 1 .. Len(r) : p[Len(q) + i] = r[i]
      /\ \A i \in 1 .. Len(p) : i \notin 1 .. Len(q) => (i - Len(q)) \in 1 .. Len(r) /\ p[i] = r[i - Len(q)]
  BY <1>0, Joined
<1>2. Only(p, K) => Only(q, K)
  BY <1>1 DEF Only
<1>3. Only(p, K) => Only(r, K)
  <2> SUFFICES ASSUME Only(p, K), NEW i \in 1 .. Len(r) PROVE r[i].kind \in K
    BY DEF Only
  <2>1. Len(q) + i \in 1 .. Len(p) /\ p[Len(q) + i] = r[i]
    BY <1>1
  <2> QED
    BY <2>1 DEF Only
<1>4. Only(q, K) /\ Only(r, K) => Only(p, K)
  BY <1>1 DEF Only
<1> QED
  BY <1>0, <1>2, <1>3, <1>4

LEMMA OnlyFew ==
    ASSUME NEW K
    PROVE  Only(<<>>, K) /\ \A x \in Item : Only(<<x>>, K) <=> x.kind \in K
BY Single DEF Only

\* A larger set of kinds asks for less.
LEMMA OnlyMore ==
    ASSUME NEW K, NEW L, K \subseteq L, NEW q, Only(q, K)
    PROVE  Only(q, L)
BY DEF Only

\* One more piece.
LEMMA LegPut ==
    ASSUME NEW q \in Items, NEW m \in Nat, NEW n \in Nat, Leg(q, FALSE, m, n), Unmarked(q)
    PROVE  Leg(q \o <<Piece(n + 1)>>, FALSE, m, n + 1)
<1>0. m <= n /\ Carries(q, m, n)
  BY DEF Leg
<1>1. PICK p : p = q \o <<Piece(n + 1)>>
  OBVIOUS
<1>2. /\ Len(p) = Len(q) + 1 /\ Len(q) \in Nat /\ p[Len(q) + 1] = Piece(n + 1) /\ p # <<>>
      /\ \A i \in 1 .. Len(q) : p[i] = q[i]
  <2>0. PICK x \in Item : x = Piece(n + 1)
    BY ItemKinds
  <2>1. PICK r \in Items : r = <<Piece(n + 1)>> /\ Len(r) = 1 /\ r[1] = Piece(n + 1)
    BY <2>0, Single
  <2>2. /\ Len(p) = Len(q) + 1 /\ Len(q) \in Nat /\ \A i \in 1 .. Len(q) : p[i] = q[i]
        /\ \A i \in 1 .. Len(r) : p[Len(q) + i] = r[i]
    BY <1>1, <2>1, Joined
  <2>3. p \in Items
    BY <1>1, <2>1, Joined
  <2> QED
    BY <2>1, <2>2, <2>3, EmptySeq
<1>3. q # <<>> => Len(q) >= 1
  BY HeadTail
<1>4. Lead(p) = Lead(q) /\ Lead(q) \in {0, 1} /\ Lead(q) <= Len(q)
  <2>1. CASE q = <<>>
    <3>1. Len(q) = 0 /\ p[1] = Piece(n + 1)
      BY <2>1, <1>2, Single
    <3> QED
      BY <2>1, <3>1, <1>2, ItemKinds DEF Lead
  <2>2. CASE q # <<>>
    <3>1. p[1] = q[1]
      BY <2>2, <1>2, <1>3
    <3> QED
      BY <2>2, <3>1, <1>2, <1>3 DEF Lead
  <2> QED
    BY <2>1, <2>2
<1>5. Len(q) = Lead(q) + (n - m)
  <2>1. Lead(q) + (n - m) <= Len(q) /\ Lead(q) + (n - m) \in Nat
    BY <1>0, <1>4 DEF Carries
  <2>2. CASE Lead(q) + (n - m) < Len(q)
    <3>1. Len(q) \in 1 .. Len(q) /\ Len(q) > Lead(q) + (n - m)
      BY <2>1, <2>2, <1>2
    <3>2. q[Len(q)].kind \in EndSign
      BY <1>0, <3>1 DEF Carries
    <3> QED
      BY <3>1, <3>2 DEF Unmarked, Only, EndSign
  <2> QED
    BY <2>1, <2>2, <1>2
<1>6. PICK s \in {0, 1} : s = Lead(q) /\ s = Lead(p) /\ s <= Len(q)
  BY <1>4
<1>7. ASSUME NEW i \in 1 .. Len(p)
      PROVE  /\ i > s /\ i <= s + ((n + 1) - m) => p[i] = Piece(m + (i - s))
             /\ i > s + ((n + 1) - m) => p[i].kind \in EndSign
  <2>1. CASE i \in 1 .. Len(q)
    <3>1. i > s => q[i] = Piece(m + (i - s))
      BY <1>0, <1>5, <1>6, <2>1 DEF Carries
    <3> QED
      BY <2>1, <3>1, <1>2, <1>5, <1>6
  <2>2. CASE i \notin 1 .. Len(q)
    <3>1. i = Len(q) + 1 /\ m + (i - s) = n + 1
      BY <2>2, <1>2, <1>5, <1>6
    <3> QED
      BY <3>1, <1>2, <1>5, <1>6
  <2> QED
    BY <2>1, <2>2
<1>8. s + ((n + 1) - m) <= Len(p)
  BY <1>2, <1>5, <1>6
<1>9. Carries(p, m, n + 1)
  BY <1>6, <1>7, <1>8 DEF Carries
<1>10. m <= n + 1
  BY <1>0
<1> QED
  BY <1>1, <1>9, <1>10 DEF Leg

\* Signs stand behind the pieces.
LEMMA LegSign ==
    ASSUME NEW q \in Items, NEW l \in BOOLEAN, NEW m \in Nat, NEW n \in Nat, Leg(q, l, m, n),
           NEW z \in Items, Only(z, EndSign)
    PROVE  Leg(q \o z, l, m, n)
<1>1. CASE l
  BY <1>1, OnlyJoined DEF Leg
<1>2. CASE ~l
  <2>1. m <= n /\ Carries(q, m, n)
    BY <1>2 DEF Leg
  <2>2. PICK p : p = q \o z
    OBVIOUS
  <2>3. /\ Len(p) \in Nat /\ Len(q) \in Nat /\ Len(q) <= Len(p) /\ \A i \in 1 .. Len(q) : p[i] = q[i]
        /\ \A i \in 1 .. Len(p) : i \notin 1 .. Len(q) => (i - Len(q)) \in 1 .. Len(z) /\ p[i] = z[i - Len(q)]
    <3>1. /\ Len(p) = Len(q) + Len(z) /\ Len(q) \in Nat /\ Len(z) \in Nat
          /\ \A i \in 1 .. Len(q) : p[i] = q[i]
          /\ \A i \in 1 .. Len(p) : i \notin 1 .. Len(q) => (i - Len(q)) \in 1 .. Len(z) /\ p[i] = z[i - Len(q)]
      BY <2>2, Joined
    <3> QED
      BY <3>1
  <2>4. \A i \in 1 .. Len(p) : i \notin 1 .. Len(q) => p[i].kind \in EndSign
    BY <2>3 DEF Only
  <2>5. Lead(p) = Lead(q) /\ Lead(q) \in {0, 1}
    <3>1. CASE q = <<>>
      <4>1. Len(q) = 0
        BY <3>1, Single
      <4>2. p # <<>> => p[1].kind \in EndSign
        <5>1. p \in Items
          BY <2>2, Joined
        <5>2. p # <<>> => 1 \in 1 .. Len(p)
          BY <5>1, HeadTail
        <5> QED
          BY <4>1, <5>2, <2>4
      <4> QED
        BY <3>1, <4>2 DEF Lead, EndSign
    <3>2. CASE q # <<>>
      <4>1. 1 \in 1 .. Len(q) /\ p[1] = q[1] /\ p # <<>>
        <5>1. 1 \in 1 .. Len(q)
          BY <3>2, HeadTail
        <5> QED
          BY <5>1, <2>3, Single
      <4> QED
        BY <3>2, <4>1 DEF Lead
    <3> QED
      BY <3>1, <3>2
  <2>6. PICK s \in {0, 1} : s = Lead(q) /\ s = Lead(p)
    BY <2>5
  <2>7. s + (n - m) <= Len(p) /\ s + (n - m) <= Len(q)
    BY <2>1, <2>3, <2>6 DEF Carries
  <2>8. ASSUME NEW i \in 1 .. Len(p)
        PROVE  /\ i > s /\ i <= s + (n - m) => p[i] = Piece(m + (i - s))
               /\ i > s + (n - m) => p[i].kind \in EndSign
    <3>1. CASE i \in 1 .. Len(q)
      BY <3>1, <2>1, <2>3, <2>6 DEF Carries
    <3>2. CASE i \notin 1 .. Len(q)
      BY <3>2, <2>1, <2>3, <2>4, <2>7
    <3> QED
      BY <3>1, <3>2
  <2> QED
    BY <1>2, <2>2, <2>1, <2>6, <2>7, <2>8 DEF Leg, Carries
<1> QED
  BY <1>1, <1>2

\* A piece that is taken is the next one.
LEMMA LegTake ==
    ASSUME NEW q \in Items, NEW l \in BOOLEAN, NEW m \in Nat, NEW n \in Nat,
           Leg(q, l, m, n), q # <<>>, Head(q).kind = "data"
    PROVE  ~l /\ Head(q) = Piece(m + 1) /\ Leg(Tail(q), l, m + 1, n)
<1>1. ~l
  BY OnlyTail DEF Leg, EndSign
<1>2. m <= n /\ Carries(q, m, n)
  BY <1>1 DEF Leg
<1>3. 1 \in 1 .. Len(q) /\ q[1].kind = "data" /\ Head(q) = q[1] /\ Lead(q) = 0
  BY HeadTail DEF Lead
<1>4. n - m >= 1 /\ q[1] = Piece(m + 1)
  BY <1>2, <1>3 DEF Carries, EndSign
<1>5. PICK p : p = Tail(q)
  OBVIOUS
<1>6. /\ Len(q) \in Nat \ {0} /\ Len(p) = Len(q) - 1 /\ p \in Items
      /\ \A i \in 1 .. Len(p) : i + 1 \in 1 .. Len(q) /\ p[i] = q[i + 1]
  BY <1>5, HeadTail
<1>7. n - (m + 1) <= Len(p)
  BY <1>2, <1>3, <1>4, <1>6 DEF Carries
<1>8. ASSUME NEW i \in 1 .. Len(p)
      PROVE  /\ i <= n - (m + 1) => p[i] = Piece((m + 1) + i)
             /\ i > n - (m + 1) => p[i].kind \in EndSign
  <2>1. i + 1 \in 1 .. Len(q) /\ p[i] = q[i + 1] /\ m + (i + 1) = (m + 1) + i
    BY <1>6
  <2>2. /\ i + 1 <= n - m => q[i + 1] = Piece(m + (i + 1))
        /\ i + 1 > n - m => q[i + 1].kind \in EndSign
    BY <2>1, <1>2, <1>3 DEF Carries
  <2> QED
    BY <2>1, <2>2
<1>9. Lead(p) = 0
  <2>1. CASE p # <<>>
    <3>1. 1 \in 1 .. Len(p)
      BY <1>6, <2>1, HeadTail
    <3>2. p[1] = Piece((m + 1) + 1) \/ p[1].kind \in EndSign
      BY <1>8, <3>1
    <3> QED
      BY <3>2, ItemKinds DEF Lead, EndSign
  <2> QED
    BY <2>1 DEF Lead
<1>10. Carries(p, m + 1, n)
  BY <1>7, <1>8, <1>9 DEF Carries
<1> QED
  BY <1>1, <1>2, <1>3, <1>4, <1>5, <1>10 DEF Leg

\* Behind a sign of the end there is no piece.
LEMMA LegEnds ==
    ASSUME NEW q \in Items, NEW l \in BOOLEAN, NEW m \in Nat, NEW n \in Nat,
           Leg(q, l, m, n), q # <<>>, Head(q).kind \in EndSign
    PROVE  /\ ~l => m = n
           /\ Leg(Tail(q), l, m, n)
<1>1. CASE l
  BY <1>1, OnlyTail DEF Leg
<1>2. CASE ~l
  <2>1. m <= n /\ Carries(q, m, n)
    BY <1>2 DEF Leg
  <2>2. 1 \in 1 .. Len(q) /\ q[1].kind \in EndSign /\ Lead(q) = 0
    BY HeadTail DEF Lead, EndSign
  <2>3. m = n
    <3>1. CASE n - m >= 1
      <4>1. q[1] = Piece(m + (1 - 0))
        BY <2>1, <2>2, <3>1 DEF Carries
      <4> QED
        BY <2>2, <4>1, ItemKinds DEF EndSign
    <3> QED
      BY <2>1, <3>1
  <2>4. PICK p : p = Tail(q)
    OBVIOUS
  <2>5. p \in Items /\ Len(p) \in Nat /\ \A i \in 1 .. Len(p) : i + 1 \in 1 .. Len(q) /\ p[i] = q[i + 1]
    BY <2>4, HeadTail
  <2>6. \A i \in 1 .. Len(p) : p[i].kind \in EndSign
    BY <2>1, <2>2, <2>3, <2>5 DEF Carries
  <2>7. Lead(p) = 0
    <3>1. p # <<>> => 1 \in 1 .. Len(p)
      BY <2>5, HeadTail
    <3> QED
      BY <2>6, <3>1 DEF Lead, EndSign
  <2>8. Carries(p, m, n)
    BY <2>3, <2>5, <2>6, <2>7 DEF Carries
  <2> QED
    BY <1>2, <2>1, <2>3, <2>4, <2>8 DEF Leg
<1> QED
  BY <1>1, <1>2

\* The answer is taken, and the pieces stay.
LEMMA LegAnswered ==
    ASSUME NEW q \in Items, NEW m \in Nat, NEW n \in Nat, Leg(q, FALSE, m, n), q # <<>>, Head(q).kind = "accept"
    PROVE  Leg(Tail(q), FALSE, m, n) /\ Only(Tail(q), EndSign \cup {"data"})
<1>1. m <= n /\ Carries(q, m, n)
  BY DEF Leg
<1>2. 1 \in 1 .. Len(q) /\ Lead(q) = 1
  BY HeadTail DEF Lead
<1>3. PICK p : p = Tail(q)
  OBVIOUS
<1>4. /\ Len(q) \in Nat \ {0} /\ Len(p) = Len(q) - 1 /\ p \in Items
      /\ \A i \in 1 .. Len(p) : i + 1 \in 1 .. Len(q) /\ p[i] = q[i + 1]
  BY <1>3, HeadTail
<1>5. ASSUME NEW i \in 1 .. Len(p)
      PROVE  /\ i <= n - m => p[i] = Piece(m + i)
             /\ i > n - m => p[i].kind \in EndSign
  <2>1. i + 1 \in 1 .. Len(q) /\ p[i] = q[i + 1] /\ m + ((i + 1) - 1) = m + i
    BY <1>4
  <2>2. /\ i + 1 <= 1 + (n - m) => q[i + 1] = Piece(m + ((i + 1) - 1))
        /\ i + 1 > 1 + (n - m) => q[i + 1].kind \in EndSign
    BY <2>1, <1>1, <1>2 DEF Carries
  <2> QED
    BY <2>1, <2>2
<1>6. \A i \in 1 .. Len(p) : p[i].kind \in EndSign \cup {"data"}
  <2> SUFFICES ASSUME NEW i \in 1 .. Len(p) PROVE p[i].kind \in EndSign \cup {"data"}
    OBVIOUS
  <2>1. CASE i <= n - m
    BY <2>1, <1>5, ItemKinds
  <2>2. CASE i > n - m
    BY <2>2, <1>5
  <2> QED
    BY <2>1, <2>2
<1>7. Lead(p) = 0
  <2>1. p # <<>> => 1 \in 1 .. Len(p)
    BY <1>4, HeadTail
  <2> QED
    BY <1>6, <2>1 DEF Lead, EndSign
<1>8. n - m <= Len(p)
  BY <1>1, <1>2, <1>4 DEF Carries
<1>9. Carries(p, m, n)
  BY <1>5, <1>7, <1>8 DEF Carries
<1> QED
  BY <1>1, <1>3, <1>6, <1>9 DEF Leg, Only

\* An empty pipe carries nothing, also after the answer was put into it.
LEMMA LegEmpty ==
    ASSUME NEW m \in Nat
    PROVE  Leg(<<>>, FALSE, m, m) /\ Leg(<<Sign("accept")>>, FALSE, m, m)
<1>1. Leg(<<>>, FALSE, m, m)
  BY Single DEF Leg, Carries, Lead
<1>2. PICK q \in Items : q = <<Sign("accept")>> /\ Len(q) = 1 /\ q[1].kind = "accept" /\ q # <<>>
  BY Single, ItemKinds
<1>3. Lead(q) = 1
  BY <1>2 DEF Lead
<1>4. Carries(q, m, m)
  BY <1>2, <1>3 DEF Carries
<1> QED
  BY <1>1, <1>2, <1>4 DEF Leg

(***************************************************************************)
(* A step that puts no piece into a pipe and takes none out of one.        *)
(***************************************************************************)
\* Signs of kinds K are put into pipes of ps, which are shut, and those of qs lose their readers.
Closes(ps, qs, K) ==
    /\ shut' = shut \cup ps /\ deaf' = deaf \cup qs
    /\ \A p \in Conduit :
         \/ p \in qs /\ flow'[p] = <<>>
         \/ p \in qs /\ p \in Cuttable /\ cut' # {} /\ flow'[p] = <<Sign("reset")>>
         \/ p \notin qs /\ flow'[p] = flow[p]
         \/ /\ p \in ps /\ p \notin qs /\ p \notin deaf \cup shut
            /\ \E z \in Items : Only(z, K) /\ flow'[p] = flow[p] \o z

\* A sign of the end may be put into p: the end it leads to is excused, or p is written by
\* the other end itself, or the pipe before p has ended.
Passes(t) == Source[t] \notin deaf /\ flow[Source[t]] # <<>> /\ Head(flow[Source[t]]).kind \in EndSign
Justified(p) ==
    \/ Excused(Toward[p])'
    \/ \E e \in Side : p = Writes[e]
    \/ \E t \in Hop : p = Sink[t] /\ Passes(t)

\* The relay waits for an agent that has accepted.
Awaiting == relayAt = "answer" /\ cut = {} /\ (agentAt \in {"enter", "dial"} \/ hop["localupToRemote"] # "idle")

Orderly(ps, qs, K) ==
    /\ ps \subseteq Conduit /\ qs \subseteq Conduit /\ K \subseteq EndSign /\ cut \subseteq cut'
    /\ relayAt = "answer" => relayAt' = "answer" \/ "agentDown" \in qs
    /\ "targetDown" \in ps => K \subseteq {"fin"} \/ (K \subseteq {"fin", "reset"} /\ "targetUp" \in deaf')
    /\ "agentUp" \in ps => K \subseteq {"fin", "close"}
    /\ agentAt' \in {"unasked", "asked"} => agentAt \in {"unasked", "asked"} /\ "agentDown" \notin ps
    /\ Awaiting' => Awaiting /\ "agentDown" \notin qs
    /\ Refused => Refused'
    /\ \A p \in ps : p \in deaf \cup shut \cup qs \/ Justified(p)
    /\ UNCHANGED <<sent, received, heard>>

\* What is shut, deaf, cut or refused stays so, and so does an excuse.
LEMMA ExcuseStays ==
    ASSUME shut \subseteq shut', deaf \subseteq deaf', cut \subseteq cut', Refused => Refused', NEW e \in Side, Excused(e)
    PROVE  Excused(e)'
BY DEF Excused

\* Joining signs keeps the head of a pipe.
LEMMA HeadStays ==
    ASSUME NEW q \in Items, q # <<>>, NEW z \in Items
    PROVE  q \o z # <<>> /\ Head(q \o z) = Head(q)
<1>1. PICK p \in Items : p = q \o z
  BY Joined
<1>2. Len(q) \in Nat \ {0} /\ Head(q) = q[1]
  BY HeadTail
<1>3. Len(p) = Len(q) + Len(z) /\ Len(z) \in Nat /\ \A i \in 1 .. Len(q) : p[i] = q[i]
  BY <1>1, Joined
<1>4. p # <<>> /\ p[1] = q[1]
  BY <1>2, <1>3, Single
<1>5. Head(p) = p[1]
  BY <1>4, HeadTail
<1> QED
  BY <1>1, <1>2, <1>4, <1>5

\* The same pieces are carried after such a step.
LEMMA ClosingChain ==
    ASSUME ReverseTypes, ReverseTypes', ReverseChain, NEW ps, NEW qs, NEW K, Closes(ps, qs, K), Orderly(ps, qs, K)
    PROVE  ReverseChain'
<1> USE Names
<1>1. PICK put \in [Conduit -> Nat], taken \in [Conduit -> Nat] : Numbers(put, taken)
  BY DEF ReverseChain
<1>2. Linked(put, taken) /\ Legs(put, taken) /\ Ended(put, taken)
  BY <1>1 DEF Numbers
<1>3. /\ sent' = sent /\ received' = received /\ heard' = heard
      /\ shut' = shut \cup ps /\ deaf' = deaf \cup qs /\ cut \subseteq cut' /\ (Refused => Refused')
  BY DEF Closes, Orderly
<1>4. \A e \in Side : Excused(e) => Excused(e)'
  BY <1>3, ExcuseStays
<1>5. Linked(put, taken)'
  BY <1>2, <1>3 DEF Linked
<1>6. ASSUME NEW p \in Conduit
      PROVE  Leg(flow'[p], p \in deaf', taken[p], put[p])
  <2>0. PICK q \in Items, r \in Items, m \in Nat, n \in Nat : q = flow[p] /\ r = flow'[p] /\ m = taken[p] /\ n = put[p]
    BY DEF ReverseTypes
  <2>1. Leg(q, p \in deaf, m, n) /\ m <= n
    BY <1>2, <2>0 DEF Legs, Leg
  <2>2. CASE p \in qs /\ (r = <<>> \/ r = <<Sign("reset")>>)
    <3>0. Sign("reset") \in Item /\ Sign("reset").kind \in EndSign
      BY ItemKinds DEF EndSign
    <3>1. Only(r, EndSign)
      BY <2>2, <3>0, OnlyFew
    <3>2. p \in deaf'
      BY <2>2, <1>3
    <3> QED
      BY <2>0, <2>1, <3>1, <3>2 DEF Leg
  <2>3. CASE p \notin qs /\ r = q
    <3>1. p \in deaf' <=> p \in deaf
      BY <2>3, <1>3
    <3> QED
      BY <2>0, <2>1, <2>3, <3>1 DEF Leg
  <2>4. CASE p \notin qs /\ p \notin deaf /\ \E z \in Items : Only(z, K) /\ r = q \o z
    <3>1. PICK z \in Items : Only(z, K) /\ r = q \o z
      BY <2>4
    <3>2. Only(z, EndSign)
      BY <3>1, OnlyMore DEF Orderly
    <3>3. p \notin deaf' /\ Leg(q, FALSE, m, n)
      BY <2>1, <2>4, <1>3 DEF Leg
    <3>4. Leg(r, FALSE, m, n)
      BY <3>1, <3>2, <3>3, LegSign
    <3> QED
      BY <2>0, <3>3, <3>4 DEF Leg
  <2> QED
    BY <2>0, <2>2, <2>3, <2>4 DEF Closes
<1>7. ASSUME NEW e \in Side, e \in heard'
      PROVE  Excused(e)' \/ AllSent(e, taken[Reads[e]])'
  BY <1>2, <1>3, <1>4, <1>7 DEF Ended, AllSent
<1>8. ASSUME NEW p \in Conduit
      PROVE  p \in deaf' \/ Unmarked(flow'[p]) \/ Excused(Toward[p])' \/ AllSent(Toward[p], put[p])'
  <2>0. Toward[p] \in Side
    OBVIOUS
  <2>1. CASE p \in qs
    BY <2>1, <1>3
  <2>2. CASE p \notin qs /\ flow'[p] = flow[p]
    BY <2>0, <2>2, <1>2, <1>3, <1>4 DEF Ended, AllSent
  <2>3. CASE p \in ps /\ p \notin qs /\ p \notin deaf \cup shut
    <3>1. Justified(p)
      BY <2>3 DEF Orderly
    <3>2. CASE \E e \in Side : p = Writes[e]
      <4>1. PICK e \in Side : p = Writes[e]
        BY <3>2
      <4>2. put[p] = sent[e] /\ Opposite[Toward[p]] = e
        BY <4>1, <1>2, SMTT(60) DEF Linked
      <4>3. p \in shut'
        BY <2>3, <1>3
      <4> QED
        BY <4>1, <4>2, <4>3, <1>3 DEF AllSent
    <3>3. CASE \E t \in Hop : p = Sink[t] /\ Passes(t)
      <4>1. PICK t \in Hop : p = Sink[t] /\ Passes(t)
        BY <3>3
      <4>2. PICK s \in Conduit : s = Source[t] /\ Toward[s] = Toward[p]
        BY <4>1
      <4>3. PICK q \in Items : q = flow[s] /\ q # <<>> /\ Head(q).kind \in EndSign /\ s \notin deaf
        BY <4>1, <4>2 DEF Passes, ReverseTypes
      <4>4. taken[s] \in Nat /\ put[s] \in Nat /\ put[p] = taken[s]
        BY <4>1, <4>2, <1>2 DEF Linked
      <4>5. PICK m \in Nat, n \in Nat : m = taken[s] /\ n = put[s]
        BY <4>4
      <4>6. Leg(q, FALSE, m, n)
        BY <4>2, <4>3, <4>5, <1>2 DEF Legs, Leg
      <4>7. m = n
        BY <4>3, <4>6, LegEnds
      <4>8. ~Unmarked(q)
        BY <4>3, OnlyTail DEF Unmarked, EndSign
      <4>9. Excused(Toward[s]) \/ AllSent(Toward[s], put[s])
        BY <4>2, <4>3, <4>8, <1>2 DEF Ended
      <4> QED
        BY <2>0, <4>2, <4>4, <4>5, <4>7, <4>9, <1>3, <1>4 DEF AllSent
    <3> QED
      BY <3>1, <3>2, <3>3 DEF Justified
  <2> QED
    BY <2>1, <2>2, <2>3 DEF Closes
<1>9. Numbers(put, taken)'
  BY <1>5, <1>6, <1>7, <1>8 DEF Numbers, Legs, Ended
<1>10. Numbered'
  BY <1>3 DEF ReverseChain, Numbered
<1> QED
  BY <1>9, <1>10 DEF ReverseChain

\* Signs are where they may be after such a step.
LEMMA ClosingKinds ==
    ASSUME ReverseTypes, ReverseTypes', Kinds, NEW ps, NEW qs, NEW K, Closes(ps, qs, K), Orderly(ps, qs, K)
    PROVE  Kinds'
<1> USE Names
<1>1. /\ shut' = shut \cup ps /\ deaf' = deaf \cup qs /\ cut \subseteq cut' /\ K \subseteq EndSign
  BY DEF Closes, Orderly
<1>2. ASSUME NEW p \in Conduit, NEW L, Only(flow[p], L), p \in ps => K \subseteq L,
             p \in Cuttable /\ cut' # {} => "reset" \in L
      PROVE  Only(flow'[p], L)
  <2>0. PICK q \in Items, r \in Items : q = flow[p] /\ r = flow'[p]
    BY DEF ReverseTypes
  <2>1. CASE r = <<>>
    BY <2>0, <2>1, OnlyFew
  <2>2. CASE p \in Cuttable /\ cut' # {} /\ r = <<Sign("reset")>>
    <3>1. Sign("reset") \in Item /\ Sign("reset").kind = "reset"
      BY ItemKinds DEF EndSign
    <3>2. "reset" \in L
      BY <2>2, <1>2
    <3>3. Only(<<Sign("reset")>>, L)
      BY <3>1, <3>2, OnlyFew
    <3> QED
      BY <2>0, <2>2, <3>3
  <2>3. CASE r = q
    BY <2>0, <2>3, <1>2
  <2>4. CASE p \in ps /\ \E z \in Items : Only(z, K) /\ r = q \o z
    <3>1. PICK z \in Items : Only(z, K) /\ r = q \o z
      BY <2>4
    <3>2. Only(z, L)
      BY <1>2, <2>4, <3>1, OnlyMore
    <3> QED
      BY <1>2, <2>0, <3>1, <3>2, OnlyJoined
  <2> QED
    BY <2>0, <2>1, <2>2, <2>3, <2>4 DEF Closes
<1>3. ASSUME NEW p \in Conduit
      PROVE  Unmarked(flow'[p]) \/ p \in shut' \/ (p \in deaf' /\ p \in Cuttable /\ cut' # {})
  <2>1. CASE p \in ps
    BY <2>1, <1>1
  <2>2. CASE p \in qs /\ flow'[p] = <<>>
    BY <2>2, OnlyFew DEF Unmarked
  <2>3. CASE p \in qs /\ p \in Cuttable /\ cut' # {}
    BY <2>3, <1>1
  <2>4. CASE flow'[p] = flow[p]
    BY <2>4, <1>1 DEF Kinds
  <2> QED
    BY <2>1, <2>2, <2>3, <2>4 DEF Closes
<1>4. ASSUME NEW p \in Conduit, p # "agentDown" \/ relayAt' # "answer"
      PROVE  Only(flow'[p], EndSign \cup {"data"})
  <2>1. CASE p = "agentDown" /\ p \in qs
    <3>1. flow'[p] = <<>> \/ flow'[p] = <<Sign("reset")>>
      BY <2>1 DEF Closes
    <3>2. Sign("reset") \in Item /\ Sign("reset").kind \in EndSign \cup {"data"}
      BY ItemKinds DEF EndSign
    <3> QED
      BY <3>1, <3>2, OnlyFew
  <2>2. CASE p # "agentDown" \/ p \notin qs
    <3>1. Only(flow[p], EndSign \cup {"data"})
      BY <1>4, <2>2 DEF Kinds, Orderly
    <3>2. K \subseteq EndSign \cup {"data"} /\ "reset" \in EndSign \cup {"data"}
      BY <1>1 DEF EndSign
    <3> QED
      BY <1>2, <3>1, <3>2
  <2> QED
    BY <2>1, <2>2
<1>5. ASSUME NEW L, L = IF "targetUp" \in deaf' THEN {"data", "fin", "reset"} ELSE {"data", "fin"}
      PROVE  Only(flow'["targetDown"], L)
  <2>1. PICK M : M = IF "targetUp" \in deaf THEN {"data", "fin", "reset"} ELSE {"data", "fin"}
    OBVIOUS
  <2>2. M \subseteq L
    BY <1>1, <1>5, <2>1
  <2>3. Only(flow["targetDown"], L)
    BY <2>1, <2>2, OnlyMore DEF Kinds
  <2>4. "targetDown" \in ps => K \subseteq L
    BY <1>5 DEF Orderly
  <2>5. "targetDown" \notin Cuttable
    BY DEF Cuttable
  <2> QED
    BY <1>2, <2>3, <2>4, <2>5
<1>6. ASSUME NEW L, L = IF cut' # {} THEN {"data", "fin", "close", "reset"} ELSE {"data", "fin", "close"}
      PROVE  Only(flow'["agentUp"], L)
  <2>1. PICK M : M = IF cut # {} THEN {"data", "fin", "close", "reset"} ELSE {"data", "fin", "close"}
    OBVIOUS
  <2>2. M \subseteq L
    BY <1>1, <1>6, <2>1
  <2>3. Only(flow["agentUp"], L)
    BY <2>1, <2>2, OnlyMore DEF Kinds
  <2>4. "agentUp" \in ps => K \subseteq L
    BY <1>6 DEF Orderly
  <2>5. cut' # {} => "reset" \in L
    BY <1>6
  <2> QED
    BY <1>2, <2>3, <2>4, <2>5
<1>7. ASSUME NEW p \in Conduit, p \in deaf' PROVE flow'[p] = <<>> \/ (p \in Cuttable /\ cut' # {})
  <2>1. CASE p \in qs
    BY <2>1 DEF Closes
  <2>2. CASE p \notin qs
    <3>1. p \in deaf
      BY <1>1, <1>7, <2>2
    <3>2. flow'[p] = flow[p]
      BY <2>2, <3>1 DEF Closes
    <3> QED
      BY <1>1, <3>1, <3>2 DEF Kinds
  <2> QED
    BY <2>1, <2>2
<1> QED
  BY <1>3, <1>4, <1>5, <1>6, <1>7 DEF Kinds

\* The answer stays where it is.
LEMMA ClosingAnswer ==
    ASSUME ReverseTypes, ReverseTypes', Answer, NEW ps, NEW qs, NEW K, Closes(ps, qs, K), Orderly(ps, qs, K)
    PROVE  Answer'
<1> USE Names
<1>0. "agentDown" \in Conduit
  OBVIOUS
<1>1. ASSUME agentAt' \in {"unasked", "asked"} PROVE "agentDown" \in deaf' \/ flow'["agentDown"] = <<>>
  <2>1. agentAt \in {"unasked", "asked"} /\ "agentDown" \notin ps
    BY <1>1 DEF Orderly
  <2>2. "agentDown" \in qs \/ flow'["agentDown"] = flow["agentDown"]
    BY <1>0, <2>1 DEF Closes
  <2> QED
    BY <2>1, <2>2 DEF Answer, Closes
<1>2. ASSUME Awaiting' PROVE flow'["agentDown"] # <<>> /\ Head(flow'["agentDown"]).kind = "accept"
  <2>1. Awaiting /\ "agentDown" \notin qs
    BY <1>2 DEF Orderly
  <2>2. PICK q \in Items : q = flow["agentDown"] /\ q # <<>> /\ Head(q).kind = "accept"
    BY <1>0, <2>1 DEF Answer, Awaiting, ReverseTypes
  <2>3. flow'["agentDown"] = q \/ \E z \in Items : flow'["agentDown"] = q \o z
    BY <1>0, <2>1, <2>2 DEF Closes
  <2>4. ASSUME NEW z \in Items, flow'["agentDown"] = q \o z
        PROVE  flow'["agentDown"] # <<>> /\ Head(flow'["agentDown"]).kind = "accept"
    BY <2>2, <2>4, HeadStays
  <2> QED
    BY <2>2, <2>3, <2>4
<1> QED
  BY <1>1, <1>2 DEF Answer, Awaiting

LEMMA ClosingKeeps ==
    ASSUME ReverseInv, ReverseTypes', Steps', Reasons',
           NEW ps, NEW qs, NEW K, Closes(ps, qs, K), Orderly(ps, qs, K)
    PROVE  ReverseInv'
BY ClosingChain, ClosingKinds, ClosingAnswer DEF ReverseInv


\* Close is such a step.
LEMMA CloseCloses ==
    ASSUME ReverseTypes, NEW p, NEW items \in Items, NEW ps \in SUBSET Conduit, NEW qs \in SUBSET Conduit,
           NEW K, K \subseteq EndSign, "fin" \in K, Only(items, K), items = <<>> \/ p \in ps, Close(p, items, ps, qs)
    PROVE  /\ Closes(ps, qs, K) /\ flow' \in [Conduit -> Items]
           /\ shut' \in SUBSET Conduit /\ deaf' \in SUBSET Conduit
<1>1. /\ flow' = After(p, items, ps, qs) /\ shut' = shut \cup ps /\ deaf' = deaf \cup qs
  BY DEF Close
<1>2. Sign("fin") \in Item /\ Sign("fin").kind = "fin"
  BY ItemKinds DEF EndSign
<1>3. <<Sign("fin")>> \in Items /\ Only(<<Sign("fin")>>, K)
  BY <1>2, Single, OnlyFew
<1>4. ASSUME NEW q \in Conduit
      PROVE  /\ flow'[q] \in Items
             /\ \/ q \in qs /\ flow'[q] = <<>>
                \/ q \notin qs /\ flow'[q] = flow[q]
                \/ /\ q \in ps /\ q \notin qs /\ q \notin deaf \cup shut
                   /\ \E z \in Items : Only(z, K) /\ flow'[q] = flow[q] \o z
  <2>0. PICK x \in Items : x = flow[q]
    BY DEF ReverseTypes
  <2>1. CASE q \in qs
    BY <2>1, <1>1, Single DEF After
  <2>2. CASE q \notin qs /\ q \in deaf \cup shut
    BY <2>0, <2>2, <1>1 DEF After
  <2>3. CASE q \notin qs /\ q \notin deaf \cup shut /\ q \in ps
    <3>1. PICK y \in Items : y = (IF q = p THEN items ELSE <<>>) /\ Only(y, K)
      BY Single, OnlyFew
    <3>2. x \o <<>> = x
      BY ConcatEmptySeq DEF Items
    <3>3. flow'[q] = (x \o y) \o <<Sign("fin")>>
      BY <2>0, <2>3, <3>1, <3>2, <1>1 DEF After
    <3>4. PICK s \in Items : s = <<Sign("fin")>> /\ Only(s, K)
      BY <1>3
    <3>5. PICK z \in Items : z = y \o s
      BY Joined
    <3>6. Only(z, K)
      BY <3>1, <3>4, <3>5, OnlyJoined
    <3>7. (x \o y) \o s = x \o z
      BY <3>5, ConcatAssociative, SMTT(60) DEF Items
    <3>8. x \o z \in Items
      BY Joined
    <3> QED
      BY <2>0, <2>3, <3>3, <3>4, <3>6, <3>7, <3>8
  <2>4. CASE q \notin qs /\ q \notin deaf \cup shut /\ q \notin ps
    <3>1. x \o <<>> = x
      BY ConcatEmptySeq DEF Items
    <3>2. q = p => items = <<>>
      BY <2>4
    <3>3. flow'[q] = x
      BY <2>0, <2>4, <3>1, <3>2, <1>1 DEF After
    <3> QED
      BY <2>0, <2>4, <3>3
  <2> QED
    BY <2>1, <2>2, <2>3, <2>4
<1>5. flow' = [q \in Conduit |-> flow'[q]]
  BY <1>1 DEF After
<1>6. flow' \in [Conduit -> Items]
  BY <1>4, <1>5
<1>7. Closes(ps, qs, K)
  BY <1>1, <1>4 DEF Closes
<1> QED
  BY <1>1, <1>6, <1>7 DEF ReverseTypes

\* So is a step that leaves the pipes alone.
LEMMA QuietCloses ==
    ASSUME ReverseTypes, UNCHANGED <<flow, shut, deaf>>
    PROVE  /\ Closes({}, {}, {}) /\ flow' \in [Conduit -> Items]
           /\ shut' \in SUBSET Conduit /\ deaf' \in SUBSET Conduit
BY DEF Closes, ReverseTypes

\* A hop that ends has met a sign of the end, or its reader is gone.
LEMMA HopEnds ==
    ASSUME ReverseTypes, Kinds, Steps, NEW t \in Hop, Ends(t)
    PROVE  \/ Sink[t] \in deaf
           \/ /\ flow[Source[t]] # <<>> /\ Next1(t).kind \in EndSign
              /\ Source[t] \in shut \/ (Source[t] \in deaf /\ Source[t] \in Cuttable /\ cut # {})
<1> USE Names
<1>1. Source[t] \in Conduit /\ hop[t] = "running" /\ flow[Source[t]] # <<>>
      /\ (Next1(t).kind = "data" => Sink[t] \in deaf)
  BY DEF Ends
<1>2. CASE Next1(t).kind = "data"
  BY <1>1, <1>2
<1>3. CASE Next1(t).kind # "data"
  <2>1. PICK q \in Items : q = flow[Source[t]] /\ q # <<>> /\ Head(q) = Next1(t)
    BY <1>1 DEF ReverseTypes, Next1
  <2>2. Source[t] # "agentDown" \/ relayAt # "answer"
    BY <1>1 DEF Steps, AtRelay
  <2>3. Only(q, EndSign \cup {"data"})
    BY <1>1, <2>1, <2>2 DEF Kinds
  <2>4. Head(q).kind \in EndSign
    <3>1. Head(q).kind \in EndSign \cup {"data"}
      BY <2>1, <2>3, OnlyTail
    <3> QED
      BY <1>3, <2>1, <3>1
  <2>5. ~Unmarked(q)
    BY <2>1, <2>4, OnlyTail DEF Unmarked, EndSign
  <2> QED
    BY <1>1, <2>1, <2>4, <2>5 DEF Kinds
<1> QED
  BY <1>2, <1>3

\* Then its own pipe may be shut.
LEMMA HopJustified ==
    ASSUME ReverseTypes, Kinds, Steps, NEW t \in Hop, Ends(t), cut \subseteq cut'
    PROVE  Sink[t] \in deaf \/ Justified(Sink[t])
<1>1. CASE Sink[t] \in deaf
  BY <1>1
<1>2. CASE /\ flow[Source[t]] # <<>> /\ Next1(t).kind \in EndSign
           /\ Source[t] \in shut \/ (Source[t] \in deaf /\ Source[t] \in Cuttable /\ cut # {})
  <2>1. CASE Source[t] \in deaf
    <3>0. Source[t] \in Conduit
      BY Names
    <3>1. cut' # {}
      BY <1>2, <2>1, <3>0 DEF Kinds
    <3> QED
      BY <3>1 DEF Justified, Excused
  <2>2. CASE Source[t] \notin deaf
    BY <1>2, <2>2 DEF Justified, Passes, Next1
  <2> QED
    BY <1>2, <2>1, <2>2
<1> QED
  BY <1>1, <1>2, HopEnds

(***************************************************************************)
(* The steps of the ends and of the network that only close.               *)
(***************************************************************************)
LEMMA ShutsDownKeeps ==
    ASSUME ReverseInv, NEW e \in Side, ShutsDown(e)
    PROVE  ReverseInv'
<1> USE Names
<1>0. ReverseTypes /\ Steps /\ Reasons
  BY DEF ReverseInv
<1>1. /\ Writes[e] \notin shut /\ Close(Writes[e], <<>>, {Writes[e]}, {})
      /\ UNCHANGED <<hop, relayAt, agentAt, entry, sent, received, heard, cut>>
  BY DEF ShutsDown, restVars
<1>2. PICK ps \in SUBSET Conduit, K \in SUBSET EndSign : ps = {Writes[e]} /\ K = {"fin"}
  <2>1. {Writes[e]} \in SUBSET Conduit /\ {"fin"} \in SUBSET EndSign
    BY DEF EndSign
  <2> HIDE Names
  <2> QED
    BY <2>1
<1>3. /\ Closes(ps, {}, K) /\ flow' \in [Conduit -> Items]
      /\ shut' \in SUBSET Conduit /\ deaf' \in SUBSET Conduit
  <2>1. Only(<<>>, K) /\ <<>> \in Items
    BY Single, OnlyFew
  <2> QED
    BY <1>0, <1>1, <1>2, <2>1, CloseCloses
<1>4. shut' = shut \cup {Writes[e]} /\ deaf' = deaf
  BY <1>2, <1>3 DEF Closes
<1>5. ReverseTypes'
  BY <1>0, <1>1, <1>3 DEF ReverseTypes
<1>6. Refused' <=> Refused
  BY <1>1 DEF Refused
<1>7. Orderly(ps, {}, K)
  BY <1>1, <1>2, <1>6 DEF Orderly, Awaiting, Justified
<1>8. Steps'
  BY <1>0, <1>1, <1>4 DEF Steps
<1>9. Reasons'
  BY <1>0, <1>1, <1>4, <1>6 DEF Reasons
<1> QED
  BY <1>3, <1>5, <1>7, <1>8, <1>9, ClosingKeeps

LEMMA LeavesKeeps ==
    ASSUME ReverseInv, NEW e \in Side, Leaves(e)
    PROVE  ReverseInv'
<1> USE Names
<1>0. ReverseTypes /\ Steps /\ Reasons /\ Answer
  BY DEF ReverseInv
<1>1. /\ shut' = shut \cup {Writes[e]} /\ deaf' = deaf \cup {Reads[e]}
      /\ UNCHANGED <<hop, relayAt, agentAt, entry, sent, received, heard, cut>>
  BY DEF Leaves, restVars
<1>2. PICK k \in {"fin", "reset"} : flow' = [After(Writes[e], <<Sign(k)>>, {}, {}) EXCEPT ![Reads[e]] = <<>>]
  BY DEF Leaves
<1>3. PICK z \in Items : z = <<Sign(k)>> /\ Only(z, {"fin", "reset"})
  <2>1. Sign(k) \in Item /\ Sign(k).kind = k
    BY ItemKinds DEF EndSign
  <2> QED
    BY <2>1, Single, OnlyFew
<1>4. PICK ps \in SUBSET Conduit, qs \in SUBSET Conduit, K \in SUBSET EndSign :
        ps = {Writes[e]} /\ qs = {Reads[e]} /\ K = {"fin", "reset"}
  <2>1. {Writes[e]} \in SUBSET Conduit /\ {Reads[e]} \in SUBSET Conduit /\ {"fin", "reset"} \in SUBSET EndSign
    BY DEF EndSign
  <2> HIDE Names
  <2> QED
    BY <2>1
<1>5. ASSUME NEW p \in Conduit
      PROVE  /\ flow'[p] \in Items
             /\ \/ p \in qs /\ flow'[p] = <<>>
                \/ p \notin qs /\ flow'[p] = flow[p]
                \/ /\ p \in ps /\ p \notin qs /\ p \notin deaf \cup shut
                   /\ \E y \in Items : Only(y, K) /\ flow'[p] = flow[p] \o y
  <2>0. PICK x \in Items : x = flow[p]
    BY <1>0 DEF ReverseTypes
  <2>1. CASE p = Reads[e]
    BY <2>1, <1>2, <1>4, Single DEF After
  <2>2. CASE p # Reads[e] /\ p \in deaf \cup shut
    BY <2>0, <2>2, <1>2, <1>4 DEF After
  <2>3. x \o <<>> = x /\ (x \o z) \o <<>> = x \o z /\ x \o z \in Items
    BY Joined, ConcatEmptySeq DEF Items
  <2>4. CASE p # Reads[e] /\ p \notin deaf \cup shut /\ p = Writes[e]
    <3>1. flow'[p] = x \o z
      BY <2>0, <2>3, <2>4, <1>2, <1>3 DEF After
    <3> QED
      BY <2>0, <2>3, <2>4, <3>1, <1>3, <1>4
  <2>5. CASE p # Reads[e] /\ p \notin deaf \cup shut /\ p # Writes[e]
    <3>1. flow'[p] = x
      BY <2>0, <2>3, <2>5, <1>2 DEF After
    <3> QED
      BY <2>0, <2>5, <3>1, <1>4
  <2> QED
    BY <2>1, <2>2, <2>4, <2>5
<1>6. Closes(ps, qs, K)
  BY <1>1, <1>4, <1>5 DEF Closes
<1>7. flow' \in [Conduit -> Items]
  <2>1. flow' = [p \in Conduit |-> flow'[p]]
    BY <1>2 DEF After
  <2> QED
    BY <2>1, <1>5
<1>8. ReverseTypes'
  <2>1. shut' = shut \cup ps /\ deaf' = deaf \cup qs
    BY <1>6 DEF Closes
  <2> HIDE Names
  <2> QED
    BY <1>0, <1>1, <1>7, <2>1 DEF ReverseTypes
<1>9. Refused' <=> Refused
  BY <1>1 DEF Refused
<1>10. Orderly(ps, qs, K)
  BY <1>1, <1>4, <1>9 DEF Orderly, Awaiting, Justified
<1>11. Steps'
  BY <1>0, <1>1 DEF Steps
<1>12. Reasons'
  BY <1>0, <1>1, <1>9 DEF Reasons
<1> QED
  BY <1>6, <1>8, <1>10, <1>11, <1>12, ClosingKeeps

LEMMA CutKeeps ==
    ASSUME ReverseInv, NEW c \in DOMAIN PipesOf, Cut(c)
    PROVE  ReverseInv'
<1> USE Names
<1>0. ReverseTypes /\ Steps /\ Reasons
  BY DEF ReverseInv
<1>1. /\ cut' = cut \cup {c} /\ deaf' = deaf \cup PipesOf[c] /\ shut' = shut
      /\ flow' = [p \in Conduit |-> IF p \in PipesOf[c] THEN <<Sign("reset")>> ELSE flow[p]]
      /\ UNCHANGED <<hop, relayAt, agentAt, entry, sent, received, heard>>
  BY DEF Cut
<1>2. c \in {"client", "agent"} /\ PipesOf[c] \subseteq Cuttable /\ Cuttable \subseteq Conduit
  BY DEF PipesOf, Cuttable
<1>3. <<Sign("reset")>> \in Items
  BY Single, ItemKinds DEF EndSign
<1>4. PICK qs \in SUBSET Conduit : qs = PipesOf[c]
  BY <1>2
<1>5. Closes({}, qs, {})
  BY <1>1, <1>2, <1>4 DEF Closes
<1>6. cut' # {} /\ cut \subseteq cut' /\ cut' \subseteq {"client", "agent"}
  BY <1>0, <1>1, <1>2 DEF ReverseTypes
<1>7. ReverseTypes'
  <2>1. flow' \in [Conduit -> Items]
    BY <1>0, <1>1, <1>3 DEF ReverseTypes
  <2> QED
    BY <1>0, <1>1, <1>2, <1>6, <2>1 DEF ReverseTypes
<1>8. Refused' <=> Refused
  BY <1>1 DEF Refused
<1>9. Orderly({}, qs, {})
  BY <1>1, <1>6, <1>8 DEF Orderly, Awaiting
<1>10. Steps'
  BY <1>0, <1>1 DEF Steps
<1>11. Reasons'
  <2>1. \A e \in Side : Reads[e] \in deaf' => Reads[e] \in deaf
    BY <1>1, <1>2 DEF Cuttable
  <2> QED
    BY <1>0, <1>1, <1>6, <1>8, <2>1 DEF Reasons
<1> QED
  BY <1>5, <1>7, <1>9, <1>10, <1>11, ClosingKeeps

\* The forms in which Close is used.
LEMMA CloseFin ==
    ASSUME ReverseTypes, NEW p, NEW ps \in SUBSET Conduit, NEW qs \in SUBSET Conduit, Close(p, <<>>, ps, qs)
    PROVE  /\ Closes(ps, qs, {"fin"}) /\ flow' \in [Conduit -> Items]
           /\ shut' \in SUBSET Conduit /\ deaf' \in SUBSET Conduit
<1>1. <<>> \in Items /\ Only(<<>>, {"fin"}) /\ {"fin"} \subseteq EndSign /\ "fin" \in {"fin"}
  BY Single, OnlyFew DEF EndSign
<1> QED
  BY <1>1, CloseCloses

LEMMA CloseSign ==
    ASSUME ReverseTypes, NEW p, NEW k \in EndSign, NEW b \in BOOLEAN, NEW ps \in SUBSET Conduit, NEW qs \in SUBSET Conduit,
           b => p \in ps, Close(p, IF b THEN <<Sign(k)>> ELSE <<>>, ps, qs)
    PROVE  /\ Closes(ps, qs, {"fin", k}) /\ flow' \in [Conduit -> Items]
           /\ shut' \in SUBSET Conduit /\ deaf' \in SUBSET Conduit
<1>1. {"fin", k} \subseteq EndSign /\ "fin" \in {"fin", k}
  BY DEF EndSign
<1>2. Sign(k) \in Item /\ Sign(k).kind = k
  BY ItemKinds
<1>3. PICK z \in Items : z = (IF b THEN <<Sign(k)>> ELSE <<>>) /\ Only(z, {"fin", k}) /\ (z = <<>> \/ p \in ps)
  <2>1. CASE b
    <3>1. <<Sign(k)>> \in Items /\ Only(<<Sign(k)>>, {"fin", k})
      BY <1>2, Single, OnlyFew
    <3> QED
      BY <2>1, <3>1
  <2>2. CASE ~b
    <3>1. <<>> \in Items /\ Only(<<>>, {"fin", k})
      BY Single, OnlyFew
    <3> QED
      BY <2>2, <3>1
  <2> QED
    BY <2>1, <2>2
<1>4. Close(p, z, ps, qs)
  BY <1>3
<1> QED
  BY <1>1, <1>3, <1>4, CloseCloses

(***************************************************************************)
(* Setting up.                                                             *)
(***************************************************************************)
LEMMA OpenToRelayKeeps ==
    ASSUME ReverseInv, OpenToRelay
    PROVE  ReverseInv'
<1> USE Names
<1>0. ReverseTypes /\ Steps /\ Reasons
  BY DEF ReverseInv
<1>1. relayAt = "unasked" /\ UNCHANGED <<entry, sent, received, heard, cut>>
  BY DEF OpenToRelay
<1>2. CASE "client" \notin cut
  <2>1. /\ relayAt' = "asked" /\ UNCHANGED <<flow, shut, deaf, agentAt>>
        /\ hop' = [t \in Hop |-> IF t \in AtClient THEN "running" ELSE hop[t]]
    BY <1>2 DEF OpenToRelay
  <2>2. /\ Closes({}, {}, {}) /\ flow' \in [Conduit -> Items]
        /\ shut' \in SUBSET Conduit /\ deaf' \in SUBSET Conduit
    BY <1>0, <2>1, QuietCloses
  <2>3. ReverseTypes'
    BY <1>0, <1>1, <2>1, <2>2 DEF ReverseTypes
  <2>4. \A t \in Hop \ AtClient : hop'[t] = hop[t]
    BY <2>1
  <2>5. Refused' <=> Refused
    BY <2>1, <2>4 DEF Refused, AtClient
  <2>6. Orderly({}, {}, {})
    BY <1>1, <2>1, <2>5 DEF Orderly, Awaiting
  <2>7. Steps'
    BY <1>0, <1>1, <2>1, <2>4 DEF Steps, AtClient, AtRelay, AtAgent
  <2>8. Reasons'
    BY <1>0, <1>1, <2>1, <2>4, <2>5 DEF Reasons, Steps, AtClient
  <2> QED
    BY <2>2, <2>3, <2>6, <2>7, <2>8, ClosingKeeps
<1>3. CASE "client" \in cut
  <2>1. /\ Close("localDown", <<>>, {"localDown"}, {"localUp"})
        /\ relayAt' = "over" /\ agentAt' = "over" /\ hop' = hop
    BY <1>3 DEF OpenToRelay
  <2>2. {"localDown"} \in SUBSET Conduit /\ {"localUp"} \in SUBSET Conduit
    OBVIOUS
  <2>3. /\ Closes({"localDown"}, {"localUp"}, {"fin"}) /\ flow' \in [Conduit -> Items]
        /\ shut' \in SUBSET Conduit /\ deaf' \in SUBSET Conduit
    <3> HIDE Names
    <3> QED
      BY <1>0, <2>1, <2>2, CloseFin
  <2>4. ReverseTypes'
    BY <1>0, <1>1, <2>1, <2>3 DEF ReverseTypes
  <2>5. shut' = shut \cup {"localDown"} /\ deaf' = deaf \cup {"localUp"} /\ cut' # {} /\ cut' = cut
    BY <1>1, <1>3, <2>1 DEF Close
  <2>6. Refused => Refused'
    BY <2>1 DEF Refused
  <2>7. \A e \in Side : Excused(e)'
    BY <2>5 DEF Excused
  <2>8. Orderly({"localDown"}, {"localUp"}, {"fin"})
    BY <1>1, <2>1, <2>5, <2>6, <2>7 DEF Orderly, Awaiting, Justified, EndSign
  <2>9. Steps'
    BY <1>0, <1>1, <2>1 DEF Steps, AtClient, AtRelay, AtAgent
  <2>10. Reasons'
    BY <1>0, <1>1, <2>1, <2>5 DEF Reasons, Steps, AtClient, Refused
  <2> QED
    BY <2>3, <2>4, <2>8, <2>9, <2>10, ClosingKeeps
<1> QED
  BY <1>2, <1>3

\* The relay's handler returns: it may when both ends are excused, or the pipe behind the
\* other one has ended.
LEMMA RelayDropsKeeps ==
    ASSUME ReverseInv, relayAt # "unasked", NEW p \in {"clientDown", "agentUp"}, NEW b \in BOOLEAN,
           RelayDrops(p, IF b THEN <<Sign("close")>> ELSE <<>>),
           \A q \in {"clientDown", "agentUp"} : q \in deaf \cup shut \/ Justified(q),
           \A t \in Hop : hop'[t] = hop[t] \/ (t \in AtRelay /\ hop'[t] = "done"),
           hop' \in [Hop -> {"idle", "running", "done"}], \A t \in AtRelay : hop'[t] # "running",
           agentAt' = IF relayAt = "asked" THEN "over" ELSE agentAt,
           UNCHANGED <<entry, sent, received, heard, cut>>
    PROVE  ReverseInv'
<1> USE Names
<1>0. ReverseTypes /\ Steps /\ Reasons
  BY DEF ReverseInv
<1>1. /\ Close(p, IF b THEN <<Sign("close")>> ELSE <<>>, {"clientDown", "agentUp"}, {"clientUp", "agentDown"})
      /\ relayAt' = "over"
  BY DEF RelayDrops
<1>2. PICK ps \in SUBSET Conduit, qs \in SUBSET Conduit :
        ps = {"clientDown", "agentUp"} /\ qs = {"clientUp", "agentDown"}
  OBVIOUS
<1>3. "close" \in EndSign /\ (b => p \in ps)
  BY <1>2 DEF EndSign
<1>4. /\ Closes(ps, qs, {"fin", "close"}) /\ flow' \in [Conduit -> Items]
      /\ shut' \in SUBSET Conduit /\ deaf' \in SUBSET Conduit
  <2> HIDE Names
  <2> QED
    BY <1>0, <1>1, <1>2, <1>3, CloseSign
<1>5. agentAt' \in {"unasked", "asked", "enter", "dial", "proxy", "leave", "over"}
      /\ (agentAt' = agentAt \/ agentAt = "unasked")
  BY <1>0 DEF ReverseTypes, Steps
<1>6. ReverseTypes'
  BY <1>0, <1>1, <1>4, <1>5 DEF ReverseTypes
<1>7. shut' = shut \cup {"clientDown", "agentUp"} /\ deaf' = deaf \cup {"clientUp", "agentDown"} /\ cut' = cut
  BY <1>1 DEF Close
<1>8. /\ hop'["localupToRemote"] = hop["localupToRemote"] /\ hop'["remoteToTunnel"] = hop["remoteToTunnel"]
      /\ hop'["tcpToQuic"] = hop["tcpToQuic"] /\ hop'["quicToTcp"] = hop["quicToTcp"]
  BY DEF AtRelay
<1>9. Refused => Refused'
  BY <1>5, <1>8 DEF Refused
<1>10. Orderly(ps, qs, {"fin", "close"})
  <2>1. \A q \in ps : q \in deaf \cup shut \cup qs \/ Justified(q)
    BY <1>2
  <2>2. agentAt' \in {"unasked", "asked"} => agentAt \in {"unasked", "asked"} /\ "agentDown" \notin ps
    BY <1>2, <1>5
  <2>3. ~Awaiting'
    BY <1>1 DEF Awaiting
  <2>4. {"fin", "close"} \subseteq EndSign /\ "targetDown" \notin ps /\ "agentDown" \in qs
    BY <1>2 DEF EndSign
  <2> QED
    BY <1>1, <1>7, <1>9, <2>1, <2>2, <2>3, <2>4 DEF Orderly
<1>11. Steps'
  BY <1>0, <1>1, <1>5, <1>7, <1>8 DEF Steps, AtClient, AtAgent
<1>12. Reasons'
  BY <1>0, <1>1, <1>5, <1>7, <1>8, <1>9 DEF Reasons, Steps
<1> QED
  BY <1>4, <1>6, <1>10, <1>11, <1>12, ClosingKeeps

LEMMA AskAgentKeeps ==
    ASSUME ReverseInv, AskAgent
    PROVE  ReverseInv'
<1> USE Names
<1>0. ReverseTypes /\ Steps /\ Reasons
  BY DEF ReverseInv
<1>1. relayAt = "asked" /\ UNCHANGED <<hop, entry, sent, received, heard, cut>>
  BY DEF AskAgent
<1>2. agentAt = "unasked" /\ \A t \in AtRelay \cup AtAgent : hop[t] = "idle"
  BY <1>0, <1>1 DEF Steps
<1>3. CASE cut = {}
  <2>1. relayAt' = "answer" /\ agentAt' = "asked" /\ UNCHANGED <<flow, shut, deaf>>
    BY <1>3 DEF AskAgent
  <2>2. /\ Closes({}, {}, {}) /\ flow' \in [Conduit -> Items]
        /\ shut' \in SUBSET Conduit /\ deaf' \in SUBSET Conduit
    BY <1>0, <2>1, QuietCloses
  <2>3. ReverseTypes'
    BY <1>0, <1>1, <2>1, <2>2 DEF ReverseTypes
  <2>4. ~Refused /\ ~Refused' /\ ~Awaiting'
    BY <1>1, <1>2, <2>1 DEF Refused, Awaiting, AtAgent
  <2>5. Orderly({}, {}, {})
    BY <1>1, <1>2, <2>1, <2>4 DEF Orderly
  <2>6. Steps'
    BY <1>0, <1>1, <1>2, <2>1 DEF Steps, AtClient, AtRelay, AtAgent
  <2>7. Reasons'
    BY <1>0, <1>1, <1>2, <2>1, <2>4 DEF Reasons, AtAgent
  <2> QED
    BY <2>2, <2>3, <2>5, <2>6, <2>7, ClosingKeeps
<1>4. CASE cut # {}
  <2>1. RelayDrops("clientDown", <<>>) /\ agentAt' = "over"
    BY <1>4 DEF AskAgent
  <2>2. RelayDrops("clientDown", IF FALSE THEN <<Sign("close")>> ELSE <<>>)
    BY <2>1
  <2>3. \A e \in Side : Excused(e)'
    BY <1>1, <1>4 DEF Excused
  <2>4. \A q \in {"clientDown", "agentUp"} : q \in deaf \cup shut \/ Justified(q)
    BY <2>3 DEF Justified
  <2>5. hop' \in [Hop -> {"idle", "running", "done"}] /\ \A t \in AtRelay : hop'[t] # "running"
    BY <1>0, <1>1, <1>2 DEF ReverseTypes
  <2>6. agentAt' = IF relayAt = "asked" THEN "over" ELSE agentAt
    BY <1>1, <2>1
  <2> HIDE Names
  <2> QED
    BY <1>1, <2>2, <2>4, <2>5, <2>6, RelayDropsKeeps
<1> QED
  BY <1>3, <1>4

\* The agent closes its side of a stream it does not forward.
LEMMA AgentRefuses ==
    ASSUME ReverseInv, NEW b \in BOOLEAN, NEW k \in EndSign,
           Close("agentDown", IF b THEN <<Sign(k)>> ELSE <<>>, {"agentDown"}, {"agentUp"}),
           agentAt \in {"asked", "dial"}, agentAt' \in {"leave", "over"},
           UNCHANGED <<hop, relayAt, entry, sent, received, heard, cut>>
    PROVE  ReverseInv'
<1> USE Names
<1>0. ReverseTypes /\ Steps /\ Reasons
  BY DEF ReverseInv
<1>1. PICK ps \in SUBSET Conduit, qs \in SUBSET Conduit : ps = {"agentDown"} /\ qs = {"agentUp"}
  OBVIOUS
<1>2. b => "agentDown" \in ps
  BY <1>1
<1>3. /\ Closes(ps, qs, {"fin", k}) /\ flow' \in [Conduit -> Items]
      /\ shut' \in SUBSET Conduit /\ deaf' \in SUBSET Conduit
  <2> HIDE Names
  <2> QED
    BY <1>0, <1>1, <1>2, CloseSign
<1>4. ReverseTypes'
  BY <1>0, <1>3 DEF ReverseTypes
<1>5. shut' = shut \cup {"agentDown"} /\ deaf' = deaf \cup {"agentUp"}
  BY DEF Close
<1>6. hop["localupToRemote"] = "idle" /\ Refused' /\ ~Refused
  BY <1>0 DEF Refused, Steps, AtAgent
<1>7. Orderly(ps, qs, {"fin", k})
  <2>1. \A e \in Side : Excused(e)'
    BY <1>6 DEF Excused
  <2>2. \A p \in ps : Justified(p)
    BY <1>1, <2>1 DEF Justified
  <2>3. ~Awaiting'
    BY <1>6 DEF Awaiting
  <2>4. "targetDown" \notin ps /\ "agentUp" \notin ps /\ {"fin", k} \subseteq EndSign
    BY <1>1 DEF EndSign
  <2> QED
    BY <1>6, <2>2, <2>3, <2>4 DEF Orderly
<1>8. Steps'
  BY <1>0, <1>5, <1>6 DEF Steps, AtAgent
<1>9. Reasons'
  BY <1>0, <1>5, <1>6 DEF Reasons
<1> QED
  BY <1>3, <1>4, <1>7, <1>8, <1>9, ClosingKeeps

LEMMA RejectKeeps ==
    ASSUME ReverseInv, Reject
    PROVE  ReverseInv'
<1>1. Close("agentDown", IF TRUE THEN <<Sign("reject")>> ELSE <<>>, {"agentDown"}, {"agentUp"})
  BY DEF Reject
<1>2. "reject" \in EndSign
  BY DEF EndSign
<1>3. /\ agentAt \in {"asked", "dial"} /\ agentAt' \in {"leave", "over"}
      /\ UNCHANGED <<hop, relayAt, entry, sent, received, heard, cut>>
  BY DEF Reject
<1> QED
  BY <1>1, <1>2, <1>3, AgentRefuses

\* A step of the handlers that leaves the pipes and the hops alone.
LEMMA HandlerKeeps ==
    ASSUME ReverseInv, UNCHANGED <<flow, shut, deaf, hop, relayAt, sent, received, heard, cut>>,
           \/ agentAt = "enter" /\ agentAt' = "dial"
           \/ agentAt = "leave" /\ agentAt' = "over"
           \/ agentAt = "proxy" /\ agentAt' = "over" /\ \A t \in AtAgent : hop[t] = "done"
    PROVE  ReverseInv'
<1> USE Names
<1>0. ReverseTypes /\ Steps /\ Reasons
  BY DEF ReverseInv
<1>1. /\ Closes({}, {}, {}) /\ flow' \in [Conduit -> Items]
      /\ shut' \in SUBSET Conduit /\ deaf' \in SUBSET Conduit
  BY <1>0, QuietCloses
<1>2. ReverseTypes'
  BY <1>0, <1>1 DEF ReverseTypes
<1>3. Refused' <=> Refused
  BY <1>0 DEF Refused, Steps, AtAgent
<1>4. Orderly({}, {}, {})
  BY <1>0, <1>3 DEF Orderly, Awaiting
<1>5. Steps'
  BY <1>0 DEF Steps, AtAgent
<1>6. Reasons'
  BY <1>0, <1>3 DEF Reasons
<1> QED
  BY <1>1, <1>2, <1>4, <1>5, <1>6, ClosingKeeps

LEMMA DialKeeps ==
    ASSUME ReverseInv, Dial
    PROVE  ReverseInv'
<1> USE Names
<1>0. ReverseTypes /\ Steps /\ Reasons
  BY DEF ReverseInv
<1>1. agentAt = "dial" /\ UNCHANGED <<relayAt, entry, sent, received, heard, cut>>
  BY DEF Dial
<1>2. CASE /\ agentAt' = "proxy" /\ UNCHANGED <<flow, shut, deaf>>
           /\ hop' = [t \in Hop |-> IF t \in AtAgent THEN "running" ELSE hop[t]]
  <2>1. /\ Closes({}, {}, {}) /\ flow' \in [Conduit -> Items]
        /\ shut' \in SUBSET Conduit /\ deaf' \in SUBSET Conduit
    BY <1>0, <1>2, QuietCloses
  <2>2. ReverseTypes'
    BY <1>0, <1>1, <1>2, <2>1 DEF ReverseTypes
  <2>3. \A t \in Hop \ AtAgent : hop'[t] = hop[t]
    BY <1>2
  <2>4. ~Refused /\ ~Refused' /\ \A t \in AtAgent : hop[t] = "idle" /\ hop'[t] = "running"
    BY <1>0, <1>1, <1>2 DEF Refused, Steps, AtAgent
  <2>5. Orderly({}, {}, {})
    BY <1>1, <1>2, <2>4 DEF Orderly, Awaiting
  <2>6. Steps'
    BY <1>0, <1>1, <1>2, <2>3, <2>4 DEF Steps, AtClient, AtRelay, AtAgent
  <2>7. Reasons'
    BY <1>0, <1>1, <1>2, <2>3, <2>4 DEF Reasons, AtAgent
  <2> QED
    BY <2>1, <2>2, <2>5, <2>6, <2>7, ClosingKeeps
<1>3. CASE /\ agentAt' = "leave" /\ hop' = hop
           /\ Close("agentDown", <<>>, {"agentDown"}, {"agentUp"})
  <2>1. Close("agentDown", IF FALSE THEN <<Sign("fin")>> ELSE <<>>, {"agentDown"}, {"agentUp"}) /\ "fin" \in EndSign
    BY <1>3 DEF EndSign
  <2> HIDE Names
  <2> QED
    BY <1>1, <1>3, <2>1, AgentRefuses
<1> QED
  BY <1>2, <1>3 DEF Dial

\* The answer is put into an empty pipe, or taken from it: the pieces stay.
LEMMA AnswerChain ==
    ASSUME ReverseTypes, ReverseTypes', ReverseChain, NEW r \in Items,
           \A p \in Conduit : flow'[p] = IF p = "agentDown" THEN r ELSE flow[p],
           UNCHANGED <<shut, deaf, cut, sent, received, heard>>, Refused => Refused', "agentDown" \notin deaf,
           \A m \in Nat, n \in Nat : Leg(flow["agentDown"], FALSE, m, n) => Leg(r, FALSE, m, n),
           Unmarked(flow["agentDown"]) => Unmarked(r)
    PROVE  ReverseChain'
<1> USE Names
<1>1. PICK put \in [Conduit -> Nat], taken \in [Conduit -> Nat] : Numbers(put, taken)
  BY DEF ReverseChain
<1>2. Linked(put, taken) /\ Legs(put, taken) /\ Ended(put, taken)
  BY <1>1 DEF Numbers
<1>3. \A p \in Conduit : flow'[p] = IF p = "agentDown" THEN r ELSE flow[p]
  OBVIOUS
<1>4. \A e \in Side : Excused(e) => Excused(e)'
  BY ExcuseStays
<1>5. Linked(put, taken)'
  BY <1>2 DEF Linked
<1>6. ASSUME NEW p \in Conduit PROVE Leg(flow'[p], p \in deaf', taken[p], put[p])
  <2>1. CASE p # "agentDown"
    BY <2>1, <1>2, <1>3 DEF Legs
  <2>2. CASE p = "agentDown"
    <3>1. PICK m \in Nat, n \in Nat : m = taken[p] /\ n = put[p]
      OBVIOUS
    <3>2. Leg(flow["agentDown"], FALSE, m, n)
      BY <2>2, <3>1, <1>2 DEF Legs, Leg
    <3>3. Leg(r, FALSE, m, n)
      BY <3>2
    <3> QED
      BY <2>2, <3>1, <3>3, <1>3 DEF Leg
  <2> QED
    BY <2>1, <2>2
<1>7. Ended(put, taken)'
  <2>1. ASSUME NEW e \in Side, e \in heard' PROVE Excused(e)' \/ AllSent(e, taken[Reads[e]])'
    BY <2>1, <1>2, <1>4 DEF Ended, AllSent
  <2>2. ASSUME NEW p \in Conduit
        PROVE  p \in deaf' \/ Unmarked(flow'[p]) \/ Excused(Toward[p])' \/ AllSent(Toward[p], put[p])'
    <3>1. Unmarked(flow[p]) => Unmarked(flow'[p])
      BY <1>3
    <3>2. Toward[p] \in Side
      OBVIOUS
    <3> QED
      BY <3>1, <3>2, <1>2, <1>4 DEF Ended, AllSent
  <2> QED
    BY <2>1, <2>2 DEF Ended
<1>8. Numbers(put, taken)' /\ Numbered'
  BY <1>5, <1>6, <1>7 DEF Numbers, Legs, ReverseChain, Numbered
<1> QED
  BY <1>8 DEF ReverseChain

LEMMA AcceptForwardKeeps ==
    ASSUME ReverseInv, AcceptForward
    PROVE  ReverseInv'
<1> USE Names
<1>0. ReverseTypes /\ Steps /\ Reasons /\ Kinds /\ Answer /\ ReverseChain
  BY DEF ReverseInv
<1>1. agentAt = "asked" /\ UNCHANGED <<hop, relayAt, entry, sent, received, heard, cut>>
  BY DEF AcceptForward
<1>2. CASE "agent" \in cut
  <2>1. agentAt' = "over" /\ Close("agentDown", <<>>, {"agentDown"}, {"agentUp"})
    BY <1>2 DEF AcceptForward
  <2>2. Close("agentDown", IF FALSE THEN <<Sign("fin")>> ELSE <<>>, {"agentDown"}, {"agentUp"}) /\ "fin" \in EndSign
    BY <2>1 DEF EndSign
  <2> HIDE Names
  <2> QED
    BY <1>1, <2>1, <2>2, AgentRefuses
<1>3. CASE "agent" \notin cut
  <2>1. agentAt' = "enter" /\ Close("agentDown", <<Sign("accept")>>, {}, {})
    BY <1>3 DEF AcceptForward
  <2>2. shut' = shut /\ deaf' = deaf /\ flow' = After("agentDown", <<Sign("accept")>>, {}, {})
    BY <2>1 DEF Close
  <2>3. hop["localupToRemote"] = "idle" /\ hop["remoteToTunnel"] = "idle" /\ ~Refused /\ "agentDown" \notin shut
    BY <1>0, <1>1 DEF Refused, Steps, AtAgent, Reasons
  <2>4. \A x \in Items : x \o <<>> = x /\ <<>> \o x = x
    BY ConcatEmptySeq DEF Items
  <2>5. <<Sign("accept")>> \in Items /\ Sign("accept") \in Item /\ Sign("accept").kind = "accept"
    BY Single, ItemKinds
  <2>6. ASSUME NEW p \in Conduit
        PROVE  flow'[p] = IF p = "agentDown" /\ p \notin deaf THEN <<Sign("accept")>> ELSE flow[p]
    <3>1. PICK x \in Items : x = flow[p]
      BY <1>0 DEF ReverseTypes
    <3>2. CASE p = "agentDown" /\ p \notin deaf
      <4>1. x = <<>>
        BY <1>0, <1>1, <3>1, <3>2 DEF Answer
      <4>2. <<>> \o <<Sign("accept")>> = <<Sign("accept")>> /\ <<Sign("accept")>> \o <<>> = <<Sign("accept")>>
        BY <2>4, <2>5
      <4>3. p \notin deaf \cup shut
        BY <2>3, <3>2
      <4> QED
        BY <3>1, <3>2, <4>1, <4>2, <4>3, <2>2 DEF After
    <3>3. CASE p # "agentDown" \/ p \in deaf
      <4>1. x \o <<>> = x
        BY <2>4
      <4> QED
        BY <3>1, <3>3, <4>1, <2>2 DEF After
    <3> QED
      BY <3>2, <3>3
  <2>7. ReverseTypes'
    <3>1. flow' = [p \in Conduit |-> flow'[p]]
      BY <2>2 DEF After
    <3>2. flow' \in [Conduit -> Items]
      BY <1>0, <2>5, <2>6, <3>1 DEF ReverseTypes
    <3> QED
      BY <1>0, <1>1, <2>1, <2>2, <3>2 DEF ReverseTypes
  <2>8. ~Refused'
    BY <2>1 DEF Refused
  <2>9. Steps'
    BY <1>0, <1>1, <2>1, <2>2 DEF Steps, AtAgent
  <2>10. Reasons'
    BY <1>0, <1>1, <2>1, <2>2, <2>3, <2>8 DEF Reasons
  <2>11. CASE "agentDown" \in deaf
    <3>1. cut # {} \/ relayAt = "over"
      BY <1>0, <2>11 DEF Reasons
    <3>2. \A p \in Conduit : flow'[p] = flow[p]
      BY <2>6, <2>11
    <3>3. Closes({}, {}, {})
      BY <2>2, <3>2 DEF Closes
    <3>4. Orderly({}, {}, {})
      BY <1>1, <2>1, <2>3, <3>1 DEF Orderly, Awaiting
    <3> QED
      BY <2>7, <2>9, <2>10, <3>3, <3>4, ClosingKeeps
  <2>12. CASE "agentDown" \notin deaf
    <3>0. flow["agentDown"] = <<>> /\ relayAt = "answer"
      BY <1>0, <1>1, <2>12 DEF Answer, Steps
    <3>1. PICK r \in Items : r = <<Sign("accept")>> /\ r # <<>> /\ Head(r) = Sign("accept")
      BY <2>5, Single, HeadTail
    <3>2. \A p \in Conduit : flow'[p] = IF p = "agentDown" THEN r ELSE flow[p]
      BY <2>6, <2>12, <3>1
    <3>3. Unmarked(r)
      BY <2>5, <3>1, OnlyFew DEF Unmarked
    <3>4. ASSUME NEW m \in Nat, NEW n \in Nat, Leg(<<>>, FALSE, m, n) PROVE Leg(r, FALSE, m, n)
      <4>1. m <= n /\ Carries(<<>>, m, n)
        BY <3>4 DEF Leg
      <4>2. m = n
        BY <4>1, Single DEF Carries, Lead
      <4> QED
        BY <4>2, <3>1, LegEmpty
    <3>5. ReverseChain'
      <4> HIDE Names
      <4> QED
        BY <1>0, <1>1, <2>2, <2>3, <2>7, <2>12, <3>0, <3>2, <3>3, <3>4, AnswerChain
    <3>6. Kinds'
      BY <1>0, <1>1, <2>2, <2>6, <2>12, <3>0, <3>1, <3>3 DEF Kinds
    <3>7. Answer'
      BY <2>1, <2>5, <2>6, <2>12, <3>1 DEF Answer
    <3> QED
      BY <2>7, <2>9, <2>10, <3>5, <3>6, <3>7 DEF ReverseInv
  <2> QED
    BY <2>11, <2>12
<1> QED
  BY <1>2, <1>3

LEMMA ReadAnswerKeeps ==
    ASSUME ReverseInv, ReadAnswer
    PROVE  ReverseInv'
<1> USE Names
<1>0. ReverseTypes /\ Steps /\ Reasons /\ Kinds /\ Answer /\ ReverseChain
  BY DEF ReverseInv
<1>1. relayAt = "answer" /\ flow["agentDown"] # <<>> /\ UNCHANGED <<agentAt, entry, sent, received, heard, cut>>
  BY DEF ReadAnswer
<1>2. PICK q \in Items : q = flow["agentDown"] /\ q # <<>>
  BY <1>0, <1>1 DEF ReverseTypes
<1>3. CASE Head(q).kind = "accept"
  <2>1. /\ relayAt' = "proxy" /\ UNCHANGED <<shut, deaf>>
        /\ hop' = [t \in Hop |-> IF t \in AtRelay THEN "running" ELSE hop[t]]
        /\ flow' = [flow EXCEPT !["agentDown"] = Tail(q)]
    BY <1>2, <1>3 DEF ReadAnswer
  <2>2. PICK r \in Items : r = Tail(q)
    BY <1>2, HeadTail
  <2>3. ReverseTypes'
    BY <1>0, <1>1, <2>1, <2>2 DEF ReverseTypes
  <2>4. PICK put \in [Conduit -> Nat], taken \in [Conduit -> Nat] : Legs(put, taken)
    BY <1>0 DEF ReverseChain, Numbers
  <2>5. "agentDown" \notin deaf
    <3>1. CASE "agentDown" \in deaf
      <4>1. Only(q, EndSign)
        BY <1>2, <2>4, <3>1 DEF Legs, Leg
      <4> QED
        BY <1>2, <1>3, <4>1, OnlyTail DEF EndSign
    <3> QED
      BY <3>1
  <2>6. Only(r, EndSign \cup {"data"})
    <3>1. PICK m \in Nat, n \in Nat : m = taken["agentDown"] /\ n = put["agentDown"]
      OBVIOUS
    <3>2. Leg(q, FALSE, m, n)
      BY <1>2, <2>4, <2>5, <3>1 DEF Legs, Leg
    <3> QED
      BY <1>2, <1>3, <2>2, <3>2, LegAnswered
  <2>7. \A t \in Hop \ AtRelay : hop'[t] = hop[t]
    BY <2>1
  <2>8. Refused' <=> Refused
    BY <1>1, <2>7 DEF Refused, AtRelay
  <2>9. Unmarked(q) => Unmarked(r)
    BY <1>2, <2>2, OnlyTail DEF Unmarked
  <2>10. \A m \in Nat, n \in Nat : Leg(q, FALSE, m, n) => Leg(r, FALSE, m, n)
    BY <1>2, <1>3, <2>2, LegAnswered
  <2>11. \A p \in Conduit : flow'[p] = IF p = "agentDown" THEN r ELSE flow[p]
    BY <1>0, <2>1, <2>2 DEF ReverseTypes
  <2>12. ReverseChain'
    <3> HIDE Names
    <3> QED
      BY <1>0, <1>1, <1>2, <2>1, <2>3, <2>5, <2>8, <2>9, <2>10, <2>11, AnswerChain
  <2>13. Kinds'
    <3>1. ASSUME NEW p \in Conduit
          PROVE  /\ Unmarked(flow'[p]) \/ p \in shut' \/ (p \in deaf' /\ p \in Cuttable /\ cut' # {})
                 /\ p \in deaf' => flow'[p] = <<>> \/ (p \in Cuttable /\ cut' # {})
                 /\ Only(flow'[p], EndSign \cup {"data"})
      <4>1. CASE p = "agentDown"
        <5>1. flow'[p] = r /\ flow[p] = q
          BY <1>2, <2>11, <4>1
        <5>2. Unmarked(q) \/ p \in shut
          BY <1>0, <2>5, <4>1, <5>1 DEF Kinds
        <5> QED
          BY <2>1, <2>5, <2>6, <2>9, <4>1, <5>1, <5>2
      <4>2. CASE p # "agentDown"
        <5>1. flow'[p] = flow[p]
          BY <2>11, <4>2
        <5> QED
          BY <1>0, <1>1, <2>1, <4>2, <5>1 DEF Kinds
      <4> QED
        BY <4>1, <4>2
    <3>2. flow'["targetDown"] = flow["targetDown"] /\ flow'["agentUp"] = flow["agentUp"]
      BY <2>11
    <3> QED
      BY <1>0, <1>1, <2>1, <3>1, <3>2 DEF Kinds
  <2>14. Answer'
    BY <1>0, <1>1, <2>1, <2>5 DEF Answer
  <2>15. Steps'
    BY <1>0, <1>1, <2>1, <2>5, <2>7, SMTT(60) DEF Steps, Answer, AtClient, AtRelay, AtAgent
  <2>16. Reasons'
    BY <1>0, <1>1, <2>1, <2>7, <2>8, SMTT(60) DEF Reasons, AtRelay
  <2> QED
    BY <2>3, <2>12, <2>13, <2>14, <2>15, <2>16 DEF ReverseInv
<1>4. CASE Head(q).kind # "accept"
  <2>1. /\ RelayDrops("clientDown", IF Head(q).kind = "reject" THEN <<Sign("close")>> ELSE <<>>)
        /\ hop' = hop
    BY <1>2, <1>4 DEF ReadAnswer
  <2>2. cut # {} \/ Refused
    <3>1. CASE cut = {}
      <4>1. agentAt \notin {"enter", "dial"} /\ hop["localupToRemote"] = "idle"
        BY <1>0, <1>1, <1>2, <1>4, <3>1 DEF Answer
      <4>2. agentAt \notin {"unasked", "asked"}
        BY <1>0, <1>1, <3>1 DEF Answer, Reasons
      <4>3. agentAt # "proxy"
        BY <1>0, <4>1 DEF Steps
      <4> QED
        BY <1>0, <4>1, <4>2, <4>3 DEF Refused, ReverseTypes
    <3> QED
      BY <3>1
  <2>3. \A e \in Side : Excused(e)'
    BY <1>1, <2>1, <2>2 DEF Excused, Refused
  <2>4. \A p \in {"clientDown", "agentUp"} : p \in deaf \cup shut \/ Justified(p)
    BY <2>3 DEF Justified
  <2>5. hop' \in [Hop -> {"idle", "running", "done"}] /\ \A t \in AtRelay : hop'[t] # "running"
    BY <1>0, <1>1, <2>1 DEF ReverseTypes, Steps
  <2>6. agentAt' = IF relayAt = "asked" THEN "over" ELSE agentAt
    BY <1>1
  <2>7. PICK b \in BOOLEAN : b = (Head(q).kind = "reject")
    OBVIOUS
  <2>8. RelayDrops("clientDown", IF b THEN <<Sign("close")>> ELSE <<>>)
    BY <2>1, <2>7
  <2> HIDE Names
  <2> QED
    BY <1>1, <2>1, <2>4, <2>5, <2>6, <2>8, RelayDropsKeeps
<1> QED
  BY <1>3, <1>4

(***************************************************************************)
(* Hops that end.                                                          *)
(***************************************************************************)
LEMMA ClientHopKeeps ==
    ASSUME ReverseInv, NEW t \in Hop, ClientHopEnds(t)
    PROVE  ReverseInv'
<1> USE Names
<1>0. ReverseTypes /\ Steps /\ Reasons /\ Kinds
  BY DEF ReverseInv
<1>1. /\ t \in {"tcpToQuic", "quicToTcp"} /\ Ends(t) /\ hop' = [hop EXCEPT ![t] = "done"]
      /\ UNCHANGED <<relayAt, agentAt, entry, sent, received, heard, cut>>
  BY DEF ClientHopEnds, AtClient, restVars
<1>2. PICK b \in BOOLEAN, ps \in SUBSET Conduit, qs \in SUBSET Conduit :
        /\ Close(Sink[t], IF b THEN <<Sign("close")>> ELSE <<>>, ps, qs)
        /\ ps = {Sink[t]} /\ qs \subseteq (IF t = "quicToTcp" THEN {"clientDown", "localUp"} ELSE {"localUp"})
  <2>1. PICK b \in BOOLEAN : b = (t = "tcpToQuic" /\ Next1(t).kind = "fin")
    OBVIOUS
  <2>2. PICK qs : qs = (IF t = "quicToTcp" THEN {"clientDown"} ELSE {})
                         \cup (IF \A u \in AtClient \ {t} : hop[u] = "done" THEN {"localUp"} ELSE {})
    OBVIOUS
  <2>3. Close(Sink[t], IF b THEN <<Sign("close")>> ELSE <<>>, {Sink[t]}, qs)
    BY <2>1, <2>2 DEF ClientHopEnds
  <2>4. {Sink[t]} \in SUBSET Conduit /\ qs \in SUBSET Conduit
        /\ qs \subseteq (IF t = "quicToTcp" THEN {"clientDown", "localUp"} ELSE {"localUp"})
    BY <2>2
  <2> HIDE Names
  <2> QED
    BY <2>3, <2>4
<1>3. /\ Closes(ps, qs, {"fin", "close"}) /\ flow' \in [Conduit -> Items]
      /\ shut' \in SUBSET Conduit /\ deaf' \in SUBSET Conduit
  <2>1. (b => Sink[t] \in ps) /\ "close" \in EndSign
    BY <1>2 DEF EndSign
  <2> HIDE Names
  <2> QED
    BY <1>0, <1>2, <2>1, CloseSign
<1>4. shut' = shut \cup {Sink[t]} /\ deaf' = deaf \cup qs
  BY <1>2 DEF Close
<1>5. hop'[t] = "done" /\ hop[t] = "running" /\ \A u \in Hop \ {t} : hop'[u] = hop[u]
  BY <1>0, <1>1 DEF ReverseTypes, Ends
<1>6. ReverseTypes'
  BY <1>0, <1>1, <1>3 DEF ReverseTypes
<1>7. Refused' <=> Refused
  BY <1>1, <1>5 DEF Refused
<1>8. Orderly(ps, qs, {"fin", "close"})
  <2>1. Sink[t] \in deaf \/ Justified(Sink[t])
    BY <1>0, <1>1, HopJustified
  <2>2. \A p \in ps : p \in deaf \cup shut \cup qs \/ Justified(p)
    BY <1>2, <2>1
  <2>3. "agentDown" \notin ps \cup qs /\ "targetDown" \notin ps /\ {"fin", "close"} \subseteq EndSign
    BY <1>1, <1>2 DEF EndSign
  <2>4. Awaiting' => Awaiting
    BY <1>1, <1>5 DEF Awaiting
  <2> QED
    BY <1>1, <1>7, <2>2, <2>3, <2>4 DEF Orderly
<1>9. Steps'
  BY <1>0, <1>1, <1>2, <1>4, <1>5 DEF Steps, AtClient, AtRelay, AtAgent
<1>10. Reasons'
  <2>1. CASE t = "tcpToQuic"
    <3>1. "localUp" \in shut \/ "clientUp" \in deaf
      BY <1>0, <1>1, <2>1, HopEnds DEF Cuttable
    <3> QED
      BY <1>0, <1>1, <1>2, <1>4, <1>5, <1>7, <2>1, <3>1 DEF Reasons
  <2>2. CASE t = "quicToTcp"
    <3>1. "localDown" \in deaf \/ "clientDown" \in shut \/ cut # {}
      BY <1>0, <1>1, <2>2, HopEnds
    <3>2. "localDown" \in deaf \/ relayAt = "over" \/ cut # {}
      BY <1>0, <3>1 DEF Reasons
    <3> QED
      BY <1>0, <1>1, <1>2, <1>4, <1>5, <1>7, <2>2, <3>2 DEF Reasons
  <2> QED
    BY <1>1, <2>1, <2>2
<1> QED
  BY <1>3, <1>6, <1>8, <1>9, <1>10, ClosingKeeps

LEMMA RelayLoopKeeps ==
    ASSUME ReverseInv, NEW t \in Hop, RelayLoopEnds(t)
    PROVE  ReverseInv'
<1> USE Names
<1>0. ReverseTypes /\ Steps /\ Reasons /\ Kinds
  BY DEF ReverseInv
<1>1. /\ t \in {"clientToAgent", "agentToClient"} /\ Ends(t)
      /\ hop' = [u \in Hop |-> IF u \in AtRelay THEN "done" ELSE hop[u]]
      /\ UNCHANGED <<agentAt, entry, sent, received, heard, cut>>
  BY DEF RelayLoopEnds, AtRelay
<1>2. PICK b \in BOOLEAN : RelayDrops(Sink[t], IF b THEN <<Sign("close")>> ELSE <<>>)
  <2>1. PICK b \in BOOLEAN : b = (Next1(t).kind = "close")
    OBVIOUS
  <2> QED
    BY <2>1 DEF RelayLoopEnds
<1>3. PICK p \in {"clientDown", "agentUp"} : p = Sink[t]
  BY <1>1
<1>4. hop[t] = "running" /\ relayAt \notin {"unasked", "asked", "answer", "over"}
  BY <1>0, <1>1 DEF Ends, Steps, AtRelay
<1>5. /\ \A u \in Hop : hop'[u] = hop[u] \/ (u \in AtRelay /\ hop'[u] = "done")
      /\ hop' \in [Hop -> {"idle", "running", "done"}] /\ \A u \in AtRelay : hop'[u] # "running"
  BY <1>0, <1>1 DEF ReverseTypes, AtRelay
<1>6. hop'["localupToRemote"] = hop["localupToRemote"] /\ hop'["remoteToTunnel"] = hop["remoteToTunnel"]
  BY <1>5 DEF AtRelay
<1>7. /\ shut \subseteq shut' /\ deaf \subseteq deaf' /\ cut \subseteq cut' /\ (Refused => Refused')
  BY <1>1, <1>2, <1>6 DEF RelayDrops, Close, Refused
<1>8. Sink[t] \in deaf \/ Justified(Sink[t])
  BY <1>0, <1>1, HopJustified
<1>9. ASSUME NEW q \in {"clientDown", "agentUp"} PROVE q \in deaf \cup shut \/ Justified(q)
  <2>1. CASE q = Sink[t]
    BY <1>8, <2>1
  <2>2. CASE t = "clientToAgent" /\ q = "clientDown"
    <3>1. "agentUp" \in deaf \/ "clientUp" \in shut \/ cut # {}
      BY <1>0, <1>1, <2>2, HopEnds
    <3>2. Excused("local")
      BY <1>0, <1>4, <3>1 DEF Reasons, Excused
    <3>3. Excused("local")'
      BY <1>7, <3>2, ExcuseStays
    <3> QED
      BY <2>2, <3>3 DEF Justified
  <2>3. CASE t = "agentToClient" /\ q = "agentUp"
    <3>1. "clientDown" \in deaf \/ "agentDown" \in shut \/ cut # {}
      BY <1>0, <1>1, <2>3, HopEnds
    <3>2. Excused("target")
      BY <1>0, <1>4, <3>1 DEF Reasons, Excused
    <3>3. Excused("target")'
      BY <1>7, <3>2, ExcuseStays
    <3> QED
      BY <2>3, <3>3 DEF Justified
  <2> QED
    BY <1>1, <2>1, <2>2, <2>3
<1>10. relayAt # "unasked" /\ agentAt' = IF relayAt = "asked" THEN "over" ELSE agentAt
  BY <1>1, <1>4
<1> HIDE Names
<1> QED
  BY <1>1, <1>2, <1>3, <1>5, <1>9, <1>10, RelayDropsKeeps

\* Which of the agent's pipes a hop shuts when it ends, and which it leaves.
LEMMA AgentHopKeeps ==
    ASSUME ReverseInv, NEW t \in Hop, AgentHopEnds(t)
    PROVE  ReverseInv'
<1> USE Names
<1>0. ReverseTypes /\ Steps /\ Reasons /\ Kinds
  BY DEF ReverseInv
<1>1. /\ t \in {"localupToRemote", "remoteToTunnel"} /\ Ends(t) /\ hop' = [hop EXCEPT ![t] = "done"]
      /\ UNCHANGED <<relayAt, agentAt, entry, sent, received, heard, cut>>
  BY DEF AgentHopEnds, AtAgent, restVars
<1>2. PICK orderly \in BOOLEAN : orderly <=> Next1(t).kind \in {"fin", "close"}
  OBVIOUS
<1>3. PICK last \in BOOLEAN : last <=> \A u \in AtAgent \ {t} : hop[u] = "done"
  OBVIOUS
<1>4. PICK ps : ps = (IF orderly THEN {Sink[t]} ELSE {}) \cup (IF last THEN {"targetUp", "agentDown"} ELSE {})
  OBVIOUS
<1>5. PICK qs : qs = IF last THEN {"agentUp", "targetDown"} ELSE {}
  OBVIOUS
<1>6. ps \in SUBSET Conduit /\ ps \subseteq {"targetUp", "agentDown"} /\ qs \in SUBSET Conduit
  BY <1>1, <1>4, <1>5
<1>7. PICK b \in BOOLEAN : b = (orderly /\ t = "remoteToTunnel") /\ (b => Sink[t] \in ps)
  BY <1>4
<1>8. Close(Sink[t], IF b THEN <<Sign("close")>> ELSE <<>>, ps, qs)
  BY <1>2, <1>3, <1>4, <1>5, <1>7 DEF AgentHopEnds
<1>9. /\ Closes(ps, qs, {"fin", "close"}) /\ flow' \in [Conduit -> Items]
      /\ shut' \in SUBSET Conduit /\ deaf' \in SUBSET Conduit
  <2>1. "close" \in EndSign
    BY DEF EndSign
  <2> HIDE Names
  <2> QED
    BY <1>0, <1>6, <1>7, <1>8, <2>1, CloseSign
<1>10. shut' = shut \cup ps /\ deaf' = deaf \cup qs
  BY <1>8 DEF Close
<1>11. hop'[t] = "done" /\ hop[t] = "running" /\ \A u \in Hop \ {t} : hop'[u] = hop[u]
  BY <1>0, <1>1 DEF ReverseTypes, Ends
<1>12. agentAt = "proxy" /\ ~Refused /\ ~Refused'
  BY <1>0, <1>1, <1>11 DEF Refused, Steps, AtAgent, ReverseTypes
<1>13. ReverseTypes'
  BY <1>0, <1>1, <1>9 DEF ReverseTypes
<1>14. /\ last /\ t = "localupToRemote" => hop["remoteToTunnel"] = "done"
       /\ last /\ t = "remoteToTunnel" => hop["localupToRemote"] = "done"
       /\ t = "localupToRemote" => "agentUp" \notin qs \/ hop["remoteToTunnel"] = "done"
  BY <1>3, <1>5 DEF AtAgent
<1>15. Sink[t] \in deaf \/ Justified(Sink[t])
  BY <1>0, <1>1, HopJustified
<1>16. ASSUME NEW p \in ps PROVE p \in deaf \cup shut \cup qs \/ Justified(p)
  <2>1. CASE p = Sink[t]
    BY <1>15, <2>1
  <2>2. CASE t = "localupToRemote" /\ p = "agentDown"
    <3>1. hop["remoteToTunnel"] = "done"
      BY <1>4, <1>14, <2>2
    <3>2. "agentDown" \in shut \cup deaf \/ cut # {} \/ "targetUp" \in deaf
      BY <1>0, <3>1 DEF Reasons
    <3>3. cut # {} \/ "targetUp" \in deaf => Excused("local")'
      BY <1>1, <1>10 DEF Excused
    <3> QED
      BY <2>2, <3>2, <3>3 DEF Justified
  <2>3. CASE t = "remoteToTunnel" /\ p = "targetUp"
    <3>1. hop["localupToRemote"] = "done"
      BY <1>4, <1>14, <2>3
    <3>2. "targetUp" \in shut \cup deaf \/ cut # {}
      BY <1>0, <3>1 DEF Reasons
    <3>3. cut # {} => Excused("target")'
      BY <1>1 DEF Excused
    <3> QED
      BY <2>3, <3>2, <3>3 DEF Justified
  <2> QED
    BY <1>1, <1>6, <2>1, <2>2, <2>3
<1>17. Orderly(ps, qs, {"fin", "close"})
  <2>1. "agentDown" \notin qs /\ "targetDown" \notin ps /\ {"fin", "close"} \subseteq EndSign
    BY <1>5, <1>6 DEF EndSign
  <2>2. Awaiting' => Awaiting
    BY <1>1, <1>11 DEF Awaiting
  <2> QED
    BY <1>1, <1>6, <1>12, <1>16, <2>1, <2>2 DEF Orderly
<1>18. Steps'
  BY <1>0, <1>1, <1>10, <1>11, <1>12 DEF Steps, AtClient, AtRelay, AtAgent
<1>19. CASE t = "localupToRemote"
  <2>1. "targetUp" \in deaf \/ "agentUp" \in shut \/ cut # {}
    BY <1>0, <1>1, <1>19, HopEnds
  <2>2. cut # {} \/ "targetUp" \in deaf \/ orderly
    <3>1. CASE cut = {} /\ "targetUp" \notin deaf
      <4>1. PICK q \in Items : q = flow["agentUp"] /\ q # <<>> /\ Head(q) = Next1(t) /\ Head(q).kind # "data"
        BY <1>0, <1>1, <1>19, <3>1 DEF ReverseTypes, Ends, Next1
      <4>2. Only(q, {"data", "fin", "close"})
        BY <1>0, <3>1, <4>1 DEF Kinds
      <4>3. Head(q).kind \in {"data", "fin", "close"}
        BY <4>1, <4>2, OnlyTail
      <4> QED
        BY <1>2, <4>1, <4>3
    <3> QED
      BY <3>1
  <2>3. orderly => "targetUp" \in shut'
    BY <1>4, <1>10, <1>19
  <2>4. "agentDown" \in ps => hop["remoteToTunnel"] = "done"
    BY <1>4, <1>14, <1>19
  <2>5. Reasons'
    BY <1>0, <1>1, <1>5, <1>6, <1>10, <1>11, <1>12, <1>14, <1>19, <2>1, <2>2, <2>3, <2>4 DEF Reasons
  <2> QED
    BY <2>5, <1>9, <1>13, <1>17, <1>18, ClosingKeeps
<1>20. CASE t = "remoteToTunnel"
  <2>1. "agentDown" \in deaf \/ "targetDown" \in shut
    BY <1>0, <1>1, <1>20, HopEnds DEF Cuttable
  <2>2. "agentDown" \in deaf \/ "targetUp" \in deaf \/ orderly
    <3>1. CASE "agentDown" \notin deaf /\ "targetUp" \notin deaf
      <4>1. PICK q \in Items : q = flow["targetDown"] /\ q # <<>> /\ Head(q) = Next1(t) /\ Head(q).kind # "data"
        BY <1>0, <1>1, <1>20, <3>1 DEF ReverseTypes, Ends, Next1
      <4>2. Only(q, {"data", "fin"})
        BY <1>0, <3>1, <4>1 DEF Kinds
      <4>3. Head(q).kind \in {"data", "fin"}
        BY <4>1, <4>2, OnlyTail
      <4> QED
        BY <1>2, <4>1, <4>3
    <3> QED
      BY <3>1
  <2>3. orderly => "agentDown" \in shut'
    BY <1>4, <1>10, <1>20
  <2>4. "targetUp" \in ps => hop["localupToRemote"] = "done"
    BY <1>4, <1>14, <1>20
  <2>5. Reasons'
    BY <1>0, <1>1, <1>5, <1>6, <1>10, <1>11, <1>12, <1>14, <1>20, <2>1, <2>2, <2>3, <2>4 DEF Reasons
  <2> QED
    BY <2>5, <1>9, <1>13, <1>17, <1>18, ClosingKeeps
<1> QED
  BY <1>1, <1>19, <1>20

(***************************************************************************)
(* Pieces that move.                                                       *)
(***************************************************************************)
\* A pipe is left alone, loses its first item, or gets one more piece.
Moved(p) ==
    \/ flow'[p] = flow[p]
    \/ /\ flow[p] # <<>> /\ flow'[p] = Tail(flow[p])
       /\ p = "agentDown" => relayAt # "answer"
    \/ /\ p \notin deaf \cup shut /\ \E x \in Item : x.kind = "data" /\ flow'[p] = flow[p] \o <<x>>
       /\ p = "agentDown" => agentAt \notin {"unasked", "asked"}

LEMMA MovedOnly ==
    ASSUME ReverseTypes, NEW p \in Conduit, Moved(p), NEW K, Only(flow[p], K), "data" \in K
    PROVE  Only(flow'[p], K)
<1>1. PICK q \in Items : q = flow[p]
  BY DEF ReverseTypes
<1>2. CASE flow[p] # <<>> /\ flow'[p] = Tail(flow[p])
  BY <1>1, <1>2, OnlyTail
<1>3. CASE \E x \in Item : x.kind = "data" /\ flow'[p] = flow[p] \o <<x>>
  <2>1. PICK x \in Item : x.kind = "data" /\ flow'[p] = q \o <<x>>
    BY <1>1, <1>3
  <2>2. PICK z \in Items : z = <<x>> /\ Only(z, K)
    BY <2>1, Single, OnlyFew
  <2> QED
    BY <1>1, <2>1, <2>2, OnlyJoined
<1> QED
  BY <1>2, <1>3 DEF Moved

LEMMA MovesKeep ==
    ASSUME ReverseInv, ReverseTypes', ReverseChain', UNCHANGED <<deaf, shut, hop, relayAt, agentAt, cut>>,
           \A p \in Conduit : Moved(p)
    PROVE  ReverseInv'
<1> USE Names
<1>0. ReverseTypes /\ Steps /\ Reasons /\ Kinds /\ Answer
  BY DEF ReverseInv
<1>1. Steps'
  BY <1>0 DEF Steps
<1>2. Refused' <=> Refused
  BY DEF Refused
<1>3. Reasons'
  BY <1>0, <1>2 DEF Reasons
<1>4. ASSUME NEW p \in Conduit
      PROVE  /\ Unmarked(flow'[p]) \/ p \in shut' \/ (p \in deaf' /\ p \in Cuttable /\ cut' # {})
             /\ p \in deaf' => flow'[p] = <<>> \/ (p \in Cuttable /\ cut' # {})
  <2>1. Unmarked(flow[p]) => Unmarked(flow'[p])
    BY <1>0, MovedOnly DEF Unmarked
  <2>2. p \in deaf /\ flow[p] = <<>> => flow'[p] = <<>>
    BY DEF Moved
  <2> QED
    BY <1>0, <2>1, <2>2 DEF Kinds
<1>5. ASSUME NEW p \in Conduit, p # "agentDown" \/ relayAt' # "answer"
      PROVE  Only(flow'[p], EndSign \cup {"data"})
  <2>1. Only(flow[p], EndSign \cup {"data"})
    BY <1>0, <1>5 DEF Kinds
  <2> QED
    BY <1>0, <2>1, MovedOnly
<1>6. ASSUME NEW L, L = IF "targetUp" \in deaf THEN {"data", "fin", "reset"} ELSE {"data", "fin"}
      PROVE  Only(flow'["targetDown"], L)
  <2>1. Only(flow["targetDown"], L) /\ "data" \in L
    BY <1>0, <1>6 DEF Kinds
  <2> QED
    BY <1>0, <2>1, MovedOnly
<1>7. ASSUME NEW L, L = IF cut # {} THEN {"data", "fin", "close", "reset"} ELSE {"data", "fin", "close"}
      PROVE  Only(flow'["agentUp"], L)
  <2>1. Only(flow["agentUp"], L) /\ "data" \in L
    BY <1>0, <1>7 DEF Kinds
  <2> QED
    BY <1>0, <2>1, MovedOnly
<1>8. Kinds'
  BY <1>4, <1>5, <1>6, <1>7 DEF Kinds
<1>9. Answer'
  <2>0. PICK q \in Items : q = flow["agentDown"]
    BY <1>0 DEF ReverseTypes
  <2>1. Moved("agentDown")
    OBVIOUS
  <2>2. ASSUME agentAt \in {"unasked", "asked"} PROVE "agentDown" \in deaf \/ flow'["agentDown"] = <<>>
    BY <1>0, <2>1, <2>2 DEF Answer, Moved
  <2>3. ASSUME relayAt = "answer", q # <<>>, Head(q).kind = "accept"
        PROVE  flow'["agentDown"] # <<>> /\ Head(flow'["agentDown"]).kind = "accept"
    <3>1. flow'["agentDown"] = q \/ \E x \in Item : flow'["agentDown"] = q \o <<x>>
      BY <2>0, <2>1, <2>3 DEF Moved
    <3>2. ASSUME NEW x \in Item, flow'["agentDown"] = q \o <<x>>
          PROVE  flow'["agentDown"] # <<>> /\ Head(flow'["agentDown"]).kind = "accept"
      <4>1. <<x>> \in Items
        BY Single
      <4> QED
        BY <2>3, <3>2, <4>1, HeadStays
    <3> QED
      BY <2>3, <3>1, <3>2
  <2> QED
    BY <1>0, <2>0, <2>2, <2>3 DEF Answer
<1> QED
  BY <1>1, <1>3, <1>8, <1>9 DEF ReverseInv

\* What an end can still read was written.
LEMMA ChainBound ==
    ASSUME ReverseTypes, NEW put \in [Conduit -> Nat], NEW taken \in [Conduit -> Nat], Numbers(put, taken), NEW e \in Side
    PROVE  taken[Reads[e]] <= put[Reads[e]] /\ put[Reads[e]] <= sent[Opposite[e]]
<1> USE Names
<1>1. \A p \in Conduit : taken[p] <= put[p] /\ taken[p] \in Nat /\ put[p] \in Nat
  BY DEF Numbers, Legs, Leg
<1>2. /\ put["localUp"] = sent["local"] /\ put["targetDown"] = sent["target"]
      /\ put["clientUp"] = taken["localUp"] /\ put["agentUp"] = taken["clientUp"] /\ put["targetUp"] = taken["agentUp"]
      /\ put["agentDown"] = taken["targetDown"] /\ put["clientDown"] = taken["agentDown"]
      /\ put["localDown"] = taken["clientDown"]
  BY SMTT(60) DEF Numbers, Linked
<1> QED
  BY <1>1, <1>2

\* The number of one pipe goes up by one.
LEMMA OneMore ==
    ASSUME NEW f \in [Conduit -> Nat], NEW p \in Conduit
    PROVE  \E g \in [Conduit -> Nat] : g[p] = f[p] + 1 /\ \A q \in Conduit \ {p} : g[q] = f[q]
<1>1. PICK g : g = [f EXCEPT ![p] = f[p] + 1]
  OBVIOUS
<1>2. g \in [Conduit -> Nat] /\ g[p] = f[p] + 1 /\ \A q \in Conduit \ {p} : g[q] = f[q]
  BY <1>1
<1> QED
  BY <1>2

LEMMA SendsKeeps ==
    ASSUME ReverseInv, NEW e \in Side, Sends(e)
    PROVE  ReverseInv'
<1> USE Names
<1>0. ReverseTypes /\ Kinds /\ ReverseChain
  BY DEF ReverseInv
<1>1. /\ Writes[e] \notin shut /\ sent' = [sent EXCEPT ![e] = @ + 1]
      /\ flow' = After(Writes[e], <<Piece(sent[e] + 1)>>, {}, {})
      /\ UNCHANGED <<deaf, shut, hop, relayAt, agentAt, entry, received, heard, cut>>
  BY DEF Sends
<1>2. PICK w \in Conduit, x \in Item : w = Writes[e] /\ x = Piece(sent[e] + 1) /\ x.kind = "data"
  BY <1>0, ItemKinds DEF ReverseTypes
<1>3. <<x>> \in Items /\ w \notin shut
  BY <1>1, <1>2, Single
<1>4. ASSUME NEW p \in Conduit
      PROVE  flow'[p] = IF p = w /\ p \notin deaf THEN flow[p] \o <<x>> ELSE flow[p]
  <2>1. PICK q \in Items : q = flow[p]
    BY <1>0 DEF ReverseTypes
  <2>2. q \o <<>> = q /\ (q \o <<x>>) \o <<>> = q \o <<x>>
    BY <1>3, Joined, ConcatEmptySeq DEF Items
  <2> QED
    BY <1>1, <1>2, <1>3, <2>1, <2>2 DEF After
<1>5. ReverseTypes'
  <2>1. \A p \in Conduit : flow[p] \o <<x>> \in Items /\ flow[p] \in Items
    BY <1>0, <1>3, Joined DEF ReverseTypes
  <2>2. flow' = [p \in Conduit |-> flow'[p]]
    BY <1>1 DEF After
  <2>3. flow' \in [Conduit -> Items]
    BY <1>4, <2>1, <2>2
  <2>4. sent' \in [Side -> Nat]
    BY <1>0, <1>1 DEF ReverseTypes
  <2> QED
    BY <1>0, <1>1, <2>3, <2>4 DEF ReverseTypes
<1>6. \A p \in Conduit : Moved(p)
  BY <1>2, <1>3, <1>4 DEF Moved
<1>7. PICK put \in [Conduit -> Nat], taken \in [Conduit -> Nat] : Numbers(put, taken)
  BY <1>0 DEF ReverseChain
<1>8. Linked(put, taken) /\ Legs(put, taken) /\ Ended(put, taken)
  BY <1>7 DEF Numbers
<1>9. PICK put2 \in [Conduit -> Nat] : put2[w] = put[w] + 1 /\ \A p \in Conduit \ {w} : put2[p] = put[p]
  <2> HIDE Names
  <2> QED
    BY OneMore
<1>10. put[w] = sent[e] /\ sent'[e] = sent[e] + 1 /\ \A o \in Side \ {e} : sent'[o] = sent[o]
  BY <1>0, <1>1, <1>2, <1>8, ZenonT(60) DEF Linked, ReverseTypes
<1>11. Linked(put2, taken)'
  <2>1. \A o \in Side \ {e} : Writes[o] # w
    BY <1>2
  <2>2. \A t \in Hop : Sink[t] \in Conduit \ {w}
    BY <1>2
  <2>3. \A t \in Hop : put2[Sink[t]] = taken[Source[t]]
    <3> HIDE Names
    <3> QED
      BY <1>8, <1>9, <2>2 DEF Linked
  <2>4. \A o \in Side : taken[Reads[o]] = Len(received'[o])
    BY <1>1, <1>8 DEF Linked
  <2>5. \A o \in Side \ {e} : put2[Writes[o]] = sent'[o]
    BY <1>8, <1>9, <1>10, <2>1, ZenonT(60) DEF Linked
  <2>6. put2[Writes[e]] = sent'[e]
    BY <1>2, <1>9, <1>10
  <2> HIDE Names
  <2> QED
    BY <2>3, <2>4, <2>5, <2>6 DEF Linked
<1>12. ASSUME NEW p \in Conduit PROVE Leg(flow'[p], p \in deaf', taken[p], put2[p])
  <2>0. PICK q \in Items, m \in Nat, n \in Nat : q = flow[p] /\ m = taken[p] /\ n = put[p]
    BY <1>0 DEF ReverseTypes
  <2>1. Leg(q, p \in deaf, m, n) /\ m <= n
    BY <1>8, <2>0 DEF Legs, Leg
  <2>2. CASE p # w
    BY <1>1, <1>4, <1>9, <2>0, <2>1, <2>2
  <2>3. CASE p = w /\ p \in deaf
    BY <1>1, <1>4, <1>9, <2>0, <2>1, <2>3 DEF Leg
  <2>4. CASE p = w /\ p \notin deaf
    <3>1. Unmarked(q) /\ Leg(q, FALSE, m, n)
      BY <1>0, <1>3, <2>0, <2>1, <2>4 DEF Kinds, Leg
    <3>2. Leg(q \o <<Piece(n + 1)>>, FALSE, m, n + 1)
      BY <3>1, LegPut
    <3>3. x = Piece(n + 1) /\ put2[p] = n + 1
      BY <1>2, <1>9, <1>10, <2>0, <2>4
    <3> QED
      BY <1>1, <1>4, <2>0, <2>4, <3>2, <3>3 DEF Leg
  <2> QED
    BY <2>2, <2>3, <2>4
<1>13. Ended(put2, taken)'
  <2>1. \A o \in Side : Excused(o)' <=> Excused(o)
    BY <1>1 DEF Excused, Refused
  <2>2. ASSUME NEW o \in Side, o # e, NEW n PROVE ~AllSent(o, n)
    BY <1>1, <2>2 DEF AllSent
  <2>3. ASSUME NEW o \in Side, o \in heard' PROVE Excused(o)' \/ AllSent(o, taken[Reads[o]])'
    <3>1. Excused(o) \/ AllSent(o, taken[Reads[o]])
      BY <1>1, <1>8, <2>3 DEF Ended
    <3>2. PICK n : n = taken[Reads[o]]
      OBVIOUS
    <3>3. CASE o = e
      BY <1>1, <1>10, <2>1, <3>1, <3>3 DEF AllSent
    <3>4. CASE o # e
      BY <2>1, <2>2, <3>1, <3>2, <3>4
    <3> QED
      BY <3>3, <3>4
  <2>4. ASSUME NEW p \in Conduit
        PROVE  p \in deaf' \/ Unmarked(flow'[p]) \/ Excused(Toward[p])' \/ AllSent(Toward[p], put2[p])'
    <3>0. PICK o \in Side : o = Toward[p]
      OBVIOUS
    <3>1. Unmarked(flow[p]) => Unmarked(flow'[p])
      BY <1>0, <1>6, MovedOnly DEF Unmarked
    <3>2. p \in deaf \/ Unmarked(flow[p]) \/ Excused(o) \/ AllSent(o, put[p])
      BY <1>8, <3>0 DEF Ended
    <3>3. CASE o = e
      <4>1. p # w
        BY <1>2, <3>0, <3>3
      <4>2. AllSent(o, put[p]) => AllSent(o, put2[p])'
        BY <1>1, <1>9, <1>10, <3>3, <4>1 DEF AllSent
      <4> QED
        BY <1>1, <2>1, <3>0, <3>1, <3>2, <4>2
    <3>4. CASE o # e
      BY <1>1, <2>1, <2>2, <3>0, <3>1, <3>2, <3>4
    <3> QED
      BY <3>3, <3>4
  <2> QED
    BY <2>3, <2>4 DEF Ended
<1>14. Numbers(put2, taken)' /\ Numbered'
  BY <1>0, <1>1, <1>11, <1>12, <1>13 DEF Numbers, Legs, ReverseChain, Numbered
<1>15. ReverseChain'
  BY <1>14 DEF ReverseChain
<1> QED
  BY <1>1, <1>5, <1>6, <1>15, MovesKeep

LEMMA ReceivesKeeps ==
    ASSUME ReverseInv, NEW e \in Side, Receives(e)
    PROVE  ReverseInv'
<1>0. ReverseTypes /\ Kinds /\ ReverseChain
  BY DEF ReverseInv
<1>1. PICK w \in Conduit : w = Reads[e] /\ w # "agentDown" /\ w \notin deaf
  BY Names DEF Receives, Leaving
<1>2. PICK q \in Items : q = flow[w] /\ q # <<>>
  BY <1>0, <1>1 DEF Receives, ReverseTypes
<1>3. PICK r \in Items : r = Tail(q) /\ Head(q) \in Item /\ q = flow[w] /\ q # <<>>
  BY <1>2, HeadTail
<1>4. /\ flow' = [flow EXCEPT ![w] = r]
      /\ UNCHANGED <<deaf, shut, hop, relayAt, agentAt, entry, sent, cut>>
      /\ IF Head(q).kind = "data"
         THEN received' = [received EXCEPT ![e] = Append(@, Head(q).n)] /\ UNCHANGED heard
         ELSE heard' = heard \cup {e} /\ UNCHANGED received
  BY <1>1, <1>3 DEF Receives
<1>5. \A p \in Conduit : flow'[p] = IF p = w THEN r ELSE flow[p]
  BY <1>0, <1>4 DEF ReverseTypes
<1>6. ReverseTypes'
  <2>1. flow' \in [Conduit -> Items]
    BY <1>0, <1>4 DEF ReverseTypes
  <2>2. Head(q).n \in Nat
    BY <1>3 DEF Item
  <2>3. received' \in [Side -> Seq(Nat)]
    <3>1. Append(received[e], Head(q).n) \in Seq(Nat)
      BY <1>0, <2>2, AppendProperties DEF ReverseTypes
    <3> QED
      BY <1>0, <1>4, <3>1 DEF ReverseTypes
  <2>4. heard' \subseteq Side
    BY <1>0, <1>4 DEF ReverseTypes
  <2> QED
    BY <1>0, <1>4, <2>1, <2>3, <2>4 DEF ReverseTypes
<1>7. \A p \in Conduit : Moved(p)
  BY <1>1, <1>3, <1>5 DEF Moved
<1>8. PICK put \in [Conduit -> Nat], taken \in [Conduit -> Nat] : Numbers(put, taken)
  BY <1>0 DEF ReverseChain
<1>9. Linked(put, taken) /\ Legs(put, taken) /\ Ended(put, taken)
  BY <1>8 DEF Numbers
<1>10. PICK m \in Nat, n \in Nat : m = taken[w] /\ n = put[w] /\ m = Len(received[e])
  BY <1>1, <1>9 DEF Linked
<1>11. Leg(q, FALSE, m, n)
  BY <1>1, <1>3, <1>9, <1>10 DEF Legs, Leg
<1>12. \A o \in Side : Excused(o)' <=> Excused(o)
  BY <1>4 DEF Excused, Refused
<1>13. \A o \in Side, k \in Nat : AllSent(o, k)' <=> AllSent(o, k)
  BY <1>4 DEF AllSent
<1>14. ASSUME NEW p \in Conduit
       PROVE  p \in deaf' \/ Unmarked(flow'[p]) \/ Excused(Toward[p])' \/ AllSent(Toward[p], put[p])'
  <2>1. Unmarked(flow[p]) => Unmarked(flow'[p])
    BY <1>0, <1>7, MovedOnly DEF Unmarked
  <2>2. Toward[p] \in Side /\ put[p] \in Nat
    BY Names
  <2>3. p \in deaf \/ Unmarked(flow[p]) \/ Excused(Toward[p]) \/ AllSent(Toward[p], put[p])
    BY <1>9 DEF Ended
  <2> QED
    BY <1>4, <1>12, <1>13, <2>1, <2>2, <2>3
<1>15. CASE Head(q).kind = "data"
  <2>1. Head(q) = Piece(m + 1) /\ Leg(r, FALSE, m + 1, n)
    BY <1>3, <1>11, <1>15, LegTake
  <2>2. Head(q).n = m + 1 /\ m + 1 <= n
    BY <2>1, ItemKinds DEF Leg
  <2>3. PICK taken2 \in [Conduit -> Nat] : taken2[w] = taken[w] + 1 /\ \A p \in Conduit \ {w} : taken2[p] = taken[p]
    <3> QED
      BY OneMore
  <2>4. PICK a \in Seq(Nat), b \in Seq(Nat) : a = received[e] /\ b = received'[e] /\ b = Append(a, m + 1) /\ heard' = heard
    <3>1. received[e] \in Seq(Nat) /\ received'[e] \in Seq(Nat)
      BY <1>0, <1>6 DEF ReverseTypes
    <3>2. received'[e] = Append(received[e], m + 1) /\ heard' = heard
      BY <1>0, <1>4, <1>15, <2>2 DEF ReverseTypes
    <3> QED
      BY <3>1, <3>2
  <2>5. /\ Len(b) = m + 1 /\ b[m + 1] = m + 1 /\ \A i \in 1 .. m : b[i] = a[i]
    BY <1>10, <2>4, AppendProperties
  <2>6. \A o \in Side \ {e} : received'[o] = received[o]
    BY <1>0, <1>4, <1>15 DEF ReverseTypes
  <2>7. Numbered'
    <3>1. ASSUME NEW k \in 1 .. Len(b) PROVE b[k] = k
      <4>1. CASE k = m + 1
        BY <2>5, <4>1
      <4>2. CASE k # m + 1
        <5>1. k \in 1 .. Len(a)
          BY <1>10, <2>4, <2>5, <4>2
        <5>2. a[k] = k
          BY <1>0, <2>4, <5>1 DEF ReverseChain, Numbered
        <5> QED
          BY <1>10, <2>4, <2>5, <5>1, <5>2
      <4> QED
        BY <4>1, <4>2
    <3>2. ASSUME NEW o \in Side \ {e}, NEW k \in 1 .. Len(received'[o]) PROVE received'[o][k] = k
      BY <1>0, <2>6 DEF ReverseChain, Numbered
    <3> QED
      BY <2>4, <3>1, <3>2 DEF Numbered
  <2>8. Linked(put, taken2)'
    <3>0. w \in {"localDown", "targetUp"}
      BY <1>1, Names
    <3>1. \A t \in Hop : Source[t] \in Conduit \ {w}
      BY <3>0, Names, ZenonT(60)
    <3>2. \A o \in Side \ {e} : Reads[o] \in Conduit \ {w}
      BY <1>1, Names, ZenonT(60)
    <3>3. \A t \in Hop : put[Sink[t]] = taken2[Source[t]]
      BY <1>9, <2>3, <3>1 DEF Linked
    <3>4. \A o \in Side : put[Writes[o]] = sent'[o]
      BY <1>4, <1>9 DEF Linked
    <3>5. \A o \in Side \ {e} : taken2[Reads[o]] = Len(received'[o])
      BY <1>9, <2>3, <2>6, <3>2 DEF Linked
    <3>6. taken2[Reads[e]] = Len(received'[e])
      BY <1>1, <1>10, <2>3, <2>4, <2>5
    <3> QED
      BY <3>3, <3>4, <3>5, <3>6 DEF Linked
  <2>9. ASSUME NEW p \in Conduit PROVE Leg(flow'[p], p \in deaf', taken2[p], put[p])
    <3>1. CASE p = w
      BY <1>1, <1>4, <1>5, <1>10, <2>1, <2>3, <3>1 DEF Leg
    <3>2. CASE p # w
      BY <1>4, <1>5, <1>9, <2>3, <3>2 DEF Legs
    <3> QED
      BY <3>1, <3>2
  <2>10. ASSUME NEW o \in Side, o \in heard' PROVE Excused(o)' \/ AllSent(o, taken2[Reads[o]])'
    <3>1. Excused(o) \/ AllSent(o, taken[Reads[o]])
      BY <1>9, <2>4, <2>10 DEF Ended
    <3>2. CASE o = e
      <4>1. ~AllSent(o, taken[Reads[o]])
        <5>1. put[w] <= sent[Opposite[e]]
          BY <1>0, <1>1, <1>8, ChainBound
        <5>2. sent[Opposite[e]] \in Nat
          <6>1. Opposite[e] \in Side
            BY Names
          <6> QED
            BY <1>0, <6>1 DEF ReverseTypes
        <5>3. sent[Opposite[e]] # m
          BY <1>10, <2>2, <5>1, <5>2
        <5> QED
          BY <1>1, <1>10, <3>2, <5>3 DEF AllSent
      <4> QED
        BY <1>12, <3>1, <4>1
    <3>3. CASE o # e
      <4>1. Reads[o] \in Conduit \ {w} /\ taken[Reads[o]] \in Nat
        BY <1>1, <3>3, Names, ZenonT(60)
      <4> QED
        BY <1>12, <1>13, <2>3, <3>1, <4>1
    <3> QED
      BY <3>2, <3>3
  <2>11. Numbers(put, taken2)'
    BY <1>14, <2>8, <2>9, <2>10 DEF Numbers, Legs, Ended
  <2>12. ReverseChain'
    BY <2>7, <2>11 DEF ReverseChain
  <2> QED
    BY <1>4, <1>6, <1>7, <2>12, MovesKeep
<1>16. CASE Head(q).kind # "data"
  <2>1. Only(q, EndSign \cup {"data"})
    BY <1>0, <1>1, <1>3 DEF Kinds
  <2>2. Head(q).kind \in EndSign \cup {"data"}
    BY <1>3, <2>1, OnlyTail
  <2>3. Head(q).kind \in EndSign
    BY <1>16, <2>2
  <2>4. m = n /\ Leg(r, FALSE, m, n)
    BY <1>3, <1>11, <2>3, LegEnds
  <2>5. ~Unmarked(q)
    BY <1>3, <2>3, OnlyTail DEF Unmarked, EndSign
  <2>6. Excused(e) \/ AllSent(e, taken[w])
    <3>1. Toward[w] = e
      BY <1>1, Names
    <3> QED
      BY <1>1, <1>3, <1>9, <1>10, <2>4, <2>5, <3>1 DEF Ended
  <2>7. ASSUME NEW o \in Side, o \in heard' PROVE Excused(o)' \/ AllSent(o, taken[Reads[o]])'
    <3>1. Excused(o) \/ AllSent(o, taken[Reads[o]])
      <4>1. CASE o = e
        BY <1>1, <2>6, <4>1
      <4>2. CASE o # e
        BY <1>4, <1>9, <1>16, <2>7, <4>2 DEF Ended
      <4> QED
        BY <4>1, <4>2
    <3>2. taken[Reads[o]] \in Nat
      BY Names
    <3> QED
      BY <1>12, <1>13, <3>1, <3>2
  <2>8. ASSUME NEW p \in Conduit PROVE Leg(flow'[p], p \in deaf', taken[p], put[p])
    <3>1. CASE p = w
      BY <1>1, <1>4, <1>5, <1>10, <2>4, <3>1 DEF Leg
    <3>2. CASE p # w
      BY <1>4, <1>5, <1>9, <3>2 DEF Legs
    <3> QED
      BY <3>1, <3>2
  <2>9. Linked(put, taken)' /\ Numbered'
    BY <1>0, <1>4, <1>9, <1>16 DEF Linked, ReverseChain, Numbered
  <2>10. Numbers(put, taken)'
    BY <1>14, <2>7, <2>8, <2>9 DEF Numbers, Legs, Ended
  <2>11. ReverseChain'
    BY <2>9, <2>10 DEF ReverseChain
  <2> QED
    BY <1>4, <1>6, <1>7, <2>11, MovesKeep
<1> QED
  BY <1>15, <1>16

\* The pipe a hop that runs writes into is not shut while somebody reads it.
LEMMA SinkOpen ==
    ASSUME ReverseTypes, Steps, Reasons, NEW t \in Hop, hop[t] = "running", Sink[t] \in shut
    PROVE  FALSE
<1> USE Names
<1>1. t = "tcpToQuic" => FALSE
  BY DEF Reasons
<1>2. t = "quicToTcp" => FALSE
  BY DEF Reasons
<1>3. t \in {"clientToAgent", "agentToClient"} => FALSE
  BY DEF Reasons, Steps, AtRelay
<1>4. t = "localupToRemote" => FALSE
  BY DEF Reasons
<1>5. t = "remoteToTunnel" => FALSE
  BY DEF Reasons, Refused, Steps
<1> QED
  BY <1>1, <1>2, <1>3, <1>4, <1>5

LEMMA ForwardKeeps ==
    ASSUME ReverseInv, NEW t \in Hop, Forward(t)
    PROVE  ReverseInv'
<1> USE Names
<1>0. ReverseTypes /\ Kinds /\ ReverseChain /\ Steps /\ Reasons /\ Answer
  BY DEF ReverseInv
<1>1. PICK s \in Conduit, d \in Conduit : s = Source[t] /\ d = Sink[t] /\ s # d /\ Toward[s] = Toward[d]
  OBVIOUS
<1>2. PICK q \in Items, r \in Items, x \in Item :
        q = flow[s] /\ q # <<>> /\ r = Tail(q) /\ x = Head(q) /\ x.kind = "data" /\ x = Next1(t)
  BY <1>0, <1>1, HeadTail DEF Forward, ReverseTypes, Next1
<1>3. /\ hop[t] = "running"
      /\ UNCHANGED <<deaf, shut, hop, relayAt, agentAt, entry, sent, received, heard, cut>>
  BY DEF Forward, restVars
<1>4. d \notin shut
  BY <1>0, <1>1, <1>3, SinkOpen
<1>5. PICK z \in Items : z = flow[d] /\ Append(z, x) = z \o <<x>> /\ z \o <<x>> \in Items
  <2>1. PICK z \in Items : z = flow[d]
    BY <1>0 DEF ReverseTypes
  <2>2. <<x>> \in Items
    BY Single
  <2>3. Append(z, x) = z \o <<x>>
    BY AppendIsConcat DEF Items
  <2> QED
    BY <2>1, <2>2, <2>3, Joined
<1>6. ASSUME NEW p \in Conduit
      PROVE  flow'[p] = IF p = s THEN r ELSE IF p = d /\ d \notin deaf THEN z \o <<x>> ELSE flow[p]
  <2>1. flow' = IF d \in deaf THEN [flow EXCEPT ![s] = r]
                ELSE [[flow EXCEPT ![s] = r] EXCEPT ![d] = Append(@, x)]
    BY <1>1, <1>2, <1>4 DEF Forward, Rest1
  <2>2. flow = [c \in Conduit |-> flow[c]]
    BY <1>0 DEF ReverseTypes
  <2> HIDE Names
  <2> QED
    BY <1>1, <1>2, <1>5, <2>1, <2>2
<1>7. ReverseTypes'
  <2>1. flow' = [p \in Conduit |-> flow'[p]]
    <3>1. flow = [c \in Conduit |-> flow[c]]
      BY <1>0 DEF ReverseTypes
    <3> HIDE Names
    <3> QED
      BY <3>1 DEF Forward, Rest1
  <2>2. \A p \in Conduit : flow'[p] \in Items
    BY <1>0, <1>2, <1>5, <1>6 DEF ReverseTypes
  <2>3. flow' \in [Conduit -> Items]
    <3> HIDE Names
    <3> QED
      BY <2>1, <2>2
  <2> QED
    BY <1>0, <1>3, <2>3 DEF ReverseTypes
<1>8. ASSUME NEW p \in Conduit PROVE Moved(p)
  <2>1. CASE p = s
    <3>1. s = "agentDown" => relayAt # "answer"
      BY <1>0, <1>1, <1>3 DEF Steps, AtRelay
    <3> QED
      BY <1>2, <1>6, <2>1, <3>1 DEF Moved
  <2>2. CASE p = d /\ d \notin deaf
    <3>1. d = "agentDown" => agentAt \notin {"unasked", "asked"}
      BY <1>0, <1>1, <1>3 DEF Steps, AtAgent
    <3>2. flow'[p] = flow[p] \o <<x>>
      BY <1>1, <1>5, <1>6, <2>2, ZenonT(60)
    <3> QED
      BY <1>2, <1>4, <2>2, <3>1, <3>2 DEF Moved
  <2>3. CASE p # s /\ ~(p = d /\ d \notin deaf)
    BY <1>6, <2>3 DEF Moved
  <2> QED
    BY <2>1, <2>2, <2>3
<1>9. PICK put \in [Conduit -> Nat], taken \in [Conduit -> Nat] : Numbers(put, taken)
  BY <1>0 DEF ReverseChain
<1>10. Linked(put, taken) /\ Legs(put, taken) /\ Ended(put, taken)
  BY <1>9 DEF Numbers
<1>11. PICK put2 \in [Conduit -> Nat] : put2[d] = put[d] + 1 /\ \A p \in Conduit \ {d} : put2[p] = put[p]
  <2> HIDE Names
  <2> QED
    BY OneMore
<1>12. PICK taken2 \in [Conduit -> Nat] : taken2[s] = taken[s] + 1 /\ \A p \in Conduit \ {s} : taken2[p] = taken[p]
  <2> HIDE Names
  <2> QED
    BY OneMore
<1>13. PICK m \in Nat, n \in Nat, l \in Nat : m = taken[s] /\ n = put[s] /\ m = put[d] /\ l = taken[d]
  BY <1>1, <1>10 DEF Linked
<1>14. s \notin deaf /\ x = Piece(m + 1) /\ Leg(r, FALSE, m + 1, n)
  <2>1. PICK b \in BOOLEAN : b <=> s \in deaf
    OBVIOUS
  <2>2. Leg(q, b, m, n)
    BY <1>2, <1>10, <1>13, <2>1 DEF Legs, Leg
  <2> HIDE Names
  <2>3. ~b /\ x = Piece(m + 1) /\ Leg(r, b, m + 1, n)
    BY <1>2, <2>2, LegTake
  <2> QED
    BY <2>1, <2>3 DEF Leg
<1>15. Linked(put2, taken2)'
  <2>1. /\ \A o \in Side : Writes[o] \in Conduit \ {d} /\ Reads[o] \in Conduit \ {s}
        /\ \A u \in Hop \ {t} : Source[u] \in Conduit \ {s} /\ Sink[u] \in Conduit \ {d}
    BY <1>1
  <2> HIDE Names
  <2>2. \A o \in Side : put2[Writes[o]] = sent'[o] /\ taken2[Reads[o]] = Len(received'[o])
    BY <1>3, <1>10, <1>11, <1>12, <2>1 DEF Linked
  <2>3. \A u \in Hop \ {t} : put2[Sink[u]] = taken2[Source[u]]
    BY <1>10, <1>11, <1>12, <2>1 DEF Linked
  <2>4. put2[Sink[t]] = taken2[Source[t]]
    BY <1>1, <1>11, <1>12, <1>13
  <2> QED
    BY <2>2, <2>3, <2>4 DEF Linked
<1>16. ASSUME NEW p \in Conduit PROVE Leg(flow'[p], p \in deaf', taken2[p], put2[p])
  <2>1. CASE p = s
    BY <1>1, <1>3, <1>6, <1>11, <1>12, <1>13, <1>14, <2>1 DEF Leg
  <2>2. CASE p = d /\ d \in deaf
    <3>1. Only(z, EndSign) /\ l <= m
      BY <1>5, <1>10, <1>13, <2>2 DEF Legs, Leg
    <3>2. taken2[p] = l /\ put2[p] = m + 1 /\ l <= m + 1
      BY <1>1, <1>11, <1>12, <1>13, <2>2, <3>1
    <3> QED
      BY <1>1, <1>3, <1>5, <1>6, <2>2, <3>1, <3>2 DEF Leg
  <2>3. CASE p = d /\ d \notin deaf
    <3>1. Leg(z, FALSE, l, m)
      BY <1>5, <1>10, <1>13, <2>3 DEF Legs, Leg
    <3>2. Unmarked(z)
      BY <1>0, <1>4, <1>5, <2>3 DEF Kinds
    <3>3. Leg(z \o <<Piece(m + 1)>>, FALSE, l, m + 1)
      BY <3>1, <3>2, LegPut
    <3>4. taken2[p] = l /\ put2[p] = m + 1
      BY <1>1, <1>11, <1>12, <1>13, <2>3
    <3> QED
      BY <1>1, <1>3, <1>6, <1>14, <2>3, <3>3, <3>4 DEF Leg
  <2>4. CASE p # s /\ p # d
    BY <1>3, <1>6, <1>10, <1>11, <1>12, <2>4 DEF Legs
  <2> QED
    BY <2>1, <2>2, <2>3, <2>4
<1>17. \A o \in Side : Excused(o)' <=> Excused(o)
  BY <1>3 DEF Excused, Refused
<1>18. \A o \in Side, k \in Nat : AllSent(o, k)' <=> AllSent(o, k)
  BY <1>3 DEF AllSent
<1>19. ASSUME NEW o \in Side, o \in heard' PROVE Excused(o)' \/ AllSent(o, taken2[Reads[o]])'
  <2>1. Reads[o] \in Conduit \ {s} /\ taken[Reads[o]] \in Nat
    BY <1>1
  <2>2. Excused(o) \/ AllSent(o, taken[Reads[o]])
    BY <1>3, <1>10, <1>19 DEF Ended
  <2> HIDE Names
  <2> QED
    BY <1>12, <1>17, <1>18, <2>1, <2>2
<1>20. ASSUME NEW p \in Conduit
       PROVE  p \in deaf' \/ Unmarked(flow'[p]) \/ Excused(Toward[p])' \/ AllSent(Toward[p], put2[p])'
  <2>1. Unmarked(flow[p]) => Unmarked(flow'[p])
    BY <1>0, <1>8, MovedOnly DEF Unmarked
  <2>2. Toward[p] \in Side /\ put[p] \in Nat
    OBVIOUS
  <2> HIDE Names
  <2>3. CASE p = d
    <3>1. p \in deaf \/ Unmarked(flow[p])
      BY <1>0, <1>4, <2>3 DEF Kinds
    <3> QED
      BY <1>3, <2>1, <3>1
  <2>4. CASE p # d
    <3>1. p \in deaf \/ Unmarked(flow[p]) \/ Excused(Toward[p]) \/ AllSent(Toward[p], put[p])
      BY <1>10 DEF Ended
    <3> QED
      BY <1>3, <1>11, <1>17, <1>18, <2>1, <2>2, <2>4, <3>1
  <2> QED
    BY <2>3, <2>4
<1>21. Numbers(put2, taken2)' /\ Numbered'
  BY <1>0, <1>3, <1>15, <1>16, <1>19, <1>20 DEF Numbers, Legs, Ended, ReverseChain, Numbered
<1>22. ReverseChain'
  BY <1>21 DEF ReverseChain
<1> QED
  BY <1>3, <1>7, <1>8, <1>22, MovesKeep

(***************************************************************************)
(* The induction.                                                          *)
(***************************************************************************)
LEMMA ReverseStarts ==
    ASSUME StreamInit
    PROVE  ReverseInv
<1> USE Names
<1>1. /\ \A p \in Conduit : flow[p] = <<>>
      /\ \A t \in Hop : hop[t] = "idle"
      /\ \A e \in Side : sent[e] = 0 /\ received[e] = <<>>
      /\ deaf = {} /\ shut = {} /\ cut = {} /\ heard = {} /\ relayAt = "unasked" /\ agentAt = "unasked"
  BY DEF StreamInit
<1>2. ReverseTypes
  BY Single DEF StreamInit, ReverseTypes
<1>3. Kinds
  BY <1>1, OnlyFew DEF Kinds, Unmarked
<1>4. Answer /\ Steps
  BY <1>1 DEF Answer, Steps, AtClient, AtRelay, AtAgent
<1>5. Reasons
  BY <1>1 DEF Reasons
<1>6. ReverseChain
  <2>1. PICK put \in [Conduit -> Nat] : \A p \in Conduit : put[p] = 0
    <3>1. PICK g : g = [p \in Conduit |-> 0]
      OBVIOUS
    <3>2. g \in [Conduit -> Nat] /\ \A p \in Conduit : g[p] = 0
      BY <3>1
    <3> HIDE Names
    <3> QED
      BY <3>2
  <2>2. Linked(put, put)
    BY <1>1, <2>1 DEF Linked
  <2>3. Leg(<<>>, FALSE, 0, 0) /\ Unmarked(<<>>)
    BY LegEmpty, OnlyFew DEF Unmarked
  <2>4. Legs(put, put)
    BY <1>1, <2>1, <2>3 DEF Legs, Leg
  <2>5. Ended(put, put)
    BY <1>1, <2>3 DEF Ended
  <2>6. Numbered
    BY <1>1 DEF Numbered
  <2> HIDE Names
  <2> QED
    BY <2>2, <2>4, <2>5, <2>6 DEF ReverseChain, Numbers
<1> QED
  BY <1>2, <1>3, <1>4, <1>5, <1>6 DEF ReverseInv

LEMMA ReverseStutters ==
    ASSUME ReverseInv, UNCHANGED streamVars
    PROVE  ReverseInv'
<1>1. UNCHANGED <<flow, deaf, shut, hop, relayAt, agentAt, entry, sent, received, heard, cut>>
  BY DEF streamVars
<1>2. ReverseTypes' /\ Kinds' /\ Answer' /\ Steps'
  BY <1>1, ZenonT(60) DEF ReverseInv, ReverseTypes, Kinds, Answer, Steps
<1>3. Reasons'
  BY <1>1 DEF ReverseInv, Reasons, Refused
<1>4. ReverseChain'
  BY <1>1 DEF ReverseInv, ReverseChain, Numbered, Numbers, Linked, Legs, Ended, AllSent, Excused, Refused
<1> QED
  BY <1>2, <1>3, <1>4 DEF ReverseInv

LEMMA ReverseSteps ==
    ASSUME ReverseInv, [StreamNext]_streamVars
    PROVE  ReverseInv'
<1>1. ASSUME NEW e \in Side, Sends(e) \/ ShutsDown(e) \/ Leaves(e) \/ Receives(e) PROVE ReverseInv'
  BY <1>1, SendsKeeps, ShutsDownKeeps, LeavesKeeps, ReceivesKeeps
<1>2. ASSUME NEW c \in DOMAIN PipesOf, Cut(c) PROVE ReverseInv'
  BY <1>2, CutKeeps
<1>3. CASE RegisterConnection \/ UnregisterConnection
  BY <1>3, HandlerKeeps DEF RegisterConnection, UnregisterConnection
<1>4. CASE SettingUp
  BY <1>3, <1>4, OpenToRelayKeeps, AskAgentKeeps, ReadAnswerKeeps, RejectKeeps, AcceptForwardKeeps, DialKeeps
     DEF SettingUp
<1>5. ASSUME NEW t \in Hop, Task(t) PROVE ReverseInv'
  BY <1>5, ForwardKeeps, ClientHopKeeps, RelayLoopKeeps, AgentHopKeeps DEF Task
<1>6. CASE UNCHANGED streamVars
  BY <1>6, ReverseStutters
<1> QED
  BY <1>1, <1>2, <1>4, <1>5, <1>6 DEF StreamNext

\* What the numbers of a chain say of its end.
LEMMA ReverseMeans ==
    ASSUME ReverseInv
    PROVE  ReverseIntact
<1> USE Names
<1>0. ReverseTypes /\ ReverseChain
  BY DEF ReverseInv
<1>1. PICK put \in [Conduit -> Nat], taken \in [Conduit -> Nat] : Numbers(put, taken)
  BY <1>0 DEF ReverseChain
<1>2. ASSUME NEW e \in Side, NEW o \in Side, o = Opposite[e]
      PROVE  /\ received[e] = [i \in 1..Len(received[e]) |-> i] /\ Len(received[e]) <= sent[o]
             /\ (/\ e \in heard /\ Writes[e] \notin shut /\ ~Leaving(o)
                 /\ cut = {} /\ hop["localupToRemote"] # "idle")
                  => Len(received[e]) = sent[o] /\ Writes[o] \in shut
  <2>1. PICK a \in Seq(Nat) : a = received[e]
    BY <1>0 DEF ReverseTypes
  <2>2. \A k \in 1 .. Len(a) : a[k] = k
    BY <1>0, <2>1 DEF ReverseChain, Numbered
  <2>3. a = [i \in 1 .. Len(a) |-> i]
    <3> HIDE Names
    <3> QED
      BY <2>2
  <2>4. Reads[e] \in Conduit
    OBVIOUS
  <2> HIDE Names
  <2>5. taken[Reads[e]] = Len(a) /\ put[Reads[e]] \in Nat /\ taken[Reads[e]] \in Nat /\ sent[o] \in Nat
    BY <1>0, <1>1, <2>1, <2>4 DEF Numbers, Linked, ReverseTypes
  <2>6. taken[Reads[e]] <= put[Reads[e]] /\ put[Reads[e]] <= sent[Opposite[e]]
    BY <1>0, <1>1, ChainBound
  <2>7. Len(a) <= sent[o]
    BY <1>2, <2>5, <2>6
  <2>8. ASSUME e \in heard, Writes[e] \notin shut, ~Leaving(o), cut = {}, hop["localupToRemote"] # "idle"
        PROVE  Len(a) = sent[o] /\ Writes[o] \in shut
    <3>1. ~Excused(e)
      BY <1>2, <2>8, Names DEF Excused, Refused, Leaving
    <3>2. AllSent(e, taken[Reads[e]])
      BY <1>1, <2>8, <3>1 DEF Numbers, Ended
    <3> QED
      BY <1>2, <2>5, <3>2 DEF AllSent
  <2> HIDE Names
  <2> QED
    BY <2>1, <2>3, <2>7, <2>8
<1>3. \A e \in Side : Opposite[e] \in Side
  OBVIOUS
<1> HIDE Names
<1> QED
  BY <1>2, <1>3 DEF ReverseIntact

\* What an end of a reverse stream reads is what the other wrote, in order; and of two ends
\* that only shut down their own side when they are done, the one that is still open has
\* everything when it reads the end, unless a connection was lost (handle_reverse_stream in
\* handler.rs, handle_reverse_connection in reverse_tunnel.rs, forwarder.rs).
THEOREM ReverseRight == ReverseSpec => []ReverseIntact
<1>1. StreamInit => ReverseInv
  BY ReverseStarts
<1>2. ReverseInv /\ [StreamNext]_streamVars => ReverseInv'
  BY ReverseSteps
<1>3. ReverseInv => ReverseIntact
  BY ReverseMeans
<1> QED
  BY <1>1, <1>2, <1>3, PTL DEF ReverseSpec
=============================================================================
