------------------------ MODULE FleetRegistryProofs ------------------------
(***************************************************************************)
(* Theorems about FleetRegistry, for any number of hosts, agents,          *)
(* addresses and concurrent requests.                                      *)
(***************************************************************************)
EXTENDS FleetRegistry, TLAPS

\* Only ids already given out are in use.
IssuedInv ==
    /\ \A a \in Agents : agent[a] # Nil => a \in issued
    /\ \A h \in Hosts : host[h] # Nil => h \in issued

\* The agent a request holds is or was its host's; no other host can have
\* it, because the id of a deleted agent is never given out again.
HoldsOwn(h, a) == a \in issued /\ agent[a] \in {h, Nil}

RequestInv(q) ==
    /\ q.agent # Nil => HoldsOwn(q.host, q.agent)
    /\ q.pc \in {"update", "read", "write", "registered"} \cup ConfigPCs
           => q.agent # Nil
    /\ q.pc \in RegisterPCs \cup {"edit", "registered"} => q.host # Nil
    /\ q.pc \in {"write", "edit"} => q.row # Nil
    /\ q.row # Nil /\ q.row.agent # Nil => HoldsOwn(q.host, q.row.agent)

RequestsInv == \A r \in Requests : RequestInv(req[r])

IInv ==
    /\ TypeOK
    /\ OneAgentPerHost
    /\ NoOrphans
    /\ MonitoringAgentOwned
    /\ IssuedInv
    /\ RequestsInv

\* The tables are empty at first, and no request is under way.
LEMMA InitIInv == Init => IInv
BY NilAssumption
   DEF Init, IInv, TypeOK, Request, Idle, OneAgentPerHost, NoOrphans,
       MonitoringAgentOwned, IssuedInv, RequestsInv, RequestInv,
       RunningPCs, RegisterPCs, ConfigPCs, AnsweredPCs

\* What requests hold depends on the agent table and the issued ids only.
LEMMA RequestsStep ==
    ASSUME IInv, UNCHANGED <<agent, issued>>,
           NEW r \in Requests, NEW q \in Request,
           req' = [req EXCEPT ![r] = q], RequestInv(q)
    PROVE  req' \in [Requests -> Request] /\ RequestsInv'
<1>1. req' \in [Requests -> Request]
  BY DEF IInv, TypeOK
<1>2. RequestsInv'
  <2> SUFFICES ASSUME NEW s \in Requests
               PROVE  RequestInv(req[s])'
    BY DEF RequestsInv
  <2>1. req'[s] \in {q, req[s]}
    BY DEF IInv, TypeOK
  <2>2. RequestInv(req[s])
    BY DEF IInv, RequestsInv
  <2> QED
    BY <2>1, <2>2 DEF RequestInv, HoldsOwn
<1> QED
  BY <1>1, <1>2

\* A step that only moves a request keeps the tables' invariants too.
LEMMA RequestStep ==
    ASSUME IInv, UNCHANGED <<host, agent, config, issued>>,
           NEW r \in Requests, NEW q \in Request,
           req' = [req EXCEPT ![r] = q], RequestInv(q)
    PROVE  IInv'
<1>1. req' \in [Requests -> Request] /\ RequestsInv'
  BY RequestsStep
<1>2. TypeOK'
  BY <1>1 DEF IInv, TypeOK
<1>3. OneAgentPerHost' /\ NoOrphans' /\ MonitoringAgentOwned' /\ IssuedInv'
  BY DEF IInv, OneAgentPerHost, NoOrphans, MonitoringAgentOwned, IssuedInv
<1> QED
  BY <1>1, <1>2, <1>3 DEF IInv

-----------------------------------------------------------------------------
(* The actions that only move a request.                                   *)

\* Answering leaves what the request holds; an answer other than a
\* registration claims nothing about it.
LEMMA AnswerStep ==
    ASSUME IInv, UNCHANGED <<host, agent, config, issued>>,
           NEW r \in Requests, NEW pc \in RunningPCs \cup AnsweredPCs,
           Answer(r, pc),
           pc \in {"update", "read", "write", "registered"} \cup ConfigPCs
              => req[r].agent # Nil,
           pc \in RegisterPCs \cup {"edit", "registered"} => req[r].host # Nil,
           pc \in {"write", "edit"} => req[r].row # Nil
    PROVE  IInv'
<1> DEFINE q == [req[r] EXCEPT !.pc = pc]
<1>1. /\ q \in Request
      /\ req' = [req EXCEPT ![r] = q]
  BY DEF IInv, TypeOK, Request, Answer
<1>2. RequestInv(q)
  BY DEF IInv, TypeOK, Request, RequestsInv, RequestInv, HoldsOwn
<1> QED
  BY <1>1, <1>2, RequestStep

\* A request answered 404 holds nothing.
LEMMA NotFoundInv == NotFound \in Request /\ RequestInv(NotFound)
BY DEF NotFound, Idle, Request, RequestInv, RunningPCs, RegisterPCs,
       ConfigPCs, AnsweredPCs

\* A slot that is free holds nothing.
LEMMA IdleInv == Idle \in Request /\ RequestInv(Idle)
BY DEF Idle, Request, RequestInv, RunningPCs, RegisterPCs, ConfigPCs,
       AnsweredPCs

\* What a handler reads in a host row is safe to write back later.
LEMMA NamedAgentHeld ==
    ASSUME IInv, NEW h \in Hosts, host[h] # Nil
    PROVE  /\ host[h] \in Row
           /\ host[h].agent # Nil => HoldsOwn(h, host[h].agent)
<1>1. host[h] \in Row
  BY DEF IInv, TypeOK
<1> QED
  BY <1>1, NilAssumption
     DEF IInv, MonitoringAgentOwned, IssuedInv, HoldsOwn, Row

\* A registration starts with its host only.
LEMMA StartRegisterIInv ==
    ASSUME IInv, NEW r \in Requests, NEW h \in Hosts, StartRegister(r, h)
    PROVE  IInv'
<1> DEFINE q == [Idle EXCEPT !.pc = "lookup", !.host = h]
<1>1. q \in Request /\ RequestInv(q)
  BY NilAssumption
     DEF Idle, Request, RequestInv, RunningPCs, RegisterPCs, ConfigPCs,
         AnsweredPCs
<1>2. CASE host[h] = Nil
  BY <1>2, NotFoundInv, RequestStep DEF StartRegister
<1>3. CASE host[h] # Nil
  BY <1>1, <1>3, RequestStep DEF StartRegister
<1> QED
  BY <1>2, <1>3

\* An edit holds the row it has read, whose agent is the host's.
LEMMA StartEditIInv ==
    ASSUME IInv, NEW r \in Requests, NEW h \in Hosts, StartEdit(r, h)
    PROVE  IInv'
<1> DEFINE q == [Idle EXCEPT !.pc = "edit", !.host = h, !.row = host[h]]
<1>1. CASE host[h] = Nil
  BY <1>1, NotFoundInv, RequestStep DEF StartEdit
<1>2. CASE host[h] # Nil
  <2>1. q \in Request
    BY <1>2, NamedAgentHeld DEF Idle, Request, RunningPCs
  <2>2. RequestInv(q)
    BY <1>2, NamedAgentHeld, NilAssumption
       DEF Idle, RequestInv, RegisterPCs, ConfigPCs
  <2> QED
    BY <1>2, <2>1, <2>2, RequestStep DEF StartEdit
<1> QED
  BY <1>1, <1>2

\* A request of an agent holds that agent, and the host it belongs to.
LEMMA FoundAgentInv ==
    ASSUME IInv, NEW a \in Agents, NEW pc \in ConfigPCs
    PROVE  FoundAgent(a, pc) \in Request /\ RequestInv(FoundAgent(a, pc))
<1>1. CASE agent[a] = Nil
  BY <1>1, NotFoundInv DEF FoundAgent
<1>2. CASE agent[a] # Nil
  <2>1. agent[a] \in Hosts /\ HoldsOwn(agent[a], a)
    BY <1>2 DEF IInv, TypeOK, IssuedInv, HoldsOwn
  <2> QED
    BY <1>2, <2>1, NilAssumption
       DEF FoundAgent, Idle, Request, RequestInv, RunningPCs, RegisterPCs,
           ConfigPCs, AnsweredPCs
<1> QED
  BY <1>1, <1>2

\* A heartbeat or a read of the configuration starts with an agent found.
LEMMA StartAgentRequestIInv ==
    ASSUME IInv, NEW r \in Requests, NEW a \in Agents,
           StartHeartbeat(r, a) \/ StartGetConfig(r, a)
    PROVE  IInv'
<1>1. PICK pc \in ConfigPCs : req' = [req EXCEPT ![r] = FoundAgent(a, pc)]
  BY DEF StartHeartbeat, StartGetConfig, ConfigPCs
<1>2. UNCHANGED <<host, agent, config, issued>>
  BY DEF StartHeartbeat, StartGetConfig
<1> QED
  BY <1>1, <1>2, FoundAgentInv, RequestStep

\* A registration takes the agent that is its own host's.
LEMMA LookupAgentIInv ==
    ASSUME IInv, NEW r \in Requests, LookupAgent(r)
    PROVE  IInv'
<1> USE DEF LookupAgent
<1>1. req[r].host # Nil
  BY DEF IInv, RequestsInv, RequestInv, RegisterPCs
<1>2. CASE Answer(r, "create")
  BY <1>1, <1>2, AnswerStep DEF RunningPCs, RegisterPCs, ConfigPCs
<1>3. ASSUME NEW a \in AgentsOf(req[r].host),
             req' = [req EXCEPT ![r].agent = a, ![r].pc = "update"]
      PROVE  IInv'
  <2> DEFINE q == [req[r] EXCEPT !.agent = a, !.pc = "update"]
  <2>1. a \in Agents /\ agent[a] = req[r].host
    BY <1>3 DEF AgentsOf
  <2>2. HoldsOwn(req[r].host, a)
    BY <1>1, <2>1 DEF IInv, IssuedInv, HoldsOwn
  <2>3. q \in Request /\ req' = [req EXCEPT ![r] = q]
    BY <1>3, <2>1 DEF IInv, TypeOK, Request, RunningPCs, RegisterPCs
  <2>4. RequestInv(q)
    BY <1>1, <2>1, <2>2, NilAssumption
       DEF IInv, TypeOK, Request, RequestsInv, RequestInv, ConfigPCs
  <2> QED
    BY <2>3, <2>4, RequestStep
<1> QED
  BY <1>2, <1>3

\* A registration takes the row of its own host.
LEMMA ReadHostIInv ==
    ASSUME IInv, NEW r \in Requests, ReadHost(r)
    PROVE  IInv'
<1> USE DEF ReadHost
<1> DEFINE h == req[r].host
           q == [req[r] EXCEPT !.row = host[h], !.pc = "write"]
<1>1. req[r].agent # Nil /\ h \in Hosts
  BY DEF IInv, TypeOK, Request, RequestsInv, RequestInv, RegisterPCs
<1>2. CASE Answer(r, "failed")
  BY <1>2, AnswerStep DEF AnsweredPCs, RegisterPCs, ConfigPCs
<1>3. CASE host[h] # Nil /\ req' = [req EXCEPT ![r].row = host[h],
                                              ![r].pc = "write"]
  <2>1. /\ host[h] \in Row
        /\ host[h].agent # Nil => HoldsOwn(h, host[h].agent)
    BY <1>1, <1>3, NamedAgentHeld
  <2>2. q \in Request /\ req' = [req EXCEPT ![r] = q]
    BY <1>3, <2>1 DEF IInv, TypeOK, Request, RunningPCs, RegisterPCs
  <2>3. RequestInv(q)
    BY <1>1, <1>3, <2>1, NilAssumption
       DEF IInv, TypeOK, Request, RequestsInv, RequestInv, RegisterPCs,
           ConfigPCs
  <2> QED
    BY <2>2, <2>3, RequestStep
<1> QED
  BY <1>2, <1>3

\* A request of an agent keeps its agent from one statement to the next.
LEMMA MoveConfigIInv ==
    ASSUME IInv, NEW r \in Requests, TouchAgent(r) \/ SelectConfig(r)
    PROVE  IInv'
<1>1. req[r].agent # Nil
  BY DEF TouchAgent, SelectConfig, IInv, RequestsInv, RequestInv, ConfigPCs
<1>2. PICK pc \in {"failed", "config", "served", "bootstrap"} : Answer(r, pc)
  BY DEF TouchAgent, SelectConfig
<1>3. UNCHANGED <<host, agent, config, issued>>
  BY DEF TouchAgent, SelectConfig
<1> QED
  BY <1>1, <1>2, <1>3, AnswerStep
     DEF RunningPCs, AnsweredPCs, RegisterPCs, ConfigPCs

\* A request that ends, however it does, leaves the tables alone.
LEMMA EndRequestIInv ==
    ASSUME IInv, NEW r \in Requests, AbortRequest(r) \/ FinishRequest(r)
    PROVE  IInv'
<1>1. CASE AbortRequest(r)
  BY <1>1, AnswerStep DEF AbortRequest, AnsweredPCs, RegisterPCs, ConfigPCs
<1>2. CASE FinishRequest(r)
  BY <1>2, IdleInv, RequestStep DEF FinishRequest
<1> QED
  BY <1>1, <1>2

-----------------------------------------------------------------------------
(* The actions that write the tables.                                      *)

LEMMA UpdateAgentIInv ==
    ASSUME IInv, NEW r \in Requests, UpdateAgent(r)
    PROVE  IInv'
<1> USE DEF UpdateAgent
<1> DEFINE a == req[r].agent
           h == req[r].host
<1>1. a # Nil /\ h # Nil /\ HoldsOwn(h, a) /\ a \in Agents /\ h \in Hosts
  BY DEF IInv, TypeOK, Request, RequestsInv, RequestInv, RegisterPCs
<1>2. CASE Answer(r, "failed") /\ UNCHANGED agent
  BY <1>2, AnswerStep DEF AnsweredPCs, RegisterPCs, ConfigPCs
<1>3. CASE agent[a] # Nil /\ agent' = [agent EXCEPT ![a] = h]
           /\ Answer(r, "read")
  \* The row already had this host_id: the statement changes nothing.
  <2>1. agent' = agent
    BY <1>1, <1>3 DEF IInv, TypeOK, HoldsOwn
  <2> QED
    BY <1>1, <1>3, <2>1, AnswerStep DEF RunningPCs, RegisterPCs, ConfigPCs
<1> QED
  BY <1>2, <1>3

\* A new agent has an id no host names, and its host had no agent.
LEMMA CreateAgentIInv ==
    ASSUME IInv, NEW r \in Requests, CreateAgent(r)
    PROVE  IInv'
<1> USE DEF CreateAgent
<1> DEFINE h == req[r].host
<1>1. h # Nil /\ h \in Hosts
  BY DEF IInv, TypeOK, Request, RequestsInv, RequestInv, RegisterPCs
<1>2. CASE Answer(r, "failed") /\ UNCHANGED <<agent, issued>>
  BY <1>2, AnswerStep DEF AnsweredPCs, RegisterPCs, ConfigPCs
<1>3. ASSUME NEW a \in Agents \ issued, MayOwn(a, h),
             agent' = [agent EXCEPT ![a] = h],
             issued' = issued \cup {a},
             req' = [req EXCEPT ![r].agent = a, ![r].pc = "read"]
      PROVE  IInv'
  <2> DEFINE q == [req[r] EXCEPT !.agent = a, !.pc = "read"]
  <2>1. TypeOK' /\ req' = [req EXCEPT ![r] = q] /\ q \in Request
    BY <1>1, <1>3 DEF IInv, TypeOK, Request, RunningPCs, RegisterPCs
  <2>2. agent[a] = Nil
    BY <1>3 DEF IInv, TypeOK, IssuedInv
  <2>3. OneAgentPerHost'
    BY <1>1, <1>3 DEF IInv, TypeOK, OneAgentPerHost, MayOwn
  <2>4. NoOrphans'
    BY <1>1, <1>3, <2>2 DEF IInv, TypeOK, NoOrphans, MayOwn
  <2>5. MonitoringAgentOwned'
    <3> SUFFICES ASSUME NEW g \in Hosts, host[g] # Nil, host[g].agent # Nil
                 PROVE  agent'[host[g].agent] = g
      BY DEF MonitoringAgentOwned
    <3> QED
      BY <1>3, <2>2, NamedAgentHeld
         DEF IInv, TypeOK, MonitoringAgentOwned, HoldsOwn, Row
  <2>6. IssuedInv'
    BY <1>1, <1>3 DEF IInv, TypeOK, IssuedInv
  <2>7. RequestsInv'
    <3> SUFFICES ASSUME NEW s \in Requests
                 PROVE  RequestInv(req[s])'
      BY DEF RequestsInv
    <3>1. \A g, b : b \in Agents /\ HoldsOwn(g, b) => HoldsOwn(g, b)'
      BY <1>3 DEF IInv, TypeOK, HoldsOwn
    <3>2. HoldsOwn(h, a)'
      BY <1>3 DEF IInv, TypeOK, HoldsOwn
    <3>3. /\ RequestInv(req[s])
          /\ req[s].agent \in Agents \cup {Nil}
          /\ req[s].row # Nil => req[s].row.agent \in Agents \cup {Nil}
      BY DEF IInv, TypeOK, Request, Row, RequestsInv
    <3>4. CASE s # r
      <4>1. req'[s] = req[s]
        BY <2>1, <3>4 DEF IInv, TypeOK
      <4> QED
        BY <3>1, <3>3, <4>1 DEF RequestInv
    <3>5. CASE s = r
      <4>1. req'[s] = q
        BY <2>1, <3>5 DEF IInv, TypeOK
      <4>2. /\ q.agent = a /\ q.pc = "read" /\ q.host = h
            /\ q.row = req[s].row
        BY <3>5 DEF IInv, TypeOK, Request
      <4> QED
        BY <1>1, <1>3, <3>1, <3>2, <3>3, <3>5, <4>1, <4>2, NilAssumption
           DEF RequestInv, RegisterPCs, ConfigPCs
    <3> QED
      BY <3>4, <3>5
  <2> QED
    BY <2>1, <2>3, <2>4, <2>5, <2>6, <2>7 DEF IInv
<1> QED
  BY <1>2, <1>3

\* Overwriting a host row with one whose agent is the host's own.
LEMMA WriteHostIInv ==
    ASSUME IInv, NEW h \in Hosts, NEW row \in Row, UpdateHost(h, row),
           row.agent # Nil => HoldsOwn(h, row.agent),
           UNCHANGED <<agent, config, issued>>,
           NEW r \in Requests, NEW pc \in {"registered", "edited"},
           Answer(r, pc), pc = "registered" => req[r].agent # Nil,
           req[r].host # Nil
    PROVE  IInv'
<1> DEFINE q == [req[r] EXCEPT !.pc = pc]
<1>1. host[h] # Nil /\ host' = [host EXCEPT ![h] = row]
      /\ (row.agent # Nil => agent[row.agent] = h)
  BY DEF UpdateHost, UpdateAllowed, HoldsOwn
<1>2. q \in Request /\ req' = [req EXCEPT ![r] = q]
  BY DEF IInv, TypeOK, Request, Answer, AnsweredPCs
<1>3. RequestInv(q)
  BY DEF IInv, TypeOK, Request, RequestsInv, RequestInv, RegisterPCs,
         ConfigPCs
<1>4. req' \in [Requests -> Request] /\ RequestsInv'
  BY <1>2, <1>3, RequestsStep
<1>5. TypeOK'
  BY <1>1, <1>4 DEF IInv, TypeOK
<1>6. OneAgentPerHost'
  BY DEF IInv, OneAgentPerHost
<1>7. NoOrphans'
  BY <1>1, NilAssumption DEF IInv, TypeOK, NoOrphans
<1>8. MonitoringAgentOwned'
  BY <1>1 DEF IInv, TypeOK, MonitoringAgentOwned
<1>9. IssuedInv'
  BY <1>1 DEF IInv, TypeOK, IssuedInv
<1> QED
  BY <1>4, <1>5, <1>6, <1>7, <1>8, <1>9 DEF IInv

\* A registration writes its own agent into the row that it read.
LEMMA AssignMonitoringAgentIInv ==
    ASSUME IInv, NEW r \in Requests, AssignMonitoringAgent(r)
    PROVE  IInv'
<1> USE DEF AssignMonitoringAgent
<1> DEFINE row == [req[r].row EXCEPT !.agent = req[r].agent]
<1>1. /\ req[r].agent # Nil /\ req[r].agent \in Agents
      /\ req[r].host # Nil /\ req[r].host \in Hosts
      /\ req[r].row \in Row
      /\ HoldsOwn(req[r].host, req[r].agent)
  BY DEF IInv, TypeOK, Request, RequestsInv, RequestInv, RegisterPCs
<1>2. row \in Row /\ row.agent = req[r].agent
  BY <1>1 DEF Row
<1>3. CASE Answer(r, "failed") /\ UNCHANGED host
  BY <1>3, AnswerStep DEF AnsweredPCs, RegisterPCs, ConfigPCs
<1>4. CASE UpdateHost(req[r].host, row) /\ Answer(r, "registered")
  BY <1>1, <1>2, <1>4, WriteHostIInv
<1> QED
  BY <1>3, <1>4

\* An edit writes back the agent that its row had, its host's or a deleted one.
LEMMA SubmitEditIInv ==
    ASSUME IInv, NEW r \in Requests, SubmitEdit(r)
    PROVE  IInv'
<1> USE DEF SubmitEdit
<1>1. /\ req[r].host # Nil /\ req[r].host \in Hosts
      /\ req[r].row \in Row
      /\ req[r].row.agent # Nil => HoldsOwn(req[r].host, req[r].row.agent)
  BY DEF IInv, TypeOK, Request, RequestsInv, RequestInv
<1>2. CASE Answer(r, "failed") /\ UNCHANGED host
  BY <1>2, AnswerStep DEF AnsweredPCs, RegisterPCs, ConfigPCs
<1>3. ASSUME NEW address \in Addresses,
             UpdateHost(req[r].host, [req[r].row EXCEPT !.address = address]),
             Answer(r, "edited")
      PROVE  IInv'
  <2> DEFINE row == [req[r].row EXCEPT !.address = address]
  <2>1. row \in Row /\ row.agent = req[r].row.agent
    BY <1>1 DEF Row
  <2> QED
    BY <1>1, <1>3, <2>1, WriteHostIInv
<1> QED
  BY <1>2, <1>3

\* A new host has an id that no agent belongs to, and names no agent.
LEMMA CreateHostIInv ==
    ASSUME IInv, NEW h \in Hosts, NEW address \in Addresses,
           CreateHost(h, address)
    PROVE  IInv'
<1> DEFINE row == [address |-> address, agent |-> Nil]
<1>1. row \in Row /\ host' = [host EXCEPT ![h] = row]
  BY DEF CreateHost, Row
<1>2. issued' = issued \cup {h} /\ UNCHANGED <<agent, config, req>>
  BY DEF CreateHost
<1>3. TypeOK'
  BY <1>1, <1>2 DEF IInv, TypeOK
<1>4. OneAgentPerHost' /\ NoOrphans'
  BY <1>1, <1>2, NilAssumption DEF IInv, TypeOK, OneAgentPerHost, NoOrphans
<1>5. MonitoringAgentOwned'
  BY <1>1, <1>2 DEF IInv, TypeOK, MonitoringAgentOwned
<1>6. IssuedInv'
  BY <1>1, <1>2 DEF IInv, TypeOK, IssuedInv
<1>7. RequestsInv'
  BY <1>2 DEF IInv, RequestsInv, RequestInv, HoldsOwn
<1> QED
  BY <1>3, <1>4, <1>5, <1>6, <1>7 DEF IInv

\* Deleting agents, and possibly the host they belong to: gone is the set
\* of hosts deleted with them.
LEMMA RemoveIInv ==
    ASSUME IInv, NEW dead \in SUBSET Agents, NEW gone \in SUBSET Hosts,
           \A a \in Agents : agent[a] \in gone => a \in dead,
           host' = [h \in Hosts |-> IF h \in gone THEN Nil
                                   ELSE Unlinked(dead)[h]],
           RemoveAgents(dead), UNCHANGED <<issued, req>>
    PROVE  IInv'
<1>1. /\ agent' = [a \in Agents |-> IF a \in dead THEN Nil ELSE agent[a]]
      /\ config' = config \ dead
  BY DEF RemoveAgents
<1>2. ASSUME NEW h \in Hosts
      PROVE  host'[h] = IF h \in gone THEN Nil
                        ELSE IF host[h] # Nil /\ host[h].agent \in dead
                        THEN [host[h] EXCEPT !.agent = Nil] ELSE host[h]
  BY DEF Unlinked
<1>3. TypeOK'
  <2>1. host' \in [Hosts -> Row \cup {Nil}]
    <3>1. ASSUME NEW h \in Hosts
          PROVE  host'[h] \in Row \cup {Nil}
      <4>1. host[h] \in Row \cup {Nil}
        BY DEF IInv, TypeOK
      <4>2. host[h] # Nil => [host[h] EXCEPT !.agent = Nil] \in Row
        BY <4>1 DEF Row
      <4> QED
        BY <1>2, <4>1, <4>2
    <3> QED
      BY <3>1
  <2> QED
    BY <1>1, <2>1 DEF IInv, TypeOK
<1>4. OneAgentPerHost'
  BY <1>1 DEF IInv, TypeOK, OneAgentPerHost
<1>5. NoOrphans'
  <2>1. ASSUME NEW h \in Hosts, h \notin gone, host[h] # Nil
        PROVE  host'[h] # Nil
    <3>1. [host[h] EXCEPT !.agent = Nil] \in Row
      BY <2>1 DEF IInv, TypeOK, Row
    <3> QED
      BY <1>2, <2>1, <3>1, NilAssumption
  <2> QED
    BY <1>1, <2>1, NilAssumption DEF IInv, TypeOK, NoOrphans
<1>6. MonitoringAgentOwned'
  <2> SUFFICES ASSUME NEW h \in Hosts, host'[h] # Nil, host'[h].agent # Nil
               PROVE  agent'[host'[h].agent] = h
    BY DEF MonitoringAgentOwned
  <2>1. host[h] # Nil /\ host'[h] = host[h] /\ host[h].agent \notin dead
    BY <1>2 DEF IInv, TypeOK, Row
  <2>2. agent[host[h].agent] = h /\ host[h].agent \in Agents
    BY <2>1 DEF IInv, TypeOK, Row, MonitoringAgentOwned
  <2> QED
    BY <1>1, <2>1, <2>2
<1>7. IssuedInv'
  BY <1>1, <1>2 DEF IInv, TypeOK, IssuedInv
<1>8. RequestsInv'
  <2>1. ASSUME NEW h, NEW a \in Agents, HoldsOwn(h, a)
        PROVE  HoldsOwn(h, a)'
    BY <1>1, <2>1 DEF HoldsOwn
  <2> QED
    BY <2>1 DEF IInv, TypeOK, Request, Row, RequestsInv, RequestInv
<1> QED
  BY <1>3, <1>4, <1>5, <1>6, <1>7, <1>8 DEF IInv

\* The agents of a deleted host go with it, and their configurations.
LEMMA DeleteHostIInv ==
    ASSUME IInv, NEW h \in Hosts, DeleteHost(h)
    PROVE  IInv'
<1>1. host' = [g \in Hosts |-> IF g \in {h} THEN Nil
                              ELSE Unlinked(AgentsOf(h))[g]]
  BY DEF DeleteHost, Unlinked
<1>2. AgentsOf(h) \in SUBSET Agents
      /\ \A a \in Agents : agent[a] \in {h} => a \in AgentsOf(h)
  BY DEF AgentsOf
<1> QED
  BY <1>1, <1>2, RemoveIInv DEF DeleteHost

\* The host of a deleted agent names it no more.
LEMMA DeleteAgentIInv ==
    ASSUME IInv, NEW a \in Agents, DeleteAgent(a)
    PROVE  IInv'
<1>1. host' = [g \in Hosts |-> IF g \in {} THEN Nil ELSE Unlinked({a})[g]]
  BY DEF DeleteAgent, Unlinked
<1>2. /\ {a} \in SUBSET Agents /\ {} \in SUBSET Hosts
      /\ \A b \in Agents : agent[b] \in {} => b \in {a}
  OBVIOUS
<1>3. RemoveAgents({a}) /\ UNCHANGED <<issued, req>>
  BY DEF DeleteAgent
<1> QED
  BY <1>1, <1>2, <1>3, RemoveIInv

\* A default configuration is inserted for an agent there is.
LEMMA BootstrapConfigIInv ==
    ASSUME IInv, NEW r \in Requests, BootstrapConfig(r)
    PROVE  IInv'
<1> USE DEF BootstrapConfig
<1>1. req[r].agent # Nil /\ req[r].agent \in Agents
  BY DEF IInv, TypeOK, Request, RequestsInv, RequestInv, ConfigPCs
<1>2. CASE Answer(r, "failed") /\ UNCHANGED config
  BY <1>2, AnswerStep DEF AnsweredPCs, RegisterPCs, ConfigPCs
<1>3. CASE /\ agent[req[r].agent] # Nil
           /\ config' = config \cup {req[r].agent}
           /\ Answer(r, "served")
  <2> DEFINE q == [req[r] EXCEPT !.pc = "served"]
  <2>1. q \in Request /\ req' = [req EXCEPT ![r] = q]
    BY <1>3 DEF IInv, TypeOK, Request, Answer, AnsweredPCs
  <2>2. RequestInv(q)
    BY DEF IInv, TypeOK, Request, RequestsInv, RequestInv, RegisterPCs,
           ConfigPCs
  <2>3. req' \in [Requests -> Request] /\ RequestsInv'
    BY <2>1, <2>2, RequestsStep
  <2>4. TypeOK' /\ NoOrphans'
    BY <1>1, <1>3, <2>3 DEF IInv, TypeOK, NoOrphans
  <2>5. OneAgentPerHost' /\ MonitoringAgentOwned' /\ IssuedInv'
    BY DEF IInv, OneAgentPerHost, MonitoringAgentOwned, IssuedInv
  <2> QED
    BY <2>3, <2>4, <2>5 DEF IInv
<1> QED
  BY <1>2, <1>3

-----------------------------------------------------------------------------
(* The theorems.                                                           *)

LEMMA NextIInv == IInv /\ [Next]_vars => IInv'
<1> SUFFICES ASSUME IInv, [Next]_vars
             PROVE  IInv'
  OBVIOUS
<1>1. CASE UNCHANGED vars
  BY <1>1
     DEF vars, IInv, TypeOK, OneAgentPerHost, NoOrphans,
         MonitoringAgentOwned, IssuedInv, RequestsInv, RequestInv, HoldsOwn
<1>2. CASE \E r \in Requests, h \in Hosts :
              StartRegister(r, h) \/ StartEdit(r, h)
  BY <1>2, StartRegisterIInv, StartEditIInv
<1>3. CASE \E r \in Requests, a \in Agents :
              StartHeartbeat(r, a) \/ StartGetConfig(r, a)
  BY <1>3, StartAgentRequestIInv
<1>4. CASE \E r \in Requests : RegisterStep(r)
  BY <1>4, LookupAgentIInv, UpdateAgentIInv, CreateAgentIInv, ReadHostIInv,
     AssignMonitoringAgentIInv DEF RegisterStep
<1>5. CASE \E r \in Requests : SubmitEdit(r)
  BY <1>5, SubmitEditIInv
<1>6. CASE \E r \in Requests : ConfigStep(r)
  BY <1>6, MoveConfigIInv, BootstrapConfigIInv DEF ConfigStep
<1>7. CASE \E r \in Requests : AbortRequest(r) \/ FinishRequest(r)
  BY <1>7, EndRequestIInv
<1>8. CASE \E h \in Hosts, address \in Addresses : CreateHost(h, address)
  BY <1>8, CreateHostIInv
<1>9. CASE \E h \in Hosts : DeleteHost(h)
  BY <1>9, DeleteHostIInv
<1>10. CASE \E a \in Agents : DeleteAgent(a)
  BY <1>10, DeleteAgentIInv
<1> QED
  BY <1>1, <1>2, <1>3, <1>4, <1>5, <1>6, <1>7, <1>8, <1>9, <1>10 DEF Next

\* The inductive invariant holds throughout.
LEMMA Invariance == Spec => []IInv
BY InitIInv, NextIInv, PTL DEF Spec

\* Every variable keeps its type.
THEOREM TypeCorrect == Spec => []TypeOK
BY Invariance, PTL DEF IInv

\* However registrations interleave with each other and with deletions, a
\* host has at most one agent.
THEOREM OneAgentPerHostHolds == Spec => []OneAgentPerHost
BY Invariance, PTL DEF IInv

\* No agent outlives its host, no configuration its agent.
THEOREM NoOrphansHolds == Spec => []NoOrphans
BY Invariance, PTL DEF IInv

\* A host row never names another host's agent.
THEOREM MonitoringAgentOwnedHolds == Spec => []MonitoringAgentOwned
BY Invariance, PTL DEF IInv

\* A registration is told the agent that its host has, or had.
LEMMA IInvSameAnswer == IInv => SameAnswer
<1> SUFFICES ASSUME IInv,
                    NEW r \in Requests, NEW s \in Requests,
                    req[r].pc = "registered", req[s].pc = "registered",
                    req[r].host = req[s].host,
                    agent[req[r].agent] # Nil, agent[req[s].agent] # Nil
             PROVE  req[r].agent = req[s].agent
  BY DEF SameAnswer
<1>1. /\ req[r].agent \in Agents /\ HoldsOwn(req[r].host, req[r].agent)
      /\ req[s].agent \in Agents /\ HoldsOwn(req[s].host, req[s].agent)
  BY DEF IInv, TypeOK, Request, RequestsInv, RequestInv
<1> QED
  BY <1>1 DEF IInv, OneAgentPerHost, HoldsOwn

\* Two successful registrations of one host answer with the same agent.
THEOREM SameAnswerHolds == Spec => []SameAnswer
BY Invariance, IInvSameAnswer, PTL

-----------------------------------------------------------------------------
(* Links are kept.                                                         *)

\* Of two writers of one host row, the agent written and the agent named
\* are the same if both are alive.
LEMMA SameAgent ==
    ASSUME IInv, NEW h \in Hosts, NEW a \in Agents, HoldsOwn(h, a),
           agent[a] # Nil, host[h] # Nil, host[h].agent # Nil
    PROVE  host[h].agent = a
<1>1. host[h].agent \in Agents /\ agent[host[h].agent] = h
  BY DEF IInv, TypeOK, Row, MonitoringAgentOwned
<1> QED
  BY <1>1, NilAssumption DEF IInv, OneAgentPerHost, HoldsOwn

\* Only an edit that read the host before its agent was assigned loses the link.
LEMMA NextLinkKept ==
    ASSUME IInv, Next, NEW h \in Hosts, LinkLost(h)
    PROVE  OverlappedByEdit(h)
<1>1. host'[h] # host[h]
  BY DEF LinkLost
<1>2. ASSUME NEW r \in Requests, AssignMonitoringAgent(r)
      PROVE  FALSE
  <2> DEFINE row == [req[r].row EXCEPT !.agent = req[r].agent]
  <2>1. /\ req[r].agent \in Agents /\ req[r].agent # Nil
        /\ HoldsOwn(req[r].host, req[r].agent)
        /\ req[r].row \in Row
    BY <1>2 DEF AssignMonitoringAgent, IInv, TypeOK, Request, RequestsInv,
                RequestInv
  <2>2. UpdateHost(req[r].host, row) /\ row.agent = req[r].agent
    BY <1>1, <1>2, <2>1 DEF AssignMonitoringAgent, Row
  <2>3. h = req[r].host /\ host'[h] = row
    BY <1>1, <2>2 DEF UpdateHost, IInv, TypeOK
  <2>4. host[h].agent = req[r].agent
    BY <2>1, <2>2, <2>3, SameAgent DEF UpdateHost, UpdateAllowed, LinkLost
  <2> QED
    BY <2>2, <2>3, <2>4 DEF LinkLost
<1>3. ASSUME NEW r \in Requests, SubmitEdit(r)
      PROVE  OverlappedByEdit(h)
  <2>1. /\ req[r].row \in Row /\ req[r].pc = "edit"
        /\ req[r].row.agent # Nil => HoldsOwn(req[r].host, req[r].row.agent)
    BY <1>3 DEF SubmitEdit, IInv, TypeOK, Request, RequestsInv, RequestInv
  <2>2. PICK address \in Addresses :
           /\ UpdateHost(req[r].host, [req[r].row EXCEPT !.address = address])
           /\ Answer(r, "edited")
    BY <1>1, <1>3 DEF SubmitEdit
  <2> DEFINE row == [req[r].row EXCEPT !.address = address]
  <2>3. row.agent = req[r].row.agent
    BY <2>1 DEF Row
  <2>4. h = req[r].host /\ host'[h] = row
    BY <1>1, <2>2 DEF UpdateHost, IInv, TypeOK
  <2>5. req[r].row.agent = Nil
    <3> SUFFICES ASSUME req[r].row.agent # Nil
                 PROVE  FALSE
      OBVIOUS
    <3>1. req[r].row.agent \in Agents /\ agent[req[r].row.agent] # Nil
      BY <2>1, <2>2, <2>3 DEF Row, UpdateHost, UpdateAllowed
    <3>2. host[h].agent = req[r].row.agent
      BY <2>1, <2>4, <3>1, SameAgent DEF LinkLost
    <3> QED
      BY <2>3, <2>4, <3>2 DEF LinkLost
  <2>6. req'[r].pc = "edited"
    BY <2>2 DEF Answer, IInv, TypeOK, Request
  <2> QED
    BY <2>1, <2>4, <2>5, <2>6 DEF OverlappedByEdit
<1>4. ASSUME NEW g \in Hosts, NEW address \in Addresses,
             CreateHost(g, address)
      PROVE  FALSE
  <2>1. host[g] = Nil /\ host' = [host EXCEPT ![g] = [address |-> address,
                                                     agent |-> Nil]]
    BY <1>4 DEF CreateHost, IInv, IssuedInv
  <2> QED
    BY <1>1, <2>1 DEF LinkLost, IInv, TypeOK
<1>5. ASSUME NEW dead \in SUBSET Agents, RemoveAgents(dead),
             host'[h] = Unlinked(dead)[h]
      PROVE  FALSE
  <2>1. host[h] # Nil /\ host[h].agent \in dead
    BY <1>1, <1>5 DEF Unlinked
  <2> QED
    BY <1>5, <2>1 DEF RemoveAgents, LinkLost
<1>6. ASSUME NEW g \in Hosts, DeleteHost(g)
      PROVE  FALSE
  <2>1. host' = [Unlinked(AgentsOf(g)) EXCEPT ![g] = Nil]
        /\ RemoveAgents(AgentsOf(g)) /\ AgentsOf(g) \in SUBSET Agents
    BY <1>6 DEF DeleteHost, AgentsOf
  <2>2. g # h
    BY <2>1 DEF LinkLost, Unlinked
  <2>3. host'[h] = Unlinked(AgentsOf(g))[h]
    BY <2>1, <2>2 DEF Unlinked
  <2> QED
    BY <1>5, <2>1, <2>3
<1>7. ASSUME NEW a \in Agents, DeleteAgent(a)
      PROVE  FALSE
  <2>1. /\ {a} \in SUBSET Agents
        /\ RemoveAgents({a})
        /\ host'[h] = Unlinked({a})[h]
    BY <1>7 DEF DeleteAgent
  <2> QED
    BY <1>5, <2>1
<1>8. ASSUME NEW r \in Requests,
             \/ \E g \in Hosts : StartRegister(r, g) \/ StartEdit(r, g)
             \/ \E a \in Agents : StartHeartbeat(r, a) \/ StartGetConfig(r, a)
             \/ LookupAgent(r) \/ UpdateAgent(r) \/ CreateAgent(r)
             \/ ReadHost(r) \/ ConfigStep(r)
             \/ AbortRequest(r) \/ FinishRequest(r)
      PROVE  FALSE
  BY <1>1, <1>8
     DEF StartRegister, StartEdit, StartHeartbeat, StartGetConfig,
         LookupAgent, UpdateAgent, CreateAgent, ReadHost, ConfigStep,
         TouchAgent, SelectConfig, BootstrapConfig, AbortRequest,
         FinishRequest
<1> QED
  BY <1>2, <1>3, <1>4, <1>6, <1>7, <1>8 DEF Next, RegisterStep

\* A host keeps naming its living agent unless an edit that read the row
\* before the assignment writes it back.
THEOREM LinkKeptHolds == Spec => LinkKept
<1>1. IInv /\ [Next]_vars
        => [\A h \in Hosts : LinkLost(h) => OverlappedByEdit(h)]_vars
  BY NextLinkKept
<1> QED
  BY <1>1, Invariance, PTL DEF Spec, LinkKept

-----------------------------------------------------------------------------
(* The handlers implement the atomic registry.                             *)

LEMMA MonitorOfType == IInv => MonitorOf \in [Hosts -> Agents \cup {Nil}]
BY DEF IInv, TypeOK, Row, MonitorOf

\* Writing a row whose agent a is the host's own living agent.
LEMMA WriteImplements ==
    ASSUME IInv, NEW h \in Hosts, NEW row \in Row, UpdateHost(h, row),
           row.agent # Nil => HoldsOwn(h, row.agent),
           UNCHANGED <<agent, config, issued>>
    PROVE  (\E a \in Agents : HM!Assign(a)) \/ (\E g \in Hosts : HM!Forget(g))
<1>1. host[h] # Nil /\ host' = [host EXCEPT ![h] = row]
      /\ (row.agent # Nil => agent[row.agent] = h)
  BY DEF UpdateHost, UpdateAllowed, HoldsOwn
<1>2. MonitorOf' = [MonitorOf EXCEPT ![h] = row.agent]
  BY <1>1, NilAssumption DEF IInv, TypeOK, MonitorOf
<1>3. CASE row.agent = Nil
  BY <1>2, <1>3 DEF HM!Forget
<1>4. CASE row.agent # Nil
  <2>1. row.agent \in Agents
    BY <1>4 DEF Row
  <2>2. HM!Assign(row.agent)
    BY <1>1, <1>2, <1>4, NilAssumption DEF HM!Assign
  <2> QED
    BY <2>1, <2>2
<1> QED
  BY <1>3, <1>4

\* An agent is created for a host that has none, as HostMonitoring says.
LEMMA CreateAgentImplements ==
    ASSUME IInv, NEW r \in Requests, CreateAgent(r)
    PROVE  HM!Next \/ UNCHANGED HM!vars
<1>1. CASE UNCHANGED <<agent, issued>>
  BY <1>1 DEF CreateAgent, HM!vars, MonitorOf
<1>2. ASSUME NEW a \in Agents \ issued, MayOwn(a, req[r].host),
             agent' = [agent EXCEPT ![a] = req[r].host],
             issued' = issued \cup {a}
      PROVE  HM!Next
  <2>1. req[r].host \in Hosts
    BY DEF CreateAgent, IInv, TypeOK, Request, RequestsInv, RequestInv,
           RegisterPCs
  <2>2. agent[a] = Nil
    BY <1>2 DEF IInv, IssuedInv
  <2>3. UNCHANGED MonitorOf
    BY DEF CreateAgent, MonitorOf
  <2>4. HM!Enroll(a, req[r].host)
    BY <1>2, <2>1, <2>2, <2>3, NilAssumption DEF HM!Enroll, MayOwn
  <2> QED
    BY <2>1, <2>4 DEF HM!Next
<1> QED
  BY <1>1, <1>2 DEF CreateAgent

\* Deleting an agent, or a host and with it at most one agent.
LEMMA DeleteImplements ==
    ASSUME IInv,
           \/ \E h \in Hosts : DeleteHost(h)
           \/ \E a \in Agents : DeleteAgent(a)
    PROVE  HM!Next \/ UNCHANGED HM!vars
<1>1. ASSUME NEW a \in Agents, agent[a] # Nil, RemoveAgents({a}),
             UNCHANGED issued,
             \A h \in Hosts : MonitorOf'[h] =
                IF MonitorOf[h] = a THEN Nil ELSE MonitorOf[h]
      PROVE  HM!Next
  <2>1. agent' = [agent EXCEPT ![a] = Nil]
    BY <1>1 DEF RemoveAgents, IInv, TypeOK
  <2>2. MonitorOf' = [h \in Hosts |-> IF MonitorOf[h] = a THEN Nil
                                     ELSE MonitorOf[h]]
    BY <1>1 DEF MonitorOf
  <2>3. HM!Retire(a)
    BY <1>1, <2>1, <2>2 DEF HM!Retire
  <2> QED
    BY <2>3 DEF HM!Next
<1>2. ASSUME NEW a \in Agents, NEW g \in Hosts,
             host'[g] = Unlinked({a})[g]
      PROVE  MonitorOf'[g] = IF MonitorOf[g] = a THEN Nil ELSE MonitorOf[g]
  <2> DEFINE row == [host[g] EXCEPT !.agent = Nil]
  <2>1. /\ MonitorOf[g] = IF host[g] = Nil THEN Nil ELSE host[g].agent
        /\ MonitorOf'[g] = IF host'[g] = Nil THEN Nil ELSE host'[g].agent
    BY DEF MonitorOf
  <2>2. CASE host[g] # Nil /\ host[g].agent = a
    <3>1. host'[g] = row
      BY <1>2, <2>2 DEF Unlinked
    <3>2. row \in Row /\ row.agent = Nil
      BY <2>2 DEF IInv, TypeOK, Row
    <3> QED
      BY <2>1, <2>2, <3>1, <3>2, NilAssumption
  <2>3. CASE ~(host[g] # Nil /\ host[g].agent = a)
    <3>1. host'[g] = host[g]
      BY <1>2, <2>3 DEF Unlinked
    <3> QED
      BY <2>1, <2>3, <3>1, NilAssumption
  <2> QED
    BY <2>2, <2>3
<1>3. ASSUME NEW a \in Agents, DeleteAgent(a)
      PROVE  HM!Next
  <2>1. \A g \in Hosts : host'[g] = Unlinked({a})[g]
    BY <1>3 DEF DeleteAgent
  <2> QED
    BY <1>1, <1>2, <1>3, <2>1 DEF DeleteAgent
<1>4. ASSUME NEW h \in Hosts, DeleteHost(h)
      PROVE  HM!Next \/ UNCHANGED HM!vars
  <2>1. /\ host[h] # Nil
        /\ host' = [Unlinked(AgentsOf(h)) EXCEPT ![h] = Nil]
        /\ RemoveAgents(AgentsOf(h))
        /\ UNCHANGED issued
    BY <1>4 DEF DeleteHost
  <2>2. CASE AgentsOf(h) = {}
    <3>1. agent' = agent
      BY <2>1, <2>2 DEF RemoveAgents, IInv, TypeOK
    <3>2. MonitorOf[h] = Nil
      BY <2>1, <2>2 DEF AgentsOf, MonitorOf, IInv, TypeOK, Row,
                        MonitoringAgentOwned
    <3>3. ASSUME NEW g \in Hosts
          PROVE  host'[g] = IF g = h THEN Nil ELSE host[g]
      BY <2>1, <2>2 DEF Unlinked
    <3>4. MonitorOf' = MonitorOf
      BY <3>2, <3>3 DEF MonitorOf
    <3> QED
      BY <2>1, <3>1, <3>4 DEF HM!vars
  <2>3. ASSUME NEW a \in AgentsOf(h)
        PROVE  HM!Next
    <3>1. a \in Agents /\ agent[a] = h /\ agent[a] # Nil
      BY <2>3, NilAssumption DEF AgentsOf
    <3>2. AgentsOf(h) = {a}
      BY <3>1, <2>3 DEF AgentsOf, IInv, OneAgentPerHost
    <3>3. ASSUME NEW g \in Hosts
          PROVE  host'[g] = IF g = h THEN Nil ELSE Unlinked({a})[g]
      BY <2>1, <3>2 DEF Unlinked
    <3>4. MonitorOf[h] \in {a, Nil}
      BY <2>1, <3>1, NilAssumption
         DEF MonitorOf, IInv, TypeOK, Row, OneAgentPerHost,
             MonitoringAgentOwned
    <3>5. ASSUME NEW g \in Hosts
          PROVE  MonitorOf'[g] =
                    IF MonitorOf[g] = a THEN Nil ELSE MonitorOf[g]
      <4>1. CASE g = h
        <5>1. MonitorOf'[g] = Nil
          BY <3>3, <4>1 DEF MonitorOf
        <5> QED
          BY <3>4, <4>1, <5>1
      <4>2. CASE g # h
        BY <1>2, <3>1, <3>3, <4>2
      <4> QED
        BY <4>1, <4>2
    <3> QED
      BY <1>1, <2>1, <3>1, <3>2, <3>5
  <2> QED
    BY <2>2, <2>3
<1> QED
  BY <1>3, <1>4

\* Every step is a step of HostMonitoring, or none.
LEMMA NextImplements ==
    ASSUME IInv, Next
    PROVE  HM!Next \/ UNCHANGED HM!vars
<1>1. ASSUME UNCHANGED <<host, agent, issued>>
      PROVE  UNCHANGED HM!vars
  BY <1>1 DEF HM!vars, MonitorOf
<1>2. ASSUME NEW r \in Requests,
             \/ \E h \in Hosts : StartRegister(r, h) \/ StartEdit(r, h)
             \/ \E a \in Agents : StartHeartbeat(r, a) \/ StartGetConfig(r, a)
             \/ LookupAgent(r) \/ ReadHost(r) \/ ConfigStep(r)
             \/ AbortRequest(r) \/ FinishRequest(r)
      PROVE  UNCHANGED HM!vars
  BY <1>1, <1>2
     DEF StartRegister, StartEdit, StartHeartbeat, StartGetConfig,
         LookupAgent, ReadHost, ConfigStep, TouchAgent, SelectConfig,
         BootstrapConfig, AbortRequest, FinishRequest
<1>3. ASSUME NEW r \in Requests, UpdateAgent(r)
      PROVE  UNCHANGED HM!vars
  <2>1. agent' = agent
    BY <1>3 DEF UpdateAgent, IInv, TypeOK, Request, RequestsInv, RequestInv,
                HoldsOwn
  <2> QED
    BY <1>1, <1>3, <2>1 DEF UpdateAgent
<1>4. ASSUME NEW r \in Requests, AssignMonitoringAgent(r)
      PROVE  HM!Next \/ UNCHANGED HM!vars
  <2> DEFINE row == [req[r].row EXCEPT !.agent = req[r].agent]
  <2>1. /\ req[r].host \in Hosts
        /\ req[r].row \in Row
        /\ req[r].agent \in Agents /\ HoldsOwn(req[r].host, req[r].agent)
    BY <1>4 DEF AssignMonitoringAgent, IInv, TypeOK, Request, RequestsInv,
                RequestInv, RegisterPCs
  <2>2. row \in Row /\ row.agent = req[r].agent
    BY <2>1 DEF Row
  <2>3. CASE UNCHANGED host
    BY <1>1, <1>4, <2>3 DEF AssignMonitoringAgent
  <2>4. CASE UpdateHost(req[r].host, row)
    BY <1>4, <2>1, <2>2, <2>4, WriteImplements
       DEF AssignMonitoringAgent, HM!Next
  <2> QED
    BY <1>4, <2>3, <2>4 DEF AssignMonitoringAgent
<1>5. ASSUME NEW r \in Requests, SubmitEdit(r)
      PROVE  HM!Next \/ UNCHANGED HM!vars
  <2>1. /\ req[r].host \in Hosts
        /\ req[r].row \in Row
        /\ req[r].row.agent # Nil => HoldsOwn(req[r].host, req[r].row.agent)
    BY <1>5 DEF SubmitEdit, IInv, TypeOK, Request, RequestsInv, RequestInv
  <2>2. CASE UNCHANGED host
    BY <1>1, <1>5, <2>2 DEF SubmitEdit
  <2>3. ASSUME NEW address \in Addresses,
               UpdateHost(req[r].host,
                          [req[r].row EXCEPT !.address = address])
        PROVE  HM!Next
    <3> DEFINE row == [req[r].row EXCEPT !.address = address]
    <3>1. row \in Row /\ row.agent = req[r].row.agent
      BY <2>1 DEF Row
    <3> QED
      BY <1>5, <2>1, <2>3, <3>1, WriteImplements DEF SubmitEdit, HM!Next
  <2> QED
    BY <1>5, <2>2, <2>3 DEF SubmitEdit
<1>6. ASSUME NEW h \in Hosts, NEW address \in Addresses,
             CreateHost(h, address)
      PROVE  UNCHANGED HM!vars
  <2>1. host[h] = Nil /\ host' = [host EXCEPT ![h] = [address |-> address,
                                                     agent |-> Nil]]
    BY <1>6 DEF CreateHost, IInv, IssuedInv
  <2>2. MonitorOf' = MonitorOf
    BY <2>1 DEF MonitorOf, IInv, TypeOK
  <2>3. issued' \cap Agents = issued \cap Agents
    BY <1>6, IdAssumption DEF CreateHost
  <2> QED
    BY <1>6, <2>2, <2>3 DEF CreateHost, HM!vars
<1> QED
  BY <1>2, <1>3, <1>4, <1>5, <1>6, CreateAgentImplements, DeleteImplements
     DEF Next, RegisterStep

\* The interleaved handlers implement HostMonitoring, where every request
\* is one atomic step.
THEOREM Refinement == Spec => ImplementsHostMonitoring
<1>1. Init => HM!Init
  BY DEF Init, HM!Init, MonitorOf
<1>2. IInv /\ [Next]_vars => [HM!Next]_(HM!vars)
  <2>1. ASSUME UNCHANGED vars
        PROVE  UNCHANGED HM!vars
    BY <2>1 DEF vars, HM!vars, MonitorOf
  <2> QED
    BY <2>1, NextImplements
<1> QED
  BY <1>1, <1>2, Invariance, PTL DEF Spec, HM!Spec, ImplementsHostMonitoring
=============================================================================
