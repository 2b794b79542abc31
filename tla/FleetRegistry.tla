--------------------------- MODULE FleetRegistry ---------------------------
(***************************************************************************)
(* The server's registry of hosts and monitoring agents: the tables host,  *)
(* agent and agent_config with their unique and foreign-key constraints,   *)
(* and the HTTP handlers and CLI commands that read and write them.        *)
(*                                                                         *)
(* Every handler runs in a goroutine of its own and holds no transaction   *)
(* across its queries, so each query is a step and the steps of different  *)
(* requests interleave.  What a handler has read and will use later is in  *)
(* its request record.                                                     *)
(*                                                                         *)
(* Data left out: an agent's version and last_seen_at, timestamps, tags,   *)
(* the contents of a configuration row, and of a host row all the form's   *)
(* fields but the unique address.                                          *)
(***************************************************************************)
CONSTANTS
    Hosts,      \* ids a new host row may get (uuid.New); bounds the creations
    Agents,     \* ids a new agent row may get; bounds the registrations
    Addresses,  \* values of the unique column host.ip
    Requests,   \* handler goroutines; a slot is used again after its answer
    Nil         \* an absent row, a NULL column, or a local not yet set

Row == [address : Addresses, agent : Agents \cup {Nil}]

ASSUME NilAssumption ==
    /\ Nil \notin Hosts
    /\ Nil \notin Agents
    /\ Nil \notin Row

ASSUME IdAssumption == Hosts \cap Agents = {}

VARIABLES
    host,       \* host[h]: the row with id h, or Nil
    agent,      \* agent[a]: column host_id of the row with id a, or Nil
    config,     \* the agents that have an agent_config row
    issued,     \* the ids already given to a row, in use or deleted
    req         \* req[r]: where handler r stands and what it has read

vars == <<host, agent, config, issued, req>>

RegisterPCs == {"lookup", "update", "create", "read", "write"}
ConfigPCs   == {"touch", "config", "bootstrap"}
RunningPCs  == RegisterPCs \cup ConfigPCs \cup {"edit"}
AnsweredPCs == {"registered", "edited", "served", "failed"}

Request == [pc    : RunningPCs \cup AnsweredPCs \cup {"idle"},
            host  : Hosts \cup {Nil},
            agent : Agents \cup {Nil},
            row   : Row \cup {Nil}]

Idle == [pc |-> "idle", host |-> Nil, agent |-> Nil, row |-> Nil]

\* A request answered 404 by its first query.
NotFound == [Idle EXCEPT !.pc = "failed"]

TypeOK ==
    /\ host \in [Hosts -> Row \cup {Nil}]
    /\ agent \in [Agents -> Hosts \cup {Nil}]
    /\ config \subseteq Agents
    /\ issued \subseteq Hosts \cup Agents
    /\ req \in [Requests -> Request]

Init ==
    /\ host = [h \in Hosts |-> Nil]
    /\ agent = [a \in Agents |-> Nil]
    /\ config = {}
    /\ issued = {}
    /\ req = [r \in Requests |-> Idle]

-----------------------------------------------------------------------------
(* The statements the repositories run, with the constraints they meet.    *)

\* host.ip is unique.
AddressFree(h, address) ==
    \A g \in Hosts \ {h} : host[g] # Nil => host[g].address # address

\* Fault: the unique constraint on agent.host_id is missing.
MayOwnNotUnique(a, h) == host[h] # Nil

\* agent.host_id references an existing host and is unique.
MayOwn(a, h) ==
    /\ host[h] # Nil
    /\ \A b \in Agents \ {a} : agent[b] # h

\* Fault: host.monitoring_agent_id is not a foreign key.
UpdateAllowedNoForeignKey(h, row) ==
    /\ host[h] # Nil
    /\ AddressFree(h, row.address)

\* host.monitoring_agent_id references an existing agent.
UpdateAllowed(h, row) ==
    /\ host[h] # Nil
    /\ AddressFree(h, row.address)
    /\ row.agent # Nil => agent[row.agent] # Nil

\* The update overwrites every column of the row, monitoring_agent_id too.
UpdateHost(h, row) ==
    /\ UpdateAllowed(h, row)
    /\ host' = [host EXCEPT ![h] = row]

AgentsOf(h) == {a \in Agents : agent[a] = h}

\* Fault: deleting an agent leaves the host rows that name it alone.
UnlinkedNever(dead) == host

\* The host table after the agents in dead are deleted: ON DELETE SET NULL.
Unlinked(dead) ==
    [h \in Hosts |->
        IF host[h] # Nil /\ host[h].agent \in dead
        THEN [host[h] EXCEPT !.agent = Nil]
        ELSE host[h]]

\* The configurations go with their agents: ON DELETE CASCADE.
RemoveAgents(dead) ==
    /\ agent' = [a \in Agents |-> IF a \in dead THEN Nil ELSE agent[a]]
    /\ config' = config \ dead

Answer(r, pc) == req' = [req EXCEPT ![r].pc = pc]

-----------------------------------------------------------------------------
(* POST /hosts/{host_id}/register-agent of the API: RegisterAgent.         *)

\* parseAndEnsureHostExists; a host that is not there is answered 404.
StartRegister(r, h) ==
    /\ req[r].pc = "idle"
    /\ req' = [req EXCEPT ![r] =
                  IF host[h] = Nil THEN NotFound
                  ELSE [Idle EXCEPT !.pc = "lookup", !.host = h]]
    /\ UNCHANGED <<host, agent, config, issued>>

\* Fault: the query for the host's agent has no where clause.
LookupAnyAgent(r) ==
    /\ req[r].pc = "lookup"
    /\ \/ \E a \in Agents :
             /\ agent[a] # Nil
             /\ req' = [req EXCEPT ![r].agent = a, ![r].pc = "update"]
       \/ /\ \A a \in Agents : agent[a] = Nil
          /\ Answer(r, "create")
    /\ UNCHANGED <<host, agent, config, issued>>

\* RegisterHostAgent asks for the host's agent first.
LookupAgent(r) ==
    /\ req[r].pc = "lookup"
    /\ \/ \E a \in AgentsOf(req[r].host) :
             req' = [req EXCEPT ![r].agent = a, ![r].pc = "update"]
       \/ /\ AgentsOf(req[r].host) = {}
          /\ Answer(r, "create")
    /\ UNCHANGED <<host, agent, config, issued>>

\* A host that has an agent keeps it: the row is written back, host_id too.
UpdateAgent(r) ==
    /\ req[r].pc = "update"
    /\ \/ /\ agent[req[r].agent] # Nil
          /\ MayOwn(req[r].agent, req[r].host)
          /\ agent' = [agent EXCEPT ![req[r].agent] = req[r].host]
          /\ Answer(r, "read")
       \/ /\ agent[req[r].agent] = Nil \/ ~MayOwn(req[r].agent, req[r].host)
          /\ Answer(r, "failed")
          /\ UNCHANGED agent
    /\ UNCHANGED <<host, config, issued>>

\* A host without an agent gets one with a new id.
CreateAgent(r) ==
    /\ req[r].pc = "create"
    /\ \E a \in Agents \ issued :
          IF MayOwn(a, req[r].host)
          THEN /\ agent' = [agent EXCEPT ![a] = req[r].host]
               /\ issued' = issued \cup {a}
               /\ req' = [req EXCEPT ![r].agent = a, ![r].pc = "read"]
          ELSE /\ Answer(r, "failed")
               /\ UNCHANGED <<agent, issued>>
    /\ UNCHANGED <<host, config>>

\* AssignMonitoringAgent reads the whole host row ...
ReadHost(r) ==
    /\ req[r].pc = "read"
    /\ \/ /\ host[req[r].host] # Nil
          /\ req' = [req EXCEPT ![r].row = host[req[r].host], ![r].pc = "write"]
       \/ /\ host[req[r].host] = Nil
          /\ Answer(r, "failed")
    /\ UNCHANGED <<host, agent, config, issued>>

\* ... and writes the whole row back with the agent in it.
AssignMonitoringAgent(r) ==
    /\ req[r].pc = "write"
    /\ LET row == [req[r].row EXCEPT !.agent = req[r].agent]
       IN  \/ /\ UpdateHost(req[r].host, row)
              /\ Answer(r, "registered")
           \/ /\ ~UpdateAllowed(req[r].host, row)
              /\ Answer(r, "failed")
              /\ UNCHANGED host
    /\ UNCHANGED <<agent, config, issued>>

-----------------------------------------------------------------------------
(* The host forms of the web interface.                                    *)

\* POST /hosts.  One transaction; a taken address answers 500.
CreateHost(h, address) ==
    /\ h \notin issued
    /\ AddressFree(h, address)
    /\ host' = [host EXCEPT ![h] = [address |-> address, agent |-> Nil]]
    /\ issued' = issued \cup {h}
    /\ UNCHANGED <<agent, config, req>>

\* POST /hosts/{id}/update reads the row ...
StartEdit(r, h) ==
    /\ req[r].pc = "idle"
    /\ req' = [req EXCEPT ![r] =
                  IF host[h] = Nil THEN NotFound
                  ELSE [Idle EXCEPT !.pc = "edit", !.host = h, !.row = host[h]]]
    /\ UNCHANGED <<host, agent, config, issued>>

\* Fault: the row written is built from the form, without the agent.
SubmitEditForm(r) ==
    /\ req[r].pc = "edit"
    /\ \E address \in Addresses :
          LET row == [address |-> address, agent |-> Nil]
          IN  \/ /\ UpdateHost(req[r].host, row)
                 /\ Answer(r, "edited")
              \/ /\ ~UpdateAllowed(req[r].host, row)
                 /\ Answer(r, "failed")
                 /\ UNCHANGED host
    /\ UNCHANGED <<agent, config, issued>>

\* ... and writes it back with the form's fields, the agent as it was read.
SubmitEdit(r) ==
    /\ req[r].pc = "edit"
    /\ \E address \in Addresses :
          LET row == [req[r].row EXCEPT !.address = address]
          IN  \/ /\ UpdateHost(req[r].host, row)
                 /\ Answer(r, "edited")
              \/ /\ ~UpdateAllowed(req[r].host, row)
                 /\ Answer(r, "failed")
                 /\ UNCHANGED host
    /\ UNCHANGED <<agent, config, issued>>

\* POST /hosts/{id}/delete, and the CLI's hosts delete from its own process.
DeleteHost(h) ==
    /\ host[h] # Nil
    /\ host' = [Unlinked(AgentsOf(h)) EXCEPT ![h] = Nil]
    /\ RemoveAgents(AgentsOf(h))
    /\ UNCHANGED <<issued, req>>

\* The CLI's agents delete.
DeleteAgent(a) ==
    /\ agent[a] # Nil
    /\ host' = Unlinked({a})
    /\ RemoveAgents({a})
    /\ UNCHANGED <<issued, req>>

-----------------------------------------------------------------------------
(* The agent's heartbeat, and every reader of an agent's configuration.    *)

\* GetByID: the request goes on with the row it found.
FoundAgent(a, pc) ==
    IF agent[a] = Nil THEN NotFound
    ELSE [Idle EXCEPT !.pc = pc, !.host = agent[a], !.agent = a]

\* HandleHeartbeat: GetByID, 404 if there is no such agent.
StartHeartbeat(r, a) ==
    /\ req[r].pc = "idle"
    /\ req' = [req EXCEPT ![r] = FoundAgent(a, "touch")]
    /\ UNCHANGED <<host, agent, config, issued>>

\* UpdateLastSeenAt fails if the row has gone since it was read.
TouchAgent(r) ==
    /\ req[r].pc = "touch"
    /\ Answer(r, IF agent[req[r].agent] = Nil THEN "failed" ELSE "config")
    /\ UNCHANGED <<host, agent, config, issued>>

\* GetConfig and the administration page look the agent up and go straight
\* to its configuration.
StartGetConfig(r, a) ==
    /\ req[r].pc = "idle"
    /\ req' = [req EXCEPT ![r] = FoundAgent(a, "config")]
    /\ UNCHANGED <<host, agent, config, issued>>

\* GetConfigByAgentID: the select ...
SelectConfig(r) ==
    /\ req[r].pc = "config"
    /\ Answer(r, IF req[r].agent \in config THEN "served" ELSE "bootstrap")
    /\ UNCHANGED <<host, agent, config, issued>>

\* Fault: the default row is inserted under the host's id.
BootstrapConfigForHost(r) ==
    /\ req[r].pc = "bootstrap"
    /\ config' = config \cup {req[r].host}
    /\ Answer(r, "served")
    /\ UNCHANGED <<host, agent, issued>>

\* ... and the insert of a default row when there was none.  agent_config
\* is unique per agent and references an existing one.
BootstrapConfig(r) ==
    /\ req[r].pc = "bootstrap"
    /\ \/ /\ agent[req[r].agent] # Nil
          /\ req[r].agent \notin config
          /\ config' = config \cup {req[r].agent}
          /\ Answer(r, "served")
       \/ /\ agent[req[r].agent] = Nil \/ req[r].agent \in config
          /\ Answer(r, "failed")
          /\ UNCHANGED config
    /\ UNCHANGED <<host, agent, issued>>

-----------------------------------------------------------------------------
\* A query fails, the caller disconnects (its context ends) or the server
\* stops: the handler runs no further statement and undoes nothing.
AbortRequest(r) ==
    /\ req[r].pc \in RunningPCs
    /\ Answer(r, "failed")
    /\ UNCHANGED <<host, agent, config, issued>>

\* The answer is delivered and the goroutine ends.
FinishRequest(r) ==
    /\ req[r].pc \in AnsweredPCs
    /\ req' = [req EXCEPT ![r] = Idle]
    /\ UNCHANGED <<host, agent, config, issued>>

RegisterStep(r) ==
    \/ LookupAgent(r)
    \/ UpdateAgent(r)
    \/ CreateAgent(r)
    \/ ReadHost(r)
    \/ AssignMonitoringAgent(r)

ConfigStep(r) ==
    \/ TouchAgent(r)
    \/ SelectConfig(r)
    \/ BootstrapConfig(r)

Next ==
    \/ \E r \in Requests, h \in Hosts : StartRegister(r, h) \/ StartEdit(r, h)
    \/ \E r \in Requests, a \in Agents :
          StartHeartbeat(r, a) \/ StartGetConfig(r, a)
    \/ \E r \in Requests : RegisterStep(r)
    \/ \E r \in Requests : SubmitEdit(r)
    \/ \E r \in Requests : ConfigStep(r)
    \/ \E r \in Requests : AbortRequest(r)
    \/ \E r \in Requests : FinishRequest(r)
    \/ \E h \in Hosts, address \in Addresses :
          CreateHost(h, address)
    \/ \E h \in Hosts : DeleteHost(h)
    \/ \E a \in Agents : DeleteAgent(a)

Spec == Init /\ [][Next]_vars

-----------------------------------------------------------------------------
(* Properties.                                                             *)

\* However registrations of one host interleave (both may find no agent and
\* both may insert), the host ends with one agent, so no host is reported
\* by two agents.
OneAgentPerHost ==
    \A a, b \in Agents : agent[a] # Nil /\ agent[a] = agent[b] => a = b

\* No agent outlives its host and no configuration outlives its agent,
\* although a heartbeat may insert the configuration of an agent that is
\* being deleted.
NoOrphans ==
    /\ \A a \in Agents : agent[a] # Nil => host[agent[a]] # Nil
    /\ \A a \in config : agent[a] # Nil

\* The agent a host row names exists and is that host's own.  The schema
\* only requires it to exist: that it is the host's own depends on what
\* every handler has read before it writes the row.
MonitoringAgentOwned ==
    \A h \in Hosts :
        host[h] # Nil /\ host[h].agent # Nil => agent[host[h].agent] = h

\* Two machines that registered for the same host and were both answered
\* 201 hold the same agent id, unless one of the agents has been deleted.
SameAnswer ==
    \A r, s \in Requests :
        /\ req[r].pc = "registered" /\ req[s].pc = "registered"
        /\ req[r].host = req[s].host
        /\ agent[req[r].agent] # Nil /\ agent[req[s].agent] # Nil
        => req[r].agent = req[s].agent

\* A host that names a living agent goes on naming it, in every step that
\* deletes neither, but for one case: an edit whose handler read the row before
\* the agent was assigned writes it back without the agent.  A repeated
\* registration never takes the link away.
LinkLost(h) ==
    /\ host[h] # Nil /\ host'[h] # Nil
    /\ host[h].agent # Nil /\ agent'[host[h].agent] # Nil
    /\ host'[h].agent # host[h].agent

OverlappedByEdit(h) ==
    \E r \in Requests :
        /\ req[r].pc = "edit" /\ req'[r].pc = "edited"
        /\ req[r].host = h
        /\ req[r].row.agent = Nil

LinkKept == [][\A h \in Hosts : LinkLost(h) => OverlappedByEdit(h)]_vars

\* The interleaved handlers implement the atomic registry of HostMonitoring.
MonitorOf == [h \in Hosts |-> IF host[h] = Nil THEN Nil ELSE host[h].agent]

HM == INSTANCE HostMonitoring
        WITH owner <- agent, monitor <- MonitorOf, enrolled <- issued \cap Agents

ImplementsHostMonitoring == HM!Spec
=============================================================================
