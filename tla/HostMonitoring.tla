--------------------------- MODULE HostMonitoring ---------------------------
(***************************************************************************)
(* What the registry promises about monitoring agents, with every request  *)
(* one atomic step.  An agent id is given to one host, for life; a host    *)
(* has at most one agent at a time; the monitoring agent a host row names  *)
(* is that host's own living agent or none.                                *)
(***************************************************************************)
CONSTANTS Hosts, Agents, Nil

VARIABLES
    owner,      \* owner[a]: the host agent a is enrolled for, or Nil
    monitor,    \* monitor[h]: the agent host h names, or Nil
    enrolled    \* the agents ever enrolled

vars == <<owner, monitor, enrolled>>

Init ==
    /\ owner = [a \in Agents |-> Nil]
    /\ monitor = [h \in Hosts |-> Nil]
    /\ enrolled = {}

\* A host without an agent gets one that never existed before.
Enroll(a, h) ==
    /\ a \notin enrolled
    /\ \A b \in Agents : owner[b] # h
    /\ owner' = [owner EXCEPT ![a] = h]
    /\ enrolled' = enrolled \cup {a}
    /\ UNCHANGED monitor

\* A living agent is named by the host it is enrolled for.
Assign(a) ==
    /\ owner[a] # Nil
    /\ monitor' = [monitor EXCEPT ![owner[a]] = a]
    /\ UNCHANGED <<owner, enrolled>>

\* A host edited at the same time forgets its agent until the agent
\* registers again.
Forget(h) ==
    /\ monitor' = [monitor EXCEPT ![h] = Nil]
    /\ UNCHANGED <<owner, enrolled>>

\* An agent is deleted, alone or with its host, and no host names it then.
Retire(a) ==
    /\ owner[a] # Nil
    /\ owner' = [owner EXCEPT ![a] = Nil]
    /\ monitor' = [h \in Hosts |-> IF monitor[h] = a THEN Nil ELSE monitor[h]]
    /\ UNCHANGED enrolled

Next ==
    \/ \E a \in Agents, h \in Hosts : Enroll(a, h)
    \/ \E a \in Agents : Assign(a)
    \/ \E h \in Hosts : Forget(h)
    \/ \E a \in Agents : Retire(a)

Spec == Init /\ [][Next]_vars
=============================================================================
