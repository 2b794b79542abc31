\* Two hosts that may swap addresses, three agent ids, two requests at a time.
CONSTANTS
    Hosts = {h1, h2}
    Agents = {a1, a2, a3}
    Addresses = {ip1, ip2}
    Requests = {r1, r2}
    Nil = Nil
SPECIFICATION Spec
SYMMETRY Symmetry
INVARIANTS
    TypeOK
    MonitoringAgentOwned
    SameAnswer
PROPERTIES
    LinkKept
    ImplementsHostMonitoring
