\* Two registrations at a time, at one server whose agent may be replaced once
\* or at another, while the agent starts and stops.
CONSTANTS
    Paths = {f1, f2}
    Servers = {s1, s2}
    Processes = {p1, p2}
    MaxAgents = 2
    Nil = Nil
SPECIFICATION FilesSpec
SYMMETRY Symmetry
INVARIANTS
    RegisteredStored
    AllOrNone
