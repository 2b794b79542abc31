\* A channel of two updates, and two publishers that may fill and merge it
\* while the one browser reads.
CONSTANTS
    Hosts = {h1, h2}
    Clients = {c1}
    Publishers = {p1, p2}
    Capacity = 2
    MaxCommits = 2
    NoCall = NoCall
SPECIFICATION Spec
SYMMETRY Symmetry
INVARIANTS
    TypeOK
    NothingForgotten
