\* Up to two workers wait behind the one that collects; the first sample
\* expires and is collected again.
CONSTANTS
    Callers = {c1, c2, c3}
    TTL = 1
    MaxClock = 1
SPECIFICATION FairSpec
INVARIANTS
    TypeOK
    NeverStale
    CollectionsSpaced
    PanicStopsOne
PROPERTIES
    CallsReturn
