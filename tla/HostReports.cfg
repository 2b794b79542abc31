\* Two requests at a time, three reports on one host that keeps one snapshot.
CONSTANTS
    Hosts = {h1}
    Requests = {r1, r2}
    MaxSnapshots = 1
    Limit = 2
    MaxTime = 3
    MaxReports = 3
SPECIFICATION FairSpec
INVARIANTS
    TypeOK
    NewestKept
    ListedAsReported
    InfoWhole
PROPERTIES
    RequestsAnswered
