\* Two workers, one for a server that may leave requests open for ever.
CONSTANTS
    Instances = {s1, s2}
    Answering = {s1}
    MaxVersion = 2
SPECIFICATION FairSpec
INVARIANTS
    NoneLeftBehind
    ErrorOnlyIfAllPanicked
PROPERTIES
    StopsWhenAsked
    OthersGoOn
