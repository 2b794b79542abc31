\* Two readers and a writer, two commits, each announced or silent, anywhere
\* among the queries of a collection, which may fail; the clock runs on past
\* the expiry of an entry.
CONSTANTS
    Readers = {r1, r2}
    Writers = {w1}
    Sources = 2
    TTL = 1
    MaxCommits = 2
    MaxClock = 2
    NoOne = NoOne
SPECIFICATION FairSpec
INVARIANTS
    TypeOK
    ReadYourWrites
    StaleAtMostTTL
PROPERTIES
    FreshNeverReplaced
    EveryoneAnswered
