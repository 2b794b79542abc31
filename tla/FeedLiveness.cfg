\* One browser, which reads or does not, a channel of one update and two publishers.
CONSTANTS
    Hosts = {h1}
    Clients = {c1}
    Publishers = {p1, p2}
    Capacity = 1
    MaxCommits = 2
    NoCall = NoCall
SPECIFICATION FairSpec
PROPERTIES
    PublishersReturn
    ChangesShown
