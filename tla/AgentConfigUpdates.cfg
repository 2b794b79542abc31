\* One worker, whose server answers every request.
CONSTANTS
    Instances = {s1}
    Answering = {s1}
    MaxVersion = 2
SPECIFICATION FairSpec
PROPERTIES
    UpdatesReachWorker
