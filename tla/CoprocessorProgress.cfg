SPECIFICATION FairSpec
CONSTANTS
    MaxWorkers = 2
    MaxTasks = 2
    MaxKept = 0
    MaxSources = 1
    MaxChunks = 0
    OneShotKinds = {"bounded"}
    ChannelIds = {0}
PROPERTIES
    StoppingCompletes
    BoundedTaskIsAnswered
