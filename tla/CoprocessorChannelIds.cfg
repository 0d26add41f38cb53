SPECIFICATION Spec
CONSTANTS
    MaxWorkers = 2
    MaxTasks = 2
    MaxKept = 0
    MaxSources = 1
    MaxChunks = 1
    OneShotKinds = {"process"}
    ChannelIds = {1}
INVARIANTS
    CreditedToOwnReader
