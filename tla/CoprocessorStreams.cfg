SPECIFICATION Spec
CONSTANTS
    MaxWorkers = 2
    MaxTasks = 2
    MaxKept = 1
    MaxSources = 1
    MaxChunks = 1
    OneShotKinds = {"fold"}
    ChannelIds = {0}
CONSTRAINT KeptOrSource
INVARIANTS
    TypeOK
    CancelReachesEveryTask
    StopReachesEveryTask
    AnsweredOnce
    FinalAfterChunks
    TelemetryExact
    FinishedSourceIsErased
    NoDanglingLane
