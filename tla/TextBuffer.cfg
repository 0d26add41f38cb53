SPECIFICATION Spec
CONSTANTS
    Text = {empty, a}
    Empty = empty
    Cursor = {c0}
    Home = c0
    Scene = {s0, s1}
    Job = {job}
    MaxVersion = 3
    MaxDepth = 2
INVARIANTS
    TypeOK
    UnmodifiedMeansSaved
PROPERTIES
    UndoRedoTravel
    RevertRestores
VIEW Read
