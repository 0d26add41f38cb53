SPECIFICATION Spec
CONSTANTS
    Text = {empty, a, b}
    Empty = empty
    Cursor = {c0}
    Home = c0
    Scene = {s0}
    Job = {job}
    MaxVersion = 3
    MaxDepth = 2
INVARIANTS
    UndoneCanBeRedone
SYMMETRY Symmetry
