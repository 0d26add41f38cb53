SPECIFICATION Spec
CONSTANTS
    Text = {empty, a, b}
    Empty = empty
    Cursor = {c0, c1}
    Home = c0
    Scene = {s0, s1}
    Job = {job}
    MaxVersion = 3
    MaxDepth = 2
INVARIANTS
    StagedOnItsOwnText
SYMMETRY Symmetry
