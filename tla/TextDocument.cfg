SPECIFICATION Spec
CONSTANTS
    Char = {a, b}
    Owner = {main, first, second}
    Main = main
    Cell = {c1, c2, c3, c4}
    MaxLength = 3
    MaxAdd = 2
    MaxInsert = 1
    MaxWhole = 2
    MaxOps = 3
    MaxVersion = 1
INVARIANTS
    PiecesFit
PROPERTIES
    SnapshotsFrozen
    ImplementsValues
SYMMETRY Symmetry
