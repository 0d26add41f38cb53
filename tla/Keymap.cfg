SPECIFICATION Spec
CONSTANTS
    Profiles = {p, q}
    Contexts = {edit}
    a = a
    b = b
    t = t
    Keys = {a, b}
    Bound <- ShortAndLong
    Targets = {t}
    Esc = Esc
    NoTarget = NoTarget
    None = None
    MaxBindings = 2
    MaxBatch = 1
INVARIANTS TypeOK PendingIsPrefix PrefixFree DraftIsAccepted
PROPERTIES ChangeIsProjected BatchIsApplied
SYMMETRY Symmetry
