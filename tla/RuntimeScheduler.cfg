SPECIFICATION Spec
CONSTANTS
    Timers = {t1}
    Closures = {c1}
    Window = w
    Windows = {w}
    OwnerOf <- OneOwner
    Ticks = 2
    Interval <- SameInterval
    Sessions = {s1, s2, s3, s4}
    MaxDepth = 2
    None = None
INVARIANTS
    TypeOK
    BlockedByLive
    TimerCovers
    NoTimerWithoutWindow
    NoOverlap
SYMMETRY Symmetry
