SPECIFICATION Spec
CONSTANTS
    Loads <- Files
    Inserts <- Typed
    MaxLen = 3
    MaxChange = 2
    MaxVersion = 2
    MaxDocuments = 2
    MaxFlight = 1
    Stride = 1
    ProbeLimit = 1
    PieceStride = 1
    Span = 1
    Budget = 2
INVARIANTS TypeOK LineNumbersRight ScansAreCurrent ReservationsOwned WarmupGoesOn
CHECK_DEADLOCK FALSE
