CONSTANTS
    Wheels <- MCWheels
    UpperBounds = {14, 15}
    Minors = {4, 9, 10, 13, 14, 15, 16}
SPECIFICATION Spec
INVARIANTS
    TypeOK
    RecordsUnique
    RecordsSound
    RecordsComplete
    DependsMeanTheMarkers
    OneReading
    FailureIsJustified
