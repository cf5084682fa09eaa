SPECIFICATION Spec
CONSTANTS
    Wheels <- MCWheels
    FeedMinors <- MCFeedMinors
    Pythons <- MCPythons
    MaxMicro <- MCMaxMicro
INVARIANTS
    TypeOK
    ConditionMeansTheMarker
    PythonSpecMeansTheWheel
    RangeErrorsAreExact
    FailureIsJustified
