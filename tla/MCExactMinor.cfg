SPECIFICATION Spec
CONSTANTS
    Wheels <- FineBoundWheels
    FeedMinors <- MCFeedMinors
    Pythons <- MCPythons
    MaxMicro <- MCMaxMicro
INVARIANTS
    ExactMinorIsGuaranteed
