CONSTANTS
    Proc = {p1, p2}
    MaxAge = 1
    MaxTime = 2
SYMMETRY Symmetry
SPECIFICATION Spec
INVARIANTS
    TypeOK
    OnlyCompleteResponses
    StagedFileOwned
    BoundedStaleness
    OldFilesReclaimed
PROPERTY NewestSurvives
