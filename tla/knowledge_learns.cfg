\* Two sessions end, one after the other or together; every call may fail.
SPECIFICATION Spec
CONSTANTS
    stage = stage
    owner = owner
    tier = tier
    Ends = {e1, e2}
    Contents <- SomeContents
    Rulebook <- SomeRules
    Distance <- SomeDistance
    SkipDistance = 2
    MaxChunks = 2
    CallsFail = TRUE
SYMMETRY EndSymmetry
INVARIANTS
    TypeOK
    ClashesHaveACause
    ChunksAreAccountedFor
\* When every session has ended the system rests.
CHECK_DEADLOCK FALSE
