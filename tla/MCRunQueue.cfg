SPECIFICATION FairSpec
CONSTANTS
    N = 5
    Builds <- MCBuilds
    NumberTasks = 2
    MaxRehash = 2
    TaskMayFail = TRUE
    SceneMayFail = TRUE
    UserMayStop = TRUE
    SpawnMayFail = TRUE
INVARIANTS
    RunQueueTypeOK
    DepsFirst
    InputsPresent
    SceneExcludesCovered
    FailureHasCause
PROPERTIES
    BuildEnds
