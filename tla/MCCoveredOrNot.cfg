SPECIFICATION Spec
CONSTANTS
    N = 5
    Builds <- SameHashOnly
    NumberTasks = 2
    MaxRehash = 0
    TaskMayFail = FALSE
    SceneMayFail = FALSE
    UserMayStop = FALSE
    SpawnMayFail = FALSE
INVARIANTS
    CoveredOrNot
