SPECIFICATION Spec
CONSTANTS
    Models = {resnet, yolo}
    Unknown = unknown
    Disconnect = disconnect
    NoModel = nomodel
    MaxSessions = 3
    CameraMayFail = TRUE
    StreamoffMayFail = FALSE
    DrpMayFail = TRUE
    FilesMayFail = TRUE
    SpawnMayFail = TRUE
    JoinMayTimeout = FALSE
SYMMETRY ModelSymmetry
CHECK_DEADLOCK FALSE
INVARIANTS
    TypeOK
    FinishedBeforeStart
    CameraOutlivesThreads
    LeftBeforeFirstCapture
PROPERTY ModelKeptWhileInferring
