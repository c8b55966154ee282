SPECIFICATION Spec
CONSTANTS
    Models = {resnet, yolo}
    Unknown = unknown
    Disconnect = disconnect
    NoModel = nomodel
    MaxSessions = 2
    CameraMayFail = TRUE
    StreamoffMayFail = TRUE
    DrpMayFail = TRUE
    FilesMayFail = TRUE
    SpawnMayFail = TRUE
    JoinMayTimeout = TRUE
SYMMETRY ModelSymmetry
CHECK_DEADLOCK FALSE
INVARIANTS
    OneDrpDescriptor
    JoinedTwiceOnlyAfterFailure
