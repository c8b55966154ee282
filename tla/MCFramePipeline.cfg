SPECIFICATION Spec
CONSTANTS
    Buffers = {b1, b2, b3, b4}
    NoBuf = NoBuf
    MayStop = TRUE
    CameraMayFail = TRUE
    DrpMayFail = TRUE
    JoinMayTimeout = TRUE
SYMMETRY BufferSymmetry
INVARIANTS
    TypeOK
    TurnIsExclusive
    InputNotRefilled
    ResultShowsItsInput
    RequeueAccepted
PROPERTY HandoffStable
CHECK_DEADLOCK FALSE
