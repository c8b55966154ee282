SPECIFICATION FairSpec
CONSTANTS
    Buffers = {b1, b2}
    NoBuf = NoBuf
    MayStop = TRUE
    CameraMayFail = FALSE
    DrpMayFail = TRUE
    JoinMayTimeout = TRUE
PROPERTIES
    OfferIsAnswered
    StopFinishes
    StopEndsCapture
    LastWakeEndsInference
CHECK_DEADLOCK FALSE
