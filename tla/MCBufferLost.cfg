SPECIFICATION Spec
CONSTANTS
    Buffers = {b1, b2, b3, b4}
    NoBuf = NoBuf
    MayStop = FALSE
    CameraMayFail = FALSE
    DrpMayFail = FALSE
    JoinMayTimeout = FALSE
SYMMETRY BufferSymmetry
INVARIANT NoBufferLost
