CONSTANTS
    finger = finger
    fingers = fingers
    c1 = c1
    c2 = c2
    Modes <- MCModes
    Conns <- TwoConns
SPECIFICATION Spec
SYMMETRY Symmetry
INVARIANTS
    TypeOK
    AbandonedOnlyByFatalAccept
    CleanStop
    ErrorsNotDropped
    StopsOnlyForCause
    SocketsClosedOnReturn
