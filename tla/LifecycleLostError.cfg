CONSTANTS
    finger = finger
    fingers = fingers
    c1 = c1
    c2 = c2
    Modes <- MCModes
    Conns <- OneConn
SPECIFICATION Spec
INVARIANT ListenerErrorIsReturned
