CONSTANTS
    MaxRequestBytes = 1
    MaxHeaderBytes = 1
    Clients <- Oversized
SPECIFICATION Spec
INVARIANT OversizedLineIsAnswered
