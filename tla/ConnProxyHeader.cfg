CONSTANTS
    MaxRequestBytes = 1
    MaxHeaderBytes = 1
    Clients <- LiveProbe
SPECIFICATION Spec
INVARIANT LiveProbeIsAnswered
