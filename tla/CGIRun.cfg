CONSTANTS
    k1 = k1
    k2 = k2
    Kids <- TwoKids
    Cap = 1
    MaxOut = 2
    Launches <- MCLaunches
SPECIFICATION FairSpec
INVARIANTS
    TypeOK
    BodyIsComplete
    TimeoutKillsGroup
    LeaderIsReaped
    ProgramIsConfined
PROPERTY DeadlineEndsRun
