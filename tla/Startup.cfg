CONSTANTS
    MaxInt = 31
    Milli = 4
    MaxPort = 9
    ConfigFiles <- MCConfigFiles
    w1 = w1
    w2 = w2
    Writers <- MCWriters
    Nobody = Nobody
    Texts <- MCTexts
    MaxField = 8
    Pieces <- MCPieces
    MaxCalls = 1
SPECIFICATION FairSpec
INVARIANTS
    TypeOK
    LoadMeansFile
    StartedConfigIsSound
    FingersFallsBack
    LogsMatchStage
    EntryIsOneLine
PROPERTIES
    ImplementsLogFile
    LogCallsReturn
