CONSTANTS
    MaxRequestBytes = 1
    MaxHeaderBytes = 1
    Clients <- MCClients
SPECIFICATION FairSpec
INVARIANTS
    TypeOK
    NoByteLost
    AnsweredLineIsWhole
    LoggedForClient
    HeaderNamesPublicClient
    SilenceMeansNoLine
PROPERTIES
    EveryConnEnds
    ImplementsExchange
