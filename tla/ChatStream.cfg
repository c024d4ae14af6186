CONSTANTS
    LocalTexts <- MCLocalTexts
    RemoteTexts <- MCRemoteTexts
    Retrieved <- MCRetrieved
    MaxPieces = 4
    MaxToken = 3
    Part = 3
SPECIFICATION FairSpec
INVARIANTS
    TypeOK
    PayloadIsAccepted
    HealthyStreamFinishes
    EarlyFailureIsShown

    
