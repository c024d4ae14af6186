CONSTANTS
    LocalTexts <- MCLocalTexts
    RemoteTexts <- MCRemoteTexts
    Retrieved <- MCRetrieved
    MaxPieces = 1
    MaxToken = 1
    Part = 3
SPECIFICATION Spec
INVARIANT FailureIsShown
