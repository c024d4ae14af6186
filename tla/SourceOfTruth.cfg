CONSTANTS
    gradle = gradle
    manifest = manifest
    Files <- MCFiles
    kind <- MCKind
    Size <- MCSize
    None = None
    NResults = 2
    MaxAsks = 2
    MaxRuns = 1
    MaxEdits = 2
    MaxFaults = 1
    MaxEvents = 4
CHECK_DEADLOCK FALSE
SPECIFICATION Spec
INVARIANTS
    TypeOK
    
    
    
