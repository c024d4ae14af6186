CONSTANTS
    A = A
    B = B
    src = src
    man = man
    None = None
    Roots = {A, B}
    Files = {src, man}
    Authoritative = {man}
    Lines = {1, 2}
    Shapes <- MCShapes
    InitialDisks <- TwoDisks
    MaxEdits = 1
    MaxFaults = 2
    MaxUpgrades = 1
    Reverts = FALSE
SPECIFICATION Spec
INVARIANTS
    TypeOK
    
    
    NoForeignChunks
    NoOrphanVectors
    
