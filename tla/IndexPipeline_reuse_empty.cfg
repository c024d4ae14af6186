CONSTANTS
    A = A
    B = B
    src = src
    man = man
    None = None
    Roots = {A, B}
    Files = {src, man}
    Authoritative = {man}
    Lines = {1, 2}
    Shapes <- MCShapes
    InitialDisks <- TwoDisks
    MaxEdits = 0
    MaxFaults = 0
    MaxUpgrades = 0
    Reverts = FALSE
SPECIFICATION Spec
INVARIANTS
    ReusedFilesAreStored
