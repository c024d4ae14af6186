CONSTANTS
    A = A
    B = B
    src = src
    man = man
    None = None
    Roots = {A}
    Files = {src, man}
    Authoritative = {man}
    Lines = {1, 2}
    Shapes <- MCShapes
    InitialDisks <- OneDisk
    MaxEdits = 2
    MaxFaults = 1
    MaxUpgrades = 0
    Reverts = TRUE
SPECIFICATION FairSpec
PROPERTIES
    RefreshConverges
