CONSTANTS
    A = A
    B = B
    f = f
    g = g
    None = None
    Roots = {A, B}
    First = A
    Files = {f, g}
    Present = {f}
    MaxEdits = 2
    MaxStarts = 2
SPECIFICATION FairSpec
INVARIANTS
    TypeOK
    NoChangeIsLost
    SwitchIsClean

    
