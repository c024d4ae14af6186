CONSTANTS
    A = A
    B = B
    p = p
    q = q
    Empty = Empty
    Partial = Partial
    None = None
    Roots = {A, B}
    Versions = {1, 2}
    First = 1
    Questions = {p, q}
    MaxEdits = 1
    MaxFaults = 1
SPECIFICATION Spec
INVARIANTS
    TypeOK
    
    
SYMMETRY Symmetry
