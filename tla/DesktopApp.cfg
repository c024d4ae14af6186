CONSTANTS
    one = one
    two = two
    None = None
    Apps = {one, two}
    Setups = {1, 2}
    Ports = {1, 2}
    Taken = {1}
    Machines <- MCMachines
    Pieces = 3
    Floor = 1
    MaxFaults = 2
SPECIFICATION Spec
INVARIANTS
    TypeOK
    
    ServedModelIsWhole
    
    NoServerLeft
CHECK_DEADLOCK FALSE
