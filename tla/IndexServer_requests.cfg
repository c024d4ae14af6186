CONSTANTS
    Projects = {A, B}
    Files = {x, y}
    Requests = {i, j}
    Chats = {c}
    A = A
    B = B
    x = x
    y = y
    i = i
    j = j
    c = c
    d = d
    None = None
    MaxEdits = 1
    MaxFaults = 1
    MaxClears = 1
SPECIFICATION Spec
INVARIANTS
    TypeOK
    OneRunAtATime
    
    ActiveSessionHasIndex
    AnswersAreFresh
SYMMETRY Symmetry
