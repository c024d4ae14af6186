CONSTANTS
    Projects = {A}
    Files = {x}
    Requests = {i}
    Chats = {c}
    A = A
    B = B
    x = x
    y = y
    i = i
    j = j
    c = c
    d = d
    None = None
    MaxEdits = 1
    MaxFaults = 1
    MaxClears = 1
SPECIFICATION FairSpec
PROPERTIES
    LockIsFreed
    StreamsEnd
