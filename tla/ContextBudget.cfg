CONSTANTS
    anchor = anchor
    copy = copy
    plan = plan
    near = near
    manifest = manifest
    Files = {anchor, copy, plan, near, manifest}
    Base <- MCBase
    Anchors = {anchor}
    Planned = {plan}
    Neighbors = {near}
    Declaring = {plan, manifest}
    Mapped = {plan, manifest}
    Preference <- MCPreference
    Lengths = {2, 14, 40}
    MaxChunks = 3
    Fixed = {0, 8, 10, 13}
    Window = 16
    Reserved = 3
    Margin = 1
    Wrap = 1
    Warning = 10
    Minimal = 8
    Cuts <- MCCuts
SPECIFICATION Spec
INVARIANTS
    TypeOK
    WindowKept
    PriorityKept
    NoNeedlessDrop
    DeclarationKept
CHECK_DEADLOCK FALSE
