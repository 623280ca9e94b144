SPECIFICATION FairSpec
CONSTANTS
    a = a
    b = b
    c = c
    f1 = f1
    v1 = v1
    v2 = v2
    Ids = {a}
    Frames = {f1}
    Vals = {v1, v2}
    NoEntity = NoEntity
    Subs = {s1}
    Payloads <- ContentPayloads
    MaxPending = 1
    BatchLimit = 1
    DiskCanFail = FALSE
INVARIANTS
    CaughtUpHoldsStore
    AllInStep
PROPERTIES
    BacklogDrains
