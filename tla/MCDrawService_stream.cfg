SPECIFICATION Spec
CONSTANTS
    a = a
    b = b
    c = c
    f1 = f1
    v1 = v1
    v2 = v2
    Ids = {a, b}
    Frames = {f1}
    Vals = {v1}
    NoEntity = NoEntity
    Subs = {s1}
    Payloads <- TransformOrChunked
    MaxPending = 1
    BatchLimit = 2
    DiskCanFail = TRUE
INVARIANTS
    TypeOK
    NoLostWakeup
    NoDanglingRelationship
