SPECIFICATION Spec
CONSTANTS
    a = a
    b = b
    UUIDs = {a, b}
    Transforms <- Clouds
    Absent = Absent
    MaxChanges = 2
    MaxInstances = 1
    MaxFailures = 1
    MaxCuts = 1
CHECK_DEADLOCK FALSE
INVARIANTS
    TypeOK
    MirrorsStore
    DebtsAreDriven
SYMMETRY Symmetry
