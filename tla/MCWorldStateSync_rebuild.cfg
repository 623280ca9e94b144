SPECIFICATION FairSpec
CONSTANTS
    a = a
    b = b
    UUIDs = {a}
    Transforms <- BoxesAndCloud
    Absent = Absent
    MaxChanges = 1
    MaxInstances = 2
    MaxFailures = 0
    MaxCuts = 1
CHECK_DEADLOCK FALSE
INVARIANTS
    NoOldChunks
PROPERTIES
    Converges
