SPECIFICATION Spec
CONSTANTS
    f1 = f1
    p1 = p1
    p2 = p2
    Frames = {f1}
    N = 2
    Reports <- NothingOrOne
    NoFrame = NoFrame
    Missing = Missing
    Parts = {p1, p2}
    None = None
    MaxChanges = 2
    MaxDrags = 1
    MaxLog = 4
    MaxSaves = 1
INVARIANTS
    TypeOK
    CleanFollowsNetwork
    DragIsOneEntry
    StagedIsSaved
PROPERTIES
    SaveKeepsPicture
    EditIsNotFought
SYMMETRY Symmetry
