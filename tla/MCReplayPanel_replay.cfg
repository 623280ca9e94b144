SPECIFICATION Spec
CONSTANTS
    f1 = f1
    f2 = f2
    f3 = f3
    c1 = c1
    c2 = c2
    Files = {f1, f2}
    Steps <- TwoContents
    Broken = Broken
    MaxPlans = 2
    Candidates = {c1, c2}
    Status <- Solutions
    MinSteps = 2
    MaxSteps = 3
    DefaultSteps = 2
    MaxRequests = 2
    None = None
    MaxSwitches = 1
    Toggled = {"path"}
    MaxUploads = 1
CHECK_DEADLOCK FALSE
INVARIANTS
    TypeOK
    PlansAgree
    InspectionFollowsPanel
    InspectionLeavesNothing
