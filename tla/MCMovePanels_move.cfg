SPECIFICATION Spec
CONSTANTS
    f1 = f1  f2 = f2  g1 = g1  g2 = g2
    Frames = {f1, f2}
    Goals = {g1, g2}
    Options = {"readable", "broken"}
    Unreadable = {"broken"}
    Parts = {1, 2}
    Trajectories <- CappedTrajectory
    MaxInterpolatedFrames = 2
    MaxRequests = 2
    None = None
SYMMETRY Symmetry
INVARIANTS TypeOK OneMoveAtATime PreviewIsForGoal NoPlanSurvivesItsMove
