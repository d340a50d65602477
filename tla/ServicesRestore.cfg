SPECIFICATION Spec
CONSTANTS
    Reqs = {r1, r2}
    None = None
    MaxTime = 2
    Scenes <- RestoreScenes
SYMMETRY Symmetry
CHECK_DEADLOCK FALSE
INVARIANT RestoredOwnsData
