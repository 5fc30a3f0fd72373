CONSTANTS
    Policies = {p1, p2}
    Models = {m1, m2}
    None = None
    MaxEdits = 1
SPECIFICATION FairSpec
INVARIANTS CutoverSafe PhaseFollowsModels
PROPERTY CutoverFinishes
CHECK_DEADLOCK FALSE
