SPECIFICATION FairSpec
CONSTANTS
    Tenants = {default, other}
    Default = default
    None = None
    MaxEdits = 1
INVARIANTS
    TeardownHonest
    SignalSurvives
    ModuleStatusAgrees
    NoOrphanBinding
PROPERTIES
    TeardownFinishes
    AnchorHeals
CHECK_DEADLOCK FALSE
