SPECIFICATION FairSpec
CONSTANTS
    Tenants = {default, other}
    Default = default
    None = None
    MaxEdits = 1
PROPERTY ControllerStarts
CHECK_DEADLOCK FALSE
