CONSTANTS
    Names = {t1, t2}
    Gateways = {g1}
    None = None
    DeletionTimeout = TRUE
    PolicyTenants = {}
    MaxUID = 2
    MaxEdits = 0
    MaxFaults = 1
SPECIFICATION FairSpec
PROPERTY DeletionCompletes
CHECK_DEADLOCK FALSE
