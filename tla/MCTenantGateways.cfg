CONSTANTS
    Names = {t1, t2}
    Gateways = {g1, g2}
    None = None
    DeletionTimeout = FALSE
    PolicyTenants = {t1}
    MaxUID = 2
    MaxEdits = 1
    MaxFaults = 1
SPECIFICATION Spec
SYMMETRY Symmetry
INVARIANTS
    NoOrphanPolicy
    NoOrphanLabel
PROPERTIES
    ActiveHoldsClaim
    SettledClaimKept
    PolicyKept
CHECK_DEADLOCK FALSE
