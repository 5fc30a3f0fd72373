CONSTANTS
    Keys = {k1}
    Models = {m1}
    NoModel = NoModel
    Never = Never
    Nothing = Nothing
    MetadataCacheTTL = 2
    AuthzCacheTTL = 5
    MaxTime = 5
SPECIFICATION Spec
INVARIANTS
    IndInv
    RevokedKeyLag
    WithdrawnAccessLag
CHECK_DEADLOCK FALSE
