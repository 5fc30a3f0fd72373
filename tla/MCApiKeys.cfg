CONSTANTS
    Keys = {k1}
    Users = {root}
    Admins = {root}
    Tenants = {ta, tb}
    DefaultTenant = ta
    Legacy = {k1}
    Subs = {gold}
    NoSub = NoSub
    NoRow = NoRow
    NoKey = NoKey
    Requests = {r1, r2}
    MaxTime = 4
    MaxSkew = 1
    MaxRegularTTL = 2
    MaxEphemeralTTL = 1
    Grace = 1
SPECIFICATION Spec
SYMMETRY Symmetry
INVARIANTS
    IndInv
    RevokedNeverValidates
    BulkRevokedWithinSkew
    RevokeAnswersRevoked
PROPERTIES
    CleanupHarmless
    NeverReportedActiveAgain
    ImplementsLifecycle
CHECK_DEADLOCK FALSE
