CONSTANTS
    Models = {m1, m2}
    External = {m2}
    Canonical = {m2}
    Aliases = {a1, a2}
    Tenants = {t1, t2}
    Gateways = {g1}
    NoParent = NoParent
    None = None
    MaxEdits = 2
SPECIFICATION Spec
SYMMETRY Symmetry
INVARIANTS ReadyIsServed ConflictSeen
CHECK_DEADLOCK FALSE
