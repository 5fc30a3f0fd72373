CONSTANTS
    Validations = {v1, v2, v3, v4}
    NoSlot = NoSlot
    TTLs = {0, 2}
    MaxClock = 4
SPECIFICATION DebounceSpec
SYMMETRY Symmetry
INVARIANTS
    SlotBacked
PROPERTY Debounced
CHECK_DEADLOCK FALSE
