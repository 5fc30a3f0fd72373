CONSTANTS
    m1 = m1
    m2 = m2
    n1 = n1
    n2 = n2
    Subs = {s1, s2}
    Models = {m1, m2}
    NameOf <- DistinctNames
    External = {m1}
    Aliases = {a1, n1}
    None = None
    MaxEdits = 2
SPECIFICATION SelectionSpec
SYMMETRY Symmetry
INVARIANTS  ServedAsListed KeySticks
CHECK_DEADLOCK FALSE
