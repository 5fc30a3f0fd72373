CONSTANTS
    s1 = s1
    m1 = m1
    Subs = {s1, s2}
    Models = {m1, m2}
    None = None
    OverLong <- OneOverLong
    MaxEdits = 2
SPECIFICATION FairSpec
INVARIANT LimitsExact
PROPERTIES OptedOutKept Settles
CHECK_DEADLOCK FALSE
