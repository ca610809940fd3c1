CONSTANTS
    Learners = {l1, l2, l3}
    Keys = {k1, k2, k3, k4}
    Workers = {w1, w2}
    UsageLimit = 1
    MaxKeys = 1
    NoKey = NoKey
    NoRow = NoRow
    Idle = Idle
SPECIFICATION Spec
CONSTRAINT Scope
SYMMETRY Symmetry
INVARIANTS TypeOK WithinLimits
PROPERTY InactiveUnlessOvertaken
