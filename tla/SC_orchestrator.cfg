CONSTANTS
    Data = {a, b}
    Extras = {x, y}
    Workers = {w1, w2}
    MaxCalls = 3
    Keep = Keep
    NoRow = NoRow
    Nothing = Nothing
    Idle = Idle
SPECIFICATION Spec
CONSTRAINT Scope
SYMMETRY Symmetry
INVARIANTS TypeOK OneAtATime SettledMatchesOrchestrator
PROPERTY LockedWhileConfiguring
CHECK_DEADLOCK FALSE
