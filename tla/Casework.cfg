SPECIFICATION Spec
CONSTANTS
    p = p
    s = s
    Players = {p, s}
    Staff = {s}
    Linked = {p}
    May <- EveryPermission
    Web = {w1, w2}
    Flags = {f}
    Roles = {"subject", "assisting_staff"}
    None = None
    MaxCases = 2
    MaxAwards = 1
    MaxBans = 2
    MaxAppeals = 1
    MaxEntries = 3
    MaxFlips = 2
    MaxReviews = 2
    Scenarios <- ThreeScenarios
SYMMETRY Symmetry
INVARIANTS RecordComplete
PROPERTIES BansHold
CHECK_DEADLOCK FALSE
