SPECIFICATION Spec
CONSTANTS
    Processes = {p1, p2}
    Goroutines = {g1, g2, g3}
    None = none
    Requests = {"start", "stop", "stopAll", "restart", "schedule"}
    maxCrashes = 3
CONSTRAINT UntilRaced
SYMMETRY Symmetry
INVARIANTS NeverTwice InStep
PROPERTIES StartsAllowed
CHECK_DEADLOCK FALSE
