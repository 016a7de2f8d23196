SPECIFICATION FairSpec
CONSTANTS
    Processes = {p1, p2}
    Goroutines = {g1, g2, g3}
    None = none
    Requests = {"stop"}
    maxCrashes = 3
PROPERTIES NeverWedged FoundAgain
CHECK_DEADLOCK FALSE
