SPECIFICATION GarageSpec
CONSTANTS
    Vehicles = {car1, car2}
    Objects = {o1, o2, o3}
    Buyers = {b1, b2}
    None = none
    Faults = {"refused", "replyLost", "restart"}
    MaxFaults = 2
    MaxRequests = 7
SYMMETRY Symmetry
INVARIANTS OneObject EveryPaymentServed
PROPERTIES DestroyedStays
CHECK_DEADLOCK FALSE
