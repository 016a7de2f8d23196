SPECIFICATION Spec
CONSTANTS
    ann = ann
    bob = bob
    ore = ore
    ingot = ingot
    Players = {ann, bob}
    Classes = {ore, ingot}
    Product <- Smelting
    Bags = {bag1}
    Trunks = {truck}
    Scripts = {s1, s2}
    Handlers = {"process", "give", "store", "take", "strip"}
    Carry = 5
    Capacity = 1
    Quantities = {2}
    InitItems = 2
    InitCash = 2
    Faults = {"refused", "leave", "crash"}
    MaxFaults = 2
    MaxRequests = 2
SYMMETRY Symmetry
INVARIANTS HandlersBalance StoresHold
CHECK_DEADLOCK FALSE
