SPECIFICATION Spec
CONSTANTS
    ann = ann
    bob = bob
    ore = ore
    ingot = ingot
    Players = {ann, bob}
    Classes = {ore}
    Product <- OneClass
    Bags = {bag1}
    Trunks = {}
    Scripts = {s1, s2}
    Handlers = {"give", "discard", "use", "buy", "buyByBank", "sell", "giveCash", "gather", "processFree", "store", "take", "strip", "adminGive", "adminCash", "useAtOnce"}
    Carry = 3
    Capacity = 1
    Quantities = {1}
    InitItems = 1
    InitCash = 1
    Faults = {"refused", "replyLost", "commitLost"}
    MaxFaults = 1
    MaxRequests = 3
SYMMETRY Symmetry
INVARIANTS ListsAgree PocketAgrees
CHECK_DEADLOCK FALSE
