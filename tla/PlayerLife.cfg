SPECIFICATION Spec
CONSTANTS
    Players = {p}
    Scripts = {s1, s2}
    None = None
    Sentence = 2
    Faults = {"refused", "restart"}
    MaxFaults = 1
    MaxLives = 1
    MaxArrests = 1
SYMMETRY Symmetry
CONSTRAINT StillSure
INVARIANTS OneLife TermsKept
