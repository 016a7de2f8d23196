SPECIFICATION Spec
CONSTANTS
    chief = chief
    sergeant = sergeant
    rookie = rookie
    People = {chief, sergeant, rookie}
    Founders <- FirstLevels
    TopLevel = 3
    FirstRanks <- TheRanks
    Configure = {rookie}
    EditLevels = {rookie}
    Quals = {"FTO"}
    Divisions <- TheDivisions
    Items = {"driving"}
    Points = {30}
    SlotSizes = {1}
    RankQuals = {{}}
    Web = {w1, w2}
    None = None
    MaxProbations = 2
    MaxEntries = 6
    MaxApps = 1
    MaxListed = 1
    MaxDischarges = 1
    Scenarios <- Scenes
SYMMETRY Symmetry
CONSTRAINT Few
INVARIANTS DisciplineAddsUp DecisionsStand
PROPERTIES OnlyFromAbove MembershipHolds
CHECK_DEADLOCK FALSE
