SPECIFICATION AccessSpec
CONSTANTS
    ann = ann
    bob = bob
    cid = cid
    x = x
    y = y
    vip = vip
    verified = verified
    mod = mod
    cop = cop
    red = red
    b1 = b1
    b2 = b2
    People = {ann, bob, cid}
    Accounts = {x, y}
    Groups = {verified, mod, vip}
    Teams = {red}
    MapForms <- ThreeForms
    FirstPlayers <- ThreePlayers
    FirstMembers = {x, y}
    Async = {t1}
    Null = Null
    MaxFaults = 1
    MaxHands = 1
    MaxChanges = 1
    Ranks = {1, 2, 3, 4}
    FirstRanks <- FourRanks
    Gone = Gone
    Levels = {10, 15}
    SaveForms <- SixForms
    Overrides = {}
    NoOverride = {"roles.manage", "staff.edit"}
    Codes = {c1}
    Browsers = {b1, b2}
    Newcomers = {cid}
    FirstSessions <- BothIn
    TopLevel = 100
    Scenarios = {
        {"bot", "sync", "status", "rank"}, {"bot", "hand", "level"}, {"bot", "guild"}, {"bot", "code"},
        {"bot", "unlink", "hand"}, {"bot", "connect", "hand"}, {"bot", "reconnect"}, {"bot", "panel", "map"},
        {"join", "connect", "status", "panel"}, {"panel", "save", "rank"}, {"panel", "create", "save"},
        {"panel", "move", "rank"}, {"panel", "create", "move"}, {"panel", "delete", "rank"}, {"panel", "create", "delete"}}
PROPERTIES RolesKept AccessHolds
CHECK_DEADLOCK FALSE
