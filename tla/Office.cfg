SPECIFICATION Spec
CONSTANTS
    ann = ann
    bob = bob
    cat = cat
    Scenes = {"notices", "tickets", "rules", "drive", "order", "parts", "labels", "gangs", "steam", "status", "welcome"}
    People = {ann, bob, cat}
    FirstStaff <- FirstStaffValue
    None = None
    MaxNotes = 4
    Clerks = {w1, w2}
    Supporters = {ann, cat}
    Categories = {1, 2}
    Parent <- ParentValue
    MaxTickets = 1
    MaxMessages = 2
    Editors = {w1, w2}
    TextForms <- TextFormsValue
    SectionForms <- SectionFormsValue
    MaxVersions = 3
    Readers = {bob}
    Standings <- StandingsValue
    FirstStanding <- FirstStandingValue
    Forms <- FormsValue
    Wide = "wide"
    Texts = {1, 2}
    Hands = {w1, w2}
    MaxItems = 1
    MaxSaves = 2
    MaxFolders = 1
    Benches = {w1, w2}
    Authors = {1, 2}
    Columns = {"todo", "done"}
    LabelNames = {"Core", "core"}
    Lower <- LowerValue
    Precision = 3
    MaxCards = 3
    MaxMoves = 3
    MaxParts = 3
    lo = lo
    moe = moe
    ned = ned
    Gangsters = {ann, lo, moe, ned}
    NameOf <- NamesValue
    LeaderOf <- LeadersValue
    Portals = {w1, w2}
    Nowhere = Nowhere
    MaxDeeds = 4
    g = g
    Profiles = {g}
    Refreshers = {w1, w2}
    Unknown = Unknown
    maxIDsPerCall = 1
    MaxBans = 2
    MaxRefreshes = 4
    MaxMisses = 1
    Components <- ComponentsValue
    Self = "website"
    BotKey = "discord"
    Interval = 2
    DayLength = 6
    MaxTime = 9
    MaxTroubles = 2
    Channels = {ch1, ch2}
    ch1 = ch1
    ch2 = ch2
    NoChannel = NoChannel
    Pages = {w1, w2}
    w1 = w1
    w2 = w2
    MaxPosted = 3
SYMMETRY Alike
CONSTRAINT Few
INVARIANTS EveryAnswerTold HighlightsTrue NothingLost VersionsComplete GangLogReplays UntoldOnlyIfLost OutagesCount PostsAreTrue
PROPERTIES LandsBefore
