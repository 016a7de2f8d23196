SPECIFICATION FairSpec
CONSTANTS
    head = head
    junior = junior
    outsider = outsider
    People = {head, junior, outsider}
    Founders <- FirstStaff
    TopRank = 2
    HeadAdminLevel = 2
    Grants <- ByRank
    Linked = {outsider}
    Banned = {}
    Web = {w1, w2}
    Teams = {blue}
    None = None
    Outcomes = {"pass", "fail"}
    MaxPosts = 3
    Keys <- BothLetters
    OutboxBatch = 2
    LogBatch = 2
    MaxFaults = 1
    MaxLog = 3
    MaxApps = 2
    MaxNotes = 1
    Scenarios <- Scenes
INVARIANTS ApplicationsInOrder
PROPERTIES OnlyFromAbove MailboxSpec LoopsGetDone
CHECK_DEADLOCK FALSE
