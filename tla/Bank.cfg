SPECIFICATION FairSpec
CONSTANTS
    Accounts = {1, 2, 3}
    Players = {p1, p2}
    Owner <- ThreeAccounts
    Tokens = {t1}
    Amounts = {1}
    MaxBalance = 2
    Web = {w1, w2}
    Game = game
    Dba = dba
    NoSession = nosession
    NoToken = notoken
    Offered = {"transfer", "purchase", "deposit", "withdraw", "cash", "adjust", "editCache", "editBalance"}
    InitBalance = 1
    InitCash = 1
    MaxTx = 2
    p1 = p1
    p2 = p2
    w1 = w1
    w2 = w2
    t1 = t1
    t2 = t2
INVARIANTS BalancesAgree NeverNegative FundsCheckHolds
PROPERTIES LedgerSpec EveryTransactionEnds
CHECK_DEADLOCK FALSE
