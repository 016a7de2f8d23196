-------------------------------- MODULE BankDb --------------------------------
(***************************************************************************)
(* The bank as the database runs it: every money operation of the website  *)
(* (bank.moveMoney, players.Compensate), of the game server's one database *)
(* connection (BankTx, BankCash, SaveCashDelta, AdminCompensate) and of an *)
(* operator editing tables by hand is a transaction of several SQL         *)
(* statements.  Statements of different sessions interleave; a statement   *)
(* waits for the row locks it needs; the triggers of schema.sql run inside *)
(* the statement that fires them, except that the cache update waits for   *)
(* the player's row and so is a step of its own.  Uncommitted row versions *)
(* are private to their session; COMMIT publishes them.                    *)
(*                                                                         *)
(* Game is one session because Database::mutex_ serialises the extension.  *)
(***************************************************************************)
EXTENDS BankLedger, FiniteSets

CONSTANTS
    Web,        \* website requests running at the same time (pooled connections)
    Game,       \* the extension's connection
    Dba,        \* a person in psql, or in the website's database view
    NoSession,
    NoToken,    \* an adjustment's row carries no token
    Offered,    \* the operations requested in this instance, a subset of Ops
    InitBalance, InitCash,
    MaxTx       \* bound on transactions begun

Sessions == Web \cup {Game, Dba}

Ops == {"transfer", "purchase", "deposit", "withdraw", "cash",
        "adjust", "editCache", "editBalance"}

Edits == {"editCache", "editBalance"}

ASSUME DbAssumption ==
    /\ Accounts \subseteq Nat
    /\ NoSession \notin Sessions
    /\ NoToken \notin Tokens
    /\ Game \notin Web /\ Dba \notin Web /\ Game # Dba
    /\ Offered \subseteq Ops
    /\ InitBalance \in Nat /\ InitCash \in Nat /\ MaxTx \in Nat

VARIABLES
    cache,     \* players.<faction>_bank: what load and the phone show
    history,   \* the sum of the account's bank_transactions.amount
    accLock,   \* who holds the bank_accounts row
    rowLock,   \* who holds the players row
    tx,        \* each session's transaction: its request and its next statement
    img,       \* each session's uncommitted row versions
    begun      \* transactions begun so far, up to MaxTx

committed == <<balance, cash, spent, cashSpent, cache, history>>
locks == <<accLock, rowLock>>
vars == <<committed, locks, tx, img, begun>>

-------------------------------------------------------------------------------

Steps == {"idle", "lockFirst", "lockSecond", "check", "debit", "syncDebit",
          "credit", "syncCredit", "lockRow", "moveCash", "commit"}

NoRequest == [op |-> "none", from |-> 0, to |-> 0, n |-> 0, tok |-> NoToken, seen |-> 0]
Idle == [req |-> NoRequest, pc |-> "idle"]

Clean == [wrote |-> {}, bal |-> [a \in Accounts |-> 0], rows |-> [a \in Accounts |-> 0],
          synced |-> {}, shown |-> [a \in Accounts |-> 0], purse |-> [a \in Accounts |-> 0]]

Init ==
    /\ balance = [a \in Accounts |-> InitBalance]
    /\ cash = [a \in Accounts |-> InitCash]
    /\ cache = balance
    /\ history = balance
    /\ spent = {} /\ cashSpent = {}
    /\ accLock = [a \in Accounts |-> NoSession]
    /\ rowLock = [p \in Players |-> NoSession]
    /\ tx = [s \in Sessions |-> Idle]
    /\ img = [s \in Sessions |-> Clean]
    /\ begun = 0

\* What session s reads for an account it has locked: its own version first.
Balance(s, a) == IF a \in img[s].wrote THEN img[s].bal[a] ELSE balance[a]

At(s, step) == tx[s].pc = step
Goto(s, step) == tx' = [tx EXCEPT ![s].pc = step]

-------------------------------------------------------------------------------
(* Requests.                                                               *)

Start(s, step, request) ==
    /\ At(s, "idle")
    /\ begun < MaxTx
    /\ request.op \in Offered
    /\ begun' = begun + 1
    /\ tx' = [tx EXCEPT ![s] = [req |-> request, pc |-> step]]
    /\ UNCHANGED <<committed, locks, img>>

Request(op, from, to, n, tok) ==
    [op |-> op, from |-> from, to |-> to, n |-> n, tok |-> tok, seen |-> 0]

\* bank.moveMoney: two accounts, two row locks, lower id first.
MoveMoney(w) ==
    \E from, to \in Accounts, n \in Amounts, t \in Tokens :
        /\ from # to
        /\ Start(w, "lockFirst", Request("transfer", from, to, n, t))

\* players.Compensate, from the website.
Compensate(w) ==
    \E a \in Accounts, n \in Amounts :
        Start(w, "lockFirst", Request("adjust", a, a, n, NoToken))

\* Database::AdminCompensate, from the Admin app in the game: the same row.
AdminCompensate ==
    \E a \in Accounts, n \in Amounts :
        Start(Game, "lockFirst", Request("adjust", a, a, n, NoToken))

\* Database::BankTx.
BankTxTransfer ==
    \E from, to \in Accounts, n \in Amounts, t \in Tokens :
        /\ from # to
        /\ Start(Game, "lockFirst", Request("transfer", from, to, n, t))

BankTxPurchase ==
    \E a \in Accounts, n \in Amounts, t \in Tokens :
        Start(Game, "lockFirst", Request("purchase", a, a, n, t))

\* Database::BankCash.
BankCash ==
    \E op \in {"deposit", "withdraw"}, a \in Accounts, n \in Amounts, t \in Tokens :
        Start(Game, "lockFirst", Request(op, a, a, n, t))

\* Database::SaveCashDelta.
SaveCashDelta ==
    \E a \in Accounts, n \in Amounts, t \in Tokens, sign \in {1, -1} :
        Start(Game, "moveCash", Request("cash", a, a, sign * n, t))

\* The extension's "bank" command: by its operation to BankTx or BankCash.
HandleBank == BankTxTransfer \/ BankTxPurchase \/ BankCash

\* UPDATE players SET <faction>_bank = v, by hand: the row first, then the account.
EditPlayersBank ==
    \E a \in Accounts, v \in 0..MaxBalance :
        Start(Dba, "lockRow", Request("editCache", a, a, v, NoToken))

\* UPDATE bank_accounts SET balance = v, by hand.
EditAccountBalance ==
    \E a \in Accounts, v \in 0..MaxBalance :
        Start(Dba, "lockFirst", Request("editBalance", a, a, v, NoToken))

-------------------------------------------------------------------------------
(* Statements.                                                             *)

\* Mutant of Free: a statement does not wait for the row it changes.
NoRowLock(lock, s) == TRUE

\* A row lock is re-entrant.
Free(lock, s) == lock \in {NoSession, s}

FirstAccount(r) == IF r.to < r.from THEN r.to ELSE r.from
\* Mutant of SecondAccount: the lower id is locked twice.
FirstAccountAgain(r) == IF r.to < r.from THEN r.to ELSE r.from

SecondAccount(r) == IF r.to < r.from THEN r.from ELSE r.to

AfterFirstLock(s) ==
    LET op == tx[s].req.op
    IN  \/ op = "transfer" /\ Goto(s, "lockSecond")
        \/ op \in {"deposit", "withdraw"} /\ Goto(s, "lockRow")
        \/ op = "purchase" /\ Goto(s, "debit")
        \/ op \in {"adjust"} \cup Edits /\ Goto(s, "credit")

\* SELECT ... FOR UPDATE of the only account, or of the lower id of two.
LockFirst(s) ==
    LET a == FirstAccount(tx[s].req)
    IN  /\ At(s, "lockFirst")
        /\ Free(accLock[a], s)
        /\ accLock' = [accLock EXCEPT ![a] = s]
        /\ AfterFirstLock(s)
        /\ UNCHANGED <<committed, rowLock, img, begun>>

LockSecond(s) ==
    LET a == SecondAccount(tx[s].req)
    IN  /\ At(s, "lockSecond")
        /\ Free(accLock[a], s)
        /\ accLock' = [accLock EXCEPT ![a] = s]
        /\ Goto(s, IF s \in Web THEN "check" ELSE "debit")
        /\ UNCHANGED <<committed, rowLock, img, begun>>

\* moveMoney reads the payer's balance, refuses if it is short, and works out
\* balance_after from it.  BankTx tests the balance inside its INSERT.
CheckFunds(s) ==
    LET r == tx[s].req
    IN  /\ At(s, "check")
        /\ balance[r.from] >= r.n
        /\ tx' = [tx EXCEPT ![s] = [req |-> [r EXCEPT !.seen = balance[r.from]], pc |-> "debit"]]
        /\ UNCHANGED <<committed, locks, img, begun>>

\* Mutant of TokenUnused: no unique index on the request token.
AnyToken(s, a) == TRUE

\* Whether a ledger row may be inserted: the unique index on (account, token),
\* the account's row lock taken by bank_transactions_balance_after, and its
\* refusal of a negative balance.
TokenUnused(s, a) == tx[s].req.tok = NoToken \/ <<a, tx[s].req.tok>> \notin spent

\* Mutant of CanInsert: neither the statement nor the trigger looks at the balance.
InsertUnchecked(s, a, d) ==
    /\ Free(accLock[a], s)
    /\ TokenUnused(s, a)

CanInsert(s, a, d) ==
    /\ Free(accLock[a], s)
    /\ TokenUnused(s, a)
    /\ Balance(s, a) + d >= 0

\* INSERT INTO bank_transactions: the BEFORE trigger works out balance_after
\* and the AFTER trigger writes it to the account.
InsertRow(s, a, d) ==
    LET i == img[s]
    IN  /\ accLock' = [accLock EXCEPT ![a] = s]
        /\ img' = [img EXCEPT ![s] =
                     [wrote |-> i.wrote \cup {a},
                      bal |-> [i.bal EXCEPT ![a] = Balance(s, a) + d],
                      rows |-> [i.rows EXCEPT ![a] = i.rows[a] + d],
                      synced |-> i.synced, shown |-> i.shown, purse |-> i.purse]]
        /\ UNCHANGED <<committed, rowLock, begun>>

Debit(s) ==
    LET r == tx[s].req
    IN  /\ At(s, "debit")
        /\ CanInsert(s, r.from, -r.n)
        /\ InsertRow(s, r.from, -r.n)
        /\ Goto(s, "syncDebit")

\* The credit leg.  A manual edit's row is the difference to the value typed in.
CreditAmount(s) ==
    LET r == tx[s].req
    IN  IF r.op \in Edits THEN r.n - Balance(s, r.to) ELSE r.n

Credit(s) ==
    LET r == tx[s].req
    IN  /\ At(s, "credit")
        /\ IF r.op \in Edits /\ CreditAmount(s) = 0
           THEN /\ Goto(s, "commit")
                /\ UNCHANGED <<committed, locks, img, begun>>
           ELSE /\ CanInsert(s, r.to, CreditAmount(s))
                /\ InsertRow(s, r.to, CreditAmount(s))
                /\ Goto(s, "syncCredit")

AfterDebitSync(s) ==
    LET op == tx[s].req.op
    IN  \/ op = "transfer" /\ Goto(s, "credit")
        \/ op = "purchase" /\ Goto(s, "commit")
        \/ op = "withdraw" /\ Goto(s, "moveCash")

\* sync_players_bank_cache: the balance goes to the owner's row, once it is free.
SyncCache(s, step, a) ==
    LET i == img[s]
    IN  /\ At(s, step)
        /\ Free(rowLock[Owner[a]], s)
        /\ rowLock' = [rowLock EXCEPT ![Owner[a]] = s]
        /\ img' = [img EXCEPT ![s] =
                     [wrote |-> i.wrote, bal |-> i.bal, rows |-> i.rows, purse |-> i.purse,
                      synced |-> i.synced \cup {a},
                      shown |-> [i.shown EXCEPT ![a] = i.bal[a]]]]
        /\ UNCHANGED <<committed, accLock, begun>>

SyncDebit(s) ==
    /\ SyncCache(s, "syncDebit", tx[s].req.from)
    /\ AfterDebitSync(s)

SyncCredit(s) ==
    /\ SyncCache(s, "syncCredit", tx[s].req.to)
    /\ Goto(s, "commit")

\* The players row: FOR UPDATE OF b, p in BankCash, or the first thing a hand
\* edit of players.<faction>_bank takes, which writes the column there and then.
LockRow(s) ==
    LET r == tx[s].req
        i == img[s]
    IN  /\ At(s, "lockRow")
        /\ Free(rowLock[Owner[r.from]], s)
        /\ rowLock' = [rowLock EXCEPT ![Owner[r.from]] = s]
        /\ img' = IF r.op = "editCache"
                  THEN [img EXCEPT ![s] =
                           [wrote |-> i.wrote, bal |-> i.bal, rows |-> i.rows, purse |-> i.purse,
                            synced |-> {r.from},
                            shown |-> [i.shown EXCEPT ![r.from] = r.n]]]
                  ELSE img
        /\ \/ r.op = "deposit" /\ Goto(s, "moveCash")
           \/ r.op = "withdraw" /\ Goto(s, "debit")
           \/ r.op = "editCache" /\ Goto(s, "lockFirst")
        /\ UNCHANGED <<committed, accLock, begun>>

\* UPDATE players SET <faction>_cash: out of the pocket only if it is there.
CashMove(r) == IF r.op = "deposit" THEN -r.n ELSE r.n

MoveCash(s) ==
    LET r == tx[s].req
        i == img[s]
    IN  /\ At(s, "moveCash")
        /\ Free(rowLock[Owner[r.from]], s)
        /\ r.op = "cash" => <<Owner[r.from], r.tok>> \notin cashSpent
        /\ cash[r.from] + CashMove(r) >= 0
        /\ rowLock' = [rowLock EXCEPT ![Owner[r.from]] = s]
        /\ img' = [img EXCEPT ![s] =
                     [wrote |-> i.wrote, bal |-> i.bal, rows |-> i.rows,
                      synced |-> i.synced, shown |-> i.shown,
                      purse |-> [i.purse EXCEPT ![r.from] = CashMove(r)]]]
        /\ Goto(s, IF r.op = "deposit" THEN "credit" ELSE "commit")
        /\ UNCHANGED <<committed, accLock, begun>>

-------------------------------------------------------------------------------
(* The end of a transaction.                                               *)

Release(s) ==
    /\ accLock' = [a \in Accounts |-> IF accLock[a] = s THEN NoSession ELSE accLock[a]]
    /\ rowLock' = [p \in Players |-> IF rowLock[p] = s THEN NoSession ELSE rowLock[p]]
    /\ tx' = [tx EXCEPT ![s] = Idle]
    /\ img' = [img EXCEPT ![s] = Clean]
    /\ UNCHANGED begun

Commit(s) ==
    LET r == tx[s].req
        i == img[s]
    IN  /\ At(s, "commit")
        /\ balance' = [a \in Accounts |-> IF a \in i.wrote THEN i.bal[a] ELSE balance[a]]
        /\ cache' = [a \in Accounts |-> IF a \in i.synced THEN i.shown[a] ELSE cache[a]]
        /\ history' = [a \in Accounts |-> history[a] + i.rows[a]]
        /\ cash' = [a \in Accounts |-> cash[a] + i.purse[a]]
        /\ spent' = spent \cup (IF r.tok = NoToken THEN {} ELSE {<<a, r.tok>> : a \in i.wrote})
        /\ cashSpent' = cashSpent \cup (IF r.op = "cash" THEN {<<Owner[r.from], r.tok>>} ELSE {})
        /\ Release(s)

\* Mutant of Rollback: an early return that leaves the transaction's locks behind.
ReturnOnly(s) ==
    /\ tx' = [tx EXCEPT ![s] = Idle]
    /\ img' = [img EXCEPT ![s] = Clean]
    /\ UNCHANGED <<committed, locks, begun>>

Rollback(s) == Release(s) /\ UNCHANGED committed

\* The code's own refusals: INSUFFICIENT, DUPLICATE, or the trigger's exception.
Refuse(s) ==
    LET r == tx[s].req
    IN  /\ \/ At(s, "check") /\ balance[r.from] < r.n
           \/ At(s, "debit") /\ ~CanInsert(s, r.from, -r.n) /\ Free(accLock[r.from], s)
           \/ /\ At(s, "credit")
              /\ ~CanInsert(s, r.to, CreditAmount(s)) /\ Free(accLock[r.to], s)
              /\ r.op \in Edits => CreditAmount(s) # 0
           \/ /\ At(s, "moveCash")
              /\ Free(rowLock[Owner[r.from]], s)
              /\ \/ cash[r.from] + CashMove(r) < 0
                 \/ r.op = "cash" /\ <<Owner[r.from], r.tok>> \in cashSpent
        /\ Rollback(s)

\* A lost connection, a cancelled request context, a failed statement or COMMIT.
Disconnect(s) == tx[s].pc # "idle" /\ Rollback(s)

\* The sessions s waits for: none, or the holder of the row it needs next.
WaitsFor(s) ==
    LET r == tx[s].req
        acc(a) == {accLock[a]} \ {NoSession, s}
        row(a) == {rowLock[Owner[a]]} \ {NoSession, s}
    IN  CASE At(s, "lockFirst")                -> acc(FirstAccount(r))
          [] At(s, "lockSecond")               -> acc(SecondAccount(r))
          [] At(s, "debit")                    -> acc(r.from)
          [] At(s, "credit")                   -> acc(r.to)
          [] At(s, "syncDebit")                -> row(r.from)
          [] At(s, "syncCredit")               -> row(r.to)
          [] tx[s].pc \in {"lockRow", "moveCash"} -> row(r.from)
          [] OTHER                             -> {}

Deadlocked(s) ==
    \E S \in SUBSET Sessions :
        s \in S /\ \A x \in S : WaitsFor(x) # {} /\ WaitsFor(x) \subseteq S

\* PostgreSQL ends a cycle of waiters by failing one of them.
DeadlockVictim(s) == Deadlocked(s) /\ Rollback(s)

-------------------------------------------------------------------------------

Begin(s) ==
    \/ s \in Web /\ (MoveMoney(s) \/ Compensate(s))
    \/ s = Game /\ (HandleBank \/ SaveCashDelta \/ AdminCompensate)
    \/ s = Dba /\ (EditPlayersBank \/ EditAccountBalance)

Statement(s) ==
    \/ LockFirst(s) \/ LockSecond(s) \/ CheckFunds(s)
    \/ Debit(s) \/ SyncDebit(s) \/ Credit(s) \/ SyncCredit(s)
    \/ LockRow(s) \/ MoveCash(s) \/ Commit(s)

Next ==
    \E s \in Sessions : Begin(s) \/ Statement(s) \/ Refuse(s) \/ Disconnect(s) \/ DeadlockVictim(s)

Spec == Init /\ [][Next]_vars

(* PostgreSQL queues the waiters of a row lock, so a session whose lock keeps  *)
(* coming free gets it (strong fairness); its deadlock check always runs.      *)
(* Requests need not arrive, and connections need not fail.                    *)
Fairness == \A s \in Sessions : SF_vars(Statement(s)) /\ WF_vars(Refuse(s)) /\ WF_vars(DeadlockVictim(s))

FairSpec == Spec /\ Fairness

-------------------------------------------------------------------------------
(* Properties.                                                             *)

Rows == [Accounts -> Int]

Transactions ==
    [req : [op : Ops \cup {"none"}, from : Int, to : Int, n : Int,
            tok : Tokens \cup {NoToken}, seen : Int],
     pc : Steps]

Images ==
    [wrote : SUBSET Accounts, bal : Rows, rows : Rows,
     synced : SUBSET Accounts, shown : Rows, purse : Rows]

\* The shape of the tables, the locks and the running transactions.
TypeOK ==
    /\ balance \in Rows /\ cash \in Rows /\ cache \in Rows /\ history \in Rows
    /\ spent \subseteq Accounts \X Tokens
    /\ cashSpent \subseteq Players \X Tokens
    /\ accLock \in [Accounts -> Sessions \cup {NoSession}]
    /\ rowLock \in [Players -> Sessions \cup {NoSession}]
    /\ tx \in [Sessions -> Transactions]
    /\ img \in [Sessions -> Images]
    /\ begun \in Nat

\* The website's health check (handlers/dev.go): the real balance, the cached
\* copy the phone shows and the sum of the history agree for every account,
\* whatever transactions are running.
BalancesAgree == \A a \in Accounts : cache[a] = balance[a] /\ history[a] = balance[a]

\* No interleaving of payers takes an account or a pocket below zero.
NeverNegative == \A a \in Accounts : balance[a] >= 0 /\ cash[a] >= 0

\* The balance moveMoney read, and works out balance_after from, is still the
\* payer's balance when the debit is inserted: no lost update between the two.
FundsCheckHolds ==
    \A w \in Web : At(w, "debit") => tx[w].req.seen = Balance(w, tx[w].req.from)

\* A cycle of transfers waiting for each other.
TransferDeadlock ==
    \E S \in SUBSET {s \in Sessions : tx[s].req.op = "transfer"} :
        /\ S # {}
        /\ \A s \in S : WaitsFor(s) # {} /\ WaitsFor(s) \subseteq S

\* db.cpp and transfer.go lock both accounts in id order "so two opposite
\* transfers can't deadlock".
TransfersNeverDeadlock == ~TransferDeadlock

\* Every transaction that starts ends, committed or rolled back.
EveryTransactionEnds == \A s \in Sessions : (tx[s].pc # "idle") ~> (tx[s].pc = "idle")

-------------------------------------------------------------------------------
(* The inductive invariant: what a transaction has done so far, given its  *)
(* operation and its next statement, and the locks that keep it valid.     *)

\* The statements of each operation.
OnPath(op, step) ==
    \/ op = "transfer" /\ step \in {"lockFirst", "lockSecond", "check", "debit", "syncDebit",
                                    "credit", "syncCredit", "commit"}
    \/ op = "purchase" /\ step \in {"lockFirst", "debit", "syncDebit", "commit"}
    \/ op = "deposit" /\ step \in {"lockFirst", "lockRow", "moveCash", "credit", "syncCredit", "commit"}
    \/ op = "withdraw" /\ step \in {"lockFirst", "lockRow", "debit", "syncDebit", "moveCash", "commit"}
    \/ op = "cash" /\ step \in {"moveCash", "commit"}
    \/ op = "adjust" /\ step \in {"lockFirst", "credit", "syncCredit", "commit"}
    \/ op = "editCache" /\ step \in {"lockRow", "lockFirst", "credit", "syncCredit", "commit"}
    \/ op = "editBalance" /\ step \in {"lockFirst", "credit", "syncCredit", "commit"}
    \/ op = "none" /\ step = "idle"

Debited(s) ==
    /\ tx[s].req.op \in {"transfer", "purchase", "withdraw"}
    /\ tx[s].pc \in {"syncDebit", "credit", "syncCredit", "moveCash", "commit"}
    /\ ~(tx[s].req.op = "withdraw" /\ tx[s].pc = "credit")

Credited(s) ==
    /\ tx[s].req.op \in {"transfer", "deposit", "adjust"} \cup Edits
    /\ tx[s].pc \in {"syncCredit", "commit"}

CashMoved(s) ==
    \/ tx[s].req.op = "deposit" /\ tx[s].pc \in {"credit", "syncCredit", "commit"}
    \/ tx[s].req.op \in {"withdraw", "cash"} /\ tx[s].pc = "commit"

RequestInv(s) ==
    LET r == tx[s].req
    IN  /\ OnPath(r.op, tx[s].pc)
        /\ r.op # "none" => r.from \in Accounts /\ r.to \in Accounts
        /\ r.op \in {"transfer", "purchase", "deposit", "withdraw", "adjust"} => r.n \in Amounts
        /\ r.op \in {"transfer", "purchase", "deposit", "withdraw", "cash"} => r.tok \in Tokens
        /\ r.op \in {"adjust"} \cup Edits => r.tok = NoToken
        /\ r.op = "transfer" => r.from # r.to
        /\ r.op # "transfer" => r.from = r.to
        /\ r.op \in {"purchase", "deposit", "withdraw", "cash"} => s = Game
        /\ r.op = "cash" => (r.n \in Amounts \/ -r.n \in Amounts)
        /\ r.op \in Edits => r.n \in 0..MaxBalance

LockInv(s) ==
    LET r == tx[s].req
    IN  /\ At(s, "lockSecond") => accLock[FirstAccount(r)] = s
        /\ tx[s].pc \in {"check", "debit"} => accLock[r.from] = s
        /\ At(s, "lockRow") /\ r.op # "editCache" => accLock[r.from] = s
        /\ At(s, "debit") /\ s \in Web => r.seen = balance[r.from]
        /\ At(s, "credit") /\ r.op \in Edits => accLock[r.to] = s
        /\ At(s, "commit") /\ r.op \in Edits => accLock[r.to] = s
        /\ \A a \in img[s].wrote : accLock[a] = s
        /\ \A a \in img[s].synced : rowLock[Owner[a]] = s
        /\ CashMoved(s) => rowLock[Owner[r.from]] = s

RowsInv(s) ==
    LET r == tx[s].req
        i == img[s]
    IN  /\ \A a \in Accounts :
              i.rows[a] = (IF Debited(s) /\ a = r.from THEN -r.n ELSE 0)
                          + (IF Credited(s) /\ a = r.to /\ a \in i.wrote
                             THEN IF r.op \in Edits THEN r.n - balance[a] ELSE r.n
                             ELSE 0)
        /\ i.wrote \subseteq (IF Debited(s) THEN {r.from} ELSE {})
                             \cup (IF Credited(s) THEN {r.to} ELSE {})
        /\ Debited(s) => r.from \in i.wrote
        /\ Credited(s) /\ ~(At(s, "commit") /\ r.op \in Edits) => r.to \in i.wrote
        /\ \A a \in i.wrote :
              /\ i.bal[a] = balance[a] + i.rows[a]
              /\ i.bal[a] >= 0
              /\ TokenUnused(s, a)
        /\ \A a \in Accounts : i.purse[a] = IF CashMoved(s) /\ a = r.from THEN CashMove(r) ELSE 0
        /\ CashMoved(s) => cash[r.from] + CashMove(r) >= 0
        /\ CashMoved(s) /\ r.op = "cash" => <<Owner[r.from], r.tok>> \notin cashSpent
        /\ At(s, "commit") /\ r.op \in Edits /\ r.to \notin i.wrote => balance[r.to] = r.n

\* What a transaction has put in the owner's row is its own view of the balance,
\* except while a hand edit of that column is still to be matched.
CacheInv(s) ==
    LET r == tx[s].req
        i == img[s]
    IN  /\ \A a \in i.wrote \ i.synced :
              (At(s, "syncDebit") /\ a = r.from) \/ (At(s, "syncCredit") /\ a = r.to)
        /\ \A a \in i.synced :
              \/ a \in i.wrote /\ i.shown[a] = i.bal[a]
              \/ r.op = "editCache" /\ a = r.to /\ i.shown[a] = r.n /\ a \notin i.wrote
                 /\ tx[s].pc \in {"lockFirst", "credit", "commit"}

Inductive ==
    /\ TypeOK
    /\ BalancesAgree
    /\ NeverNegative
    /\ \A s \in Sessions : RequestInv(s) /\ LockInv(s) /\ RowsInv(s) /\ CacheInv(s)

=============================================================================
