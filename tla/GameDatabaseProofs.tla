-------------------------- MODULE GameDatabaseProofs --------------------------
(***************************************************************************)
(* What the game keeps in its database: money, and the vehicles it buys.   *)
(*                                                                         *)
(* Inductive is an invariant of BankDb for any number of players,          *)
(* accounts, tokens and concurrent website requests, and with it the       *)
(* properties the runs check on small instances.  GarageInductive is one   *)
(* of Garage for any number of vehicles, objects and buyers: a vehicle is  *)
(* in the world once at most and only while its row says so, and what is   *)
(* paid for is handed over.                                                *)
(***************************************************************************)
EXTENDS BankDb, Garage, TLAPS, FiniteSetTheorems

-----------------------------------------------------------------------------
(* Money.                                                                    *)

SessionInv(s) == RequestInv(s) /\ LockInv(s) /\ RowsInv(s) /\ CacheInv(s)

-----------------------------------------------------------------------------
(* What the steps leave alone.                                             *)

\* A session whose transaction and locks another's step leaves alone keeps its
\* part of the invariant, as long as nothing was committed.
LEMMA Frame ==
    ASSUME NEW x \in Sessions,
           tx'[x] = tx[x], img'[x] = img[x],
           UNCHANGED committed,
           \A a \in Accounts : accLock[a] = x => accLock'[a] = x,
           \A p \in Players : rowLock[p] = x => rowLock'[p] = x,
           TypeOK, SessionInv(x)
    PROVE  SessionInv(x)'
<1> USE DEF committed
<1>1. RequestInv(x)'
  BY DEF SessionInv, RequestInv
<1>2. LockInv(x)'
  <2>1. \A a \in Accounts : Owner[a] \in Players
    BY LedgerAssumption
  <2>2. img[x].wrote \subseteq Accounts /\ img[x].synced \subseteq Accounts
    BY DEF TypeOK, Images
  <2>3. QED
    BY <2>1, <2>2, SMTT(30) DEF SessionInv, LockInv, RequestInv, At, CashMoved, FirstAccount, OnPath
<1>3. RowsInv(x)'
  BY DEF SessionInv, RowsInv, Debited, Credited, CashMoved, At, TokenUnused, CashMove
<1>4. CacheInv(x)'
  BY DEF SessionInv, CacheInv, At
<1>5. QED
  BY <1>1, <1>2, <1>3, <1>4 DEF SessionInv


\* A step of session s that commits nothing and takes only free locks or gives
\* up its own preserves the invariant if it preserves s's part of it.
LEMMA PrivateStep ==
    ASSUME NEW s \in Sessions,
           Inductive, UNCHANGED committed, TypeOK', SessionInv(s)',
           \A x \in Sessions : x # s => tx'[x] = tx[x] /\ img'[x] = img[x],
           \A a \in Accounts : accLock'[a] # accLock[a] => accLock[a] \in {NoSession, s},
           \A p \in Players : rowLock'[p] # rowLock[p] => rowLock[p] \in {NoSession, s}
    PROVE  Inductive'
<1>1. BalancesAgree' /\ NeverNegative'
  BY DEF Inductive, BalancesAgree, NeverNegative, committed
<1>2. ASSUME NEW x \in Sessions PROVE SessionInv(x)'
  <2>1. CASE x = s
    BY <2>1
  <2>2. CASE x # s
    <3>1. x # NoSession
      BY DbAssumption
    <3>2. TypeOK /\ SessionInv(x)
      BY DEF Inductive, SessionInv
    <3>3. \A a \in Accounts : accLock[a] = x => accLock'[a] = x
      BY <2>2, <3>1
    <3>4. \A p \in Players : rowLock[p] = x => rowLock'[p] = x
      BY <2>2, <3>1
    <3>5. tx'[x] = tx[x] /\ img'[x] = img[x]
      BY <2>2
    <3>6. QED
      BY <3>2, <3>3, <3>4, <3>5, Frame
  <2>3. QED
    BY <2>1, <2>2
<1>3. QED
  BY <1>1, <1>2 DEF Inductive, SessionInv

\* The next statement of s, nothing else of any transaction.
LEMMA GotoEffect ==
    ASSUME NEW s \in Sessions, NEW step \in Steps, TypeOK, Goto(s, step)
    PROVE  /\ tx'[s].pc = step
           /\ tx'[s].req = tx[s].req
           /\ \A x \in Sessions : x # s => tx'[x] = tx[x]
           /\ tx' \in [Sessions -> Transactions]
BY DEF TypeOK, Goto, Transactions

LEMMA TakeAccount ==
    ASSUME NEW s \in Sessions, NEW a \in Accounts, TypeOK,
           Free(accLock[a], s), accLock' = [accLock EXCEPT ![a] = s]
    PROVE  /\ accLock' \in [Accounts -> Sessions \cup {NoSession}]
           /\ accLock'[a] = s
           /\ \A b \in Accounts : accLock[b] = s => accLock'[b] = s
           /\ \A b \in Accounts : accLock'[b] # accLock[b] => accLock[b] \in {NoSession, s}
BY DEF TypeOK, Free

LEMMA TakeRow ==
    ASSUME NEW s \in Sessions, NEW p \in Players, TypeOK,
           Free(rowLock[p], s), rowLock' = [rowLock EXCEPT ![p] = s]
    PROVE  /\ rowLock' \in [Players -> Sessions \cup {NoSession}]
           /\ rowLock'[p] = s
           /\ \A q \in Players : rowLock[q] = s => rowLock'[q] = s
           /\ \A q \in Players : rowLock'[q] # rowLock[q] => rowLock[q] \in {NoSession, s}
BY DEF TypeOK, Free

-----------------------------------------------------------------------------
(* One lemma per statement.                                                *)

LEMMA LockFirstInv == ASSUME NEW s \in Sessions, Inductive, LockFirst(s) PROVE Inductive'
<1> DEFINE a == FirstAccount(tx[s].req)
<1>1. TypeOK /\ SessionInv(s) /\ At(s, "lockFirst")
  BY DEF Inductive, SessionInv, LockFirst
<1>2. a \in Accounts
  BY <1>1 DEF SessionInv, RequestInv, OnPath, At, FirstAccount
<1>3. PICK step \in {"lockSecond", "lockRow", "debit", "credit"} :
         /\ Goto(s, step)
         /\ \/ tx[s].req.op = "transfer" /\ step = "lockSecond"
            \/ tx[s].req.op \in {"deposit", "withdraw"} /\ step = "lockRow"
            \/ tx[s].req.op = "purchase" /\ step = "debit"
            \/ tx[s].req.op \in {"adjust"} \cup Edits /\ step = "credit"
  BY DEF LockFirst, AfterFirstLock
<1>4. step \in Steps
  BY DEF Steps
<1>5. /\ tx'[s].pc = step /\ tx'[s].req = tx[s].req
      /\ \A x \in Sessions : x # s => tx'[x] = tx[x]
      /\ tx' \in [Sessions -> Transactions]
  BY <1>1, <1>3, <1>4, GotoEffect
<1>6. /\ accLock' \in [Accounts -> Sessions \cup {NoSession}]
      /\ accLock'[a] = s
      /\ \A b \in Accounts : accLock[b] = s => accLock'[b] = s
      /\ \A b \in Accounts : accLock'[b] # accLock[b] => accLock[b] \in {NoSession, s}
  <2>1. Free(accLock[a], s) /\ accLock' = [accLock EXCEPT ![a] = s]
    BY DEF LockFirst
  <2>2. QED
    BY <1>1, <1>2, <2>1, TakeAccount
<1>7. UNCHANGED <<committed, rowLock, img, begun>>
  BY DEF LockFirst
<1>8. TypeOK'
  BY <1>1, <1>5, <1>6, <1>7 DEF TypeOK, committed
<1>9. SessionInv(s)'
  <2>1. RequestInv(s)'
    BY <1>1, <1>3, <1>5 DEF SessionInv, RequestInv, OnPath, Edits
  <2>2. /\ ~Debited(s) /\ ~Credited(s) /\ ~CashMoved(s)
        /\ ~Debited(s)' /\ ~Credited(s)' /\ ~CashMoved(s)'
    BY <1>1, <1>3, <1>5 DEF Debited, Credited, CashMoved, At, OnPath, Edits
  <2>3. RowsInv(s)'
    <3>1. TokenUnused(s, a)' = TokenUnused(s, a)
      BY <1>5, <1>7 DEF TokenUnused, committed
    <3>2. img[s].wrote = {} /\ \A b \in Accounts : img[s].rows[b] = 0 /\ img[s].purse[b] = 0
      BY <1>1, <2>2 DEF SessionInv, RowsInv
    <3>3. QED
      BY <3>2, <2>2, <1>3, <1>5, <1>7 DEF RowsInv, At, committed
  <2>4. LockInv(s)'
    <3>1. /\ tx[s].req.op # "transfer" => a = tx[s].req.from /\ a = tx[s].req.to
          /\ step = "debit" => s = Game /\ s \notin Web
      BY <1>1, <1>3, DbAssumption DEF SessionInv, RequestInv, FirstAccount
    <3>2. img[s].wrote = {}
      BY <1>1, <2>2 DEF SessionInv, RowsInv
    <3>3. \A b \in img[s].synced : rowLock[Owner[b]] = s
      BY <1>1 DEF SessionInv, LockInv
    <3>4. QED
      BY <1>3, <1>5, <1>6, <1>7, <2>2, <3>1, <3>2, <3>3 DEF LockInv, At, FirstAccount, Edits
  <2>5. CacheInv(s)'
    <3>1. img[s].wrote = {}
      BY <1>1, <2>2 DEF SessionInv, RowsInv
    <3>2. \A b \in img[s].synced : /\ tx[s].req.op = "editCache" /\ b = tx[s].req.to
                                   /\ img[s].shown[b] = tx[s].req.n
      BY <1>1, <3>1 DEF SessionInv, CacheInv
    <3>3. tx[s].req.op = "editCache" => step = "credit"
      BY <1>3
    <3>4. QED
      BY <1>5, <1>7, <3>1, <3>2, <3>3 DEF CacheInv, At
  <2>6. QED
    BY <2>1, <2>3, <2>4, <2>5 DEF SessionInv
<1>10. QED
  BY <1>5, <1>6, <1>7, <1>8, <1>9, PrivateStep


LEMMA LockSecondInv == ASSUME NEW s \in Sessions, Inductive, LockSecond(s) PROVE Inductive'
<1> DEFINE a == SecondAccount(tx[s].req)
           step == IF s \in Web THEN "check" ELSE "debit"
<1>1. TypeOK /\ SessionInv(s) /\ At(s, "lockSecond") /\ tx[s].req.op = "transfer"
  BY DEF Inductive, SessionInv, LockSecond, RequestInv, OnPath, At
<1>2. a \in Accounts
  BY <1>1 DEF SessionInv, RequestInv, SecondAccount
<1>3. Goto(s, step) /\ step \in Steps
  BY DEF LockSecond, Steps
<1>4. /\ tx'[s].pc = step /\ tx'[s].req = tx[s].req
      /\ \A x \in Sessions : x # s => tx'[x] = tx[x]
      /\ tx' \in [Sessions -> Transactions]
  BY <1>1, <1>3, GotoEffect
<1>5. /\ accLock' \in [Accounts -> Sessions \cup {NoSession}]
      /\ accLock'[a] = s
      /\ \A b \in Accounts : accLock[b] = s => accLock'[b] = s
      /\ \A b \in Accounts : accLock'[b] # accLock[b] => accLock[b] \in {NoSession, s}
  <2>1. Free(accLock[a], s) /\ accLock' = [accLock EXCEPT ![a] = s]
    BY DEF LockSecond
  <2>2. QED
    BY <1>1, <1>2, <2>1, TakeAccount
<1>6. UNCHANGED <<committed, rowLock, img, begun>>
  BY DEF LockSecond
<1>7. TypeOK'
  BY <1>1, <1>4, <1>5, <1>6 DEF TypeOK, committed
<1>8. SessionInv(s)'
  <2>1. RequestInv(s)'
    BY <1>1, <1>4 DEF SessionInv, RequestInv, OnPath, Edits
  <2>2. /\ ~Debited(s) /\ ~Credited(s) /\ ~CashMoved(s)
        /\ ~Debited(s)' /\ ~Credited(s)' /\ ~CashMoved(s)'
    BY <1>1, <1>4 DEF Debited, Credited, CashMoved, At
  <2>3. img[s].wrote = {} /\ \A b \in Accounts : img[s].rows[b] = 0 /\ img[s].purse[b] = 0
    BY <1>1, <2>2 DEF SessionInv, RowsInv
  <2>4. img[s].synced = {}
    BY <1>1, <2>3 DEF SessionInv, CacheInv
  <2>5. RowsInv(s)'
    BY <2>2, <2>3, <1>1, <1>4, <1>6 DEF RowsInv, At, committed, Edits
  <2>6. LockInv(s)'
    <3>1. accLock'[tx[s].req.from] = s /\ accLock'[tx[s].req.to] = s
      <4>1. tx[s].req.from \in Accounts /\ tx[s].req.to \in Accounts
        BY <1>1 DEF SessionInv, RequestInv
      <4>2. accLock[FirstAccount(tx[s].req)] = s
        BY <1>1 DEF SessionInv, LockInv
      <4>3. QED
        BY <4>1, <4>2, <1>5 DEF FirstAccount, SecondAccount
    <3>2. step = "debit" => s \notin Web
      OBVIOUS
    <3>3. QED
      BY <1>1, <1>4, <1>6, <2>2, <2>3, <2>4, <3>1, <3>2 DEF LockInv, At, Edits
  <2>7. CacheInv(s)'
    BY <1>6, <2>3, <2>4 DEF CacheInv
  <2>8. QED
    BY <2>1, <2>5, <2>6, <2>7 DEF SessionInv
<1>9. QED
  BY <1>4, <1>5, <1>6, <1>7, <1>8, PrivateStep

LEMMA CheckFundsInv == ASSUME NEW s \in Sessions, Inductive, CheckFunds(s) PROVE Inductive'
<1> DEFINE r == tx[s].req
<1>1. TypeOK /\ SessionInv(s) /\ At(s, "check") /\ r.op = "transfer" /\ r.from \in Accounts
  BY DEF Inductive, SessionInv, CheckFunds, RequestInv, OnPath, At
<1>2. UNCHANGED <<committed, locks, img, begun>>
  BY DEF CheckFunds
<1>3. /\ tx'[s].pc = "debit" /\ tx'[s].req = [r EXCEPT !.seen = balance[r.from]]
      /\ \A x \in Sessions : x # s => tx'[x] = tx[x]
      /\ tx' \in [Sessions -> Transactions]
  <2>1. balance[r.from] \in Int
    BY <1>1 DEF TypeOK, Rows
  <2>2. tx[s] \in Transactions /\ tx \in [Sessions -> Transactions]
    BY <1>1 DEF TypeOK
  <2>3. [req |-> [r EXCEPT !.seen = balance[r.from]], pc |-> "debit"] \in Transactions
    BY <2>1, <2>2 DEF Transactions, Steps
  <2>4. QED
    BY <2>2, <2>3 DEF CheckFunds
<1>4. TypeOK'
  BY <1>1, <1>2, <1>3 DEF TypeOK, committed, locks
<1>5. /\ tx'[s].req.op = r.op /\ tx'[s].req.from = r.from /\ tx'[s].req.to = r.to
      /\ tx'[s].req.n = r.n /\ tx'[s].req.tok = r.tok /\ tx'[s].req.seen = balance[r.from]
  <2>1. r \in [op : Ops \cup {"none"}, from : Int, to : Int, n : Int,
               tok : Tokens \cup {NoToken}, seen : Int]
    BY <1>1 DEF TypeOK, Transactions
  <2>2. QED
    BY <1>3, <2>1
<1>6. SessionInv(s)'
  <2>1. RequestInv(s)'
    BY <1>1, <1>3, <1>5 DEF SessionInv, RequestInv, OnPath, Edits
  <2>2. /\ ~Debited(s) /\ ~Credited(s) /\ ~CashMoved(s)
        /\ ~Debited(s)' /\ ~Credited(s)' /\ ~CashMoved(s)'
    BY <1>1, <1>3, <1>5 DEF Debited, Credited, CashMoved, At
  <2>3. img[s].wrote = {} /\ \A b \in Accounts : img[s].rows[b] = 0 /\ img[s].purse[b] = 0
    BY <1>1, <2>2 DEF SessionInv, RowsInv
  <2>4. img[s].synced = {}
    BY <1>1, <2>3 DEF SessionInv, CacheInv
  <2>5. RowsInv(s)'
    BY <2>2, <2>3, <1>1, <1>2, <1>3 DEF RowsInv, At, committed
  <2>6. LockInv(s)'
    BY <1>1, <1>2, <1>3, <1>5, <2>2, <2>3, <2>4 DEF SessionInv, LockInv, At, locks, committed
  <2>7. CacheInv(s)'
    BY <1>2, <2>3, <2>4 DEF CacheInv
  <2>8. QED
    BY <2>1, <2>5, <2>6, <2>7 DEF SessionInv
<1>7. QED
  BY <1>2, <1>3, <1>4, <1>6, PrivateStep DEF locks


\* What inserting a ledger row does to the session's own versions.
LEMMA InsertRowEffect ==
    ASSUME NEW s \in Sessions, NEW a \in Accounts, NEW d \in Int,
           TypeOK, Balance(s, a) \in Int, Free(accLock[a], s), InsertRow(s, a, d)
    PROVE  /\ img' \in [Sessions -> Images]
           /\ \A x \in Sessions : x # s => img'[x] = img[x]
           /\ img'[s].wrote = img[s].wrote \cup {a}
           /\ img'[s].bal[a] = Balance(s, a) + d
           /\ img'[s].rows[a] = img[s].rows[a] + d
           /\ \A b \in Accounts : b # a => /\ img'[s].bal[b] = img[s].bal[b]
                                           /\ img'[s].rows[b] = img[s].rows[b]
           /\ UNCHANGED <<img[s].synced, img[s].shown, img[s].purse>>
           /\ accLock' \in [Accounts -> Sessions \cup {NoSession}]
           /\ accLock'[a] = s
           /\ \A b \in Accounts : accLock[b] = s => accLock'[b] = s
           /\ \A b \in Accounts : accLock'[b] # accLock[b] => accLock[b] \in {NoSession, s}
           /\ UNCHANGED <<committed, rowLock, begun>>
<1>1. img[s] \in Images /\ img \in [Sessions -> Images]
  BY DEF TypeOK
<1> DEFINE i == img[s]
           bal == [i.bal EXCEPT ![a] = Balance(s, a) + d]
           rows == [i.rows EXCEPT ![a] = i.rows[a] + d]
           j == [wrote |-> i.wrote \cup {a}, bal |-> bal, rows |-> rows,
                 synced |-> i.synced, shown |-> i.shown, purse |-> i.purse]
<1>2. img' = [img EXCEPT ![s] = j]
  BY DEF InsertRow
<1>3. /\ i.bal \in [Accounts -> Int] /\ i.rows \in [Accounts -> Int]
      /\ bal \in Rows /\ rows \in Rows /\ i.wrote \cup {a} \in SUBSET Accounts
  BY <1>1 DEF Images, Rows
<1> HIDE DEF j, bal, rows
<1>4. /\ j \in Images
      /\ j.bal = bal /\ j.rows = rows /\ j.wrote = i.wrote \cup {a}
      /\ j.synced = i.synced /\ j.shown = i.shown /\ j.purse = i.purse
  BY <1>1, <1>3 DEF j, Images
<1>5. img'[s] = j /\ \A x \in Sessions : x # s => img'[x] = img[x]
  BY <1>1, <1>2
<1>6. /\ accLock' \in [Accounts -> Sessions \cup {NoSession}]
      /\ accLock'[a] = s
      /\ \A b \in Accounts : accLock[b] = s => accLock'[b] = s
      /\ \A b \in Accounts : accLock'[b] # accLock[b] => accLock[b] \in {NoSession, s}
  <2>1. accLock' = [accLock EXCEPT ![a] = s]
    BY DEF InsertRow
  <2>2. QED
    BY <2>1, TakeAccount
<1>7. QED
  <2>1. img' \in [Sessions -> Images]
    BY <1>1, <1>2, <1>4
  <2>2. UNCHANGED <<committed, rowLock, begun>>
    BY DEF InsertRow
  <2>3. /\ j.bal[a] = Balance(s, a) + d /\ j.rows[a] = i.rows[a] + d
        /\ \A b \in Accounts : b # a => j.bal[b] = i.bal[b] /\ j.rows[b] = i.rows[b]
    BY <1>3, <1>4 DEF bal, rows
  <2>4. QED
    BY <1>4, <1>5, <1>6, <2>1, <2>2, <2>3

\* The balances, amounts and rows of a running transaction are integers.
LEMMA Numbers ==
    ASSUME NEW s \in Sessions, TypeOK
    PROVE  /\ \A a \in Accounts : /\ balance[a] \in Int /\ cash[a] \in Int /\ history[a] \in Int
                                 /\ Balance(s, a) \in Int
                                 /\ img[s].bal[a] \in Int /\ img[s].rows[a] \in Int
                                 /\ img[s].shown[a] \in Int /\ img[s].purse[a] \in Int
           /\ tx[s].req.n \in Int
           /\ img[s].wrote \subseteq Accounts /\ img[s].synced \subseteq Accounts
<1>1. tx[s].req.n \in Int
  BY DEF TypeOK, Transactions
<1>2. img[s] \in Images
  BY DEF TypeOK
<1>3. QED
  BY <1>1, <1>2 DEF TypeOK, Images, Rows, Balance

LEMMA DebitInv == ASSUME NEW s \in Sessions, Inductive, Debit(s) PROVE Inductive'
<1> DEFINE r == tx[s].req
           a == r.from
<1>1. /\ TypeOK /\ SessionInv(s) /\ At(s, "debit") /\ a \in Accounts /\ r.n \in Amounts
      /\ r.op \in {"transfer", "purchase", "withdraw"}
  BY DEF Inductive, SessionInv, Debit, RequestInv, OnPath, At
<1>2. r.n \in Int /\ r.n > 0 /\ -r.n \in Int /\ balance[a] \in Int /\ Balance(s, a) \in Int
  BY <1>1, LedgerAssumption, Numbers
<1>3. CanInsert(s, a, -r.n) /\ InsertRow(s, a, -r.n) /\ Goto(s, "syncDebit")
  BY DEF Debit
<1>4. /\ img' \in [Sessions -> Images]
      /\ \A x \in Sessions : x # s => img'[x] = img[x]
      /\ img'[s].wrote = img[s].wrote \cup {a}
      /\ img'[s].bal[a] = Balance(s, a) - r.n
      /\ img'[s].rows[a] = img[s].rows[a] - r.n
      /\ \A b \in Accounts : b # a => /\ img'[s].bal[b] = img[s].bal[b]
                                      /\ img'[s].rows[b] = img[s].rows[b]
      /\ UNCHANGED <<img[s].synced, img[s].shown, img[s].purse>>
      /\ accLock' \in [Accounts -> Sessions \cup {NoSession}]
      /\ accLock'[a] = s
      /\ \A b \in Accounts : accLock[b] = s => accLock'[b] = s
      /\ \A b \in Accounts : accLock'[b] # accLock[b] => accLock[b] \in {NoSession, s}
      /\ UNCHANGED <<committed, rowLock, begun>>
  <2>1. Free(accLock[a], s)
    BY <1>3 DEF CanInsert
  <2>2. img[s].rows[a] \in Int
    BY <1>1, Numbers
  <2> DEFINE d == -r.n
  <2>3. d \in Int /\ InsertRow(s, a, d) /\ Balance(s, a) + d = Balance(s, a) - r.n
        /\ img[s].rows[a] + d = img[s].rows[a] - r.n
    BY <1>2, <1>3, <2>2
  <2> HIDE DEF d
  <2>4. QED
    BY <1>1, <1>2, <2>1, <2>3, InsertRowEffect
<1>5. /\ tx'[s].pc = "syncDebit" /\ tx'[s].req = tx[s].req
      /\ \A x \in Sessions : x # s => tx'[x] = tx[x]
      /\ tx' \in [Sessions -> Transactions]
  BY <1>1, <1>3, GotoEffect DEF Steps
<1>6. TypeOK'
  BY <1>1, <1>4, <1>5 DEF TypeOK, committed
<1>7. /\ ~Debited(s) /\ ~Credited(s) /\ ~CashMoved(s)
      /\ Debited(s)' /\ ~Credited(s)' /\ ~CashMoved(s)'
  BY <1>1, <1>5 DEF Debited, Credited, CashMoved, At
<1>8. img[s].wrote = {} /\ \A b \in Accounts : img[s].rows[b] = 0 /\ img[s].purse[b] = 0
  BY <1>1, <1>7 DEF SessionInv, RowsInv
<1>9. img[s].synced = {}
  BY <1>1, <1>8 DEF SessionInv, CacheInv
<1>10. /\ img'[s].wrote = {a} /\ img'[s].synced = {}
       /\ img'[s].bal[a] = balance[a] - r.n /\ balance[a] - r.n >= 0
       /\ \A b \in Accounts : img'[s].rows[b] = IF b = a THEN -r.n ELSE 0
       /\ \A b \in Accounts : img'[s].purse[b] = 0
  <2>1. Balance(s, a) = balance[a]
    BY <1>8 DEF Balance
  <2>2. balance[a] - r.n >= 0
    BY <1>2, <1>3, <2>1 DEF CanInsert
  <2>3. QED
    BY <1>1, <1>2, <1>4, <1>8, <1>9, <2>1, <2>2
<1>11. SessionInv(s)'
  <2>1. RequestInv(s)'
    BY <1>1, <1>5 DEF SessionInv, RequestInv, OnPath, Edits
  <2>2. RowsInv(s)'
    <3>1. TokenUnused(s, a)'
      BY <1>3, <1>4, <1>5 DEF CanInsert, TokenUnused, committed
    <3>2. \A b \in Accounts : img'[s].rows[b] = (IF b = a THEN -r.n ELSE 0) + 0
      BY <1>2, <1>10
    <3>3. balance'[a] = balance[a] /\ img'[s].bal[a] = balance[a] + img'[s].rows[a]
      BY <1>1, <1>2, <1>4, <1>10 DEF committed
    <3>4. QED
      BY <1>1, <1>5, <1>7, <1>10, <3>1, <3>2, <3>3 DEF RowsInv, At
  <2>3. LockInv(s)'
    BY <1>4, <1>5, <1>7, <1>10 DEF LockInv, At
  <2>4. CacheInv(s)'
    BY <1>5, <1>10 DEF CacheInv, At
  <2>5. QED
    BY <2>1, <2>2, <2>3, <2>4 DEF SessionInv
<1>12. QED
  BY <1>4, <1>5, <1>6, <1>11, PrivateStep

\* What the cache trigger does to the session's own versions.
LEMMA SyncCacheEffect ==
    ASSUME NEW s \in Sessions, NEW a \in Accounts, NEW step, TypeOK, SyncCache(s, step, a)
    PROVE  /\ img' \in [Sessions -> Images]
           /\ \A x \in Sessions : x # s => img'[x] = img[x]
           /\ img'[s].synced = img[s].synced \cup {a}
           /\ img'[s].shown[a] = img[s].bal[a]
           /\ \A b \in Accounts : b # a => img'[s].shown[b] = img[s].shown[b]
           /\ UNCHANGED <<img[s].wrote, img[s].bal, img[s].rows, img[s].purse>>
           /\ rowLock' \in [Players -> Sessions \cup {NoSession}]
           /\ rowLock'[Owner[a]] = s
           /\ \A p \in Players : rowLock[p] = s => rowLock'[p] = s
           /\ \A p \in Players : rowLock'[p] # rowLock[p] => rowLock[p] \in {NoSession, s}
           /\ UNCHANGED <<committed, accLock, begun>>
<1>1. img[s] \in Images /\ img \in [Sessions -> Images]
  BY DEF TypeOK
<1> DEFINE i == img[s]
           shown == [i.shown EXCEPT ![a] = i.bal[a]]
           j == [wrote |-> i.wrote, bal |-> i.bal, rows |-> i.rows, purse |-> i.purse,
                 synced |-> i.synced \cup {a}, shown |-> shown]
<1>2. img' = [img EXCEPT ![s] = j]
  BY DEF SyncCache
<1>3. /\ i.bal \in [Accounts -> Int] /\ i.shown \in [Accounts -> Int]
      /\ shown \in Rows /\ i.synced \cup {a} \in SUBSET Accounts
  BY <1>1 DEF Images, Rows
<1> HIDE DEF j, shown
<1>4. /\ j \in Images
      /\ j.synced = i.synced \cup {a} /\ j.shown = shown
      /\ j.wrote = i.wrote /\ j.bal = i.bal /\ j.rows = i.rows /\ j.purse = i.purse
  BY <1>1, <1>3 DEF j, Images
<1>5. img'[s] = j /\ \A x \in Sessions : x # s => img'[x] = img[x]
  BY <1>1, <1>2
<1>6. img' \in [Sessions -> Images]
  BY <1>1, <1>2, <1>4
<1>7. /\ rowLock' \in [Players -> Sessions \cup {NoSession}]
      /\ rowLock'[Owner[a]] = s
      /\ \A p \in Players : rowLock[p] = s => rowLock'[p] = s
      /\ \A p \in Players : rowLock'[p] # rowLock[p] => rowLock[p] \in {NoSession, s}
  <2> DEFINE q == Owner[a]
  <2>1. q \in Players /\ Free(rowLock[q], s) /\ rowLock' = [rowLock EXCEPT ![q] = s]
    BY LedgerAssumption DEF SyncCache
  <2> HIDE DEF q
  <2>2. /\ rowLock' \in [Players -> Sessions \cup {NoSession}]
        /\ rowLock'[q] = s
        /\ \A p \in Players : rowLock[p] = s => rowLock'[p] = s
        /\ \A p \in Players : rowLock'[p] # rowLock[p] => rowLock[p] \in {NoSession, s}
    BY <2>1, TakeRow
  <2>3. QED
    BY <2>2 DEF q
<1>8. shown[a] = i.bal[a] /\ \A b \in Accounts : b # a => shown[b] = i.shown[b]
  BY <1>3 DEF shown
<1>9. UNCHANGED <<committed, accLock, begun>>
  BY DEF SyncCache
<1>10. QED
  BY <1>4, <1>5, <1>6, <1>7, <1>8, <1>9

LEMMA SyncDebitInv == ASSUME NEW s \in Sessions, Inductive, SyncDebit(s) PROVE Inductive'
<1> DEFINE r == tx[s].req
           a == r.from
<1>1. /\ TypeOK /\ SessionInv(s) /\ At(s, "syncDebit") /\ a \in Accounts
      /\ r.op \in {"transfer", "purchase", "withdraw"}
  BY DEF Inductive, SessionInv, SyncDebit, SyncCache, RequestInv, OnPath, At
<1>2. /\ img' \in [Sessions -> Images]
      /\ \A x \in Sessions : x # s => img'[x] = img[x]
      /\ img'[s].synced = img[s].synced \cup {a}
      /\ img'[s].shown[a] = img[s].bal[a]
      /\ \A b \in Accounts : b # a => img'[s].shown[b] = img[s].shown[b]
      /\ UNCHANGED <<img[s].wrote, img[s].bal, img[s].rows, img[s].purse>>
      /\ rowLock' \in [Players -> Sessions \cup {NoSession}]
      /\ rowLock'[Owner[a]] = s
      /\ \A p \in Players : rowLock[p] = s => rowLock'[p] = s
      /\ \A p \in Players : rowLock'[p] # rowLock[p] => rowLock[p] \in {NoSession, s}
      /\ UNCHANGED <<committed, accLock, begun>>
  <2>1. SyncCache(s, "syncDebit", a)
    BY DEF SyncDebit
  <2>2. QED
    BY <1>1, <2>1, SyncCacheEffect
<1>3. PICK step \in {"credit", "commit", "moveCash"} :
         /\ Goto(s, step)
         /\ \/ r.op = "transfer" /\ step = "credit"
            \/ r.op = "purchase" /\ step = "commit"
            \/ r.op = "withdraw" /\ step = "moveCash"
  BY DEF SyncDebit, AfterDebitSync
<1>4. step \in Steps
  BY DEF Steps
<1>5. /\ tx'[s].pc = step /\ tx'[s].req = tx[s].req
      /\ \A x \in Sessions : x # s => tx'[x] = tx[x]
      /\ tx' \in [Sessions -> Transactions]
  BY <1>1, <1>3, <1>4, GotoEffect
<1>6. TypeOK'
  BY <1>1, <1>2, <1>5 DEF TypeOK, committed
<1>7. /\ Debited(s) /\ ~Credited(s) /\ ~CashMoved(s)
      /\ Debited(s)' /\ ~Credited(s)' /\ ~CashMoved(s)'
  BY <1>1, <1>3, <1>5 DEF Debited, Credited, CashMoved, At, Edits
<1>8. img[s].wrote = {a}
  BY <1>1, <1>7 DEF SessionInv, RowsInv
<1>9. SessionInv(s)'
  <2>1. RequestInv(s)'
    BY <1>1, <1>3, <1>5 DEF SessionInv, RequestInv, OnPath, Edits
  <2>2. RowsInv(s)'
    <3>1. \A b \in Accounts : TokenUnused(s, b)' = TokenUnused(s, b)
      BY <1>2, <1>5 DEF TokenUnused, committed
    <3>2. \A b \in Accounts : balance'[b] = balance[b]
      BY <1>2 DEF committed
    <3>3. r.op \notin Edits
      BY <1>1 DEF Edits
    <3>4. QED
      BY <1>1, <1>2, <1>5, <1>7, <1>8, <3>1, <3>2, <3>3 DEF SessionInv, RowsInv, At
  <2>3. LockInv(s)'
    <3>1. accLock[a] = s
      BY <1>1, <1>8 DEF SessionInv, LockInv
    <3>2. \A b \in img[s].synced : rowLock'[Owner[b]] = s
      <4>1. \A b \in img[s].synced : rowLock[Owner[b]] = s /\ Owner[b] \in Players
        BY <1>1, LedgerAssumption, Numbers DEF SessionInv, LockInv
      <4>2. QED
        BY <1>2, <4>1
    <3>3. r.op \notin Edits
      BY <1>1 DEF Edits
    <3>4. QED
      BY <1>2, <1>3, <1>5, <1>7, <1>8, <3>1, <3>2, <3>3 DEF LockInv, At
  <2>4. CacheInv(s)'
    <3>1. img[s].synced \subseteq {a}
      BY <1>1, <1>8 DEF SessionInv, CacheInv
    <3>2. QED
      BY <1>2, <1>5, <1>8, <3>1 DEF CacheInv
  <2>5. QED
    BY <2>1, <2>2, <2>3, <2>4 DEF SessionInv
<1>10. QED
  BY <1>2, <1>5, <1>6, <1>9, PrivateStep

\* Before the credit leg: only a transfer has written, and not the payee.
LEMMA BeforeCredit ==
    ASSUME NEW s \in Sessions, Inductive, At(s, "credit")
    PROVE  /\ TypeOK /\ SessionInv(s)
           /\ tx[s].req.to \in Accounts
           /\ tx[s].req.op \in {"transfer", "deposit", "adjust"} \cup Edits
           /\ ~Credited(s)
           /\ Debited(s) <=> tx[s].req.op = "transfer"
           /\ CashMoved(s) <=> tx[s].req.op = "deposit"
           /\ tx[s].req.to \notin img[s].wrote
           /\ img[s].rows[tx[s].req.to] = 0
           /\ Balance(s, tx[s].req.to) = balance[tx[s].req.to]
           /\ tx[s].req.n \in Int /\ balance[tx[s].req.to] \in Int
           /\ CreditAmount(s) = IF tx[s].req.op \in Edits THEN tx[s].req.n - balance[tx[s].req.to]
                                ELSE tx[s].req.n
<1> DEFINE r == tx[s].req
<1>1. TypeOK /\ SessionInv(s) /\ r.op \in {"transfer", "deposit", "adjust"} \cup Edits
  BY DEF Inductive, SessionInv, RequestInv, OnPath, At, Edits
<1>2. /\ r.to \in Accounts
      /\ ~Credited(s)
      /\ Debited(s) <=> r.op = "transfer"
      /\ CashMoved(s) <=> r.op = "deposit"
  BY <1>1 DEF SessionInv, RequestInv, Debited, Credited, CashMoved, At, Edits
<1>3. r.to \notin img[s].wrote /\ img[s].rows[r.to] = 0
  <2>1. r.op = "transfer" => r.from # r.to
    BY <1>1 DEF SessionInv, RequestInv
  <2>2. QED
    BY <1>1, <1>2, <2>1 DEF SessionInv, RowsInv
<1>4. Balance(s, r.to) = balance[r.to]
  BY <1>3 DEF Balance
<1>5. r.n \in Int /\ balance[r.to] \in Int
  BY <1>1, <1>2, Numbers
<1>6. QED
  BY <1>1, <1>2, <1>3, <1>4, <1>5 DEF CreditAmount

\* A hand edit that changes nothing inserts no row and goes on to commit.
LEMMA NoCreditInv ==
    ASSUME NEW s \in Sessions, Inductive, At(s, "credit"),
           tx[s].req.op \in Edits, CreditAmount(s) = 0,
           Goto(s, "commit"), UNCHANGED <<committed, locks, img, begun>>
    PROVE  Inductive'
<1> DEFINE r == tx[s].req
<1>1. /\ TypeOK /\ SessionInv(s) /\ r.to \in Accounts
      /\ ~Credited(s) /\ ~Debited(s) /\ ~CashMoved(s)
      /\ balance[r.to] = r.n
  BY BeforeCredit DEF Edits
<1>2. /\ tx'[s].pc = "commit" /\ tx'[s].req = tx[s].req
      /\ \A x \in Sessions : x # s => tx'[x] = tx[x]
      /\ tx' \in [Sessions -> Transactions]
  BY <1>1, GotoEffect DEF Steps
<1>3. TypeOK'
  BY <1>1, <1>2 DEF TypeOK, committed, locks
<1>4. ~Debited(s)' /\ ~CashMoved(s)' /\ Credited(s)'
  BY <1>2 DEF Debited, Credited, CashMoved, At, Edits
<1>5. img[s].wrote = {} /\ \A b \in Accounts : img[s].rows[b] = 0 /\ img[s].purse[b] = 0
  BY <1>1 DEF SessionInv, RowsInv
<1>6. SessionInv(s)'
  <2>1. RequestInv(s)'
    BY <1>1, <1>2 DEF SessionInv, RequestInv, OnPath, Edits
  <2>2. RowsInv(s)'
    BY <1>1, <1>2, <1>4, <1>5 DEF RowsInv, At, committed
  <2>3. LockInv(s)'
    BY <1>1, <1>2, <1>4, <1>5 DEF SessionInv, LockInv, At, locks
  <2>4. CacheInv(s)'
    BY <1>1, <1>2, <1>5 DEF SessionInv, CacheInv, At
  <2>5. QED
    BY <2>1, <2>2, <2>3, <2>4 DEF SessionInv
<1>7. QED
  BY <1>2, <1>3, <1>6, PrivateStep DEF locks

LEMMA CreditInv == ASSUME NEW s \in Sessions, Inductive, Credit(s) PROVE Inductive'
<1> DEFINE r == tx[s].req
           a == r.to
           d == CreditAmount(s)
<1>1. CASE r.op \in Edits /\ CreditAmount(s) = 0
  BY <1>1, NoCreditInv DEF Credit
<1>2. CASE ~(r.op \in Edits /\ CreditAmount(s) = 0)
  <2>1. /\ TypeOK /\ SessionInv(s) /\ At(s, "credit") /\ a \in Accounts
        /\ r.op \in {"transfer", "deposit", "adjust"} \cup Edits
        /\ ~Credited(s)
        /\ Debited(s) <=> r.op = "transfer"
        /\ CashMoved(s) <=> r.op = "deposit"
        /\ a \notin img[s].wrote /\ img[s].rows[a] = 0
        /\ Balance(s, a) = balance[a]
        /\ r.n \in Int /\ balance[a] \in Int
        /\ d = IF r.op \in Edits THEN r.n - balance[a] ELSE r.n
    BY BeforeCredit DEF Credit
  <2>2. d \in Int
    BY <2>1
  <2>3. CanInsert(s, a, d) /\ InsertRow(s, a, d) /\ Goto(s, "syncCredit")
    BY <1>2 DEF Credit
  <2> HIDE DEF d
  <2>4. /\ img' \in [Sessions -> Images]
        /\ \A x \in Sessions : x # s => img'[x] = img[x]
        /\ img'[s].wrote = img[s].wrote \cup {a}
        /\ img'[s].bal[a] = Balance(s, a) + d
        /\ img'[s].rows[a] = img[s].rows[a] + d
        /\ \A b \in Accounts : b # a => /\ img'[s].bal[b] = img[s].bal[b]
                                        /\ img'[s].rows[b] = img[s].rows[b]
        /\ UNCHANGED <<img[s].synced, img[s].shown, img[s].purse>>
        /\ accLock' \in [Accounts -> Sessions \cup {NoSession}]
        /\ accLock'[a] = s
        /\ \A b \in Accounts : accLock[b] = s => accLock'[b] = s
        /\ \A b \in Accounts : accLock'[b] # accLock[b] => accLock[b] \in {NoSession, s}
        /\ UNCHANGED <<committed, rowLock, begun>>
    <3>1. Balance(s, a) \in Int /\ Free(accLock[a], s)
      BY <2>1, <2>3 DEF CanInsert
    <3>2. QED
      BY <2>1, <2>2, <2>3, <3>1, InsertRowEffect
  <2>5. /\ tx'[s].pc = "syncCredit" /\ tx'[s].req = tx[s].req
        /\ \A x \in Sessions : x # s => tx'[x] = tx[x]
        /\ tx' \in [Sessions -> Transactions]
    BY <2>1, <2>3, GotoEffect DEF Steps
  <2>6. TypeOK'
    BY <2>1, <2>4, <2>5 DEF TypeOK, committed
  <2>7. /\ Credited(s)'
        /\ Debited(s)' <=> Debited(s)
        /\ CashMoved(s)' <=> CashMoved(s)
    BY <2>1, <2>5 DEF Debited, Credited, CashMoved, At, Edits
  <2>8. /\ balance[a] + d >= 0 /\ img'[s].bal[a] = balance[a] + d /\ img'[s].rows[a] = d
        /\ TokenUnused(s, a)
    BY <2>1, <2>2, <2>3, <2>4 DEF CanInsert
  <2>9. img[s].wrote \subseteq {r.from} /\ (r.op # "transfer" => img[s].wrote = {})
    BY <2>1 DEF SessionInv, RowsInv
  <2>10. SessionInv(s)'
    <3>1. RequestInv(s)'
      BY <2>1, <2>5 DEF SessionInv, RequestInv, OnPath, Edits
    <3>2. RowsInv(s)'
      <4>1. \A b \in Accounts : TokenUnused(s, b)' = TokenUnused(s, b)
        BY <2>4, <2>5 DEF TokenUnused, committed
      <4>2. \A b \in Accounts :
               img'[s].rows[b] = (IF Debited(s) /\ b = r.from THEN -r.n ELSE 0)
                                 + (IF b = a THEN d ELSE 0)
        <5> SUFFICES ASSUME NEW b \in Accounts
                     PROVE  img'[s].rows[b] = (IF Debited(s) /\ b = r.from THEN -r.n ELSE 0)
                                              + (IF b = a THEN d ELSE 0)
          OBVIOUS
        <5>1. CASE b = a
          <6>1. ~(Debited(s) /\ b = r.from)
            BY <5>1, <2>1 DEF SessionInv, RequestInv
          <6>2. QED
            BY <5>1, <6>1, <2>2, <2>8
        <5>2. CASE b # a
          <6>1. img[s].rows[b] = (IF Debited(s) /\ b = r.from THEN -r.n ELSE 0) + 0
            BY <2>1 DEF SessionInv, RowsInv
          <6>2. QED
            BY <5>2, <6>1, <2>4
        <5>3. QED
          BY <5>1, <5>2
      <4>3. d = IF r.op \in Edits THEN r.n - balance'[a] ELSE r.n
        BY <2>1, <2>4 DEF committed
      <4>4. /\ \A b \in img'[s].wrote : /\ img'[s].bal[b] = balance'[b] + img'[s].rows[b]
                                        /\ img'[s].bal[b] >= 0
                                        /\ TokenUnused(s, b)'
        <5> SUFFICES ASSUME NEW b \in img'[s].wrote
                     PROVE  /\ img'[s].bal[b] = balance'[b] + img'[s].rows[b]
                            /\ img'[s].bal[b] >= 0
                            /\ TokenUnused(s, b)'
          OBVIOUS
        <5>1. b \in Accounts
          BY <2>1, <2>4, Numbers
        <5>2. CASE b = a
          BY <5>1, <5>2, <4>1, <2>4, <2>8 DEF committed
        <5>3. CASE b # a
          <6>1. b \in img[s].wrote
            BY <5>3, <2>4
          <6>2. QED
            BY <5>1, <5>3, <6>1, <4>1, <2>1, <2>4 DEF SessionInv, RowsInv, committed
        <5>4. QED
          BY <5>2, <5>3
      <4>5. a \in img'[s].wrote
              /\ img'[s].wrote \subseteq (IF Debited(s) THEN {r.from} ELSE {}) \cup {a}
        BY <2>1, <2>4 DEF SessionInv, RowsInv
      <4>6. Debited(s) => r.from \in img'[s].wrote
        BY <2>1, <2>4 DEF SessionInv, RowsInv
      <4>7. /\ \A b \in Accounts : img'[s].purse[b] = IF CashMoved(s)
                 /\ b = r.from THEN CashMove(r) ELSE 0
            /\ CashMoved(s) => cash'[r.from] + CashMove(r) >= 0
            /\ CashMoved(s) /\ r.op = "cash" => <<Owner[r.from], r.tok>> \notin cashSpent'
        BY <2>1, <2>4 DEF SessionInv, RowsInv, committed
      <4>8. QED
        BY <2>5, <2>7, <4>2, <4>3, <4>4, <4>5, <4>6, <4>7 DEF RowsInv, At
    <3>3. LockInv(s)'
      <4>1. \A b \in img'[s].wrote : accLock'[b] = s
        BY <2>1, <2>4, Numbers DEF SessionInv, LockInv
      <4>2. /\ \A b \in img'[s].synced : rowLock'[Owner[b]] = s
            /\ CashMoved(s) => rowLock'[Owner[r.from]] = s
        BY <2>1, <2>4 DEF SessionInv, LockInv
      <4>3. QED
        BY <2>5, <2>7, <4>1, <4>2 DEF LockInv, At
    <3>4. CacheInv(s)'
      <4>1. \A b \in img'[s].wrote \ img'[s].synced : b = a
        BY <2>1, <2>4 DEF SessionInv, CacheInv, At
      <4>2. ASSUME NEW b \in img'[s].synced
            PROVE  b \in img'[s].wrote /\ img'[s].shown[b] = img'[s].bal[b]
        <5>1. b \in Accounts /\ b \in img[s].synced
          BY <2>1, <2>4, Numbers
        <5>2. CASE b \in img[s].wrote /\ img[s].shown[b] = img[s].bal[b]
          BY <5>1, <5>2, <2>1, <2>4
        <5>3. CASE r.op = "editCache" /\ b = a /\ img[s].shown[b] = r.n
          <6>1. img'[s].bal[a] = r.n
            <7>1. d = r.n - balance[a]
              BY <5>3, <2>1 DEF Edits
            <7>2. QED
              BY <7>1, <2>1, <2>8
          <6>2. QED
            BY <5>3, <6>1, <2>4
        <5>4. QED
          BY <5>1, <5>2, <5>3, <2>1 DEF SessionInv, CacheInv
      <4>3. QED
        BY <2>5, <4>1, <4>2 DEF CacheInv, At
    <3>5. QED
      BY <3>1, <3>2, <3>3, <3>4 DEF SessionInv
  <2>11. QED
    BY <2>4, <2>5, <2>6, <2>10, PrivateStep
<1>3. QED
  BY <1>1, <1>2

LEMMA SyncCreditInv == ASSUME NEW s \in Sessions, Inductive, SyncCredit(s) PROVE Inductive'
<1> DEFINE r == tx[s].req
           a == r.to
<1>1. /\ TypeOK /\ SessionInv(s) /\ At(s, "syncCredit") /\ a \in Accounts
      /\ r.op \in {"transfer", "deposit", "adjust"} \cup Edits
  BY DEF Inductive, SessionInv, SyncCredit, SyncCache, RequestInv, OnPath, At, Edits
<1>2. /\ img' \in [Sessions -> Images]
      /\ \A x \in Sessions : x # s => img'[x] = img[x]
      /\ img'[s].synced = img[s].synced \cup {a}
      /\ img'[s].shown[a] = img[s].bal[a]
      /\ \A b \in Accounts : b # a => img'[s].shown[b] = img[s].shown[b]
      /\ UNCHANGED <<img[s].wrote, img[s].bal, img[s].rows, img[s].purse>>
      /\ rowLock' \in [Players -> Sessions \cup {NoSession}]
      /\ rowLock'[Owner[a]] = s
      /\ \A p \in Players : rowLock[p] = s => rowLock'[p] = s
      /\ \A p \in Players : rowLock'[p] # rowLock[p] => rowLock[p] \in {NoSession, s}
      /\ UNCHANGED <<committed, accLock, begun>>
  <2>1. SyncCache(s, "syncCredit", a)
    BY DEF SyncCredit
  <2>2. QED
    BY <1>1, <2>1, SyncCacheEffect
<1>3. /\ tx'[s].pc = "commit" /\ tx'[s].req = tx[s].req
      /\ \A x \in Sessions : x # s => tx'[x] = tx[x]
      /\ tx' \in [Sessions -> Transactions]
  BY <1>1, GotoEffect DEF Steps, SyncCredit
<1>4. TypeOK'
  BY <1>1, <1>2, <1>3 DEF TypeOK, committed
<1>5. /\ Credited(s) /\ Credited(s)'
      /\ Debited(s)' <=> Debited(s)
      /\ CashMoved(s)' <=> CashMoved(s)
  BY <1>1, <1>3 DEF Debited, Credited, CashMoved, At, Edits
<1>6. a \in img[s].wrote
  BY <1>1, <1>5 DEF SessionInv, RowsInv, At
<1>7. SessionInv(s)'
  <2>1. RequestInv(s)'
    BY <1>1, <1>3 DEF SessionInv, RequestInv, OnPath, Edits
  <2>2. RowsInv(s)'
    <3>1. \A b \in Accounts : TokenUnused(s, b)' = TokenUnused(s, b)
      BY <1>2, <1>3 DEF TokenUnused, committed
    <3>2. /\ \A b \in Accounts : balance'[b] = balance[b]
          /\ cash' = cash /\ cashSpent' = cashSpent /\ balance' = balance
      BY <1>2 DEF committed
    <3>3. RowsInv(s)
      BY <1>1 DEF SessionInv
    <3>4. img'[s].rows = img[s].rows /\ img'[s].wrote = img[s].wrote
          /\ img'[s].bal = img[s].bal /\ img'[s].purse = img[s].purse
      BY <1>2
    <3>5. Debited(s) => r.from \in img[s].wrote
      BY <3>3 DEF RowsInv
    <3>6. \A b \in Accounts :
             img[s].rows[b] = (IF Debited(s)' /\ b = r.from THEN -r.n ELSE 0)
                              + (IF Credited(s)' /\ b = r.to /\ b \in img[s].wrote
                                 THEN IF r.op \in Edits THEN r.n - balance'[b] ELSE r.n
                                 ELSE 0)
      BY <1>5, <3>2, <3>3 DEF RowsInv
    <3>7. img[s].wrote \subseteq (IF Debited(s)' THEN {r.from} ELSE {})
                                 \cup (IF Credited(s)' THEN {r.to} ELSE {})
      BY <1>5, <3>3 DEF RowsInv
    <3>8. /\ \A b \in img[s].wrote : /\ img[s].bal[b] = balance'[b] + img[s].rows[b]
                                     /\ img[s].bal[b] >= 0
                                     /\ TokenUnused(s, b)'
      BY <1>1, <3>1, <3>2, <3>3, Numbers DEF RowsInv
    <3>9. /\ \A b \in Accounts : img[s].purse[b] = IF CashMoved(s)'
               /\ b = r.from THEN CashMove(r) ELSE 0
          /\ CashMoved(s)' => cash'[r.from] + CashMove(r) >= 0
          /\ CashMoved(s)' /\ r.op = "cash" => <<Owner[r.from], r.tok>> \notin cashSpent'
      BY <1>5, <3>2, <3>3 DEF RowsInv
    <3>10. QED
      BY <1>3, <1>5, <1>6, <3>4, <3>5, <3>6, <3>7, <3>8, <3>9 DEF RowsInv
  <2>3. LockInv(s)'
    <3>1. \A b \in img[s].wrote : accLock[b] = s
      BY <1>1 DEF SessionInv, LockInv
    <3>2. \A b \in img[s].synced : rowLock'[Owner[b]] = s
      <4>1. \A b \in img[s].synced : rowLock[Owner[b]] = s /\ Owner[b] \in Players
        BY <1>1, LedgerAssumption, Numbers DEF SessionInv, LockInv
      <4>2. QED
        BY <1>2, <4>1
    <3>3. CashMoved(s) => rowLock'[Owner[r.from]] = s
      <4>1. r.from \in Accounts => Owner[r.from] \in Players
        BY LedgerAssumption
      <4>2. QED
        BY <1>1, <1>2, <4>1 DEF SessionInv, LockInv, RequestInv, Edits
    <3>4. QED
      BY <1>2, <1>3, <1>5, <1>6, <3>1, <3>2, <3>3 DEF LockInv, At
  <2>4. CacheInv(s)'
    <3>1. \A b \in img[s].wrote \ img[s].synced : b = a
      BY <1>1 DEF SessionInv, CacheInv, At
    <3>2. \A b \in img[s].synced : b # a => b \in img[s].wrote /\ img[s].shown[b] = img[s].bal[b]
      BY <1>1 DEF SessionInv, CacheInv
    <3>3. \A b \in img'[s].synced : b \in Accounts
      BY <1>1, <1>2, Numbers
    <3>4. QED
      BY <1>2, <1>3, <1>6, <3>1, <3>2, <3>3 DEF CacheInv, At
  <2>5. QED
    BY <2>1, <2>2, <2>3, <2>4 DEF SessionInv
<1>8. QED
  BY <1>2, <1>3, <1>4, <1>7, PrivateStep

LEMMA LockRowInv == ASSUME NEW s \in Sessions, Inductive, LockRow(s) PROVE Inductive'
<1> DEFINE r == tx[s].req
           i == img[s]
           q == Owner[r.from]
<1>1. /\ TypeOK /\ SessionInv(s) /\ At(s, "lockRow") /\ r.from \in Accounts /\ r.from = r.to
      /\ r.op \in {"deposit", "withdraw", "editCache"}
  BY DEF Inductive, SessionInv, LockRow, RequestInv, OnPath, At
<1>2. PICK step \in {"moveCash", "debit", "lockFirst"} :
         /\ Goto(s, step)
         /\ \/ r.op = "deposit" /\ step = "moveCash"
            \/ r.op = "withdraw" /\ step = "debit"
            \/ r.op = "editCache" /\ step = "lockFirst"
  BY DEF LockRow
<1>3. step \in Steps
  BY DEF Steps
<1>4. /\ tx'[s].pc = step /\ tx'[s].req = tx[s].req
      /\ \A x \in Sessions : x # s => tx'[x] = tx[x]
      /\ tx' \in [Sessions -> Transactions]
  BY <1>1, <1>2, <1>3, GotoEffect
<1>5. UNCHANGED <<committed, accLock, begun>>
  BY DEF LockRow
<1>6. /\ rowLock' \in [Players -> Sessions \cup {NoSession}]
      /\ rowLock'[q] = s
      /\ \A p \in Players : rowLock[p] = s => rowLock'[p] = s
      /\ \A p \in Players : rowLock'[p] # rowLock[p] => rowLock[p] \in {NoSession, s}
  <2>1. q \in Players /\ Free(rowLock[q], s) /\ rowLock' = [rowLock EXCEPT ![q] = s]
    BY <1>1, LedgerAssumption DEF LockRow
  <2> HIDE DEF q
  <2>2. QED
    BY <1>1, <2>1, TakeRow
<1>7. /\ ~Debited(s) /\ ~Credited(s) /\ ~CashMoved(s)
      /\ ~Debited(s)' /\ ~Credited(s)' /\ ~CashMoved(s)'
  BY <1>1, <1>2, <1>4 DEF Debited, Credited, CashMoved, At, Edits
<1>8. i.wrote = {} /\ \A b \in Accounts : i.rows[b] = 0 /\ i.purse[b] = 0
  BY <1>1, <1>7 DEF SessionInv, RowsInv
<1>9. i.synced = {}
  BY <1>1, <1>8 DEF SessionInv, CacheInv, At
<1>10. /\ img' \in [Sessions -> Images]
       /\ \A x \in Sessions : x # s => img'[x] = img[x]
       /\ UNCHANGED <<img[s].wrote, img[s].bal, img[s].rows, img[s].purse>>
       /\ r.op # "editCache" => img'[s].synced = {}
       /\ r.op = "editCache" => img'[s].synced = {r.from} /\ img'[s].shown[r.from] = r.n
  <2>1. img \in [Sessions -> Images] /\ i \in Images
    BY <1>1 DEF TypeOK
  <2>2. CASE r.op # "editCache"
    BY <1>9, <2>1, <2>2 DEF LockRow
  <2>3. CASE r.op = "editCache"
    <3> DEFINE shown == [i.shown EXCEPT ![r.from] = r.n]
               j == [wrote |-> i.wrote, bal |-> i.bal, rows |-> i.rows, purse |-> i.purse,
                     synced |-> {r.from}, shown |-> shown]
    <3>1. img' = [img EXCEPT ![s] = j]
      BY <2>3 DEF LockRow
    <3>2. r.n \in Int /\ i.shown \in [Accounts -> Int]
      BY <1>1, <2>1, Numbers DEF Images, Rows
    <3>3. shown \in Rows /\ shown[r.from] = r.n
      BY <1>1, <3>2 DEF Rows
    <3> HIDE DEF shown
    <3>4. j \in Images
      BY <1>1, <2>1, <3>3 DEF Images
    <3>5. j.wrote = i.wrote /\ j.bal = i.bal /\ j.rows = i.rows /\ j.purse = i.purse
          /\ j.synced = {r.from} /\ j.shown = shown
      OBVIOUS
    <3> HIDE DEF j
    <3>6. QED
      BY <2>1, <2>3, <3>1, <3>3, <3>4, <3>5
  <2>4. QED
    BY <2>2, <2>3
<1>11. TypeOK'
  BY <1>1, <1>4, <1>5, <1>6, <1>10 DEF TypeOK, committed
<1>12. SessionInv(s)'
  <2>1. RequestInv(s)'
    BY <1>1, <1>2, <1>4 DEF SessionInv, RequestInv, OnPath, Edits
  <2>2. RowsInv(s)'
    BY <1>1, <1>2, <1>4, <1>5, <1>7, <1>8, <1>10 DEF RowsInv, At, committed, Edits
  <2>3. LockInv(s)'
    <3>1. r.op # "editCache" => accLock[r.from] = s
      BY <1>1 DEF SessionInv, LockInv
    <3>2. r.op # "editCache" => s \notin Web
      BY <1>1, DbAssumption DEF SessionInv, RequestInv
    <3>3. QED
      BY <1>1, <1>2, <1>4, <1>5, <1>6, <1>7, <1>8, <1>10, <3>1, <3>2 DEF LockInv, At
  <2>4. CacheInv(s)'
    BY <1>1, <1>2, <1>4, <1>8, <1>10 DEF CacheInv, At
  <2>5. QED
    BY <2>1, <2>2, <2>3, <2>4 DEF SessionInv
<1>13. QED
  BY <1>4, <1>5, <1>6, <1>10, <1>11, <1>12, PrivateStep

LEMMA MoveCashInv == ASSUME NEW s \in Sessions, Inductive, MoveCash(s) PROVE Inductive'
<1> DEFINE r == tx[s].req
           i == img[s]
           q == Owner[r.from]
           step == IF r.op = "deposit" THEN "credit" ELSE "commit"
<1>1. /\ TypeOK /\ SessionInv(s) /\ At(s, "moveCash") /\ r.from \in Accounts /\ r.from = r.to
      /\ r.op \in {"deposit", "withdraw", "cash"}
  BY DEF Inductive, SessionInv, MoveCash, RequestInv, OnPath, At
<1>2. Goto(s, step) /\ step \in Steps
  BY DEF MoveCash, Steps
<1>3. /\ tx'[s].pc = step /\ tx'[s].req = tx[s].req
      /\ \A x \in Sessions : x # s => tx'[x] = tx[x]
      /\ tx' \in [Sessions -> Transactions]
  BY <1>1, <1>2, GotoEffect
<1>4. UNCHANGED <<committed, accLock, begun>>
  BY DEF MoveCash
<1>5. /\ rowLock' \in [Players -> Sessions \cup {NoSession}]
      /\ rowLock'[q] = s
      /\ \A p \in Players : rowLock[p] = s => rowLock'[p] = s
      /\ \A p \in Players : rowLock'[p] # rowLock[p] => rowLock[p] \in {NoSession, s}
  <2>1. q \in Players /\ Free(rowLock[q], s) /\ rowLock' = [rowLock EXCEPT ![q] = s]
    BY <1>1, LedgerAssumption DEF MoveCash
  <2> HIDE DEF q
  <2>2. QED
    BY <1>1, <2>1, TakeRow
<1>6. /\ ~Credited(s) /\ ~Credited(s)'
      /\ ~CashMoved(s) /\ CashMoved(s)'
      /\ Debited(s)' <=> Debited(s)
  BY <1>1, <1>3 DEF Debited, Credited, CashMoved, At, Edits
<1>7. /\ img' \in [Sessions -> Images]
      /\ \A x \in Sessions : x # s => img'[x] = img[x]
      /\ UNCHANGED <<img[s].wrote, img[s].bal, img[s].rows, img[s].synced, img[s].shown>>
      /\ img'[s].purse[r.from] = CashMove(r)
      /\ \A b \in Accounts : b # r.from => img'[s].purse[b] = i.purse[b]
  <2>1. img \in [Sessions -> Images] /\ i \in Images
    BY <1>1 DEF TypeOK
  <2> DEFINE purse == [i.purse EXCEPT ![r.from] = CashMove(r)]
             j == [wrote |-> i.wrote, bal |-> i.bal, rows |-> i.rows,
                   synced |-> i.synced, shown |-> i.shown, purse |-> purse]
  <2>2. img' = [img EXCEPT ![s] = j]
    BY DEF MoveCash
  <2>3. CashMove(r) \in Int /\ i.purse \in [Accounts -> Int]
    BY <1>1, <2>1, Numbers DEF Images, Rows, CashMove
  <2>4. /\ purse \in Rows /\ purse[r.from] = CashMove(r)
        /\ \A b \in Accounts : b # r.from => purse[b] = i.purse[b]
    BY <1>1, <2>3 DEF Rows
  <2> HIDE DEF purse
  <2>5. j \in Images
    BY <1>1, <2>1, <2>4 DEF Images
  <2>6. j.wrote = i.wrote /\ j.bal = i.bal /\ j.rows = i.rows
        /\ j.synced = i.synced /\ j.shown = i.shown /\ j.purse = purse
    OBVIOUS
  <2> HIDE DEF j
  <2>7. QED
    BY <2>1, <2>2, <2>4, <2>5, <2>6
<1>8. TypeOK'
  BY <1>1, <1>3, <1>4, <1>5, <1>7 DEF TypeOK, committed
<1>9. SessionInv(s)'
  <2>1. RequestInv(s)'
    BY <1>1, <1>3 DEF SessionInv, RequestInv, OnPath, Edits
  <2>2. RowsInv(s)'
    <3>1. \A b \in Accounts : TokenUnused(s, b)' = TokenUnused(s, b)
      BY <1>3, <1>4 DEF TokenUnused, committed
    <3>2. /\ balance' = balance /\ cash' = cash /\ cashSpent' = cashSpent
      BY <1>4 DEF committed
    <3>3. /\ cash[r.from] + CashMove(r) >= 0
          /\ r.op = "cash" => <<q, r.tok>> \notin cashSpent
      BY DEF MoveCash
    <3>4. \A b \in Accounts : img'[s].purse[b] = IF b = r.from THEN CashMove(r) ELSE 0
      BY <1>1, <1>6, <1>7 DEF SessionInv, RowsInv
    <3>5. r.op \notin Edits
      BY <1>1 DEF Edits
    <3>6. QED
      BY <1>1, <1>3, <1>6, <1>7, <3>1, <3>2, <3>3, <3>4, <3>5 DEF SessionInv, RowsInv, At
  <2>3. LockInv(s)'
    <3>1. \A b \in i.wrote : accLock[b] = s
      BY <1>1 DEF SessionInv, LockInv
    <3>2. \A b \in i.synced : rowLock'[Owner[b]] = s
      <4>1. \A b \in i.synced : rowLock[Owner[b]] = s /\ Owner[b] \in Players
        BY <1>1, LedgerAssumption, Numbers DEF SessionInv, LockInv
      <4>2. QED
        BY <1>5, <4>1
    <3>3. r.op \notin Edits
      BY <1>1 DEF Edits
    <3>4. QED
      BY <1>3, <1>4, <1>5, <1>7, <3>1, <3>2, <3>3 DEF LockInv, At
  <2>4. CacheInv(s)'
    BY <1>1, <1>3, <1>7 DEF SessionInv, CacheInv, At
  <2>5. QED
    BY <2>1, <2>2, <2>3, <2>4 DEF SessionInv
<1>10. QED
  BY <1>3, <1>4, <1>5, <1>7, <1>8, <1>9, PrivateStep

-----------------------------------------------------------------------------
(* Beginning and ending a transaction.                                     *)

\* An idle session has written nothing.
LEMMA IdleImage ==
    ASSUME NEW s \in Sessions, TypeOK, SessionInv(s), tx[s].pc = "idle"
    PROVE  /\ img[s].wrote = {} /\ img[s].synced = {}
           /\ \A a \in Accounts : img[s].rows[a] = 0 /\ img[s].purse[a] = 0
<1>1. tx[s].req.op = "none"
  BY DEF SessionInv, RequestInv, OnPath
<1>2. ~Debited(s) /\ ~Credited(s) /\ ~CashMoved(s)
  BY <1>1 DEF Debited, Credited, CashMoved, Edits
<1>3. img[s].wrote = {} /\ \A a \in Accounts : img[s].rows[a] = 0 /\ img[s].purse[a] = 0
  BY <1>2 DEF SessionInv, RowsInv
<1>4. QED
  BY <1>1, <1>3 DEF SessionInv, CacheInv

\* A request that begins on its operation's path preserves the invariant.
LEMMA StartInv ==
    ASSUME NEW s \in Sessions, NEW op \in Ops, NEW from \in Accounts, NEW to \in Accounts,
           NEW n \in Int, NEW tok \in Tokens \cup {NoToken},
           NEW step \in {"lockFirst", "lockRow", "moveCash"},
           Inductive, Start(s, step, Request(op, from, to, n, tok)),
           OnPath(op, step),
           step = "moveCash" => op = "cash",
           step = "lockRow" => op = "editCache",
           op \in {"transfer", "purchase", "deposit", "withdraw", "adjust"} => n \in Amounts,
           op \in {"transfer", "purchase", "deposit", "withdraw", "cash"} => tok \in Tokens,
           op \in {"adjust"} \cup Edits => tok = NoToken,
           op = "transfer" <=> from # to,
           op \in {"purchase", "deposit", "withdraw", "cash"} => s = Game,
           op = "cash" => (n \in Amounts \/ -n \in Amounts),
           op \in Edits => n \in 0..MaxBalance
    PROVE  Inductive'
<1> DEFINE r == Request(op, from, to, n, tok)
<1>1. TypeOK /\ SessionInv(s) /\ tx[s].pc = "idle"
  BY DEF Inductive, SessionInv, Start, At
<1>2. /\ img[s].wrote = {} /\ img[s].synced = {}
      /\ \A a \in Accounts : img[s].rows[a] = 0 /\ img[s].purse[a] = 0
  BY <1>1, IdleImage
<1>3. UNCHANGED <<committed, locks, img>> /\ begun' = begun + 1
  BY DEF Start
<1>4. r \in [op : Ops \cup {"none"}, from : Int, to : Int, n : Int,
             tok : Tokens \cup {NoToken}, seen : Int]
  <2>1. from \in Int /\ to \in Int
    BY DbAssumption
  <2>2. QED
    BY <2>1 DEF Request
<1>5. [req |-> r, pc |-> step] \in Transactions
  BY <1>4 DEF Transactions, Steps
<1>6. /\ tx'[s].pc = step /\ tx'[s].req = r
      /\ \A x \in Sessions : x # s => tx'[x] = tx[x]
      /\ tx' \in [Sessions -> Transactions]
  BY <1>1, <1>5 DEF Start, TypeOK
<1>7. /\ tx'[s].req.op = op /\ tx'[s].req.from = from /\ tx'[s].req.to = to
      /\ tx'[s].req.n = n /\ tx'[s].req.tok = tok
  BY <1>6 DEF Request
<1>8. TypeOK'
  BY <1>1, <1>3, <1>6 DEF TypeOK, committed, locks
<1>9. ~Debited(s)' /\ ~Credited(s)' /\ ~CashMoved(s)'
  BY <1>6, <1>7 DEF Debited, Credited, CashMoved
<1>10. SessionInv(s)'
  <2>1. RequestInv(s)'
    BY <1>6, <1>7 DEF RequestInv, Ops
  <2>2. LockInv(s)'
    BY <1>2, <1>3, <1>6, <1>7, <1>9 DEF LockInv, At
  <2>3. RowsInv(s)'
    BY <1>2, <1>3, <1>6, <1>7, <1>9 DEF RowsInv, At
  <2>4. CacheInv(s)'
    BY <1>2, <1>3 DEF CacheInv
  <2>5. QED
    BY <2>1, <2>2, <2>3, <2>4 DEF SessionInv
<1>11. QED
  BY <1>3, <1>6, <1>8, <1>10, PrivateStep DEF locks

LEMMA BeginInv == ASSUME NEW s \in Sessions, Inductive, Begin(s) PROVE Inductive'
<1>1. Amounts \subseteq Int /\ \A n \in Amounts : -n \in Int /\ -(-n) = n /\ (-1) * n = -n /\ 1 * n = n
  BY LedgerAssumption
<1>2. 0..MaxBalance \subseteq Int
  BY LedgerAssumption
<1>3. CASE s \in Web /\ MoveMoney(s)
  BY <1>1, <1>3, StartInv DEF MoveMoney, OnPath, Ops, Edits
<1>4. CASE (s \in Web /\ Compensate(s)) \/ (s = Game /\ AdminCompensate)
  BY <1>1, <1>4, StartInv DEF Compensate, AdminCompensate, OnPath, Ops, Edits
<1>5. CASE s = Game /\ BankTxTransfer
  BY <1>1, <1>5, StartInv DEF BankTxTransfer, OnPath, Ops, Edits
<1>6. CASE s = Game /\ BankTxPurchase
  BY <1>1, <1>6, StartInv DEF BankTxPurchase, OnPath, Ops, Edits
<1>7. CASE s = Game /\ BankCash
  <2>1. PICK op \in {"deposit", "withdraw"}, a \in Accounts, n \in Amounts, t \in Tokens :
           Start(Game, "lockFirst", Request(op, a, a, n, t))
    BY <1>7 DEF BankCash
  <2>2. OnPath(op, "lockFirst") /\ op \in Ops /\ op \notin Edits /\ n \in Int
    BY <1>1 DEF OnPath, Ops, Edits
  <2>3. QED
    BY <1>7, <2>1, <2>2, StartInv
<1>8. CASE s = Game /\ SaveCashDelta
  <2>1. PICK a \in Accounts, n \in Amounts, t \in Tokens, sign \in {1, -1} :
           Start(Game, "moveCash", Request("cash", a, a, sign * n, t))
    BY <1>8 DEF SaveCashDelta
  <2> DEFINE d == sign * n
  <2>2. d \in Int /\ (d \in Amounts \/ -d \in Amounts)
    BY <1>1
  <2>3. Start(Game, "moveCash", Request("cash", a, a, d, t))
    BY <2>1
  <2> HIDE DEF d
  <2>4. QED
    BY <1>8, <2>2, <2>3, StartInv DEF OnPath, Ops, Edits
<1>9. CASE s = Dba /\ EditPlayersBank
  BY <1>2, <1>9, StartInv DEF EditPlayersBank, OnPath, Ops, Edits
<1>10. CASE s = Dba /\ EditAccountBalance
  BY <1>2, <1>10, StartInv DEF EditAccountBalance, OnPath, Ops, Edits
<1>11. QED
  BY <1>3, <1>4, <1>5, <1>6, <1>7, <1>8, <1>9, <1>10 DEF Begin, HandleBank

\* The end of a transaction frees its locks and forgets its versions.
LEMMA ReleaseEffect ==
    ASSUME NEW s \in Sessions, TypeOK, Release(s)
    PROVE  /\ tx' \in [Sessions -> Transactions] /\ img' \in [Sessions -> Images]
           /\ accLock' \in [Accounts -> Sessions \cup {NoSession}]
           /\ rowLock' \in [Players -> Sessions \cup {NoSession}]
           /\ begun' \in Nat
           /\ \A x \in Sessions : x # s => tx'[x] = tx[x] /\ img'[x] = img[x]
           /\ \A a \in Accounts : accLock'[a] = IF accLock[a] = s THEN NoSession ELSE accLock[a]
           /\ \A p \in Players : rowLock'[p] = IF rowLock[p] = s THEN NoSession ELSE rowLock[p]
           /\ SessionInv(s)'
<1>1. Idle \in Transactions
  BY DEF Idle, NoRequest, Transactions, Steps
<1>2. Clean \in Images
  BY DEF Clean, Images, Rows
<1>3. /\ tx'[s] = Idle /\ img'[s] = Clean
      /\ tx' \in [Sessions -> Transactions] /\ img' \in [Sessions -> Images]
      /\ \A x \in Sessions : x # s => tx'[x] = tx[x] /\ img'[x] = img[x]
  BY <1>1, <1>2 DEF TypeOK, Release
<1>4. /\ accLock' \in [Accounts -> Sessions \cup {NoSession}]
      /\ rowLock' \in [Players -> Sessions \cup {NoSession}]
      /\ begun' \in Nat
      /\ \A a \in Accounts : accLock'[a] = IF accLock[a] = s THEN NoSession ELSE accLock[a]
      /\ \A p \in Players : rowLock'[p] = IF rowLock[p] = s THEN NoSession ELSE rowLock[p]
  BY DEF TypeOK, Release
<1>5. /\ tx'[s].pc = "idle" /\ tx'[s].req.op = "none" /\ tx'[s].req.tok = NoToken
      /\ tx'[s].req.from = tx'[s].req.to
      /\ img'[s].wrote = {} /\ img'[s].synced = {}
      /\ \A a \in Accounts : img'[s].rows[a] = 0 /\ img'[s].purse[a] = 0
  BY <1>3 DEF Idle, NoRequest, Clean
<1>6. ~Debited(s)' /\ ~Credited(s)' /\ ~CashMoved(s)'
  BY <1>5 DEF Debited, Credited, CashMoved, Edits
<1>7. SessionInv(s)'
  <2>1. RequestInv(s)'
    BY <1>5 DEF RequestInv, OnPath, Edits
  <2>2. LockInv(s)'
    BY <1>5, <1>6 DEF LockInv, At
  <2>3. RowsInv(s)'
    BY <1>5, <1>6 DEF RowsInv, At
  <2>4. CacheInv(s)'
    BY <1>5 DEF CacheInv
  <2>5. QED
    BY <2>1, <2>2, <2>3, <2>4 DEF SessionInv
<1>8. QED
  BY <1>3, <1>4, <1>7

LEMMA RollbackInv == ASSUME NEW s \in Sessions, Inductive, Rollback(s) PROVE Inductive'
<1>1. TypeOK /\ Release(s) /\ UNCHANGED committed
  BY DEF Inductive, Rollback
<1>2. /\ tx' \in [Sessions -> Transactions] /\ img' \in [Sessions -> Images]
      /\ accLock' \in [Accounts -> Sessions \cup {NoSession}]
      /\ rowLock' \in [Players -> Sessions \cup {NoSession}]
      /\ begun' \in Nat
      /\ \A x \in Sessions : x # s => tx'[x] = tx[x] /\ img'[x] = img[x]
      /\ \A a \in Accounts : accLock'[a] = IF accLock[a] = s THEN NoSession ELSE accLock[a]
      /\ \A p \in Players : rowLock'[p] = IF rowLock[p] = s THEN NoSession ELSE rowLock[p]
      /\ SessionInv(s)'
  BY <1>1, ReleaseEffect
<1>3. TypeOK'
  BY <1>1, <1>2 DEF TypeOK, committed
<1>4. QED
  BY <1>1, <1>2, <1>3, PrivateStep

-----------------------------------------------------------------------------
(* Commit.                                                                 *)

\* What a session that reached COMMIT has in hand, account by account.
LEMMA AtCommit ==
    ASSUME NEW s \in Sessions, Inductive, At(s, "commit")
    PROVE  /\ TypeOK /\ SessionInv(s)
           /\ tx[s].req.op \in Ops
           /\ tx[s].req.from \in Accounts /\ tx[s].req.to \in Accounts
           /\ Debited(s) <=> tx[s].req.op \in {"transfer", "purchase", "withdraw"}
           /\ Credited(s) <=> tx[s].req.op \in {"transfer", "deposit", "adjust"} \cup Edits
           /\ CashMoved(s) <=> tx[s].req.op \in {"deposit", "withdraw", "cash"}
           /\ \A a \in Accounts :
                 /\ a \in img[s].wrote => /\ img[s].bal[a] = balance[a] + img[s].rows[a]
                                          /\ img[s].bal[a] >= 0
                                          /\ a \in img[s].synced
                                          /\ img[s].shown[a] = img[s].bal[a]
                 /\ a \notin img[s].wrote => img[s].rows[a] = 0
                 /\ a \in img[s].synced \ img[s].wrote => img[s].shown[a] = balance[a]
                 /\ cash[a] + img[s].purse[a] >= 0
                 /\ img[s].purse[a] # 0 => rowLock[Owner[a]] = s
<1> DEFINE r == tx[s].req
           i == img[s]
<1>1. TypeOK /\ SessionInv(s) /\ NeverNegative /\ tx[s].pc = "commit"
  BY DEF Inductive, SessionInv, At
<1>2. r.op \in Ops /\ r.from \in Accounts /\ r.to \in Accounts
  BY <1>1 DEF SessionInv, RequestInv, OnPath, Ops
<1>3. /\ Debited(s) <=> r.op \in {"transfer", "purchase", "withdraw"}
      /\ Credited(s) <=> r.op \in {"transfer", "deposit", "adjust"} \cup Edits
      /\ CashMoved(s) <=> r.op \in {"deposit", "withdraw", "cash"}
  BY <1>1 DEF Debited, Credited, CashMoved
<1>4. i.wrote \subseteq i.synced
  BY <1>1 DEF SessionInv, CacheInv, At
<1>5. ASSUME NEW a \in Accounts
      PROVE  /\ a \in i.wrote => /\ i.bal[a] = balance[a] + i.rows[a]
                                 /\ i.bal[a] >= 0
                                 /\ a \in i.synced
                                 /\ i.shown[a] = i.bal[a]
             /\ a \notin i.wrote => i.rows[a] = 0
             /\ a \in i.synced \ i.wrote => i.shown[a] = balance[a]
             /\ cash[a] + i.purse[a] >= 0
             /\ i.purse[a] # 0 => rowLock[Owner[a]] = s
  <2>1. a \in i.wrote => /\ i.bal[a] = balance[a] + i.rows[a]
                         /\ i.bal[a] >= 0
    BY <1>1 DEF SessionInv, RowsInv
  <2>2. a \in i.wrote => a \in i.synced /\ i.shown[a] = i.bal[a]
    BY <1>1, <1>4 DEF SessionInv, CacheInv
  <2>3. a \notin i.wrote => i.rows[a] = 0
    <3>1. Debited(s) => r.from \in i.wrote
      BY <1>1 DEF SessionInv, RowsInv
    <3>2. i.rows[a] = (IF Debited(s) /\ a = r.from THEN -r.n ELSE 0)
                      + (IF Credited(s) /\ a = r.to /\ a \in i.wrote
                         THEN IF r.op \in Edits THEN r.n - balance[a] ELSE r.n
                         ELSE 0)
      BY <1>1 DEF SessionInv, RowsInv
    <3>3. QED
      BY <3>1, <3>2
  <2>4. a \in i.synced \ i.wrote => i.shown[a] = balance[a]
    <3>1. a \in i.synced \ i.wrote => r.op = "editCache" /\ a = r.to /\ i.shown[a] = r.n
      BY <1>1 DEF SessionInv, CacheInv
    <3>2. r.op \in Edits /\ r.to \notin i.wrote => balance[r.to] = r.n
      BY <1>1 DEF SessionInv, RowsInv, At
    <3>3. QED
      BY <3>1, <3>2 DEF Edits
  <2>5. i.purse[a] = IF CashMoved(s) /\ a = r.from THEN CashMove(r) ELSE 0
    BY <1>1 DEF SessionInv, RowsInv
  <2>6. cash[a] + i.purse[a] >= 0
    <3>1. CashMoved(s) => cash[r.from] + CashMove(r) >= 0
      BY <1>1 DEF SessionInv, RowsInv
    <3>2. cash[a] \in Int /\ cash[a] >= 0
      BY <1>1, Numbers DEF NeverNegative
    <3>3. QED
      BY <2>5, <3>1, <3>2
  <2>7. i.purse[a] # 0 => rowLock[Owner[a]] = s
    BY <1>1, <2>5 DEF SessionInv, LockInv
  <2>8. QED
    BY <2>1, <2>2, <2>3, <2>4, <2>6, <2>7
<1>6. QED
  BY <1>1, <1>2, <1>3, <1>5

\* Another session's part of the invariant survives s's COMMIT: what changes is
\* under locks s held, and those x does not hold.
LEMMA CommitFrame ==
    ASSUME NEW s \in Sessions, NEW x \in Sessions, x # s, Inductive, Commit(s)
    PROVE  SessionInv(x)'
<1> DEFINE r == tx[x].req
<1>1. TypeOK /\ SessionInv(x) /\ SessionInv(s) /\ At(s, "commit")
  BY DEF Inductive, SessionInv, Commit
<1>2. /\ tx'[x] = tx[x] /\ img'[x] = img[x]
      /\ \A a \in Accounts : accLock[a] = x => accLock'[a] = x
      /\ \A p \in Players : rowLock[p] = x => rowLock'[p] = x
  BY <1>1, ReleaseEffect DEF Commit
<1>3. \A a \in Accounts : accLock[a] = x => balance'[a] = balance[a]
  <2>1. \A a \in img[s].wrote : accLock[a] = s
    BY <1>1 DEF SessionInv, LockInv
  <2>2. QED
    BY <2>1 DEF Commit
<1>4. \A a \in Accounts : rowLock[Owner[a]] = x => cash'[a] = cash[a]
  <2>1. \A a \in Accounts : img[s].purse[a] # 0 => rowLock[Owner[a]] = s
    BY <1>1, AtCommit
  <2>2. \A a \in Accounts : cash'[a] = cash[a] + img[s].purse[a] /\ cash[a] \in Int
    BY <1>1, Numbers DEF Commit
  <2>3. QED
    BY <2>1, <2>2
<1>5. \A a \in img[x].wrote : TokenUnused(x, a)'
  <2> SUFFICES ASSUME NEW a \in img[x].wrote PROVE TokenUnused(x, a)'
    OBVIOUS
  <2>1. a \notin img[s].wrote /\ TokenUnused(x, a)
    BY <1>1 DEF SessionInv, LockInv, RowsInv
  <2>2. <<a, r.tok>> \in spent' => <<a, r.tok>> \in spent
    BY <2>1 DEF Commit
  <2>3. QED
    BY <1>2, <2>1, <2>2 DEF TokenUnused
<1>6. r.op = "cash" => cashSpent' = cashSpent
  <2>1. r.op = "cash" => x = Game
    BY <1>1 DEF SessionInv, RequestInv
  <2>2. tx[s].req.op = "cash" => s = Game
    BY <1>1 DEF SessionInv, RequestInv
  <2>3. QED
    BY <2>1, <2>2 DEF Commit
<1>7. RequestInv(x)'
  BY <1>1, <1>2 DEF SessionInv, RequestInv
<1>8. img[x].wrote \subseteq Accounts /\ img[x].synced \subseteq Accounts
      /\ \A a \in Accounts : Owner[a] \in Players
  BY <1>1, Numbers, LedgerAssumption
<1>9. LockInv(x)'
  <2>1. OnPath(r.op, tx[x].pc) /\ (r.op # "none" => r.from \in Accounts /\ r.to \in Accounts)
    BY <1>1 DEF SessionInv, RequestInv
  <2>2. tx[x].pc \in {"lockSecond", "check", "debit", "lockRow", "credit", "commit"} \/ CashMoved(x)
        => r.from \in Accounts /\ r.to \in Accounts
    BY <2>1 DEF OnPath, CashMoved
  <2>3. tx[x].pc = "debit" => accLock[r.from] = x
    BY <1>1 DEF SessionInv, LockInv, At
  <2>4. CashMoved(x)' <=> CashMoved(x)
    BY <1>2 DEF CashMoved
  <2>5. LockInv(x)
    BY <1>1 DEF SessionInv
  <2>6. /\ At(x, "lockSecond") => accLock'[FirstAccount(r)] = x
        /\ tx[x].pc \in {"check", "debit"} => accLock'[r.from] = x
        /\ At(x, "lockRow") /\ r.op # "editCache" => accLock'[r.from] = x
        /\ At(x, "debit") /\ x \in Web => r.seen = balance'[r.from]
        /\ At(x, "credit") /\ r.op \in Edits => accLock'[r.to] = x
        /\ At(x, "commit") /\ r.op \in Edits => accLock'[r.to] = x
    BY <1>2, <1>3, <2>2, <2>3, <2>5 DEF LockInv, At, FirstAccount
  <2>7. /\ \A a \in img[x].wrote : accLock'[a] = x
        /\ \A a \in img[x].synced : rowLock'[Owner[a]] = x
        /\ CashMoved(x) => rowLock'[Owner[r.from]] = x
    BY <1>2, <1>8, <2>2, <2>5 DEF LockInv
  <2>8. QED
    BY <1>2, <2>4, <2>6, <2>7 DEF LockInv, At
<1>10. RowsInv(x)'
  <2>1. \A a \in img[x].wrote : balance'[a] = balance[a]
    BY <1>1, <1>3, <1>8 DEF SessionInv, LockInv
  <2>2. RowsInv(x)
    BY <1>1 DEF SessionInv
  <2>3. /\ Debited(x)' <=> Debited(x)
        /\ Credited(x)' <=> Credited(x)
        /\ CashMoved(x)' <=> CashMoved(x)
    BY <1>2 DEF Debited, Credited, CashMoved, At
  <2>4. \A a \in Accounts :
           img[x].rows[a] = (IF Debited(x) /\ a = r.from THEN -r.n ELSE 0)
                            + (IF Credited(x) /\ a = r.to /\ a \in img[x].wrote
                               THEN IF r.op \in Edits THEN r.n - balance'[a] ELSE r.n
                               ELSE 0)
    BY <2>1, <2>2 DEF RowsInv
  <2>5. \A a \in img[x].wrote : /\ img[x].bal[a] = balance'[a] + img[x].rows[a]
                                /\ img[x].bal[a] >= 0
    BY <2>1, <2>2 DEF RowsInv
  <2>6. CashMoved(x) => cash'[r.from] + CashMove(r) >= 0
    <3>1. CashMoved(x) => r.from \in Accounts /\ rowLock[Owner[r.from]] = x
      BY <1>1 DEF SessionInv, LockInv, RequestInv, CashMoved
    <3>2. QED
      BY <1>4, <2>2, <3>1 DEF RowsInv
  <2>7. CashMoved(x) /\ r.op = "cash" => <<Owner[r.from], r.tok>> \notin cashSpent'
    BY <1>6, <2>2 DEF RowsInv
  <2>8. At(x, "commit") /\ r.op \in Edits /\ r.to \notin img[x].wrote => balance'[r.to] = r.n
    <3>1. At(x, "commit") /\ r.op \in Edits => r.to \in Accounts /\ accLock[r.to] = x
      BY <1>1 DEF SessionInv, LockInv, RequestInv, Edits
    <3>2. QED
      BY <1>3, <2>2, <3>1 DEF RowsInv
  <2>9. /\ img[x].wrote \subseteq (IF Debited(x) THEN {r.from} ELSE {})
                                  \cup (IF Credited(x) THEN {r.to} ELSE {})
        /\ Debited(x) => r.from \in img[x].wrote
        /\ Credited(x) /\ ~(At(x, "commit") /\ r.op \in Edits) => r.to \in img[x].wrote
        /\ \A a \in Accounts : img[x].purse[a] = IF CashMoved(x) /\ a = r.from THEN CashMove(r) ELSE 0
    BY <2>2 DEF RowsInv
  <2>10. At(x, "commit")' <=> At(x, "commit")
    BY <1>2 DEF At
  <2>11. QED
    BY <1>2, <1>5, <2>3, <2>4, <2>5, <2>6, <2>7, <2>8, <2>9, <2>10 DEF RowsInv
<1>11. CacheInv(x)'
  BY <1>1, <1>2 DEF SessionInv, CacheInv, At
<1>12. QED
  BY <1>7, <1>9, <1>10, <1>11 DEF SessionInv

LEMMA CommitInv == ASSUME NEW s \in Sessions, Inductive, Commit(s) PROVE Inductive'
<1> DEFINE r == tx[s].req
           i == img[s]
<1>1. TypeOK /\ SessionInv(s) /\ At(s, "commit") /\ Release(s) /\ BalancesAgree /\ NeverNegative
  BY DEF Inductive, SessionInv, Commit
<1>2. /\ tx' \in [Sessions -> Transactions] /\ img' \in [Sessions -> Images]
      /\ accLock' \in [Accounts -> Sessions \cup {NoSession}]
      /\ rowLock' \in [Players -> Sessions \cup {NoSession}]
      /\ begun' \in Nat
      /\ SessionInv(s)'
  BY <1>1, ReleaseEffect
<1>3. \A a \in Accounts :
         /\ a \in i.wrote => /\ i.bal[a] = balance[a] + i.rows[a]
                             /\ i.bal[a] >= 0
                             /\ a \in i.synced
                             /\ i.shown[a] = i.bal[a]
         /\ a \notin i.wrote => i.rows[a] = 0
         /\ a \in i.synced \ i.wrote => i.shown[a] = balance[a]
         /\ cash[a] + i.purse[a] >= 0
  BY <1>1, AtCommit
<1>4. \A a \in Accounts :
         /\ balance'[a] = IF a \in i.wrote THEN i.bal[a] ELSE balance[a]
         /\ cache'[a] = IF a \in i.synced THEN i.shown[a] ELSE cache[a]
         /\ history'[a] = history[a] + i.rows[a]
         /\ cash'[a] = cash[a] + i.purse[a]
  BY DEF Commit
<1>5. \A a \in Accounts : /\ balance[a] \in Int /\ cash[a] \in Int /\ history[a] \in Int
                          /\ i.bal[a] \in Int /\ i.rows[a] \in Int
                          /\ i.shown[a] \in Int /\ i.purse[a] \in Int
  BY <1>1, Numbers
<1>6. BalancesAgree'
  <2> SUFFICES ASSUME NEW a \in Accounts
               PROVE  cache'[a] = balance'[a] /\ history'[a] = balance'[a]
    BY DEF BalancesAgree
  <2>1. cache[a] = balance[a] /\ history[a] = balance[a]
    BY <1>1 DEF BalancesAgree
  <2>2. CASE a \in i.wrote
    BY <2>1, <2>2, <1>3, <1>4, <1>5
  <2>3. CASE a \notin i.wrote
    BY <2>1, <2>3, <1>3, <1>4, <1>5
  <2>4. QED
    BY <2>2, <2>3
<1>7. NeverNegative'
  BY <1>1, <1>3, <1>4 DEF NeverNegative
<1>8. TypeOK'
  <2>1. /\ balance' \in Rows /\ cash' \in Rows /\ cache' \in Rows /\ history' \in Rows
    <3>1. \A a \in Accounts : cache[a] \in Int
      BY <1>1 DEF TypeOK, Rows
    <3>2. QED
      BY <1>5, <3>1 DEF Rows, Commit
  <2>2. spent' \subseteq Accounts \X Tokens
    <3>1. spent \subseteq Accounts \X Tokens /\ i.wrote \subseteq Accounts
            /\ r.tok \in Tokens \cup {NoToken}
      BY <1>1, Numbers DEF TypeOK, Transactions
    <3>2. QED
      BY <3>1 DEF Commit
  <2>3. cashSpent' \subseteq Players \X Tokens
    <3>1. r.op = "cash" => r.tok \in Tokens /\ Owner[r.from] \in Players
      BY <1>1, LedgerAssumption DEF SessionInv, RequestInv
    <3>2. QED
      BY <1>1, <3>1 DEF Commit, TypeOK
  <2>4. QED
    BY <1>2, <2>1, <2>2, <2>3 DEF TypeOK
<1>9. \A x \in Sessions : SessionInv(x)'
  BY <1>2, CommitFrame
<1>10. QED
  BY <1>6, <1>7, <1>8, <1>9 DEF Inductive, SessionInv

-----------------------------------------------------------------------------

LEMMA InitInv == Init => Inductive
<1> SUFFICES ASSUME Init PROVE Inductive
  OBVIOUS
<1>1. TypeOK
  <2>1. InitBalance \in Int /\ InitCash \in Int
    BY DbAssumption
  <2>2. Idle \in Transactions
    BY DEF Idle, NoRequest, Transactions, Steps
  <2>3. Clean \in Images
    BY DEF Clean, Images, Rows
  <2>4. QED
    BY <2>1, <2>2, <2>3 DEF TypeOK, Init, Rows
<1>2. BalancesAgree /\ NeverNegative
  BY DbAssumption DEF Init, BalancesAgree, NeverNegative
<1>3. ASSUME NEW s \in Sessions PROVE SessionInv(s)
  <2>1. tx[s] = Idle /\ img[s] = Clean
    BY DEF Init
  <2>2. /\ tx[s].pc = "idle" /\ tx[s].req.op = "none" /\ tx[s].req.tok = NoToken
        /\ tx[s].req.from = tx[s].req.to
        /\ img[s].wrote = {} /\ img[s].synced = {}
        /\ \A a \in Accounts : img[s].rows[a] = 0 /\ img[s].purse[a] = 0
    BY <2>1 DEF Idle, NoRequest, Clean
  <2>3. ~Debited(s) /\ ~Credited(s) /\ ~CashMoved(s)
    BY <2>2 DEF Debited, Credited, CashMoved, Edits
  <2>4. RequestInv(s)
    BY <2>2 DEF RequestInv, OnPath, Edits
  <2>5. LockInv(s)
    BY <2>2, <2>3 DEF LockInv, At
  <2>6. RowsInv(s)
    BY <2>2, <2>3 DEF RowsInv, At
  <2>7. CacheInv(s)
    BY <2>2 DEF CacheInv
  <2>8. QED
    BY <2>4, <2>5, <2>6, <2>7 DEF SessionInv
<1>4. QED
  BY <1>1, <1>2, <1>3 DEF Inductive, SessionInv

LEMMA StutterInv == ASSUME Inductive, UNCHANGED vars PROVE Inductive'
<1>1. UNCHANGED committed /\ UNCHANGED locks /\ UNCHANGED <<tx, img, begun>>
  BY DEF vars
<1>2. TypeOK' /\ BalancesAgree' /\ NeverNegative'
  BY <1>1 DEF Inductive, TypeOK, BalancesAgree, NeverNegative, committed, locks
<1>3. ASSUME NEW s \in Sessions PROVE SessionInv(s)'
  BY <1>1, Frame DEF Inductive, SessionInv, locks
<1>4. QED
  BY <1>2, <1>3 DEF Inductive, SessionInv

LEMMA NextInv == Inductive /\ [Next]_vars => Inductive'
<1> SUFFICES ASSUME Inductive, [Next]_vars PROVE Inductive'
  OBVIOUS
<1>1. CASE UNCHANGED vars
  BY <1>1, StutterInv
<1>2. ASSUME NEW s \in Sessions, Begin(s) PROVE Inductive'
  BY <1>2, BeginInv
<1>3. ASSUME NEW s \in Sessions, Statement(s) PROVE Inductive'
  BY <1>3, LockFirstInv, LockSecondInv, CheckFundsInv, DebitInv, SyncDebitInv, CreditInv,
     SyncCreditInv, LockRowInv, MoveCashInv, CommitInv DEF Statement
<1>4. ASSUME NEW s \in Sessions, Refuse(s) \/ Disconnect(s) \/ DeadlockVictim(s) PROVE Inductive'
  BY <1>4, RollbackInv DEF Refuse, Disconnect, DeadlockVictim
<1>5. QED
  BY <1>1, <1>2, <1>3, <1>4 DEF Next

\* The inductive invariant: for any number of players, accounts, tokens and
\* concurrent requests, what a transaction has done follows from its operation
\* and its next statement, and the row locks it holds keep that valid.
THEOREM Invariance == Spec => []Inductive
<1>1. Init => Inductive
  BY InitInv
<1>2. Inductive /\ [Next]_vars => Inductive'
  BY NextInv
<1>3. QED
  BY <1>1, <1>2, PTL DEF Spec

\* Type correctness of the tables, locks and transactions.
THEOREM TypeCorrect == Spec => []TypeOK
<1>1. Inductive => TypeOK
  BY DEF Inductive
<1>2. QED
  BY <1>1, Invariance, PTL

\* The health check of handlers/dev.go never finds a mismatch: balance, cached
\* copy and history agree whatever transactions run at the same time.
THEOREM HealthCheck == Spec => []BalancesAgree
<1>1. Inductive => BalancesAgree
  BY DEF Inductive
<1>2. QED
  BY <1>1, Invariance, PTL

\* No interleaving of payers overdraws an account or a pocket.
THEOREM NoOverdraft == Spec => []NeverNegative
<1>1. Inductive => NeverNegative
  BY DEF Inductive
<1>2. QED
  BY <1>1, Invariance, PTL

\* The balance moveMoney checked is the balance it debits.
THEOREM FundsCheck == Spec => []FundsCheckHolds
<1>1. ASSUME Inductive, NEW w \in Web, At(w, "debit")
      PROVE  tx[w].req.seen = Balance(w, tx[w].req.from)
  <2>1. w \in Sessions /\ SessionInv(w)
    BY <1>1 DEF Sessions, Inductive, SessionInv
  <2>2. tx[w].req.seen = balance[tx[w].req.from]
    BY <1>1, <2>1 DEF SessionInv, LockInv
  <2>3. ~Debited(w) /\ ~Credited(w)
    BY <1>1 DEF Debited, Credited, At
  <2>4. img[w].wrote = {}
    BY <2>1, <2>3 DEF SessionInv, RowsInv
  <2>5. QED
    BY <2>2, <2>4 DEF Balance
<1>2. Inductive => FundsCheckHolds
  BY <1>1 DEF FundsCheckHolds
<1>3. QED
  BY <1>2, Invariance, PTL

-----------------------------------------------------------------------------
(* The transactions implement the ledger: COMMIT is the ledger's step, and *)
(* every other statement leaves the ledger alone.                          *)

\* The rows a committing session publishes, by operation.
LEMMA CommittedRows ==
    ASSUME NEW s \in Sessions, Inductive, Commit(s)
    PROVE  LET r == tx[s].req
               i == img[s]
               debit == r.op \in {"transfer", "purchase", "withdraw"}
               credit == r.op \in {"transfer", "deposit", "adjust"}
           IN  /\ r.op \notin Edits => i.wrote = (IF debit THEN {r.from} ELSE {})
                                                 \cup (IF credit THEN {r.to} ELSE {})
               /\ r.op \in Edits => i.wrote \subseteq {r.to}
               /\ \A a \in Accounts :
                     /\ balance'[a] = IF a \in i.wrote THEN balance[a] + i.rows[a] ELSE balance[a]
                     /\ a \in i.wrote => balance[a] + i.rows[a] >= 0
               /\ r.op \notin Edits =>
                     \A a \in i.wrote : i.rows[a] = (IF debit /\ a = r.from THEN -r.n ELSE 0)
                                                    + (IF credit /\ a = r.to THEN r.n ELSE 0)
               /\ r.op \in Edits => \A a \in i.wrote : i.rows[a] = r.n - balance[a]
               /\ \A a \in i.wrote : TokenUnused(s, a)
               /\ balance' \in [Accounts -> Int] /\ cash' \in [Accounts -> Int]
<1> DEFINE r == tx[s].req
           i == img[s]
<1>1. /\ TypeOK /\ SessionInv(s)
      /\ Debited(s) <=> r.op \in {"transfer", "purchase", "withdraw"}
      /\ Credited(s) <=> r.op \in {"transfer", "deposit", "adjust"} \cup Edits
      /\ \A a \in Accounts : a \in i.wrote => /\ i.bal[a] = balance[a] + i.rows[a]
                                              /\ i.bal[a] >= 0
  BY AtCommit DEF Commit
<1>2. At(s, "commit") /\ TypeOK'
  BY CommitInv DEF Commit, Inductive
<1>3. i.wrote \subseteq Accounts
  BY <1>1, Numbers
<1>4. RowsInv(s)
  BY <1>1 DEF SessionInv
<1>5. /\ r.op \notin Edits => i.wrote = (IF Debited(s) THEN {r.from} ELSE {})
                                        \cup (IF r.op \notin Edits /\ Credited(s) THEN {r.to} ELSE {})
      /\ r.op \in Edits => i.wrote \subseteq {r.to}
  BY <1>1, <1>4 DEF RowsInv, Edits
<1>6. \A a \in i.wrote :
         i.rows[a] = (IF Debited(s) /\ a = r.from THEN -r.n ELSE 0)
                     + (IF Credited(s) /\ a = r.to
                        THEN IF r.op \in Edits THEN r.n - balance[a] ELSE r.n
                        ELSE 0)
  BY <1>3, <1>4 DEF RowsInv
<1>7. r.op \in Edits => \A a \in i.wrote : i.rows[a] = r.n - balance[a]
  <2> SUFFICES ASSUME r.op \in Edits, NEW a \in i.wrote PROVE i.rows[a] = r.n - balance[a]
    OBVIOUS
  <2>1. a = r.to /\ ~Debited(s) /\ Credited(s)
    BY <1>1, <1>5 DEF Edits
  <2>2. i.rows[a] = 0 + (r.n - balance[a]) /\ r.n \in Int /\ balance[a] \in Int
    BY <1>1, <1>3, <1>6, <2>1, Numbers
  <2>3. QED
    BY <2>2
<1>8. \A a \in Accounts : balance'[a] = IF a \in i.wrote THEN i.bal[a] ELSE balance[a]
  BY DEF Commit
<1>9. \A a \in i.wrote : TokenUnused(s, a)
  BY <1>4 DEF RowsInv
<1>10. balance' \in [Accounts -> Int] /\ cash' \in [Accounts -> Int]
  BY <1>2 DEF TypeOK, Rows
<1>11. r.op \notin Edits => (Credited(s) <=> r.op \in {"transfer", "deposit", "adjust"})
  BY <1>1
<1>12. r.op \notin Edits =>
          \A a \in i.wrote : i.rows[a] = (IF Debited(s) /\ a = r.from THEN -r.n ELSE 0)
                                         + (IF Credited(s) /\ a = r.to THEN r.n ELSE 0)
  BY <1>6
<1>13. \A a \in Accounts :
         /\ balance'[a] = IF a \in i.wrote THEN balance[a] + i.rows[a] ELSE balance[a]
         /\ a \in i.wrote => balance[a] + i.rows[a] >= 0
  BY <1>1, <1>8
<1> HIDE DEF r, i
<1>14. /\ r.op \notin Edits
            => i.wrote = (IF r.op \in {"transfer", "purchase", "withdraw"} THEN {r.from} ELSE {})
                                        \cup (IF r.op \in {"transfer", "deposit", "adjust"} THEN {r.to}
                                          ELSE {})
       /\ r.op \notin Edits =>
          \A a \in i.wrote : i.rows[a] = (IF r.op \in {"transfer", "purchase", "withdraw"}
            /\ a = r.from THEN -r.n ELSE 0)
                                         + (IF r.op \in {"transfer", "deposit", "adjust"}
                                           /\ a = r.to THEN r.n ELSE 0)
  BY <1>1, <1>5, <1>11, <1>12
<1>15. QED
  BY <1>5, <1>7, <1>9, <1>10, <1>13, <1>14 DEF r, i

\* What COMMIT does to the pockets and to the tokens.
LEMMA CommittedPurse ==
    ASSUME NEW s \in Sessions, Inductive, Commit(s)
    PROVE  LET r == tx[s].req
               moved == r.op \in {"deposit", "withdraw", "cash"}
           IN  /\ cash \in [Accounts -> Int] /\ balance \in [Accounts -> Int]
               /\ r.n \in Int
               /\ ~moved => cash' = cash
               /\ moved => /\ cash' = [cash EXCEPT ![r.from] = cash[r.from] + CashMove(r)]
                           /\ cash[r.from] + CashMove(r) >= 0
               /\ r.op # "cash" => cashSpent' = cashSpent
               /\ r.op = "cash" => /\ cashSpent' = cashSpent \cup {<<Owner[r.from], r.tok>>}
                                   /\ <<Owner[r.from], r.tok>> \notin cashSpent
<1> DEFINE r == tx[s].req
           i == img[s]
<1>1. /\ TypeOK /\ SessionInv(s) /\ r.from \in Accounts
      /\ CashMoved(s) <=> r.op \in {"deposit", "withdraw", "cash"}
  BY AtCommit DEF Commit
<1>2. RowsInv(s)
  BY <1>1 DEF SessionInv
<1>3. /\ \A a \in Accounts : i.purse[a] = IF CashMoved(s) /\ a = r.from THEN CashMove(r) ELSE 0
      /\ CashMoved(s) => cash[r.from] + CashMove(r) >= 0
      /\ CashMoved(s) /\ r.op = "cash" => <<Owner[r.from], r.tok>> \notin cashSpent
  BY <1>2 DEF RowsInv
<1>4. /\ cash' = [a \in Accounts |-> cash[a] + i.purse[a]]
      /\ cash \in [Accounts -> Int] /\ balance \in [Accounts -> Int] /\ r.n \in Int
  BY <1>1, Numbers DEF Commit, TypeOK, Rows
<1>5. ~CashMoved(s) => cash' = cash
  <2>1. ~CashMoved(s) => \A a \in Accounts : cash[a] + i.purse[a] = cash[a]
    BY <1>3, <1>4
  <2>2. QED
    BY <1>4, <2>1
<1>6. CashMoved(s) => cash' = [cash EXCEPT ![r.from] = cash[r.from] + CashMove(r)]
  <2>1. CashMoved(s) => \A a \in Accounts :
           cash[a] + i.purse[a] = IF a = r.from THEN cash[r.from] + CashMove(r) ELSE cash[a]
    BY <1>3, <1>4
  <2>2. QED
    BY <1>1, <1>4, <2>1
<1>7. cashSpent' = cashSpent \cup (IF r.op = "cash" THEN {<<Owner[r.from], r.tok>>} ELSE {})
  BY DEF Commit
<1>8. QED
  BY <1>1, <1>3, <1>4, <1>5, <1>6, <1>7

LEMMA CommitRefines ==
    ASSUME NEW s \in Sessions, Inductive, Commit(s)
    PROVE  LedgerNext \/ UNCHANGED ledgerVars
<1> DEFINE r == tx[s].req
           i == img[s]
           n == r.n
           t == r.tok
           from == r.from
           to == r.to
<1>1. /\ SessionInv(s) /\ TypeOK /\ r.op \in Ops /\ from \in Accounts /\ to \in Accounts
  BY AtCommit DEF Commit
<1>2. /\ r.op \in {"transfer", "purchase", "deposit", "withdraw", "adjust"} => n \in Amounts
      /\ r.op \in {"transfer", "purchase", "deposit", "withdraw", "cash"} => t \in Tokens
      /\ r.op \in {"adjust"} \cup Edits => t = NoToken
      /\ r.op = "transfer" => from # to
      /\ r.op # "transfer" => from = to
      /\ r.op = "cash" => (n \in Amounts \/ -n \in Amounts)
      /\ r.op \in Edits => n \in 0..MaxBalance
  BY <1>1 DEF SessionInv, RequestInv
<1>3. /\ cash \in [Accounts -> Int] /\ balance \in [Accounts -> Int]
      /\ n \in Int
      /\ r.op \notin {"deposit", "withdraw", "cash"} => cash' = cash
      /\ r.op \in {"deposit", "withdraw", "cash"} =>
            /\ cash' = [cash EXCEPT ![from] = cash[from] + CashMove(r)]
            /\ cash[from] + CashMove(r) >= 0
      /\ r.op # "cash" => cashSpent' = cashSpent
      /\ r.op = "cash" => /\ cashSpent' = cashSpent \cup {<<Owner[from], t>>}
                          /\ <<Owner[from], t>> \notin cashSpent
  BY CommittedPurse
<1>4. /\ r.op \notin Edits
           => i.wrote = (IF r.op \in {"transfer", "purchase", "withdraw"} THEN {from} ELSE {})
                                        \cup (IF r.op \in {"transfer", "deposit", "adjust"} THEN {to}
                                          ELSE {})
      /\ r.op \in Edits => i.wrote \subseteq {to}
      /\ \A a \in Accounts :
            /\ balance'[a] = IF a \in i.wrote THEN balance[a] + i.rows[a] ELSE balance[a]
            /\ a \in i.wrote => balance[a] + i.rows[a] >= 0
      /\ r.op \notin Edits =>
            \A a \in i.wrote : i.rows[a] = (IF r.op \in {"transfer", "purchase", "withdraw"}
              /\ a = from THEN -n ELSE 0)
                                           + (IF r.op \in {"transfer", "deposit", "adjust"}
                                             /\ a = to THEN n ELSE 0)
      /\ r.op \in Edits => \A a \in i.wrote : i.rows[a] = n - balance[a]
      /\ \A a \in i.wrote : TokenUnused(s, a)
      /\ balance' \in [Accounts -> Int] /\ cash' \in [Accounts -> Int]
  BY CommittedRows
<1>5. spent' = spent \cup (IF t = NoToken THEN {} ELSE {<<a, t>> : a \in i.wrote})
  BY DEF Commit
<1>6. t \in Tokens => /\ spent' = spent \cup {<<a, t>> : a \in i.wrote}
                      /\ \A a \in i.wrote : <<a, t>> \notin spent
  BY <1>4, <1>5, DbAssumption DEF TokenUnused
<1> HIDE DEF r, i, n, t, from, to
<1>7. CASE r.op = "transfer"
  <2>1. i.wrote = {from, to} /\ n \in Amounts /\ t \in Tokens /\ from # to
    BY <1>2, <1>4, <1>7 DEF Edits
  <2>2. i.rows[from] = -n /\ i.rows[to] = n
    BY <1>3, <1>4, <1>7, <2>1 DEF Edits
  <2>3. /\ balance'[from] = balance[from] - n /\ balance'[to] = balance[to] + n
        /\ balance[from] >= n
        /\ \A a \in Accounts : a # from /\ a # to => balance'[a] = balance[a]
    BY <1>1, <1>3, <1>4, <2>1, <2>2 DEF from, to
  <2>4. balance' = [balance EXCEPT ![from] = balance[from] - n, ![to] = balance[to] + n]
    BY <1>1, <1>3, <1>4, <2>1, <2>3
  <2>5. spent' = spent \cup {<<from, t>>, <<to, t>>} /\ {<<from, t>>, <<to, t>>} \cap spent = {}
    BY <1>6, <2>1
  <2>6. UNCHANGED <<cash, cashSpent>>
    BY <1>3, <1>7
  <2>7. Transfer(from, to, n, t)
    BY <2>1, <2>3, <2>4, <2>5, <2>6 DEF Transfer
  <2>8. QED
    BY <1>1, <2>1, <2>7 DEF LedgerNext
<1>8. CASE r.op = "purchase"
  <2>1. i.wrote = {from} /\ n \in Amounts /\ t \in Tokens
    BY <1>2, <1>4, <1>8 DEF Edits
  <2>2. i.rows[from] = -n
    BY <1>3, <1>4, <1>8, <2>1 DEF Edits
  <2>3. /\ balance'[from] = balance[from] - n /\ balance[from] >= n
        /\ \A a \in Accounts : a # from => balance'[a] = balance[a]
    BY <1>1, <1>3, <1>4, <2>1, <2>2
  <2>4. balance' = [balance EXCEPT ![from] = balance[from] - n]
    BY <1>1, <1>3, <1>4, <2>3
  <2>5. spent' = spent \cup {<<from, t>>} /\ <<from, t>> \notin spent
    BY <1>6, <2>1
  <2>6. UNCHANGED <<cash, cashSpent>>
    BY <1>3, <1>8
  <2>7. Purchase(from, n, t)
    BY <2>3, <2>4, <2>5, <2>6 DEF Purchase
  <2>8. QED
    BY <1>1, <2>1, <2>7 DEF LedgerNext
<1>9. CASE r.op = "deposit"
  <2>1. from = to /\ i.wrote = {from} /\ n \in Amounts /\ t \in Tokens
    BY <1>2, <1>4, <1>9 DEF Edits
  <2>2. i.rows[from] = n
    BY <1>3, <1>4, <1>9, <2>1 DEF Edits
  <2>3. /\ balance'[from] = balance[from] + n
        /\ \A a \in Accounts : a # from => balance'[a] = balance[a]
    BY <1>1, <1>3, <1>4, <2>1, <2>2
  <2>4. balance' = [balance EXCEPT ![from] = balance[from] + n]
    BY <1>1, <1>3, <1>4, <2>3
  <2>5. spent' = spent \cup {<<from, t>>} /\ <<from, t>> \notin spent
    BY <1>6, <2>1
  <2>6. CashMove(r) = -n
    BY <1>9 DEF CashMove, n
  <2>7. cash' = [cash EXCEPT ![from] = cash[from] - n] /\ cash[from] >= n /\ cashSpent' = cashSpent
    BY <1>1, <1>3, <1>9, <2>6
  <2>8. Deposit(from, n, t)
    BY <2>4, <2>5, <2>7 DEF Deposit
  <2>9. QED
    BY <1>1, <2>1, <2>8 DEF LedgerNext
<1>10. CASE r.op = "withdraw"
  <2>1. from = to /\ i.wrote = {from} /\ n \in Amounts /\ t \in Tokens
    BY <1>2, <1>4, <1>10 DEF Edits
  <2>2. i.rows[from] = -n
    BY <1>3, <1>4, <1>10, <2>1 DEF Edits
  <2>3. /\ balance'[from] = balance[from] - n /\ balance[from] >= n
        /\ \A a \in Accounts : a # from => balance'[a] = balance[a]
    BY <1>1, <1>3, <1>4, <2>1, <2>2
  <2>4. balance' = [balance EXCEPT ![from] = balance[from] - n]
    BY <1>1, <1>3, <1>4, <2>3
  <2>5. spent' = spent \cup {<<from, t>>} /\ <<from, t>> \notin spent
    BY <1>6, <2>1
  <2>6. CashMove(r) = n
    BY <1>10 DEF CashMove, n
  <2>7. cash' = [cash EXCEPT ![from] = cash[from] + n] /\ cashSpent' = cashSpent
    BY <1>3, <1>10, <2>6
  <2>8. Withdraw(from, n, t)
    BY <2>3, <2>4, <2>5, <2>7 DEF Withdraw
  <2>9. QED
    BY <1>1, <2>1, <2>8 DEF LedgerNext
<1>11. CASE r.op = "cash"
  <2>1. from = to /\ i.wrote = {} /\ t \in Tokens /\ (n \in Amounts \/ -n \in Amounts)
    BY <1>2, <1>4, <1>11 DEF Edits
  <2>2. balance' = balance
    BY <1>3, <1>4, <2>1
  <2>3. spent' = spent
    BY <1>6, <2>1
  <2>4. CashMove(r) = n
    BY <1>11 DEF CashMove, n
  <2>5. CashDelta(from, n, t)
    BY <1>3, <1>11, <2>2, <2>3, <2>4 DEF CashDelta
  <2>6. QED
    <3>1. CASE n \in Amounts
      BY <1>1, <2>1, <2>5, <3>1 DEF LedgerNext
    <3>2. CASE -n \in Amounts
      <4> DEFINE m == -n
      <4>1. m \in Amounts /\ -m = n
        BY <3>2, <1>3
      <4>2. CashDelta(from, -m, t)
        BY <2>5, <4>1
      <4> HIDE DEF m
      <4>3. QED
        BY <1>1, <2>1, <4>1, <4>2 DEF LedgerNext
    <3>3. QED
      BY <2>1, <3>1, <3>2
<1>12. CASE r.op = "adjust"
  <2>1. from = to /\ i.wrote = {to} /\ n \in Amounts /\ t = NoToken
    BY <1>2, <1>4, <1>12 DEF Edits
  <2>2. i.rows[to] = n
    BY <1>3, <1>4, <1>12, <2>1 DEF Edits
  <2>3. /\ balance'[to] = balance[to] + n /\ balance[to] + n >= 0
        /\ \A a \in Accounts : a # to => balance'[a] = balance[a]
    BY <1>1, <1>4, <2>1, <2>2
  <2>4. balance' = [balance EXCEPT ![to] = balance[to] + n]
    BY <1>1, <1>3, <1>4, <2>3
  <2>5. UNCHANGED <<spent, cash, cashSpent>>
    BY <1>3, <1>5, <1>12, <2>1
  <2>6. Adjust(to, n)
    BY <2>3, <2>4, <2>5 DEF Adjust
  <2>7. QED
    BY <1>1, <2>1, <2>6 DEF LedgerNext
<1>13. CASE r.op \in Edits
  <2>1. t = NoToken /\ n \in 0..MaxBalance
    BY <1>2, <1>13
  <2>2. UNCHANGED <<spent, cash, cashSpent>>
    BY <1>3, <1>5, <1>13, <2>1 DEF Edits
  <2>3. CASE i.wrote = {}
    <3>1. balance' = balance
      BY <1>3, <1>4, <2>3
    <3>2. QED
      BY <2>2, <3>1 DEF ledgerVars
  <2>4. CASE i.wrote # {}
    <3>1. i.wrote = {to}
      BY <1>4, <1>13, <2>4
    <3> DEFINE d == n - balance[to]
    <3>2. i.rows[to] = d /\ d \in Int
      BY <1>1, <1>3, <1>4, <1>13, <3>1
    <3> HIDE DEF d
    <3>3. /\ balance'[to] = balance[to] + d /\ balance[to] + d >= 0
          /\ \A a \in Accounts : a # to => balance'[a] = balance[a]
      BY <1>1, <1>4, <3>1, <3>2
    <3>4. balance' = [balance EXCEPT ![to] = balance[to] + d]
      BY <1>1, <1>3, <1>4, <3>3
    <3>5. Adjust(to, d)
      BY <2>2, <3>3, <3>4 DEF Adjust
    <3>6. Adjust(to, n - balance[to])
      BY <3>5 DEF d
    <3>7. QED
      BY <1>1, <2>1, <3>6 DEF LedgerNext
  <2>5. QED
    BY <2>3, <2>4
<1>14. QED
  BY <1>1, <1>7, <1>8, <1>9, <1>10, <1>11, <1>12, <1>13 DEF Ops, Edits

LEMMA StepRefines == Inductive /\ [Next]_vars => [LedgerNext]_ledgerVars
<1> SUFFICES ASSUME Inductive, [Next]_vars PROVE LedgerNext \/ UNCHANGED ledgerVars
  OBVIOUS
<1>1. UNCHANGED committed => UNCHANGED ledgerVars
  BY DEF committed, ledgerVars
<1>2. CASE UNCHANGED vars
  BY <1>1, <1>2 DEF vars
<1>3. ASSUME NEW s \in Sessions, Begin(s) PROVE UNCHANGED committed
  BY <1>3 DEF Begin, HandleBank, MoveMoney, Compensate, AdminCompensate, BankTxTransfer,
          BankTxPurchase, BankCash,
              SaveCashDelta, EditPlayersBank, EditAccountBalance, Start
<1>4. ASSUME NEW s \in Sessions, Statement(s), ~Commit(s) PROVE UNCHANGED committed
  BY <1>4 DEF Statement, LockFirst, LockSecond, CheckFunds, Debit, SyncDebit, Credit, SyncCredit,
              LockRow, MoveCash, InsertRow, SyncCache
<1>5. ASSUME NEW s \in Sessions, Commit(s) PROVE LedgerNext \/ UNCHANGED ledgerVars
  BY <1>5, CommitRefines
<1>6. ASSUME NEW s \in Sessions, Refuse(s) \/ Disconnect(s) \/ DeadlockVictim(s)
      PROVE  UNCHANGED committed
  BY <1>6 DEF Refuse, Disconnect, DeadlockVictim, Rollback
<1>7. QED
  BY <1>1, <1>2, <1>3, <1>4, <1>5, <1>6 DEF Next

\* Interleaved statements under row locks behave as the ledger's atomic steps:
\* a transfer moves both legs or none, cash and bank move together, and a
\* request token pays once.
THEOREM Refinement == Spec => LedgerSpec
<1>1. Init => LedgerInit
  BY DbAssumption DEF Init, LedgerInit
<1>2. Inductive /\ [Next]_vars => [LedgerNext]_ledgerVars
  BY StepRefines
<1>3. QED
  BY <1>1, <1>2, Invariance, PTL DEF Spec, LedgerSpec

-----------------------------------------------------------------------------
(* Vehicles.                                                                 *)

USE GarageAssumption

-----------------------------------------------------------------------------
(* Types.                                                                    *)

Runs == [id : Vehicles \cup {None}, next : {"none", "charge", "add", "create", "register"}]
Handling == [op : {"none", "retrieve", "pull", "putBack"}, id : Vehicles \cup {None},
             was : Statuses, next : {"none", "fee", "status", "putBack"}]

LEMMA AnswerType == ASSUME NEW a, faults \in Nat, Answer(a) PROVE faults' \in Nat
BY DEF Answer

LEMMA SetRowType ==
    ASSUME row \in [Vehicles -> Statuses], NEW v \in Vehicles, NEW s \in Statuses, NEW a,
             SetRow(v, s, a)
    PROVE  row' \in [Vehicles -> Statuses]
BY DEF SetRow

LEMMA GoneType ==
    ASSUME GarageTypeOK, NEW o \in Objects, Gone(o)
    PROVE  car' \in [Objects -> Vehicles \cup {None}] /\ known' \in [Vehicles -> Objects \cup {None}]
BY DEF GarageTypeOK, Gone

LEMMA SpawnedType ==
    ASSUME GarageTypeOK, NEW v \in Vehicles, Spawned(v)
    PROVE  car' \in [Objects -> Vehicles \cup {None}] /\ known' \in [Vehicles -> Objects \cup {None}]
BY DEF GarageTypeOK, Spawned, Unused

LEMMA RestType == Rest \in Handling /\ Browsing \in Runs
BY DEF Rest, Browsing, Handling, Runs, Statuses

\* The handler that begins for a vehicle.
LEMMA BeginType ==
    ASSUME GarageTypeOK, NEW v \in Vehicles, NEW op \in {"retrieve", "pull", "putBack"},
           NEW was \in Statuses, NEW next \in {"fee", "status", "putBack"}, TakeUp(op, v, was, next)
    PROVE  handler' \in Handling
BY DEF TakeUp, Handling

LEMMA ShownType == ASSUME GarageTypeOK, NEW v \in Vehicles PROVE Shown(v) \in Statuses
BY DEF GarageTypeOK, Shown, Statuses

LEMMA TypeInit == GarageInit => GarageTypeOK
BY RestType DEF GarageInit, GarageTypeOK, Statuses, Rest, Browsing

LEMMA BuyingTypes ==
    ASSUME GarageTypeOK, NEW b \in Buyers, Buy(b) \/ Charge(b) \/ Add(b) \/ Create(b) \/ Register(b)
    PROVE  GarageTypeOK'
<1>. USE RestType DEF Runs
<1>1. CASE Buy(b)
  BY <1>1 DEF GarageTypeOK, Buy, Asked, world, ledger
<1>2. CASE Charge(b)
  <2>1. PICK a \in Answers : Answer(a) /\ buyers' = [buyers EXCEPT ![b] =
            IF a = "OK" THEN [id |-> None, next |-> "add"] ELSE Browsing]
                             /\ paid' = IF a = "refused" THEN paid ELSE paid + 1
    BY <1>2 DEF Charge
  <2>. QED BY <1>2, <2>1, AnswerType DEF GarageTypeOK, Charge, world, ledger
<1>3. CASE Add(b)
  <2>1. PICK a \in Answers, v \in Vehicles :
            /\ Answer(a) /\ SetRow(v, "spawned", a)
            /\ buyers' = [buyers EXCEPT ![b] = IF a = "OK" THEN [id |-> v, next |-> "create"]
                 ELSE Browsing]
    BY <1>3 DEF Add
  <2>2. row' \in [Vehicles -> Statuses]
    BY <2>1, SetRowType DEF GarageTypeOK, Statuses
  <2>. QED BY <1>3, <2>1, <2>2, AnswerType DEF GarageTypeOK, Add, world, ledger
<1>4. CASE Create(b)
  BY <1>4 DEF GarageTypeOK, Create, world, ledger, Unused
<1>5. CASE Register(b)
  <2>1. known' \in [Vehicles -> Objects \cup {None}]
    BY <1>5 DEF GarageTypeOK, Register
  <2>. QED BY <1>5, <2>1 DEF GarageTypeOK, Register, world, ledger
<1>. QED BY <1>1, <1>2, <1>3, <1>4, <1>5

LEMMA BeginningTypes ==
    ASSUME GarageTypeOK, NEW v \in Vehicles, Retrieve(v) \/ AdminPull(v) \/ AdminStore(v)
    PROVE  GarageTypeOK'
<1>1. handler' \in Handling
  <2>1. CASE Retrieve(v)
    BY <2>1, ShownType, BeginType DEF Retrieve
  <2>2. CASE AdminPull(v)
    BY <2>2, BeginType DEF AdminPull, GarageTypeOK
  <2>3. CASE AdminStore(v)
    BY <2>3, BeginType DEF AdminStore, GarageTypeOK
  <2>. QED BY <2>1, <2>2, <2>3
<1>2. doubtful' \subseteq Vehicles /\ requests' \in Nat
  BY DEF Retrieve, AdminPull, AdminStore, Touched, Asked, GarageTypeOK
<1>3. UNCHANGED <<row, world, buyers, faults, ledger>>
  BY DEF Retrieve, AdminPull, AdminStore
<1>. QED BY <1>1, <1>2, <1>3 DEF GarageTypeOK, Handling, world, ledger

LEMMA HandlerTypes ==
    ASSUME GarageTypeOK, Fee \/ TakeOut \/ PutBack, handler.id \in Vehicles
    PROVE  GarageTypeOK'
<1>. USE RestType DEF Handling
<1>1. CASE Fee
  <2>1. PICK a \in Answers : Answer(a) /\ paid' = (IF a = "refused" THEN paid ELSE paid + 1)
            /\ handler' = IF a = "OK" THEN [op |-> handler.op, id |-> handler.id, was |-> handler.was,
                 next |-> "status"]
                                      ELSE Rest
    BY <1>1 DEF Fee
  <2>. QED BY <1>1, <2>1, AnswerType DEF GarageTypeOK, Fee, world, ledger
<1>2. CASE TakeOut
  <2>1. PICK a \in Answers : Answer(a) /\ SetRow(handler.id, "spawned", a)
            /\ (Spawned(handler.id) \/ UNCHANGED world) /\ served' \in {served, served + 1}
    BY <1>2 DEF TakeOut, world
  <2>2. row' \in [Vehicles -> Statuses]
    BY <2>1, SetRowType DEF GarageTypeOK, Statuses
  <2>3. car' \in [Objects -> Vehicles \cup {None}] /\ known' \in [Vehicles -> Objects \cup {None}]
    BY <2>1, SpawnedType DEF GarageTypeOK, world
  <2>. QED BY <1>2, <2>1, <2>2, <2>3, AnswerType DEF GarageTypeOK, TakeOut
<1>3. CASE PutBack
  <2>1. PICK a \in Answers : Answer(a) /\ SetRow(handler.id, "garaged", a)
    BY <1>3 DEF PutBack
  <2>2. row' \in [Vehicles -> Statuses]
    BY <2>1, SetRowType DEF GarageTypeOK, Statuses
  <2>. QED BY <1>3, <2>1, <2>2, AnswerType DEF GarageTypeOK, PutBack, world, ledger
<1>. QED BY <1>1, <1>2, <1>3

LEMMA ObjectTypes ==
    ASSUME GarageTypeOK, NEW o \in Objects, Store(o) \/ Impound(o) \/ Wreck(o)
    PROVE  GarageTypeOK'
<1>0. car[o] \in Vehicles
  BY DEF GarageTypeOK, Store, Impound, Wreck
<1>1. CASE Store(o)
  <2>1. PICK a \in Answers : Answer(a) /\ SetRow(car[o], "garaged", a) /\ (Gone(o) \/ UNCHANGED world)
    BY <1>1 DEF Store
  <2>2. row' \in [Vehicles -> Statuses]
    BY <1>0, <2>1, SetRowType DEF GarageTypeOK, Statuses
  <2>3. car' \in [Objects -> Vehicles \cup {None}] /\ known' \in [Vehicles -> Objects \cup {None}]
    BY <2>1, GoneType DEF GarageTypeOK, world
  <2>4. doubtful' \subseteq Vehicles
    BY <1>0, <1>1 DEF Store, GarageTypeOK
  <2>. QED BY <1>1, <2>1, <2>2, <2>3, <2>4, AnswerType DEF GarageTypeOK, Store, Asked, ledger
<1>2. CASE Impound(o)
  <2>1. PICK a \in Answers : Answer(a) /\ SetRow(car[o], "impounded", a)
    BY <1>2 DEF Impound
  <2>2. row' \in [Vehicles -> Statuses]
    BY <1>0, <2>1, SetRowType DEF GarageTypeOK, Statuses
  <2>3. car' \in [Objects -> Vehicles \cup {None}] /\ known' \in [Vehicles -> Objects \cup {None}]
    BY <1>2, GoneType DEF Impound
  <2>4. doubtful' \subseteq Vehicles
    BY <1>0, <1>2 DEF Impound, Touched, GarageTypeOK
  <2>. QED BY <1>2, <2>1, <2>2, <2>3, <2>4, AnswerType DEF GarageTypeOK, Impound, Asked, ledger
<1>3. CASE Wreck(o)
  <2>1. PICK a \in Answers : Answer(a) /\ SetRow(car[o], "destroyed", a)
    BY <1>3 DEF Wreck
  <2>2. row' \in [Vehicles -> Statuses]
    BY <1>0, <2>1, SetRowType DEF GarageTypeOK, Statuses
  <2>3. car' \in [Objects -> Vehicles \cup {None}] /\ known' \in [Vehicles -> Objects \cup {None}]
    BY <1>3, GoneType DEF Wreck
  <2>. QED BY <1>3, <2>1, <2>2, <2>3, AnswerType DEF GarageTypeOK, Wreck, Asked, ledger
<1>. QED BY <1>1, <1>2, <1>3

LEMMA OutsideTypes ==
    ASSUME GarageTypeOK, Restart \/ \E v \in Vehicles : VehicleAction(v)
    PROVE  GarageTypeOK'
<1>1. CASE Restart
  <2>1. row' \in [Vehicles -> Statuses]
    BY <1>1 DEF Restart, GarageTypeOK, Statuses
  <2>. QED BY <1>1, <2>1, RestType DEF GarageTypeOK, Restart, ledger, Handling, Runs
<1>2. CASE \E v \in Vehicles : VehicleAction(v)
  <2>0. PICK v \in Vehicles : VehicleAction(v)
    BY <1>2
  <2>1. PICK action \in {"release", "destroy", "restore"} :
            row' = [row EXCEPT ![v] = To(action)] /\ requests' = requests + 1
    BY <2>0 DEF VehicleAction
  <2>2. UNCHANGED <<world, handler, buyers, faults, ledger, doubtful>>
    BY <2>0 DEF VehicleAction
  <2>3. row' \in [Vehicles -> Statuses]
    BY <2>1 DEF GarageTypeOK, To, Statuses
  <2>. QED BY <2>1, <2>2, <2>3 DEF GarageTypeOK, world, ledger
<1>. QED BY <1>1, <1>2

LEMMA HandledVehicle == GarageTypeOK /\ HandlerInv => (handler.next # "none" => handler.id \in Vehicles)
BY DEF GarageTypeOK, HandlerInv

LEMMA NextTypes == ASSUME GarageTypeOK, HandlerInv, [GarageNext]_garageVars PROVE GarageTypeOK'
<1>1. CASE UNCHANGED garageVars
  BY <1>1 DEF GarageTypeOK, garageVars, world, ledger
<1>2. CASE \E b \in Buyers : Buy(b) \/ Charge(b) \/ Add(b) \/ Create(b) \/ Register(b)
  BY <1>2, BuyingTypes
<1>3. CASE \E v \in Vehicles : Retrieve(v) \/ AdminPull(v) \/ AdminStore(v) \/ VehicleAction(v)
  BY <1>3, BeginningTypes, OutsideTypes
<1>4. CASE Fee \/ TakeOut \/ PutBack
  BY <1>4, HandlerTypes, HandledVehicle DEF Fee, TakeOut, PutBack
<1>5. CASE \E o \in Objects : Store(o) \/ Impound(o) \/ Wreck(o)
  BY <1>5, ObjectTypes
<1>6. CASE Restart
  BY <1>6, OutsideTypes
<1>. QED BY <1>1, <1>2, <1>3, <1>4, <1>5, <1>6 DEF GarageNext

-----------------------------------------------------------------------------
(* One object.                                                               *)

\* While nothing is done to rows, objects and the map, only buyers and the
\* handler matter.
LEMMA BuyKeeps ==
    ASSUME GarageInductive, NEW b \in Buyers, Buy(b) \/ Charge(b)
    PROVE  OneObject' /\ BuyersInv' /\ HandlerInv'
<1>1. buyers[b].id = None /\ UNCHANGED <<row, car, known, handler, doubtful>>
  BY DEF GarageInductive, Buy, Charge, BuyersInv, GarageTypeOK, world, Browsing
<1>2. PICK next \in {"none", "charge", "add"} : buyers' = [buyers EXCEPT ![b] = [id |-> None,
        next |-> next]]
  <2>1. CASE Buy(b)
    BY <2>1 DEF Buy
  <2>2. CASE Charge(b)
    BY <2>2 DEF Charge, Browsing
  <2>. QED BY <2>1, <2>2
<1>3. \A c \in Buyers : buyers'[c].id = buyers[c].id
  BY <1>1, <1>2 DEF GarageInductive, GarageTypeOK
<1>4. \A c \in Buyers : c # b => buyers'[c] = buyers[c]
  BY <1>2 DEF GarageInductive, GarageTypeOK
<1>5. buyers'[b] = [id |-> None, next |-> next]
  BY <1>2 DEF GarageInductive, GarageTypeOK
<1>6. \A v \in Vehicles : BeingBought(v)' <=> BeingBought(v)
  BY <1>3 DEF BeingBought
<1>7. OneObject'
  BY <1>1, <1>6 DEF GarageInductive, OneObject
<1>8. BuyersInv'
  BY <1>1, <1>3, <1>4, <1>5 DEF GarageInductive, BuyersInv, Absent, GarageTypeOK
<1>9. HandlerInv'
  BY <1>1, <1>6 DEF GarageInductive, HandlerInv, Absent
<1>. QED BY <1>7, <1>8, <1>9

\* The row of a vehicle nobody has seen yet.
LEMMA AddKeeps ==
    ASSUME GarageInductive, NEW b \in Buyers, Add(b)
    PROVE  OneObject' /\ BuyersInv' /\ HandlerInv'
<1>1. UNCHANGED <<car, known, handler, doubtful>> /\ handler = Rest
  BY DEF Add, world
<1>2. PICK a \in Answers, v \in Vehicles :
          /\ row[v] = "none"
          /\ SetRow(v, "spawned", a)
          /\ buyers' = [buyers EXCEPT ![b] = IF a = "OK" THEN [id |-> v, next |-> "create"]
               ELSE Browsing]
  BY DEF Add
<1>3. v \notin doubtful => Absent(v) /\ ~BeingBought(v)
  BY <1>2 DEF GarageInductive, OneObject, BuyersInv, Absent, BeingBought, GarageTypeOK
<1>4. buyers[b].id = None
  BY DEF Add, GarageInductive, BuyersInv
<1>5. \A w \in Vehicles : w # v => row'[w] = row[w]
  BY <1>2 DEF SetRow, GarageInductive, GarageTypeOK
<1>6. row'[v] = "spawned" \/ (a # "OK" /\ row' = row)
  BY <1>2 DEF SetRow, GarageInductive, GarageTypeOK, Answers
<1>7. a = "OK" => row'[v] = "spawned"
  BY <1>2 DEF SetRow, GarageInductive, GarageTypeOK
<1>8. \A c \in Buyers : c # b => buyers'[c] = buyers[c]
  BY <1>2 DEF GarageInductive, GarageTypeOK
<1>9. buyers'[b] = IF a = "OK" THEN [id |-> v, next |-> "create"] ELSE Browsing
  BY <1>2 DEF GarageInductive, GarageTypeOK
<1>10. OneObject'
  <2>. SUFFICES ASSUME NEW w \in Vehicles \ doubtful
                PROVE /\ \A o, q \in Objects : car[o] = w /\ car[q] = w => o = q
                      /\ \A o \in Objects : car[o] = w => row'[w] = "spawned"
                           /\ (BeingBought(w)' \/ known[w] = o)
    BY <1>1 DEF OneObject
  <2>1. CASE w = v
    BY <2>1, <1>3 DEF Absent
  <2>2. CASE w # v
    <3>1. BeingBought(w) => BeingBought(w)'
      BY <1>4, <1>8 DEF BeingBought, GarageInductive, GarageTypeOK
    <3>. QED BY <2>2, <3>1, <1>5 DEF GarageInductive, OneObject
  <2>. QED BY <2>1, <2>2
<1>11. BuyersInv'
  <2>1. ASSUME NEW c \in Buyers, c # b PROVE buyers[c].id # v \/ v \in doubtful
    BY <1>3 DEF BeingBought
  <2>. QED BY <2>1, <1>1, <1>3, <1>5, <1>6, <1>7, <1>8, <1>9
         DEF GarageInductive, BuyersInv, Absent, GarageTypeOK, Browsing
<1>12. HandlerInv'
  BY <1>1 DEF HandlerInv, Rest, GarageInductive, GarageTypeOK
<1>. QED BY <1>10, <1>11, <1>12

\* The bought vehicle appears: its row is there, and nothing else has its id.
LEMMA CreateKeeps ==
    ASSUME GarageInductive, NEW b \in Buyers, Create(b)
    PROVE  OneObject' /\ BuyersInv' /\ HandlerInv'
<1>1. UNCHANGED <<row, known, handler, doubtful>> /\ handler = Rest /\ buyers[b].next = "create"
  BY DEF Create
<1>2. PICK o \in Objects : car[o] = None /\ car' = [car EXCEPT ![o] = buyers[b].id]
  BY DEF Create, Unused
<1>3. buyers[b].id \in Vehicles
  BY <1>1 DEF GarageInductive, GarageTypeOK, BuyersInv
<1>4. \A c \in Buyers : c # b => buyers'[c] = buyers[c]
  BY DEF Create, GarageInductive, GarageTypeOK
<1>5. buyers'[b] = [id |-> buyers[b].id, next |-> "register"]
  BY DEF Create, GarageInductive, GarageTypeOK
<1>6. \A v \in Vehicles : BeingBought(v)' <=> BeingBought(v)
  BY <1>4, <1>5 DEF BeingBought
<1>7. \A q \in Objects : q # o => car'[q] = car[q]
  BY <1>2 DEF GarageInductive, GarageTypeOK
<1>8. car'[o] = buyers[b].id
  BY <1>2 DEF GarageInductive, GarageTypeOK
<1>9. buyers[b].id \notin doubtful => Absent(buyers[b].id) /\ row[buyers[b].id] = "spawned"
  BY <1>1, <1>3 DEF GarageInductive, BuyersInv, GarageTypeOK
<1>10. OneObject'
  <2>. SUFFICES ASSUME NEW w \in Vehicles \ doubtful
                PROVE /\ \A p, q \in Objects : car'[p] = w /\ car'[q] = w => p = q
                      /\ \A p \in Objects : car'[p] = w => row[w] = "spawned"
                           /\ (BeingBought(w)' \/ known[w] = p)
    BY <1>1 DEF OneObject
  <2>1. CASE w = buyers[b].id
    <3>1. BeingBought(w)
      BY <2>1 DEF BeingBought
    <3>. QED BY <2>1, <3>1, <1>6, <1>7, <1>9 DEF Absent
  <2>2. CASE w # buyers[b].id
    BY <2>2, <1>6, <1>7, <1>8 DEF GarageInductive, OneObject
  <2>. QED BY <2>1, <2>2
<1>11. BuyersInv'
  <2>. SUFFICES ASSUME NEW c \in Buyers
                PROVE /\ buyers'[c].next \in {"create", "register"} <=> buyers'[c].id # None
                      /\ buyers'[c].id \notin doubtful =>
                            /\ buyers'[c].id # None => row[buyers'[c].id] = "spawned"
                            /\ buyers'[c].next = "create" => \A q \in Objects : car'[q] # buyers'[c].id
                            /\ \A d \in Buyers : buyers'[d].id = buyers'[c].id
                                 /\ buyers'[c].id # None => c = d
    BY <1>1 DEF BuyersInv, Absent
  <2>0. \A d \in Buyers : buyers'[d].id = buyers[d].id
    BY <1>4, <1>5
  <2>1. \A d, e \in Buyers : buyers[e].id # None /\ buyers[e].id \notin doubtful
          /\ buyers[d].id = buyers[e].id => d = e
    BY DEF GarageInductive, BuyersInv
  <2>2. buyers'[c].id \notin doubtful /\ buyers'[c].id # None => row[buyers'[c].id] = "spawned"
    BY <2>0 DEF GarageInductive, BuyersInv
  <2>3. buyers'[c].next \in {"create", "register"} <=> buyers'[c].id # None
    BY <1>1, <1>3, <1>4, <1>5, GarageAssumption DEF GarageInductive, BuyersInv
  <2>4. ASSUME buyers'[c].id \notin doubtful, buyers'[c].next = "create"
        PROVE  \A q \in Objects : car'[q] # buyers'[c].id
    <3>1. c # b /\ buyers[c].id \notin doubtful /\ buyers[c].next = "create"
      BY <2>4, <2>0, <1>4, <1>5
    <3>2. Absent(buyers[c].id) /\ buyers[c].id # None
      BY <3>1 DEF GarageInductive, BuyersInv
    <3>3. buyers[c].id # buyers[b].id
      BY <3>1, <3>2, <2>1
    <3>4. \A q \in Objects : car'[q] # buyers[c].id
      BY <3>2, <3>3, <1>7, <1>8 DEF Absent
    <3>. QED BY <3>4, <2>0
  <2>. QED BY <2>0, <2>1, <2>2, <2>3, <2>4
<1>12. HandlerInv'
  BY <1>1 DEF HandlerInv, Rest, GarageInductive, GarageTypeOK
<1>. QED BY <1>10, <1>11, <1>12

\* The map gets it, and the purchase is over.
LEMMA RegisterKeeps ==
    ASSUME GarageInductive, NEW b \in Buyers, Register(b)
    PROVE  OneObject' /\ BuyersInv' /\ HandlerInv'
<1>1. UNCHANGED <<row, car, handler, doubtful>> /\ handler = Rest /\ buyers[b].next = "register"
  BY DEF Register
<1>3. buyers[b].id \in Vehicles
  BY <1>1 DEF GarageInductive, GarageTypeOK, BuyersInv
<1>4. \A c \in Buyers : c # b => buyers'[c] = buyers[c]
  BY DEF Register, GarageInductive, GarageTypeOK
<1>5. buyers'[b] = Browsing
  BY DEF Register, GarageInductive, GarageTypeOK
<1>6. \A w \in Vehicles : w # buyers[b].id => known'[w] = known[w]
  BY <1>3 DEF Register, GarageInductive, GarageTypeOK
<1>7. (\E o \in Objects : car[o] = buyers[b].id /\ known'[buyers[b].id] = o) \/ Absent(buyers[b].id)
  BY <1>3 DEF Register, GarageInductive, GarageTypeOK, Absent
<1>8. \A w \in Vehicles : w # buyers[b].id => (BeingBought(w) => BeingBought(w)')
  BY <1>4 DEF BeingBought
<1>10. OneObject'
  <2>. SUFFICES ASSUME NEW w \in Vehicles \ doubtful
                PROVE /\ \A p, q \in Objects : car[p] = w /\ car[q] = w => p = q
                      /\ \A p \in Objects : car[p] = w => row[w] = "spawned"
                           /\ (BeingBought(w)' \/ known'[w] = p)
    BY <1>1 DEF OneObject
  <2>1. CASE w = buyers[b].id
    BY <2>1, <1>7 DEF Absent, GarageInductive, OneObject
  <2>2. CASE w # buyers[b].id
    BY <2>2, <1>6, <1>8 DEF GarageInductive, OneObject
  <2>. QED BY <2>1, <2>2
<1>11. BuyersInv'
  BY <1>1, <1>4, <1>5 DEF GarageInductive, BuyersInv, Absent, Browsing
<1>12. HandlerInv'
  BY <1>1 DEF HandlerInv, Rest, GarageInductive, GarageTypeOK
<1>. QED BY <1>10, <1>11, <1>12

\* A vehicle not in doubt that a handler begins with is neither in the world nor
\* being bought.
LEMMA NotOutAbsent ==
    ASSUME GarageInductive, NEW v \in Vehicles \ doubtful, ~Out(v), ~BeingBought(v)
    PROVE  Absent(v)
BY DEF GarageInductive, OneObject, Out, Absent, GarageTypeOK

LEMMA NotSpawnedAbsent ==
    ASSUME GarageInductive, NEW v \in Vehicles \ doubtful, row[v] # "spawned"
    PROVE  Absent(v) /\ ~BeingBought(v)
<1>1. Absent(v)
  BY DEF GarageInductive, OneObject, Absent
<1>2. ~BeingBought(v)
  BY DEF GarageInductive, BuyersInv, BeingBought
<1>. QED BY <1>1, <1>2

\* Only rows of vehicles that are not in the world change.
LEMMA RowsKeep ==
    ASSUME GarageInductive, UNCHANGED <<car, known, buyers>>, doubtful \subseteq doubtful',
           \A v \in Vehicles \ doubtful' : row'[v] = row[v] \/ (Absent(v) /\ ~BeingBought(v))
    PROVE  OneObject' /\ BuyersInv'
<1>1. \A v \in Vehicles : BeingBought(v)' <=> BeingBought(v)
  BY DEF BeingBought
<1>2. OneObject'
  BY <1>1 DEF GarageInductive, OneObject, Absent
<1>3. ASSUME NEW b \in Buyers, buyers[b].id \notin doubtful', buyers[b].id # None
      PROVE  row'[buyers[b].id] = "spawned"
  <2>1. buyers[b].id \in Vehicles /\ BeingBought(buyers[b].id) /\ row[buyers[b].id] = "spawned"
    BY <1>3 DEF GarageInductive, BuyersInv, GarageTypeOK, BeingBought
  <2>. QED BY <2>1, <1>3
<1>4. BuyersInv'
  BY <1>3 DEF GarageInductive, BuyersInv, Absent
<1>. QED BY <1>2, <1>4

LEMMA BeginKeeps ==
    ASSUME GarageInductive, NEW v \in Vehicles, Retrieve(v) \/ AdminPull(v) \/ AdminStore(v)
    PROVE  OneObject' /\ BuyersInv' /\ HandlerInv'
<1>1. UNCHANGED <<row, car, known, buyers>> /\ Touched(v)
  BY DEF Retrieve, AdminPull, AdminStore, world
<1>2. doubtful \subseteq doubtful'
  BY <1>1 DEF Touched
<1>3. handler'.id = v /\ handler'.next # "none"
  BY DEF Retrieve, AdminPull, AdminStore, TakeUp
<1>4. v \notin doubtful' => Absent(v) /\ ~BeingBought(v)
  <2>1. v \notin doubtful' => v \in Vehicles \ doubtful /\ ~BeingBought(v)
    BY <1>1 DEF Touched
  <2>2. CASE Retrieve(v)
    BY <2>1, <2>2, NotOutAbsent, NotSpawnedAbsent DEF Retrieve, Shown
  <2>3. CASE AdminPull(v) \/ AdminStore(v)
    BY <2>1, <2>3, NotOutAbsent DEF AdminPull, AdminStore
  <2>. QED BY <2>1, <2>2, <2>3
<1>5. HandlerInv'
  BY <1>1, <1>3, <1>4 DEF HandlerInv, Absent, BeingBought
<1>6. OneObject' /\ BuyersInv'
  BY <1>1, <1>2, RowsKeep
<1>. QED BY <1>5, <1>6

LEMMA FeeKeeps == ASSUME GarageInductive, Fee PROVE OneObject' /\ BuyersInv' /\ HandlerInv'
<1>1. UNCHANGED <<row, car, known, buyers, doubtful>>
  BY DEF Fee, world
<1>2. handler' = Rest \/ (handler'.id = handler.id /\ handler'.next = "status")
  BY DEF Fee
<1>3. handler.id # None
  BY DEF Fee, GarageInductive, HandlerInv
<1>4. HandlerInv'
  BY <1>1, <1>2, <1>3 DEF GarageInductive, HandlerInv, Rest, Absent, BeingBought
<1>. QED BY <1>1, <1>4, RowsKeep

LEMMA AtRest == ASSUME handler' = Rest PROVE HandlerInv'
BY DEF HandlerInv, Rest

LEMMA PutBackKeeps == ASSUME GarageInductive, PutBack PROVE OneObject' /\ BuyersInv' /\ HandlerInv'
<1>1. UNCHANGED <<car, known, buyers, doubtful>> /\ handler' = Rest
  BY DEF PutBack, world
<1>2. handler.id \in Vehicles
  BY HandledVehicle DEF PutBack, GarageInductive
<1>3. \A w \in Vehicles : w # handler.id => row'[w] = row[w]
  BY <1>2 DEF PutBack, SetRow, GarageInductive, GarageTypeOK
<1>4. handler.id \notin doubtful => Absent(handler.id) /\ ~BeingBought(handler.id)
  BY <1>2 DEF GarageInductive, HandlerInv
<1>. QED BY <1>1, <1>3, <1>4, RowsKeep, AtRest

\* The one object of a vehicle that was not in the world.
LEMMA TakeOutKeeps == ASSUME GarageInductive, TakeOut PROVE OneObject' /\ BuyersInv' /\ HandlerInv'
<1>1. UNCHANGED <<buyers, doubtful>> /\ handler' = Rest
  BY DEF TakeOut
<1>2. handler.id \in Vehicles
  BY HandledVehicle DEF TakeOut, GarageInductive
<1>3. \A w \in Vehicles : w # handler.id => row'[w] = row[w]
  BY <1>2 DEF TakeOut, SetRow, GarageInductive, GarageTypeOK
<1>4. handler.id \notin doubtful => Absent(handler.id) /\ ~BeingBought(handler.id)
  BY <1>2 DEF GarageInductive, HandlerInv
<1>5. CASE UNCHANGED world
  BY <1>1, <1>3, <1>4, <1>5, RowsKeep, AtRest DEF world
<1>6. CASE Spawned(handler.id) /\ row'[handler.id] = "spawned"
  <2>1. PICK o \in Unused : /\ car' = [car EXCEPT ![o] = handler.id]
                            /\ known' = [known EXCEPT ![handler.id] = o]
    BY <1>6 DEF Spawned
  <2>2. o \in Objects /\ car'[o] = handler.id /\ known'[handler.id] = o
    BY <2>1, <1>2 DEF Unused, GarageInductive, GarageTypeOK
  <2>3. \A q \in Objects : q # o => car'[q] = car[q]
    BY <2>1 DEF GarageInductive, GarageTypeOK
  <2>4. \A w \in Vehicles : w # handler.id => known'[w] = known[w]
    BY <2>1 DEF GarageInductive, GarageTypeOK
  <2>5. \A w \in Vehicles : BeingBought(w)' <=> BeingBought(w)
    BY <1>1 DEF BeingBought
  <2>6. OneObject'
    <3>. SUFFICES ASSUME NEW w \in Vehicles \ doubtful
                  PROVE /\ \A p, q \in Objects : car'[p] = w /\ car'[q] = w => p = q
                        /\ \A p \in Objects : car'[p] = w => row'[w] = "spawned"
                             /\ (BeingBought(w)' \/ known'[w] = p)
      BY <1>1 DEF OneObject
    <3>1. CASE w = handler.id
      BY <3>1, <2>2, <2>3, <1>4, <1>6 DEF Absent
    <3>2. CASE w # handler.id
      BY <3>2, <2>2, <2>3, <2>4, <2>5, <1>3 DEF GarageInductive, OneObject
    <3>. QED BY <3>1, <3>2
  <2>7. ASSUME NEW b \in Buyers, buyers[b].id \notin doubtful, buyers[b].id # None
        PROVE  buyers[b].id # handler.id /\ row'[buyers[b].id] = row[buyers[b].id]
    BY <2>7, <1>2, <1>3, <1>4 DEF BeingBought, GarageInductive, GarageTypeOK
  <2>8. ASSUME NEW b \in Buyers, buyers[b].id \notin doubtful, buyers[b].next = "create"
        PROVE  \A q \in Objects : car'[q] # buyers[b].id
    <3>1. buyers[b].id # None /\ Absent(buyers[b].id)
      BY <2>8 DEF GarageInductive, BuyersInv
    <3>. QED BY <3>1, <2>8, <2>7, <2>2, <2>3 DEF Absent
  <2>9. BuyersInv'
    BY <1>1, <2>7, <2>8 DEF GarageInductive, BuyersInv, Absent
  <2>. QED BY <2>6, <2>9, <1>1, AtRest
<1>7. UNCHANGED world \/ (Spawned(handler.id) /\ row'[handler.id] = "spawned")
  BY <1>2 DEF TakeOut, SetRow, GarageInductive, GarageTypeOK
<1>. QED BY <1>5, <1>6, <1>7

\* An object goes away, or stays where the call was refused.
LEMMA GoneKeeps ==
    ASSUME GarageInductive, NEW o \in Objects, car[o] \in Vehicles, Gone(o) \/ UNCHANGED world,
           UNCHANGED buyers, UNCHANGED handler, handler = Rest,
           doubtful \subseteq doubtful',
           \A w \in Vehicles : w # car[o] => row'[w] = row[w],
           car[o] \notin doubtful' => ~BeingBought(car[o]) /\ (Gone(o) \/ row' = row)
    PROVE  OneObject' /\ BuyersInv' /\ HandlerInv'
<1>1. HandlerInv'
  BY AtRest
<1>2. CASE UNCHANGED world /\ ~Gone(o)
  BY <1>1, <1>2, RowsKeep DEF world
<1>3. CASE Gone(o)
  <2>1. car'[o] = None /\ known' = [known EXCEPT ![car[o]] = None]
    BY <1>3 DEF Gone, GarageInductive, GarageTypeOK
  <2>2. \A q \in Objects : q # o => car'[q] = car[q]
    BY <1>3 DEF Gone, GarageInductive, GarageTypeOK
  <2>3. \A w \in Vehicles : w # car[o] => known'[w] = known[w]
    BY <2>1 DEF GarageInductive, GarageTypeOK
  <2>4. \A w \in Vehicles : BeingBought(w)' <=> BeingBought(w)
    BY DEF BeingBought
  <2>5. OneObject'
    <3>. SUFFICES ASSUME NEW w \in Vehicles, w \notin doubtful'
                  PROVE /\ \A p, q \in Objects : car'[p] = w /\ car'[q] = w => p = q
                        /\ \A p \in Objects : car'[p] = w => row'[w] = "spawned"
                             /\ (BeingBought(w)' \/ known'[w] = p)
      BY DEF OneObject
    <3>1. \A p \in Objects : car'[p] = w => car[p] = w /\ p # o
      BY <2>1, <2>2
    <3>2. \A p, q \in Objects : car[p] = w /\ car[q] = w => p = q
      BY DEF GarageInductive, OneObject
    <3>3. \A p \in Objects : car[p] = w => row[w] = "spawned" /\ (BeingBought(w) \/ known[w] = p)
      BY DEF GarageInductive, OneObject
    <3>4. CASE w = car[o]
      BY <3>4, <3>1, <3>2
    <3>5. CASE w # car[o]
      BY <3>5, <3>1, <3>2, <3>3, <2>3, <2>4
    <3>. QED BY <3>4, <3>5
  <2>6. ASSUME NEW b \in Buyers, buyers[b].id \notin doubtful', buyers[b].id # None
        PROVE  row'[buyers[b].id] = row[buyers[b].id]
    <3>1. buyers[b].id \in Vehicles /\ BeingBought(buyers[b].id)
      BY <2>6 DEF GarageInductive, GarageTypeOK, BeingBought
    <3>2. buyers[b].id # car[o]
      BY <3>1, <2>6
    <3>. QED BY <3>1, <3>2
  <2>7. ASSUME NEW b \in Buyers, Absent(buyers[b].id), buyers[b].id # None
        PROVE  \A q \in Objects : car'[q] # buyers[b].id
    BY <2>7, <2>1, <2>2 DEF Absent
  <2>8. BuyersInv'
    <3>. SUFFICES ASSUME NEW b \in Buyers
                  PROVE /\ buyers[b].next \in {"create", "register"} <=> buyers[b].id # None
                        /\ buyers[b].id \notin doubtful' =>
                              /\ buyers[b].id # None => row'[buyers[b].id] = "spawned"
                              /\ buyers[b].next = "create" => \A q \in Objects : car'[q] # buyers[b].id
                              /\ \A c \in Buyers : buyers[c].id = buyers[b].id
                                   /\ buyers[b].id # None => b = c
      BY DEF BuyersInv, Absent
    <3>. QED BY <2>6, <2>7 DEF GarageInductive, BuyersInv
  <2>. QED BY <1>1, <2>5, <2>8
<1>. QED BY <1>2, <1>3

LEMMA ObjectKeeps ==
    ASSUME GarageInductive, NEW o \in Objects, Store(o) \/ Impound(o) \/ Wreck(o)
    PROVE  OneObject' /\ BuyersInv' /\ HandlerInv'
<1>1. UNCHANGED buyers /\ UNCHANGED handler /\ handler = Rest /\ car[o] \in Vehicles
  BY DEF Store, Impound, Wreck, Asked, GarageInductive, GarageTypeOK
<1>2. doubtful \subseteq doubtful' /\ (car[o] \notin doubtful' => ~BeingBought(car[o]))
  BY DEF Store, Impound, Wreck, Touched
<1>3. \A w \in Vehicles : w # car[o] => row'[w] = row[w]
  BY <1>1 DEF Store, Impound, Wreck, SetRow, GarageInductive, GarageTypeOK
<1>4. CASE Store(o)
  <2>1. car[o] \notin doubtful' => Gone(o) \/ row' = row
    BY <1>4 DEF Store, SetRow, Answers
  <2>2. Gone(o) \/ UNCHANGED world
    BY <1>4 DEF Store
  <2>. QED BY <1>1, <1>2, <1>3, <2>1, <2>2, GoneKeeps
<1>5. CASE Impound(o) \/ Wreck(o)
  <2>1. Gone(o)
    BY <1>5 DEF Impound, Wreck
  <2>. QED BY <1>1, <1>2, <1>3, <2>1, GoneKeeps
<1>. QED BY <1>4, <1>5

LEMMA VehicleActionKeeps ==
    ASSUME GarageInductive, NEW v \in Vehicles, VehicleAction(v)
    PROVE  OneObject' /\ BuyersInv' /\ HandlerInv'
<1>1. UNCHANGED <<car, known, handler, buyers, doubtful>>
  BY DEF VehicleAction, world
<1>2. row[v] # "spawned"
  BY DEF VehicleAction, From
<1>3. \A w \in Vehicles : w # v => row'[w] = row[w]
  BY DEF VehicleAction, GarageInductive, GarageTypeOK
<1>4. HandlerInv'
  BY <1>1 DEF GarageInductive, HandlerInv, Absent, BeingBought
<1>. QED BY <1>1, <1>2, <1>3, <1>4, NotSpawnedAbsent, RowsKeep

\* With the server's memory all of it goes.
LEMMA RestartKeeps == ASSUME GarageInductive, Restart PROVE OneObject' /\ BuyersInv' /\ HandlerInv'
<1>1. \A o \in Objects : car'[o] = None
  BY DEF Restart
<1>2. \A b \in Buyers : buyers'[b] = Browsing
  BY DEF Restart
<1>3. handler' = Rest
  BY DEF Restart
<1>4. OneObject'
  BY <1>1, GarageAssumption DEF OneObject
<1>5. BuyersInv'
  BY <1>2 DEF BuyersInv, Browsing
<1>. QED BY <1>3, <1>4, <1>5, AtRest

LEMMA InductiveInit == GarageInit => GarageInductive
<1>. SUFFICES ASSUME GarageInit PROVE GarageInductive
  OBVIOUS
<1>1. OneObject
  BY DEF GarageInit, OneObject
<1>2. BuyersInv
  BY DEF GarageInit, BuyersInv, Browsing
<1>3. HandlerInv
  BY DEF GarageInit, HandlerInv, Rest
<1>. QED BY <1>1, <1>2, <1>3, TypeInit DEF GarageInductive

LEMMA InductiveNext == GarageInductive /\ [GarageNext]_garageVars => GarageInductive'
<1>. SUFFICES ASSUME GarageInductive, [GarageNext]_garageVars PROVE OneObject' /\ BuyersInv'
                       /\ HandlerInv'
  BY NextTypes DEF GarageInductive
<1>1. CASE UNCHANGED garageVars
  <2>1. UNCHANGED <<row, car, known, handler, buyers, doubtful>>
    BY <1>1 DEF garageVars, world
  <2>2. HandlerInv'
    BY <2>1 DEF GarageInductive, HandlerInv, Absent, BeingBought
  <2>. QED BY <2>1, <2>2, RowsKeep
<1>2. CASE \E b \in Buyers : Buy(b) \/ Charge(b) \/ Add(b) \/ Create(b) \/ Register(b)
  BY <1>2, BuyKeeps, AddKeeps, CreateKeeps, RegisterKeeps
<1>3. CASE \E v \in Vehicles : Retrieve(v) \/ AdminPull(v) \/ AdminStore(v) \/ VehicleAction(v)
  BY <1>3, BeginKeeps, VehicleActionKeeps
<1>4. CASE Fee \/ TakeOut \/ PutBack
  BY <1>4, FeeKeeps, TakeOutKeeps, PutBackKeeps
<1>5. CASE \E o \in Objects : Store(o) \/ Impound(o) \/ Wreck(o)
  BY <1>5, ObjectKeeps
<1>6. CASE Restart
  BY <1>6, RestartKeeps
<1>. QED BY <1>1, <1>2, <1>3, <1>4, <1>5, <1>6 DEF GarageNext

\* The invariant of the whole garage: what handlers and buyers are about to put
\* in the world is not there, so that OneObject survives every step.
THEOREM GarageInvariance == GarageSpec => []GarageInductive
BY InductiveInit, InductiveNext, PTL DEF GarageSpec

\* Rows, objects, the map and what runs keep their shape.
THEOREM GarageTypeCorrect == GarageSpec => []GarageTypeOK
<1>1. GarageInductive => GarageTypeOK
  BY DEF GarageInductive
<1>. QED BY <1>1, GarageInvariance, PTL

\* However the garage, the police, staff and the website interleave with the
\* purchases, a vehicle is in the world once at most, only while its row says
\* spawned, and where the map says.
THEOREM OneObjectHolds == GarageSpec => []OneObject
<1>1. GarageInductive => OneObject
  BY DEF GarageInductive
<1>. QED BY <1>1, GarageInvariance, PTL

-----------------------------------------------------------------------------
(* What is paid for.                                                         *)

\* Buyers charged and not yet served, and a fee paid for a vehicle not yet out.
Adding == {b \in Buyers : buyers[b].next = "add"}
Releasing == IF handler.op = "retrieve" /\ handler.was = "impounded"
  /\ handler.next = "status" THEN 1 ELSE 0

Payments ==
    /\ EveryPaymentServed
    /\ handler.next = "fee" => handler.op = "retrieve" /\ handler.was = "impounded"

LEMMA AddingFinite == IsFiniteSet(Adding) /\ Cardinality(Adding) \in Nat
BY FS_Subset, FS_CardinalityType DEF Adding

LEMMA AddingFiniteNext == IsFiniteSet(Adding') /\ Cardinality(Adding') \in Nat
BY FS_Subset, FS_CardinalityType DEF Adding

LEMMA AddingSame ==
    ASSUME UNCHANGED buyers
    PROVE  Cardinality(Adding)' = Cardinality(Adding)
BY DEF Adding

\* One buyer's step adds itself, takes itself out, or does neither.
LEMMA AddingStep ==
    ASSUME GarageTypeOK, NEW b \in Buyers, NEW r \in Runs, buyers' = [buyers EXCEPT ![b] = r]
    PROVE  /\ r.next = "add" /\ b \notin Adding => Cardinality(Adding)' = Cardinality(Adding) + 1
           /\ r.next # "add" /\ b \in Adding => Cardinality(Adding)' = Cardinality(Adding) - 1
           /\ r.next # "add" /\ b \notin Adding => Cardinality(Adding)' = Cardinality(Adding)
<1>1. \A c \in Buyers : buyers'[c] = IF c = b THEN r ELSE buyers[c]
  BY DEF GarageTypeOK
<1>2. CASE r.next = "add"
  <2>1. Adding' = Adding \cup {b}
    BY <1>1, <1>2 DEF Adding
  <2>. QED BY <2>1, <1>2, AddingFinite, FS_AddElement
<1>3. CASE r.next # "add"
  <2>1. Adding' = Adding \ {b}
    BY <1>1, <1>3 DEF Adding
  <2>. QED BY <2>1, <1>3, AddingFinite, FS_RemoveElement
<1>. QED BY <1>2, <1>3

LEMMA PaymentsInit == GarageInit => Payments
<1>. SUFFICES ASSUME GarageInit PROVE Payments
  OBVIOUS
<1>1. Adding = {}
  BY DEF GarageInit, Adding, Browsing
<1>2. Cardinality(Adding) = 0
  BY <1>1, FS_EmptySet
<1>. QED BY <1>2 DEF GarageInit, Payments, EveryPaymentServed, Rest, Adding

LEMMA BuyingPays ==
    ASSUME GarageTypeOK, Payments, NEW b \in Buyers,
           Buy(b) \/ Charge(b) \/ Add(b) \/ Create(b) \/ Register(b)
    PROVE  Payments'
<1>0. UNCHANGED handler
  BY DEF Buy, Charge, Add, Create, Register
<1>1. CASE Buy(b) \/ Create(b) \/ Register(b)
  <2>1. PICK r \in Runs : r.next # "add" /\ buyers' = [buyers EXCEPT ![b] = r]
    BY <1>1, RestType DEF Buy, Create, Register, Runs, GarageTypeOK, Browsing
  <2>2. b \notin Adding
    BY <1>1 DEF Buy, Create, Register, Adding, Browsing
  <2>3. Cardinality(Adding)' = Cardinality(Adding)
    BY <2>1, <2>2, AddingStep
  <2>. QED BY <1>0, <1>1, <2>3 DEF Buy, Create, Register, Payments, EveryPaymentServed, Adding, ledger
<1>2. CASE Charge(b)
  <2>1. PICK a \in Answers : /\ Answer(a)
                             /\ paid' = IF a = "refused" THEN paid ELSE paid + 1
                             /\ buyers' = [buyers EXCEPT ![b] = IF a = "OK" THEN [id |-> None,
                                  next |-> "add"] ELSE Browsing]
    BY <1>2 DEF Charge
  <2>2. b \notin Adding /\ served' = served
    BY <1>2 DEF Charge, Adding
  <2>3. CASE a = "OK"
    <3>0. PICK r \in Runs : r.next = "add" /\ buyers' = [buyers EXCEPT ![b] = r]
      <4>1. buyers' = [buyers EXCEPT ![b] = [id |-> None, next |-> "add"]]
        BY <2>1, <2>3
      <4>2. [id |-> None, next |-> "add"] \in Runs
        BY DEF Runs
      <4>. QED BY <4>1, <4>2
    <3>1. Cardinality(Adding)' = Cardinality(Adding) + 1
      BY <3>0, <2>2, AddingStep
    <3>2. paid' = paid + 1 /\ faults' = faults
      BY <2>1, <2>3 DEF Answer
    <3>3. served \in Nat /\ paid \in Nat
      BY DEF GarageTypeOK
    <3>. QED BY <1>0, <2>2, <3>1, <3>2, <3>3, AddingFinite DEF Payments, EveryPaymentServed, Adding
  <2>4. CASE a # "OK"
    <3>1. Cardinality(Adding)' = Cardinality(Adding)
      BY <2>1, <2>2, <2>4, AddingStep, RestType DEF Browsing
    <3>2. faults' = faults + 1 /\ paid' \in {paid, paid + 1}
      BY <2>1, <2>4 DEF Answer
    <3>. QED BY <1>0, <2>2, <3>1, <3>2, AddingFinite
           DEF Payments, EveryPaymentServed, Adding, GarageTypeOK
  <2>. QED BY <2>3, <2>4
<1>3. CASE Add(b)
  <2>1. PICK a \in Answers, v \in Vehicles :
            /\ Answer(a)
            /\ buyers' = [buyers EXCEPT ![b] = IF a = "OK" THEN [id |-> v, next |-> "create"]
                 ELSE Browsing]
    BY <1>3 DEF Add
  <2>2. PICK r \in Runs : r.next # "add" /\ buyers' = [buyers EXCEPT ![b] = r]
    BY <2>1, RestType DEF Runs, Browsing
  <2>3. b \in Adding /\ served' = served + 1 /\ paid' = paid
    BY <1>3 DEF Add, Adding
  <2>4. Cardinality(Adding)' = Cardinality(Adding) - 1
    BY <2>2, <2>3, AddingStep
  <2>5. faults' = 0 => faults = 0
    BY <2>1 DEF Answer, GarageTypeOK
  <2>. QED BY <1>0, <2>3, <2>4, <2>5, AddingFinite
         DEF Payments, EveryPaymentServed, Adding, GarageTypeOK
<1>. QED BY <1>1, <1>2, <1>3

LEMMA HandlingPays ==
    ASSUME GarageTypeOK, Payments, Fee \/ TakeOut \/ PutBack
    PROVE  Payments'
<1>0. Cardinality(Adding)' = Cardinality(Adding)
  BY AddingSame DEF Fee, TakeOut, PutBack
<1>1. CASE Fee
  <2>1. PICK a \in Answers : Answer(a) /\ paid' = (IF a = "refused" THEN paid ELSE paid + 1)
            /\ handler' = IF a = "OK" THEN [op |-> handler.op, id |-> handler.id, was |-> handler.was,
                 next |-> "status"]
                                      ELSE Rest
    BY <1>1 DEF Fee
  <2>2. served' = served /\ Releasing = 0 /\ handler.op = "retrieve" /\ handler.was = "impounded"
    BY <1>1 DEF Fee, Releasing, Payments
  <2>3. CASE a = "OK"
    <3>1. Releasing' = 1 /\ paid' = paid + 1 /\ faults' = faults /\ handler'.next # "fee"
      BY <2>1, <2>2, <2>3 DEF Releasing, Answer
    <3>. QED BY <1>0, <2>2, <3>1, AddingFinite
           DEF Payments, EveryPaymentServed, Adding, Releasing, GarageTypeOK
  <2>4. CASE a # "OK"
    <3>1. Releasing' = 0 /\ paid' \in {paid, paid + 1} /\ faults' = faults + 1 /\ handler'.next # "fee"
      BY <2>1, <2>4 DEF Releasing, Answer, Rest
    <3>. QED BY <1>0, <2>2, <3>1, AddingFinite
           DEF Payments, EveryPaymentServed, Adding, Releasing, GarageTypeOK
  <2>. QED BY <2>3, <2>4
<1>2. CASE TakeOut
  <2>1. PICK a \in Answers : Answer(a) /\ (a = "OK" => served' = served + Releasing)
          /\ (a # "OK" => served' = served)
    BY <1>2 DEF TakeOut, Releasing, GarageTypeOK
  <2>2. Releasing' = 0 /\ handler'.next # "fee" /\ paid' = paid /\ Releasing \in {0, 1}
    BY <1>2 DEF TakeOut, Releasing, Rest
  <2>3. faults' = (IF a = "OK" THEN faults ELSE faults + 1)
    BY <2>1 DEF Answer
  <2>. QED BY <1>0, <2>1, <2>2, <2>3, AddingFinite
         DEF Payments, EveryPaymentServed, Adding, Releasing, GarageTypeOK
<1>3. CASE PutBack
  <2>1. Releasing' = 0 /\ Releasing = 0 /\ handler'.next # "fee" /\ UNCHANGED <<paid, served>>
    BY <1>3 DEF PutBack, Releasing, Rest, ledger
  <2>2. faults' = 0 => faults = 0
    BY <1>3 DEF PutBack, Answer, GarageTypeOK
  <2>. QED BY <1>0, <2>1, <2>2, AddingFinite
         DEF Payments, EveryPaymentServed, Adding, Releasing, GarageTypeOK
<1>. QED BY <1>1, <1>2, <1>3

\* A handler begins when none is under way, and nothing is paid for yet.
LEMMA BeginningPays ==
    ASSUME GarageTypeOK, Payments, NEW v \in Vehicles, Retrieve(v) \/ AdminPull(v) \/ AdminStore(v)
    PROVE  Payments'
<1>0. Cardinality(Adding)' = Cardinality(Adding)
  BY AddingSame DEF Retrieve, AdminPull, AdminStore
<1>1. Releasing = 0 /\ UNCHANGED <<paid, served, faults>>
  BY DEF Retrieve, AdminPull, AdminStore, Asked, Releasing, Rest, ledger
<1>2. Releasing' = 0 /\ (handler'.next = "fee" => handler'.op = "retrieve"
        /\ handler'.was = "impounded")
  BY DEF Retrieve, AdminPull, AdminStore, TakeUp, Releasing
<1>. QED BY <1>0, <1>1, <1>2, AddingFinite
       DEF Payments, EveryPaymentServed, Adding, Releasing, GarageTypeOK

LEMMA OthersPay ==
    ASSUME GarageTypeOK, Payments, UNCHANGED <<handler, buyers, paid, served>>, faults' = 0
             => faults = 0
    PROVE  Payments'
BY AddingSame DEF Payments, EveryPaymentServed, Adding

\* What a restart cuts off was paid for and is not served.
LEMMA RestartPays == ASSUME GarageTypeOK, Payments, Restart PROVE Payments'
<1>1. Cardinality(Adding)' = 0
  <2>1. Adding' = {}
    BY DEF Restart, Adding, Browsing
  <2>. QED BY <2>1, FS_EmptySet
<1>2. Releasing' = 0 /\ Releasing \in {0, 1} /\ handler'.next # "fee"
  BY DEF Restart, Releasing, Rest
<1>3. UNCHANGED <<paid, served>> /\ faults' = faults + 1
  BY DEF Restart, ledger
<1>. QED BY <1>1, <1>2, <1>3, AddingFinite
       DEF Payments, EveryPaymentServed, Adding, Releasing, GarageTypeOK

LEMMA PaymentsNext == GarageTypeOK /\ Payments /\ [GarageNext]_garageVars => Payments'
<1>. SUFFICES ASSUME GarageTypeOK, Payments, [GarageNext]_garageVars PROVE Payments'
  OBVIOUS
<1>1. CASE UNCHANGED garageVars
  BY <1>1, OthersPay DEF garageVars, ledger
<1>2. CASE \E b \in Buyers : Buy(b) \/ Charge(b) \/ Add(b) \/ Create(b) \/ Register(b)
  BY <1>2, BuyingPays
<1>3. CASE \E v \in Vehicles : Retrieve(v) \/ AdminPull(v) \/ AdminStore(v) \/ VehicleAction(v)
  BY <1>3, BeginningPays, OthersPay DEF VehicleAction, ledger
<1>4. CASE Fee \/ TakeOut \/ PutBack
  BY <1>4, HandlingPays
<1>5. CASE \E o \in Objects : Store(o) \/ Impound(o) \/ Wreck(o)
  <2>1. faults' = 0 => faults = 0
    BY <1>5 DEF Store, Impound, Wreck, Answer, GarageTypeOK
  <2>. QED BY <1>5, <2>1, OthersPay DEF Store, Impound, Wreck, Asked, ledger
<1>6. CASE Restart
  BY <1>6, RestartPays
<1>. QED BY <1>1, <1>2, <1>3, <1>4, <1>5, <1>6 DEF GarageNext

\* No price or release fee is taken that was not answered with a vehicle, or is
\* about to be, unless a call failed or the server stopped; and none is given
\* out that was not paid for.
THEOREM PaymentsServed == GarageSpec => []EveryPaymentServed
<1>1. Payments => EveryPaymentServed
  BY DEF Payments
<1>. QED BY <1>1, PaymentsInit, PaymentsNext, GarageTypeCorrect, PTL DEF GarageSpec

-----------------------------------------------------------------------------
(* Destroyed vehicles.                                                       *)

\* A handler never begins with a vehicle that it sees destroyed.
NotDestroyed == handler.id # None => handler.was # "destroyed"

LEMMA NotDestroyedNext == GarageTypeOK /\ NotDestroyed /\ [GarageNext]_garageVars => NotDestroyed'
<1>. SUFFICES ASSUME GarageTypeOK, NotDestroyed, [GarageNext]_garageVars PROVE NotDestroyed'
  OBVIOUS
<1>1. CASE handler' = handler
  BY <1>1 DEF NotDestroyed
<1>2. CASE handler' = Rest
  BY <1>2 DEF NotDestroyed, Rest
<1>3. CASE Fee
  BY <1>3 DEF Fee, NotDestroyed, Rest, GarageTypeOK
<1>4. ASSUME NEW v \in Vehicles, Retrieve(v) \/ AdminPull(v) \/ AdminStore(v)
      PROVE  NotDestroyed'
  BY <1>4 DEF Retrieve, AdminPull, AdminStore, TakeUp, NotDestroyed
<1>5. handler' = handler \/ handler' = Rest \/ Fee \/ \E v \in Vehicles : Retrieve(v) \/ AdminPull(v)
        \/ AdminStore(v)
  BY DEF GarageNext, garageVars, Buy, Charge, Add, Create, Register, TakeOut, PutBack, Store, Impound,
     Wreck, VehicleAction, Restart
<1>. QED BY <1>1, <1>2, <1>3, <1>4, <1>5

DestroyedStep ==
    \A v \in Vehicles \ doubtful : row[v] = "destroyed" /\ row'[v] # "destroyed" =>
        \/ row'[v] = "garaged" /\ \A o \in Objects : car[o] # v
        \/ handler.id = v /\ handler.was # "destroyed"

LEMMA DestroyedNext == GarageInductive /\ NotDestroyed /\ [GarageNext]_garageVars => DestroyedStep
<1>. SUFFICES ASSUME GarageInductive, NotDestroyed, [GarageNext]_garageVars,
                     NEW v \in Vehicles \ doubtful, row[v] = "destroyed", row'[v] # "destroyed"
              PROVE  \/ row'[v] = "garaged" /\ Absent(v)
                     \/ handler.id = v /\ handler.was # "destroyed"
  BY DEF DestroyedStep, Absent
<1>0. Absent(v)
  BY NotSpawnedAbsent
<1>1. CASE UNCHANGED row
  BY <1>1
<1>2. ASSUME NEW b \in Buyers, Add(b) PROVE FALSE
  BY <1>2 DEF Add, SetRow, GarageInductive, GarageTypeOK
<1>3. CASE TakeOut \/ PutBack
  <2>1. handler.id \in Vehicles
    BY <1>3, HandledVehicle DEF TakeOut, PutBack, GarageInductive
  <2>2. handler.id = v
    BY <1>3, <2>1 DEF TakeOut, PutBack, SetRow, GarageInductive, GarageTypeOK
  <2>. QED BY <2>1, <2>2, GarageAssumption DEF NotDestroyed
<1>4. ASSUME NEW o \in Objects, Store(o) \/ Impound(o) \/ Wreck(o) PROVE FALSE
  <2>1. car[o] \in Vehicles /\ car[o] # v
    BY <1>4, <1>0 DEF Store, Impound, Wreck, Absent, GarageInductive, GarageTypeOK
  <2>. QED BY <1>4, <2>1 DEF Store, Impound, Wreck, SetRow, GarageInductive, GarageTypeOK
<1>5. ASSUME NEW w \in Vehicles, VehicleAction(w) PROVE row'[v] = "garaged"
  BY <1>5 DEF VehicleAction, From, To, GarageInductive, GarageTypeOK
<1>6. CASE Restart
  BY <1>6 DEF Restart
<1>7. \/ UNCHANGED row
      \/ \E b \in Buyers : Add(b)
      \/ TakeOut \/ PutBack \/ Restart
      \/ \E o \in Objects : Store(o) \/ Impound(o) \/ Wreck(o)
      \/ \E w \in Vehicles : VehicleAction(w)
  BY DEF GarageNext, garageVars, Buy, Charge, Create, Register, Retrieve, AdminPull, AdminStore, Fee
<1>. QED BY <1>0, <1>1, <1>2, <1>3, <1>4, <1>5, <1>6, <1>7

\* Only staff restore a destroyed vehicle, while none is in the world; the one
\* other way out is a handler that read the row before it was destroyed.
THEOREM DestroyedUntilRestored == GarageSpec => DestroyedStays
<1>1. GarageInit => NotDestroyed
  BY DEF GarageInit, NotDestroyed, Rest
<1>2. GarageInductive => GarageTypeOK
  BY DEF GarageInductive
<1>3. GarageInductive /\ NotDestroyed /\ [GarageNext]_garageVars => [DestroyedStep]_garageVars
  BY DestroyedNext
<1>. QED BY <1>1, <1>2, <1>3, NotDestroyedNext, GarageInvariance, PTL
       DEF GarageSpec, DestroyedStays, DestroyedStep

=============================================================================
