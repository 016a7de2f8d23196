----------------------------- MODULE BankLedger -----------------------------
(***************************************************************************)
(* What the bank promises, one atomic step per committed operation: the    *)
(* authoritative balances (bank_accounts.balance), the cash in a player's  *)
(* pocket (players.<faction>_cash) and the request tokens already spent.   *)
(* BankDb, which runs the same operations as interleaved SQL statements    *)
(* under row locks, implements this module.                                *)
(***************************************************************************)
EXTENDS Integers

CONSTANTS
    Accounts,   \* account ids; one per player and faction, so a pocket is one too
    Players,    \* owners
    Owner,      \* Owner[a]: whose account a is
    Tokens,     \* request tokens
    Amounts,    \* the amounts, in dollars, a request may carry
    MaxBalance  \* bound on what an adjustment may leave in one account

ASSUME LedgerAssumption ==
    /\ Owner \in [Accounts -> Players]
    /\ Amounts \subseteq Nat \ {0}
    /\ MaxBalance \in Nat

VARIABLES
    balance,     \* [Accounts -> Nat]  bank_accounts.balance
    cash,        \* [Accounts -> Nat]  players.<faction>_cash
    spent,       \* {<<account, token>>}  idx_bank_transactions_token
    cashSpent    \* {<<player, token>>}   applied_request_tokens

ledgerVars == <<balance, cash, spent, cashSpent>>

LedgerInit ==
    /\ balance \in [Accounts -> Nat]
    /\ cash \in [Accounts -> Nat]
    /\ spent = {}
    /\ cashSpent = {}

\* Both legs of a transfer, or neither: moveMoney and BankTx "transfer".
Transfer(from, to, n, t) ==
    /\ from # to
    /\ balance[from] >= n
    /\ {<<from, t>>, <<to, t>>} \cap spent = {}
    /\ balance' = [balance EXCEPT ![from] = @ - n, ![to] = @ + n]
    /\ spent' = spent \cup {<<from, t>>, <<to, t>>}
    /\ UNCHANGED <<cash, cashSpent>>

\* BankTx "purchase": the shop's price leaves the account.
Purchase(a, n, t) ==
    /\ balance[a] >= n
    /\ <<a, t>> \notin spent
    /\ balance' = [balance EXCEPT ![a] = @ - n]
    /\ spent' = spent \cup {<<a, t>>}
    /\ UNCHANGED <<cash, cashSpent>>

\* BankCash: n moves from the pocket to the account (deposit) or back.
Deposit(a, n, t) ==
    /\ cash[a] >= n
    /\ <<a, t>> \notin spent
    /\ balance' = [balance EXCEPT ![a] = @ + n]
    /\ cash' = [cash EXCEPT ![a] = @ - n]
    /\ spent' = spent \cup {<<a, t>>}
    /\ UNCHANGED cashSpent

Withdraw(a, n, t) ==
    /\ balance[a] >= n
    /\ <<a, t>> \notin spent
    /\ balance' = [balance EXCEPT ![a] = @ - n]
    /\ cash' = [cash EXCEPT ![a] = @ + n]
    /\ spent' = spent \cup {<<a, t>>}
    /\ UNCHANGED cashSpent

\* SaveCashDelta: a signed change to the pocket.
CashDelta(a, d, t) ==
    /\ cash[a] + d >= 0
    /\ <<Owner[a], t>> \notin cashSpent
    /\ cash' = [cash EXCEPT ![a] = @ + d]
    /\ cashSpent' = cashSpent \cup {<<Owner[a], t>>}
    /\ UNCHANGED <<balance, spent>>

\* A compensation, or a balance edited by hand in the database.
Adjust(a, d) ==
    /\ balance[a] + d >= 0
    /\ balance' = [balance EXCEPT ![a] = @ + d]
    /\ UNCHANGED <<cash, spent, cashSpent>>

LedgerNext ==
    \/ \E a \in Accounts, n \in Amounts, t \in Tokens :
          \/ \E to \in Accounts : Transfer(a, to, n, t)
          \/ Purchase(a, n, t)
          \/ Deposit(a, n, t)
          \/ Withdraw(a, n, t)
          \/ CashDelta(a, n, t)
          \/ CashDelta(a, -n, t)
    \/ \E a \in Accounts, n \in Amounts : Adjust(a, n)
    \/ \E a \in Accounts, v \in 0..MaxBalance : Adjust(a, v - balance[a])

LedgerSpec == LedgerInit /\ [][LedgerNext]_ledgerVars

=============================================================================
