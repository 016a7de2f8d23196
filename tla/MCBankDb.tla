------------------------------ MODULE MCBankDb ------------------------------
(* Instances of BankDb for TLC. *)
EXTENDS BankDb, TLC

CONSTANTS p1, p2, w1, w2, t1, t2

ThreeAccounts == (1 :> p1) @@ (2 :> p2) @@ (3 :> p1)

=============================================================================
