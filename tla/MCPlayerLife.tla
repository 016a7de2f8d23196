----------------------------- MODULE MCPlayerLife -----------------------------
(* Instances of PlayerLife for TLC. *)
EXTENDS PlayerLife, TLC

Symmetry == Permutations(Scripts)

\* Once the only player is doubtful no property says anything more.
StillSure == Sure # {}

================================================================================
