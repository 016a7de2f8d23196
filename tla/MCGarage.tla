------------------------------ MODULE MCGarage ------------------------------
(* Instances of Garage for TLC. *)
EXTENDS Garage, TLC

Symmetry == Permutations(Objects) \cup Permutations(Buyers)

=============================================================================
