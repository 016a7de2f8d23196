------------------------------- MODULE MCItems -------------------------------
(* Instances of Items for TLC. *)
EXTENDS Items, TLC

CONSTANTS ann, bob, ore, ingot

\* A processor makes ingots of ore; nothing is made of an ingot but an ingot.
Smelting == (ore :> ingot) @@ (ingot :> ingot)
OneClass == (ore :> ore)

Symmetry == Permutations(Scripts)

=============================================================================
