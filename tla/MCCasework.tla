------------------------------ MODULE MCCasework ------------------------------
(* Instances of Casework for TLC. *)
EXTENDS Casework, TLC

CONSTANTS p, s

Symmetry == Permutations(Web)

EveryPermission ==
    [x \in Staff |-> {"cases.view", "cases.lead", "cases.close", "bans.issue", "bans.permanent",
                     "bans.revoke", "bans.appeal_review", "anticheat.review"}]

\* Papers; bans from two cases at once, and the game's; bans that end, are lifted and appealed.
ThreeScenarios ==
    {{"entries", "status", "people", "points", "flags"},
     {"ban", "new case", "people", "status", "game", "restart"},
     {"ban", "timed", "both scopes", "lift", "appeal", "restart"}}

===============================================================================
