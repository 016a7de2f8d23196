------------------------------- MODULE MCFactions -------------------------------
(* Instances of Factions for TLC. *)
EXTENDS Factions, TLC

CONSTANTS chief, sergeant, rookie

FirstLevels == [p \in People |-> CASE p = chief -> 3 [] p = sergeant -> 2 [] OTHER -> 0]

\* The chief is cabinet; sergeants change the lowest rank, which they and the chief
\* share with those that rise.
TheRanks ==
    <<[command |-> FALSE, cabinet |-> FALSE, upTo |-> 0, slots |-> 0, quals |-> {}],
      [command |-> TRUE, cabinet |-> FALSE, upTo |-> 1, slots |-> 2, quals |-> {}],
      [command |-> TRUE, cabinet |-> TRUE, upTo |-> 2, slots |-> 0, quals |-> {}]>>

TheDivisions ==
    [admin |-> [admin |-> TRUE, roles |-> <<"Commander", "Clerk">>, minLevel |-> 1, quals |-> {}],
     traffic |-> [admin |-> FALSE, roles |-> <<"Commander", "Second", "Member">>, minLevel |-> 1, quals |-> {}],
     swat |-> [admin |-> FALSE, roles |-> <<"Commander", "Member">>, minLevel |-> 1, quals |-> {"FTO"}]]

\* Not explored further: a fifth entry where points are given, a second member posted
\* where ranks change too, and a second holder where the qualification is for a division.
Few ==
    /\ "points" \in offered => Len(entries) <= 4
    /\ {"rank", "division"} \subseteq offered =>
           Cardinality({p \in People : \E d \in DOMAIN Divisions : posting[p][d] # None}) <= 1
    /\ {"swat", "qual"} \subseteq offered => /\ Cardinality({p \in People : held[p] # {}}) <= 1
                                            /\ \A q \in Quals : heads[q] = None

Symmetry == Permutations(Web)

\* Ranks; recruits; discipline; divisions; records.
Scenes ==
    {{"rank", "recruit", "override"}, {"rank", "rules"}, {"rank", "blacklist", "lift"},
     {"recruit", "apply"}, {"recruit", "train", "confirm"}, {"recruit", "end"},
     {"recruit", "discharge"}, {"recruit", "warnings"}, {"warnings", "correct", "expire"},
     {"points", "correct", "expire"}, {"points", "served"},
     {"rank", "division", "traffic"}, {"division", "traffic", "swat", "qual"},
     {"division", "divapply", "admin"}, {"recruit", "divapply", "swat"},
     {"recruit", "qual"}, {"file"}}
===============================================================================
