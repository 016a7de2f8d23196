------------------------------- MODULE MCAccess -------------------------------
(* Instances of Access for TLC. *)
EXTENDS Access, TLC

CONSTANTS ann, bob, cid, x, y, vip, verified, mod, cop, red, b1, b2

\* Ann manages the staff, Bob is a moderator, Cid is nobody yet.
Player(rank, police, discord) ==
    [rank |-> rank, status |-> "active", team |-> Null, police |-> police, discord |-> discord]

ThreePlayers == (ann :> [Player(2, 0, x) EXCEPT !.team = red]) @@ (bob :> Player(1, 1, Null))
             @@ (cid :> Player(0, 0, Null))

\* Management, moderators who may edit the ranks below, and two ranks of nobody, one
\* of which is yet to be made.
FourRanks == (1 :> [level |-> 20, admin |-> TRUE, perms |-> {"roles.manage"}])
          @@ (2 :> [level |-> 100, admin |-> TRUE, perms |-> {"roles.manage", "staff.edit"}])
          @@ (3 :> [level |-> 10, admin |-> FALSE, perms |-> {}])
          @@ (4 :> Gone)

Form(rank, level, admin, perms) == [rank |-> rank, level |-> level, admin |-> admin, perms |-> perms]

\* One's own rank, with and without what one may not take from it; a rank moved up and
\* given a permission; the moderators, or oneself, moved down.
SixForms ==
    {Form(2, 100, TRUE, {"roles.manage", "staff.edit"}), Form(2, 100, TRUE, {"staff.edit"}),
     Form(2, 10, TRUE, {"roles.manage", "staff.edit"}),
     Form(3, 15, TRUE, {"roles.manage"}), Form(3, 10, FALSE, {}), Form(1, 10, TRUE, {})}

BothIn == (b1 :> [who |-> ann, access |-> TRUE]) @@ (b2 :> [who |-> bob, access |-> TRUE])

ThreeForms ==
    {{}, {<<<<"staff_loa">>, verified>>}, {<<<<"linked">>, verified>>, <<<<"staff_rank", 1>>, mod>>, <<<<"faction", "police">>, mod>>}}
===============================================================================
