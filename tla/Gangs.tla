--------------------------------- MODULE Gangs ---------------------------------
(***************************************************************************)
(* The gangs as their leaders manage them on the website.  A request finds *)
(* the gang its player leads; its transaction changes a row of             *)
(* gang_members and writes a row of gang_log.  Transactions that change    *)
(* one player's row wait for each other; what one has inserted the others  *)
(* do not see until it commits.                                            *)
(***************************************************************************)
EXTENDS Naturals, SequencesExt

CONSTANTS
    Gangsters,      \* players
    LeaderOf,       \* gangs.leader_player_id, by gang
    NameOf,         \* players.name, in lower case
    Portals,        \* requests that run at the same time
    Nowhere,        \* the gang of who has none
    MaxDeeds

ASSUME GangsAssumption == Nowhere \notin DOMAIN LeaderOf \cup Gangsters \cup Portals /\ MaxDeeds \in Nat

VARIABLES
    gangMembers,    \* gang_members, by player: [gang, rank]
    gangLog,        \* gang_log, by id: [gang, action, who, rank, open], open by the request that has not committed
    portal          \* what a request is doing

gangVars == <<gangMembers, gangLog, portal>>

NoDeed == [at |-> "idle"]
Free == [gang |-> Nowhere, rank |-> "member"]

GangsInit ==
    /\ gangMembers = [p \in Gangsters |-> Free]
    /\ gangLog = <<>>
    /\ portal = [q \in Portals |-> NoDeed]

\* leaderGangID: whoever leads no gang is refused; nobody manages themselves.
Lead(q, action, leader, who, rank) ==
    /\ portal[q] = NoDeed /\ leader # who
    /\ \E g \in DOMAIN LeaderOf :
         /\ LeaderOf[g] = leader
         /\ portal' = [portal EXCEPT ![q] = [at |-> "row", action |-> action, gang |-> g, who |-> who, rank |-> rank]]
    /\ UNCHANGED <<gangMembers, gangLog>>

\* ByExactName: the only player of that name.
Called(name) == {p \in Gangsters : NameOf[p] = name}

InviteToGang(q, leader, name) ==
    \E who \in Called(name) : Called(name) = {who} /\ Lead(q, "member_added", leader, who, "member")
RemoveFromGang(q, leader, who) == Lead(q, "member_removed", leader, who, "member")
SetGangRank(q, leader, who, rank) == rank \in {"member", "officer"} /\ Lead(q, "rank_changed", leader, who, rank)

\* The transaction that holds the player's row.
Holders(p) == {q \in Portals : portal[q].at \in {"log", "commit"} /\ portal[q].who = p}
Inserting(p) == \E q \in Holders(p) : portal[q].action = "member_added"

\* Invite: player_id is unique.  Remove and SetRank: a member of this gang.
Fits(deed) ==
    IF deed.action = "member_added" THEN gangMembers[deed.who] = Free
    ELSE gangMembers[deed.who].gang = deed.gang

\* The statement on the row waits for who holds it, except that a row which is being
\* inserted is not there for a DELETE or an UPDATE.
ChangeRow(q) ==
    /\ portal[q].at = "row"
    /\ \/ Holders(portal[q].who) = {}
       \/ Inserting(portal[q].who) /\ portal[q].action # "member_added"
    /\ portal' = [portal EXCEPT ![q] =
         IF Holders(portal[q].who) = {} /\ Fits(portal[q]) THEN [portal[q] EXCEPT !.at = "log"] ELSE NoDeed]
    /\ UNCHANGED <<gangMembers, gangLog>>

Entry(q) ==
    [gang |-> portal[q].gang, action |-> portal[q].action, who |-> portal[q].who, rank |-> portal[q].rank, open |-> q]

\* Mutant: the entry is written outside of the transaction.
InsertLogOutside(q) ==
    /\ portal[q].at = "log" /\ Len(gangLog) < MaxDeeds
    /\ gangLog' = Append(gangLog, [Entry(q) EXCEPT !.open = Nowhere])
    /\ portal' = [portal EXCEPT ![q].at = "commit"]
    /\ UNCHANGED gangMembers

InsertLog(q) ==
    /\ portal[q].at = "log" /\ Len(gangLog) < MaxDeeds
    /\ gangLog' = Append(gangLog, Entry(q))
    /\ portal' = [portal EXCEPT ![q].at = "commit"]
    /\ UNCHANGED gangMembers

\* What a deed makes of a row.
After(row, deed) ==
    IF deed.action = "member_removed" THEN Free
    ELSE IF deed.action = "member_added" THEN [gang |-> deed.gang, rank |-> "member"]
    ELSE [row EXCEPT !.rank = deed.rank]

CommitDeed(q) ==
    /\ portal[q].at = "commit"
    /\ gangMembers' = [gangMembers EXCEPT ![portal[q].who] = After(gangMembers[portal[q].who], portal[q])]
    /\ gangLog' = [i \in DOMAIN gangLog |->
                     IF gangLog[i].open = q THEN [gangLog[i] EXCEPT !.open = Nowhere] ELSE gangLog[i]]
    /\ portal' = [portal EXCEPT ![q] = NoDeed]

\* A statement fails, and the transaction with it: what it wrote is not there, and the id
\* of it is not given again.
Void == [gang |-> Nowhere, action |-> "none", who |-> Nowhere, rank |-> "member", open |-> Nowhere]

DeedFails(q) ==
    /\ portal[q] # NoDeed
    /\ portal' = [portal EXCEPT ![q] = NoDeed]
    /\ gangLog' = [i \in DOMAIN gangLog |-> IF gangLog[i].open = q THEN Void ELSE gangLog[i]]
    /\ UNCHANGED gangMembers

GangsNext ==
    \E q \in Portals :
        \/ \E leader, who \in Gangsters :
              \/ InviteToGang(q, leader, NameOf[who]) \/ RemoveFromGang(q, leader, who)
              \/ \E rank \in {"member", "officer"} : SetGangRank(q, leader, who, rank)
        \/ ChangeRow(q) \/ InsertLog(q) \/ CommitDeed(q) \/ DeedFails(q)

-------------------------------------------------------------------------------
\* What the log says of a player, in the order of its ids.
LogSays(p) ==
    LET said[i \in 0..Len(gangLog)] ==
          IF i = 0 THEN Free
          ELSE IF gangLog[i].who = p /\ gangLog[i].open = Nowhere THEN After(said[i - 1], gangLog[i])
          ELSE said[i - 1]
    IN  said[Len(gangLog)]

\* Whoever reads the log from its beginning knows who is in which gang and as what, though
\* leaders act at once, and take a player that another is letting go ("Every action logs
\* to `gang_log`", CHANGELOG.md:161).
GangLogReplays == \A p \in Gangsters : LogSays(p) = gangMembers[p]

===============================================================================
