------------------------------- MODULE Casework -------------------------------
(***************************************************************************)
(* Moderation on the website: staff cases with their timeline, punishment  *)
(* points, bans issued from cases, appeals and anti-cheat flags; the bans  *)
(* the game's staff issue without a case; and the bans in Discord that     *)
(* follow the website's.                                                   *)
(*                                                                         *)
(* A request is a goroutine of the website.  One whose transaction reads   *)
(* only rows it has locked, or whose one statement checks and writes, is   *)
(* one action.  What may come in between is kept apart: the case lock of a *)
(* ban, the count of active bans and the insert; what an appeal looked up; *)
(* the call to Discord after the commit.                                   *)
(*                                                                         *)
(* The timeline is kept as the number of entries of each kind in a case,   *)
(* and the staff log as the number of rows of each action.  Texts, rules   *)
(* broken, outcome labels and how long a ban lasts are left out, except    *)
(* whether it ends by itself.                                              *)
(***************************************************************************)
EXTENDS Integers, Sequences, FiniteSets

CONSTANTS
    Players, Staff,      \* staff are players with a rank
    Linked,              \* players with a Discord account
    May,                 \* the permissions of each of the staff
    Web,                 \* requests running at the same time
    Flags,               \* anti-cheat flags
    Roles,               \* the roles a player is added to a case in
    None,
    Scenarios,           \* sets of operations: a behaviour uses those of one of them
    MaxCases, MaxAwards, MaxBans, MaxAppeals, MaxEntries, MaxFlips, MaxReviews  \* bounds

ASSUME CaseworkAssumption ==
    /\ Staff \subseteq Players /\ Linked \subseteq Players
    /\ IsFiniteSet(Players) /\ IsFiniteSet(Flags)
    /\ None \notin Players \cup Flags \cup Nat
    /\ Roles \subseteq {"subject", "related", "reporter", "witness", "assisting_staff"}
    /\ {MaxCases, MaxAwards, MaxBans, MaxAppeals, MaxEntries, MaxFlips, MaxReviews} \subseteq Nat
    /\ \A offered \in Scenarios : offered \subseteq
           {"entries", "status", "people", "points", "flags", "ban", "new case", "both scopes",
            "timed", "lift", "appeal", "game", "restart"}

VARIABLES
    cases,      \* staff_cases, by id: [status, flag], and how many subjects the staff
                \* log says it was opened with: [players]
    people,     \* staff_case_participants: <<case, player, role>>
    timeline,   \* staff_case_entries of a case, counted by kind
    awards,     \* punishment_points, by id: [case, player, revoked]
    bans,       \* banlist, by id: [case, player, by, scope, timed, state]
    appeals,    \* ban_appeals, by id: [ban, status]
    flags,      \* anti_cheat_flags: the resolution
    logged,     \* staff_log, counted by action
    notices,    \* notifications sent to a player
    discord,    \* who is banned from the Discord server
    request,    \* what each request is doing
    extension,  \* what the game's connection is doing: None or the player to ban
    offered     \* the operations of this behaviour

tables == <<cases, people, timeline, awards, bans, appeals, flags, logged, notices>>
vars == <<tables, discord, request, extension, offered>>

Kinds == {"note", "correction", "points", "points_revoked", "ban", "unban",
          "status", "participant", "flag", "appeal"}
Actions == {"case.open", "case.close", "case.reopen", "player.warn", "player.warn_revoke",
            "ban.issue", "ban.lift", "ban.appeal_accept", "ban.appeal_reject",
            "anticheat.dismiss", "anticheat.watch", "anticheat.reopen"}

Scopes == {"game_discord"} \cup (IF "both scopes" \in offered THEN {"game"} ELSE {})
Lengths == {FALSE} \cup (IF "timed" \in offered THEN {TRUE} ELSE {})   \* whether a ban ends by itself

Idle == [at |-> "idle"]

Init ==
    /\ cases = <<>> /\ people = {} /\ awards = <<>> /\ bans = <<>> /\ appeals = <<>>
    /\ timeline = [c \in 1..MaxCases |-> [k \in Kinds |-> 0]]
    /\ flags = [f \in Flags |-> "open"]
    /\ logged = [a \in Actions |-> 0]
    /\ notices = [p \in Players |-> 0]
    /\ discord = {}
    /\ request = [w \in Web |-> Idle] /\ extension = None
    /\ offered \in Scenarios

-------------------------------------------------------------------------------
\* The permission a route or a handler asks for.
Can(s, key) == key \in May[s]
SeesCases(s, key) == Can(s, "cases.view") /\ Can(s, key)

\* A ban is issued holding its case's row.  Everyone else who locks the case, or
\* adds an entry, whose foreign key needs the row, waits.
Locked(c) == \E w \in Web : request[w].at = "banning" /\ request[w].case = c

Entries(c) == LET n[K \in SUBSET Kinds] ==
                      IF K = {} THEN 0
                      ELSE LET k == CHOOSE x \in K : TRUE IN timeline[c][k] + n[K \ {k}]
              IN n[Kinds]

\* addEntry, for a case that is not locked; c = None adds nothing.
AddEntry(c, kind) ==
    IF c = None THEN UNCHANGED timeline
    ELSE ~Locked(c) /\ timeline' = [timeline EXCEPT ![c][kind] = @ + 1]

Log(action) == logged' = [logged EXCEPT ![action] = @ + 1]
Notify(p) == notices' = [notices EXCEPT ![p] = @ + 1]

\* The player may be punished in the case.
Accused(c, p) == \E role \in {"subject", "related"} : <<c, p, role>> \in people

Active(b) == bans[b].state = "active"
ActiveBans(p) == {b \in DOMAIN bans : bans[b].player = p /\ Active(b)}

-------------------------------------------------------------------------------
\* Cases

\* Open: the case, its subjects, its first entry and the flag it comes from, if
\* any, in one transaction.
Open(s, subjects, f) ==
    /\ Len(cases) < MaxCases
    /\ subjects # {} /\ s \notin subjects
    /\ LET c == Len(cases) + 1 IN
       /\ cases' = Append(cases, [status |-> "open", flag |-> f, players |-> Cardinality(subjects)])
       /\ people' = people \cup {<<c, p, "subject">> : p \in subjects}
       /\ timeline' = [timeline EXCEPT ![c] = [@ EXCEPT !["note"] = 1, !["flag"] = IF f = None THEN 0 ELSE 1]]
    /\ flags' = IF f = None THEN flags ELSE [flags EXCEPT ![f] = "case"]
    /\ Log("case.open")
    /\ UNCHANGED <<awards, bans, appeals, notices>>

CaseCreate(s) ==
    /\ Can(s, "cases.lead")
    /\ \E subjects \in SUBSET Players, f \in Flags \cup {None} : Open(s, subjects, f)
    /\ UNCHANGED <<discord, request, extension, offered>>

\* AddNote, to a case of either status; a correction points at an entry of the case.
AddNote(c, corrects) ==
    /\ Entries(c) < MaxEntries
    /\ corrects <= Entries(c)
    /\ AddEntry(c, IF corrects > 0 THEN "correction" ELSE "note")
    /\ UNCHANGED <<cases, people, awards, bans, appeals, flags, logged, notices>>

CaseAddEntry(s) ==
    /\ SeesCases(s, "cases.lead")
    /\ \E c \in DOMAIN cases, corrects \in 0..MaxEntries : AddNote(c, corrects)
    /\ UNCHANGED <<discord, request, extension, offered>>

SetStatus(c, status) ==
    /\ cases[c].status # status
    /\ timeline[c]["status"] < MaxFlips
    /\ cases' = [cases EXCEPT ![c].status = status]
    /\ AddEntry(c, "status")
    /\ Log(IF status = "closed" THEN "case.close" ELSE "case.reopen")
    /\ UNCHANGED <<people, awards, bans, appeals, flags, notices>>

CaseSetStatus(s) ==
    /\ SeesCases(s, "cases.close")
    /\ \E c \in DOMAIN cases, status \in {"open", "closed"} : SetStatus(c, status)
    /\ UNCHANGED <<discord, request, extension, offered>>

\* AddParticipant: staff assist, players take part; nobody adds themselves as a player.
AddParticipant(s, c, p, role) ==
    /\ IF role = "assisting_staff" THEN p \in Staff ELSE p # s
    /\ <<c, p, role>> \notin people
    /\ people' = people \cup {<<c, p, role>>}
    /\ AddEntry(c, "participant")
    /\ IF role = "assisting_staff" /\ p # s THEN Notify(p) ELSE UNCHANGED notices
    /\ UNCHANGED <<cases, awards, bans, appeals, flags, logged>>

CaseAddParticipant(s) ==
    /\ SeesCases(s, "cases.lead")
    /\ \E c \in DOMAIN cases, p \in Players, role \in Roles : AddParticipant(s, c, p, role)
    /\ UNCHANGED <<discord, request, extension, offered>>

-------------------------------------------------------------------------------
\* Punishment points

IssuePoints(c, p) ==
    /\ Len(awards) < MaxAwards
    /\ cases[c].status = "open"
    /\ Accused(c, p)
    /\ awards' = Append(awards, [case |-> c, player |-> p, revoked |-> FALSE])
    /\ AddEntry(c, "points")
    /\ Log("player.warn")
    /\ UNCHANGED <<cases, people, bans, appeals, flags, notices>>

CaseIssuePoints(s) ==
    /\ SeesCases(s, "cases.lead")
    /\ \E c \in DOMAIN cases, p \in Players : IssuePoints(c, p)
    /\ UNCHANGED <<discord, request, extension, offered>>

\* Mutant: points that were already revoked are revoked again.
RevokePointsAgain(a) ==
    /\ timeline[awards[a].case]["points_revoked"] < MaxAwards + 1
    /\ awards' = [awards EXCEPT ![a].revoked = TRUE]
    /\ AddEntry(awards[a].case, "points_revoked")
    /\ Log("player.warn_revoke")
    /\ UNCHANGED <<cases, people, bans, appeals, flags, notices>>

\* RevokePoints locks the award, not the case, which may be closed.
RevokePoints(a) ==
    /\ ~awards[a].revoked
    /\ awards' = [awards EXCEPT ![a].revoked = TRUE]
    /\ AddEntry(awards[a].case, "points_revoked")
    /\ Log("player.warn_revoke")
    /\ UNCHANGED <<cases, people, bans, appeals, flags, notices>>

PointsRevoke(s) ==
    /\ SeesCases(s, "cases.close")
    /\ \E a \in DOMAIN awards : RevokePoints(a)
    /\ UNCHANGED <<discord, request, extension, offered>>

-------------------------------------------------------------------------------
\* Bans

\* A request goes on to Discord when the ban is one of Discord's too and the
\* player has an account there; otherwise it is over.
ThenDiscord(w, p, scope, lift) ==
    request' = [request EXCEPT ![w] = IF scope = "game_discord" /\ p \in Linked
                                      THEN [at |-> "telling", player |-> p, lift |-> lift]
                                      ELSE Idle]

Asked(s, c, p, timed, scope) ==
    [at |-> "asked", by |-> s, case |-> c, player |-> p, timed |-> timed, scope |-> scope]

MayBan(s, timed) == SeesCases(s, "bans.issue") /\ (timed \/ Can(s, "bans.permanent"))

\* BanIssue from a case.  A case asked for need not be one that has the player.
BanIssue(w, s) ==
    /\ request[w] = Idle
    /\ \E c \in DOMAIN cases, p \in Players \ {s}, timed \in Lengths, scope \in Scopes :
         /\ MayBan(s, timed)
         /\ request' = [request EXCEPT ![w] = Asked(s, c, p, timed, scope)]
    /\ UNCHANGED <<tables, discord, extension, offered>>

\* BanIssue from Player Lookup: a new case first, in a transaction of its own.
BanIssueNew(w, s) ==
    /\ request[w] = Idle /\ Can(s, "cases.lead")
    /\ \E p \in Players \ {s}, timed \in Lengths, scope \in Scopes :
         /\ MayBan(s, timed)
         /\ Open(s, {p}, None)
         /\ request' = [request EXCEPT ![w] = Asked(s, Len(cases) + 1, p, timed, scope)]
    /\ UNCHANGED <<discord, extension, offered>>

\* Mutant: the status of the case is not looked at again under its lock.
LockCaseClosed(w) ==
    LET r == request[w] IN
    /\ r.at = "asked" /\ ~Locked(r.case)
    /\ request' = [request EXCEPT ![w] =
           IF Accused(r.case, r.player) /\ ActiveBans(r.player) = {}
           THEN [r EXCEPT !.at = "banning"] ELSE Idle]
    /\ UNCHANGED <<tables, discord, extension, offered>>

\* IssueBan locks the case, checks it and the player, and counts the active bans.
LockCase(w) ==
    LET r == request[w] IN
    /\ r.at = "asked" /\ ~Locked(r.case)
    /\ request' = [request EXCEPT ![w] =
           IF cases[r.case].status = "open" /\ Accused(r.case, r.player) /\ ActiveBans(r.player) = {}
           THEN [r EXCEPT !.at = "banning"] ELSE Idle]
    /\ UNCHANGED <<tables, discord, extension, offered>>

\* Its inserts and its commit, which unlocks the case.
InsertBan(w) ==
    LET r == request[w] IN
    /\ r.at = "banning"
    /\ Len(bans) < MaxBans
    /\ bans' = Append(bans, [case |-> r.case, player |-> r.player, by |-> r.by,
                             scope |-> r.scope, timed |-> r.timed, state |-> "active"])
    /\ timeline' = [timeline EXCEPT ![r.case]["ban"] = @ + 1]
    /\ Log("ban.issue")
    /\ ThenDiscord(w, r.player, r.scope, FALSE)
    /\ UNCHANGED <<cases, people, awards, appeals, flags, notices, discord, extension, offered>>

\* liftBanTx
LiftBan(b, action) ==
    /\ Active(b)
    /\ bans' = [bans EXCEPT ![b].state = "lifted"]
    /\ AddEntry(bans[b].case, "unban")
    /\ Log(action)

BanLift(w, s) ==
    /\ request[w] = Idle /\ SeesCases(s, "bans.revoke")
    /\ \E b \in DOMAIN bans :
         /\ LiftBan(b, "ban.lift")
         /\ ThenDiscord(w, bans[b].player, bans[b].scope, TRUE)
    /\ UNCHANGED <<cases, people, awards, appeals, flags, notices, discord, extension, offered>>

\* BanMember and UnbanMember
BanMember(p) == discord' = discord \cup {p}
UnbanMember(p) == discord' = discord \ {p}

\* discordBan, after the commit and best effort: the bot may not run, the call may fail.
DiscordBan(w) ==
    LET r == request[w] IN
    /\ r.at = "telling"
    /\ \/ IF r.lift THEN UnbanMember(r.player) ELSE BanMember(r.player)
       \/ UNCHANGED discord
    /\ request' = [request EXCEPT ![w] = Idle]
    /\ UNCHANGED <<tables, extension, offered>>

\* A timed ban runs out.
RunOut ==
    /\ \E b \in DOMAIN bans : Active(b) /\ bans[b].timed /\ bans' = [bans EXCEPT ![b].state = "ended"]
    /\ UNCHANGED <<cases, people, timeline, awards, appeals, flags, logged, notices, discord, request, extension, offered>>

\* AdminBan, the game's: a check and an insert in one transaction, no lock, no case.
AdminBanCheck ==
    /\ extension = None
    /\ \E p \in Players : ActiveBans(p) = {} /\ extension' = p
    /\ UNCHANGED <<tables, discord, request, offered>>

AdminBan ==
    /\ extension # None
    /\ Len(bans) < MaxBans
    /\ \E by \in Staff \ {extension}, timed \in Lengths :
         bans' = Append(bans, [case |-> None, player |-> extension, by |-> by,
                               scope |-> "game", timed |-> timed, state |-> "active"])
    /\ Log("ban.issue")
    /\ extension' = None
    /\ UNCHANGED <<cases, people, timeline, awards, appeals, flags, notices, discord, request, offered>>

-------------------------------------------------------------------------------
\* Appeals

Appealed(b) == {a \in DOMAIN appeals : appeals[a].ban = b}
OpenAppeal(b) == {a \in Appealed(b) : appeals[a].status = "open"}
LastStatus(b) ==
    IF Appealed(b) = {} THEN "none"
    ELSE appeals[CHOOSE a \in Appealed(b) : \A other \in Appealed(b) : other <= a].status

\* ActiveBan: of several the permanent one first, then the one that ends last.
ActiveBan(b) ==
    /\ Active(b)
    /\ \A other \in ActiveBans(bans[b].player) : bans[b].timed => bans[other].timed

\* SubmitAppeal looks up the ban and its last appeal before its transaction.
LookUpBan(w) ==
    /\ request[w] = Idle
    /\ \E b \in DOMAIN bans :
         /\ ActiveBan(b) /\ LastStatus(b) \notin {"open", "rejected"}
         /\ request' = [request EXCEPT ![w] = [at |-> "appealing", ban |-> b]]
    /\ UNCHANGED <<tables, discord, extension, offered>>

\* One open appeal for a ban: the unique index refuses a second.
SubmitAppeal(w) ==
    /\ request[w].at = "appealing"
    /\ LET b == request[w].ban IN
       IF OpenAppeal(b) # {} THEN UNCHANGED <<appeals, timeline>>
       ELSE /\ Len(appeals) < MaxAppeals
            /\ appeals' = Append(appeals, [ban |-> b, status |-> "open"])
            /\ AddEntry(bans[b].case, "appeal")
    /\ request' = [request EXCEPT ![w] = Idle]
    /\ UNCHANGED <<cases, people, awards, bans, flags, logged, notices, discord, extension, offered>>

\* DecideAppeal.  Accepting lifts the ban; one that has ended undoes the whole
\* decision, and the appeal stays open.
DecideAppeal(s, a, accept) ==
    LET b == appeals[a].ban IN
    /\ appeals[a].status = "open" /\ bans[b].player # s
    /\ appeals' = [appeals EXCEPT ![a].status = IF accept THEN "accepted" ELSE "rejected"]
    /\ IF accept THEN LiftBan(b, "ban.appeal_accept")
       ELSE AddEntry(bans[b].case, "appeal") /\ Log("ban.appeal_reject") /\ UNCHANGED bans
    /\ Notify(bans[b].player)

AppealDecide(w, s) ==
    /\ request[w] = Idle /\ SeesCases(s, "bans.appeal_review")
    /\ \E a \in DOMAIN appeals, accept \in BOOLEAN :
         LET b == appeals[a].ban IN
         /\ DecideAppeal(s, a, accept)
         /\ IF accept THEN ThenDiscord(w, bans[b].player, bans[b].scope, TRUE) ELSE UNCHANGED request
    /\ UNCHANGED <<cases, people, awards, flags, discord, extension, offered>>

-------------------------------------------------------------------------------
\* Anti-cheat flags

ReviewFlag(f, resolution) ==
    /\ logged["anticheat.dismiss"] + logged["anticheat.watch"] + logged["anticheat.reopen"] < MaxReviews
    /\ flags[f] # "case"
    /\ resolution = "open" => flags[f] # "open"
    /\ flags' = [flags EXCEPT ![f] = resolution]
    /\ \/ resolution = "open" /\ Log("anticheat.reopen")
       \/ resolution = "dismiss" /\ Log("anticheat.dismiss")
       \/ resolution = "watch" /\ Log("anticheat.watch")
    /\ UNCHANGED <<cases, people, timeline, awards, bans, appeals, notices>>

FlagReview(s) ==
    /\ Can(s, "anticheat.review")
    /\ \E f \in Flags, resolution \in {"dismiss", "watch", "open"} : ReviewFlag(f, resolution)
    /\ UNCHANGED <<discord, request, extension, offered>>

-------------------------------------------------------------------------------
\* The website or the game stops: open transactions are rolled back, a call to
\* Discord that was still to be made is not made.
Restart ==
    /\ \/ request' = [w \in Web |-> Idle] /\ UNCHANGED extension
       \/ extension' = None /\ UNCHANGED request
    /\ UNCHANGED <<tables, discord, offered>>

Offered(what) == what \in offered

Next ==
    \/ \E s \in Staff :
         \/ CaseCreate(s)
         \/ Offered("entries") /\ CaseAddEntry(s)
         \/ Offered("status") /\ CaseSetStatus(s)
         \/ Offered("people") /\ CaseAddParticipant(s)
         \/ Offered("points") /\ CaseIssuePoints(s)
         \/ Offered("points") /\ PointsRevoke(s)
         \/ Offered("flags") /\ FlagReview(s)
    \/ \E w \in Web, s \in Staff :
         \/ Offered("ban") /\ BanIssue(w, s)
         \/ Offered("new case") /\ BanIssueNew(w, s)
         \/ Offered("lift") /\ BanLift(w, s)
         \/ Offered("appeal") /\ AppealDecide(w, s)
    \/ \E w \in Web :
         \/ LockCase(w) \/ InsertBan(w) \/ DiscordBan(w) \/ SubmitAppeal(w)
         \/ Offered("appeal") /\ LookUpBan(w)
    \/ Offered("game") /\ AdminBanCheck
    \/ AdminBan
    \/ RunOut
    \/ Offered("restart") /\ Restart

Spec == Init /\ [][Next]_vars

-------------------------------------------------------------------------------
\* Properties

Requests ==
    {Idle}
    \cup [at : {"asked", "banning"}, by : Staff, case : 1..MaxCases, player : Players,
          timed : BOOLEAN, scope : {"game", "game_discord"}]
    \cup [at : {"telling"}, player : Linked, lift : BOOLEAN]
    \cup [at : {"appealing"}, ban : 1..MaxBans]

\* Every table holds rows of its kind and refers to rows that exist, and a request
\* is at one of its steps.
TypeOK ==
    /\ cases \in Seq([status : {"open", "closed"}, flag : Flags \cup {None}, players : Nat])
    /\ people \subseteq (DOMAIN cases) \X Players \X (Roles \cup {"subject"})
    /\ timeline \in [1..MaxCases -> [Kinds -> Nat]]
    /\ awards \in Seq([case : DOMAIN cases, player : Players, revoked : BOOLEAN])
    /\ bans \in Seq([case : (DOMAIN cases) \cup {None}, player : Players, by : Staff,
                     scope : {"game", "game_discord"}, timed : BOOLEAN,
                     state : {"active", "lifted", "ended"}])
    /\ appeals \in Seq([ban : DOMAIN bans, status : {"open", "accepted", "rejected"}])
    /\ flags \in [Flags -> {"open", "dismiss", "watch", "case"}]
    /\ logged \in [Actions -> Nat] /\ notices \in [Players -> Nat]
    /\ discord \subseteq Linked
    /\ request \in [Web -> Requests]
    /\ extension \in Players \cup {None}
    /\ offered \in Scenarios

Count(S) == Cardinality(S)
AwardsOf(c) == {a \in DOMAIN awards : awards[a].case = c}
BansOf(c) == {b \in DOMAIN bans : bans[b].case = c}
PeopleOf(c) == {x \in people : x[1] = c}
AppealsOf(c) == {a \in DOMAIN appeals : bans[appeals[a].ban].case = c}
Lifted == {b \in DOMAIN bans : bans[b].state = "lifted"}
Revoked == {a \in DOMAIN awards : awards[a].revoked}
Rejected == {a \in DOMAIN appeals : appeals[a].status = "rejected"}
Accepted == {a \in DOMAIN appeals : appeals[a].status = "accepted"}
Reviewed == {f \in Flags : flags[f] \in {"dismiss", "watch"}}
Closed == {c \in DOMAIN cases : cases[c].status = "closed"}

\* A case's timeline tells what was done in it, once: each award and each revocation,
\* each ban and each lift, each appeal and each refusal of one, the flag it came from,
\* and as many status entries as take it to its status (addEntry in every transaction,
\* undone with it).  A note and a correction are the entry itself.
TimelineComplete ==
    \A c \in DOMAIN cases :
        /\ timeline[c]["points"] = Count(AwardsOf(c))
        /\ timeline[c]["points_revoked"] = Count(AwardsOf(c) \cap Revoked)
        /\ timeline[c]["ban"] = Count(BansOf(c))
        /\ timeline[c]["unban"] = Count(BansOf(c) \cap Lifted)
        /\ timeline[c]["appeal"] = Count(AppealsOf(c)) + Count(AppealsOf(c) \cap Rejected)
        /\ timeline[c]["flag"] = Count({cases[c].flag} \ {None})
        /\ c \in Closed <=> timeline[c]["status"] % 2 = 1

\* Everyone who takes part in a case is one of those the log's row of its opening
\* counts, or has an entry in its timeline (AddParticipant, which logs nothing).
PeopleComplete == \A c \in DOMAIN cases : Count(PeopleOf(c)) = cases[c].players + timeline[c]["participant"]

\* The staff log has a row for each opening, closing and reopening of a case, for points
\* and bans given and taken back and for appeals decided, and no other: what is undone
\* leaves none behind (LogStaffAction in the same transaction).  Notes, participants and
\* appeals handed in are in the timeline only (EveryWriteLogged below).
LogComplete ==
    /\ logged["case.open"] = Len(cases)
    /\ logged["case.close"] - logged["case.reopen"] = Count(Closed)
    /\ logged["player.warn"] = Len(awards) /\ logged["player.warn_revoke"] = Count(Revoked)
    /\ logged["ban.issue"] = Len(bans)
    /\ logged["ban.lift"] + logged["ban.appeal_accept"] = Count(Lifted)
    /\ logged["ban.appeal_accept"] = Count(Accepted)
    /\ logged["ban.appeal_reject"] = Count(Rejected)

\* A flag that is dismissed or watched has a row in the log that nothing took back; it
\* may have more, and keeps them when a case is opened from it (ReviewFlag).
ReviewsLogged == Count(Reviewed) + logged["anticheat.reopen"] <= logged["anticheat.dismiss"] + logged["anticheat.watch"]

\* What was done to a case, a player or a flag is on record where the code puts it, once.
RecordComplete == TypeOK /\ TimelineComplete /\ PeopleComplete /\ LogComplete /\ ReviewsLogged

\* cases.go: "Every write also goes to staff_log".  Not so for a note, a participant and
\* an appeal handed in, which only the timeline has.
EveryWriteLogged == [][timeline' # timeline => logged' # logged]_vars

\* However many requests ban at once, a player has one running ban from a case at
\* most (the case's lock around the count and the insert of IssueBan), and a ban has
\* one open appeal at most.
OneFromEachCase ==
    /\ \A c \in DOMAIN cases, p \in Players : Count(BansOf(c) \cap ActiveBans(p)) <= 1
    /\ \A b \in DOMAIN bans : Count(OpenAppeal(b)) <= 1

\* An accepted appeal has lifted its ban: a decision that could not lift it, because
\* the ban ended or was lifted meanwhile, is as if never made, and the appeal can
\* still be rejected (the rollback of DecideAppeal).
AppealsHonoured == \A a \in Accepted : appeals[a].ban \in Lifted

\* Nobody is punished from a closed case: points and bans are only ever added to one
\* that is open, whoever closes it meanwhile (lockCase in IssuePoints and IssueBan).
PunishedWhileOpen ==
    [][\A c \in DOMAIN cases :
         \/ timeline'[c]["points"] > timeline[c]["points"]
         \/ timeline'[c]["ban"] > timeline[c]["ban"]
         => cases[c].status = "open"]_vars

DiscordBans(p) == {b \in DOMAIN bans : bans[b].player = p /\ bans[b].scope = "game_discord"}

\* Discord follows the bans of that scope: someone is banned there only when they
\* have been banned in such a way, and unbanned only after such a ban was lifted
\* (discordBan after the commit, for the Discord ID the transaction returned).
DiscordFollows ==
    [][\A p \in Players :
         /\ p \in discord' \ discord => DiscordBans(p) # {}
         /\ p \in discord \ discord' => DiscordBans(p) \cap Lifted # {}]_vars

\* Bans, appeals and Discord together, through every interleaving.
BansHold == []OneFromEachCase /\ []AppealsHonoured /\ PunishedWhileOpen /\ DiscordFollows

\* Who has their ban lifted is not banned any more ("Ban lifted. They can connect
\* again.", BanLift).
LiftedIsFree ==
    [][\A b \in DOMAIN bans :
         Active(b) /\ bans'[b].state = "lifted" => ActiveBans(bans[b].player) = {b}]_vars

===============================================================================
