--------------------------------- MODULE Access ---------------------------------
(***************************************************************************)
(* Who is whom on the website, and what staff may do.  Players sign in     *)
(* with Steam, which makes their row the first time, or with a Discord     *)
(* account that is linked; each request reads their access to the panel    *)
(* anew, twice.  Link codes, shown on the website and typed into Discord,  *)
(* link accounts.  Who may manage the ranks of the staff edits, moves,     *)
(* creates and deletes them, under a lock of the rank and by what they     *)
(* read of themselves before.  The game makes rows of players too.         *)
(*                                                                         *)
(* The support panel is let into like the admin panel and is left out.     *)
(* Who becomes staff, and by whom, is Careers'; here any change its        *)
(* seniority allows may happen.                                            *)
(***************************************************************************)
EXTENDS RoleSync, SequencesExt

CONSTANTS
    Ranks,                 \* ids of staff_ranks
    FirstRanks,            \* the ranks in the beginning: [level, admin, perms] or Gone
    Gone,                  \* of a rank that is not there
    Levels,                \* the levels new ranks may be given
    SaveForms,             \* the forms of a rank's page: [rank, level, admin, perms]
    Overrides,             \* staff_permission_overrides: <<player, key, allow>>
    NoOverride,            \* keys that come from ranks only
    Codes, Browsers,
    Newcomers,             \* who never signed in or played
    FirstSessions,         \* the sessions of the browsers in the beginning
    TopLevel,
    Scenarios

RankRows == [level : 1..TopLevel, admin : BOOLEAN, perms : SUBSET STRING]
Sessions == [who : People, access : BOOLEAN]

\* "TopLevel is the highest staff level" (roles.go:82), and there is a rank at it.
ASSUME AccessAssumption ==
    /\ Ranks \subseteq Nat \ {0} /\ Levels \subseteq Nat \ {0} /\ TopLevel \in Nat
    /\ Newcomers \subseteq People
    /\ Overrides \subseteq People \X STRING \X BOOLEAN
    /\ FirstRanks \in [Ranks -> RankRows \cup {Gone}] /\ Gone \notin RankRows
    /\ \E r \in Ranks : FirstRanks[r] # Gone /\ FirstRanks[r].level = TopLevel
    /\ \A p \in People : LET r == FirstPlayers[p].rank IN r = 0 \/ (r \in Ranks /\ FirstRanks[r] # Gone)
    /\ SaveForms \subseteq [rank : Ranks, level : Nat \ {0}, admin : BOOLEAN, perms : SUBSET STRING]
    /\ FirstSessions \in [Browsers -> Sessions \cup {Null}]

VARIABLES
    ranks,       \* staff_ranks and rank_permissions
    rows,        \* who has a row of players
    banked,      \* who has rows of bank_accounts
    codes,       \* discord_link_codes that can be used: the owner
    sessions,    \* web_sessions, by browser: [who, access]
    requests,    \* what the request of a browser is doing
    offered      \* the operations of this behaviour

accessVars == <<ranks, rows, banked, codes, sessions, requests>>
panelVars == <<roleVars, accessVars, offered>>

NoRequest == [at |-> "idle"]
Offered(what) == what \in offered

AccessInit ==
    /\ offered \in Scenarios
    /\ RoleSyncInit(Offered("bot"))
    /\ ranks = FirstRanks
    /\ rows = People \ Newcomers /\ banked = rows
    /\ codes = [c \in Codes |-> Null]
    /\ sessions = FirstSessions
    /\ requests = [b \in Browsers |-> NoRequest]

Changes == changes < MaxChanges /\ changes' = changes + 1

GoOn(b, next) == requests' = [requests EXCEPT ![b] = next]

-------------------------------------------------------------------------------
\* Permissions

Overridden(p, key, allow) == <<p, key, allow>> \in Overrides
Standing == {r \in Ranks : ranks[r] # Gone}
Perms(p) == IF players[p].rank = 0 THEN {} ELSE ranks[players[p].rank].perms

LevelOf(r) == IF r = 0 THEN 0 ELSE ranks[r].level
Level(p) == LevelOf(players[p].rank)

\* Can: the inactive may do nothing, whatever their overrides.
Can(p, key) ==
    /\ players[p].rank # 0 /\ players[p].status = "active"
    /\ IF key \notin NoOverride /\ \E allow \in BOOLEAN : Overridden(p, key, allow)
       THEN Overridden(p, key, TRUE) ELSE key \in Perms(p)

\* resolvePanelAccess: an override needs no rank.
Access(p) ==
    /\ players[p].status = "active"
    /\ ~Overridden(p, "panel.admin", FALSE)
    /\ \/ Overridden(p, "panel.admin", TRUE)
       \/ players[p].rank # 0 /\ ranks[players[p].rank].admin

-------------------------------------------------------------------------------
\* Signing in

\* SteamCallback: who has a row is found; FindOrCreatePlayerBySteamUID.
SteamCallback(b, p) ==
    /\ requests[b] = NoRequest /\ sessions[b] = Null
    /\ GoOn(b, [at |-> IF p \in rows THEN "access" ELSE "create", who |-> p])
    /\ UNCHANGED <<roleVars, ranks, rows, banked, codes, sessions>>

\* Who was not found gets a row and bank accounts, in one transaction; uid is unique.
CreatePlayer(b) ==
    /\ requests[b].at = "create"
    /\ LET p == requests[b].who IN
       IF p \in rows THEN GoOn(b, NoRequest) /\ UNCHANGED <<rows, banked>>
       ELSE /\ rows' = rows \cup {p} /\ banked' = banked \cup {p}
            /\ GoOn(b, [at |-> "access", who |-> p])
    /\ UNCHANGED <<roleVars, ranks, codes, sessions>>

\* DiscordCallback, to sign in: only an account that is linked.
DiscordLogin(b, a) ==
    /\ requests[b] = NoRequest /\ sessions[b] = Null
    /\ \E p \in Owners(a) : GoOn(b, [at |-> "access", who |-> p])
    /\ UNCHANGED <<roleVars, ranks, rows, banked, codes, sessions>>

\* CreateSession reads the access, then inserts the session.
CreateSession(b) ==
    /\ requests[b].at = "access"
    /\ GoOn(b, [at |-> "insert", who |-> requests[b].who, access |-> Access(requests[b].who)])
    /\ UNCHANGED <<roleVars, ranks, rows, banked, codes, sessions>>

InsertSession(b) ==
    /\ requests[b].at = "insert" /\ GoOn(b, NoRequest)
    /\ sessions' = [sessions EXCEPT ![b] = [who |-> requests[b].who, access |-> requests[b].access]]
    /\ UNCHANGED <<roleVars, ranks, rows, banked, codes>>

\* Logout, and expires_at.
Logout(b) ==
    /\ requests[b] = NoRequest /\ sessions[b] # Null
    /\ sessions' = [sessions EXCEPT ![b] = Null]
    /\ UNCHANGED <<roleVars, ranks, rows, banked, codes, requests>>

-------------------------------------------------------------------------------
\* Requests

\* Middleware: livePanelAccess, and the session's row is brought up to date; when the
\* read fails, what the session says.
Middleware(b) ==
    /\ requests[b] = NoRequest /\ sessions[b] # Null
    /\ LET p == sessions[b].who
           enter(access, blind) == GoOn(b, [at |-> "route", who |-> p, access |-> access, blind |-> blind])
       IN \/ /\ enter(Access(p), FALSE)
             /\ sessions' = [sessions EXCEPT ![b].access = Access(p)]
             /\ UNCHANGED faults
          \/ Fault /\ enter(sessions[b].access, TRUE) /\ UNCHANGED sessions
    /\ UNCHANGED <<players, mappings, guild, bot, sync, left, notices, listening, drift, hands, changes,
                   ranks, rows, banked, codes>>

Admitted(b, access, blind) ==
    GoOn(b, IF access THEN [requests[b] EXCEPT !.at = "panel", !.blind = blind] ELSE NoRequest)

\* requirePanel reads it again; when the read fails, what the middleware found.
RequirePanel(b) ==
    /\ requests[b].at = "route"
    /\ \/ Admitted(b, Access(requests[b].who), FALSE) /\ UNCHANGED faults
       \/ Fault /\ Admitted(b, requests[b].access, TRUE)
    /\ UNCHANGED <<players, mappings, guild, bot, sync, left, notices, listening, drift, hands, changes,
                   ranks, rows, banked, codes, sessions>>

\* Any page of the panel that changes nothing of this.
Page(b) ==
    /\ requests[b].at = "panel" /\ GoOn(b, NoRequest)
    /\ UNCHANGED <<roleVars, ranks, rows, banked, codes, sessions>>

-------------------------------------------------------------------------------
\* Link codes

\* GenerateLinkCode
GenerateLinkCode(p, c) ==
    /\ codes[c] = Null /\ p \in rows /\ Changes
    /\ codes' = [codes EXCEPT ![c] = p]
    /\ UNCHANGED <<players, syncVars, ranks, rows, banked, sessions, requests>>

CodeExpires(c) ==
    /\ codes[c] # Null /\ codes' = [codes EXCEPT ![c] = Null]
    /\ UNCHANGED <<roleVars, ranks, rows, banked, sessions, requests>>

\* /link: ConsumeLinkCode claims the code and links in one transaction, which a
\* conflict rolls back; then a sync is started.
Link(g, c, a) ==
    /\ codes[c] # Null /\ sync[g] = Rest
    /\ LET p == codes[c] IN
       /\ Owners(a) \subseteq {p}
       /\ LinkDiscord(p, a)
       /\ Goes(g, [at |-> "sync", who |-> p])
    /\ codes' = [codes EXCEPT ![c] = Null]
    /\ UNCHANGED <<mappings, guild, bot, left, listening, drift, faults, hands, changes,
                   ranks, rows, banked, sessions, requests>>

-------------------------------------------------------------------------------
\* The game: EnsureBlankPlayer inserts the row, then the bank accounts, each in a
\* statement of its own; a row that is there already is left as it is.

EnsureBlankPlayer(p) ==
    /\ p \notin rows /\ rows' = rows \cup {p}
    /\ \/ banked' = banked \cup {p} /\ UNCHANGED faults
       \/ Fault /\ UNCHANGED banked
    /\ UNCHANGED <<players, mappings, guild, bot, sync, left, notices, listening, drift, hands, changes,
                   ranks, codes, sessions, requests>>

-------------------------------------------------------------------------------
\* The ranks: RoleSave, RoleMove, RoleCreate, RoleDelete.  Each is a transaction that
\* reads the actor's level, then locks the rank.

Forms ==
    {[op |-> "save", rank |-> f.rank, level |-> f.level, admin |-> f.admin, perms |-> f.perms] : f \in SaveForms}
    \cup [op : {"move"}, rank : Ranks, up : BOOLEAN]
    \cup [op : {"create"}, level : Levels]
    \cup [op : {"delete"}, rank : Ranks]
    \cup [op : {"map"}, maps : MapForms]

\* What a form may ask for in this behaviour.
Asked == {form \in Forms : Offered(form.op) /\ (form.op \in {"create", "map"} \/ form.rank \in Standing)}

\* RequirePermission("roles.manage"), then ActorLevel.
ActorLevel(b) ==
    /\ requests[b].at = "panel" /\ Can(requests[b].who, "roles.manage")
    /\ \E form \in Asked :
         GoOn(b, [at |-> "lock", who |-> requests[b].who, level |-> Level(requests[b].who), form |-> form])
    /\ UNCHANGED <<roleVars, ranks, rows, banked, codes, sessions>>

\* CanEdit
CanEdit(rankLevel, actorLevel) ==
    rankLevel < actorLevel \/ (actorLevel >= TopLevel /\ rankLevel <= actorLevel)

\* Ranks a request has locked, until its transaction ends.
Holds(b) == IF requests[b].at \in {"own", "write", "neighbour", "swap", "count", "remove"}
            THEN {requests[b].form.rank} ELSE {}

\* Mutant: the rank is read without FOR UPDATE.
LockedNever(r) == FALSE

Locked(r) == \E b \in Browsers : r \in Holds(b)

Refuse(b) == GoOn(b, NoRequest)
LevelUsed(level, except) == \E r \in Standing \ {except} : ranks[r].level = level

\* Update may change the level of this rank to that.
MayRelevel(rank, level, actorLevel) ==
    level = ranks[rank].level \/
    (ranks[rank].level < actorLevel /\ level < actorLevel /\ ~LevelUsed(level, rank))

\* lockRank, and what is checked with it; a rank that was deleted meanwhile is not there.
LockRank(b) ==
    /\ requests[b].at = "lock" /\ requests[b].form.op \notin {"create", "map"}
    /\ LET form == requests[b].form
           next == [requests[b] EXCEPT !.at = CASE form.op = "save" -> "own" [] form.op = "move" -> "neighbour"
                                                [] form.op = "delete" -> "count"]
       IN /\ ~Locked(form.rank)
          /\ IF \/ form.rank \notin Standing
                \/ form.op # "move" /\ ~CanEdit(ranks[form.rank].level, requests[b].level)
                \/ form.op = "save" /\ ~MayRelevel(form.rank, form.level, requests[b].level)
             THEN Refuse(b) ELSE GoOn(b, next)
    /\ UNCHANGED <<roleVars, ranks, rows, banked, codes, sessions>>

\* Update reads whether the rank is the actor's own, and what they may grant.
ReadOwn(b) ==
    /\ requests[b].at = "own"
    /\ LET form == requests[b].form
           p == requests[b].who
       IN IF \/ players[p].rank = form.rank /\ ~(form.admin /\ "roles.manage" \in form.perms)
             \/ \E key \in form.perms \ ranks[form.rank].perms : ~Can(p, key)
          THEN Refuse(b) ELSE GoOn(b, [requests[b] EXCEPT !.at = "write"])
    /\ UNCHANGED <<roleVars, ranks, rows, banked, codes, sessions>>

SaveRank(b) ==
    /\ requests[b].at = "write" /\ GoOn(b, NoRequest)
    /\ LET form == requests[b].form IN
       ranks' = [ranks EXCEPT ![form.rank] = [level |-> form.level, admin |-> form.admin, perms |-> form.perms]]
    /\ UNCHANGED <<roleVars, rows, banked, codes, sessions>>

\* Move: the nearest ranks above, or below, in order.
Neighbours(rank, up) ==
    LET level == ranks[rank].level
        side == {r \in Standing : IF up THEN ranks[r].level > level ELSE ranks[r].level < level}
    IN SetToSortSeq(side, LAMBDA r, s : IF up THEN ranks[r].level < ranks[s].level
                                              ELSE ranks[r].level > ranks[s].level)

PickNeighbour(b) ==
    /\ requests[b].at = "neighbour"
    /\ LET form == requests[b].form IN
       GoOn(b, [at |-> "swap", who |-> requests[b].who, level |-> requests[b].level, form |-> form,
                among |-> Neighbours(form.rank, form.up)])
    /\ UNCHANGED <<roleVars, ranks, rows, banked, codes, sessions>>

\* The nearest that is still there, above or below, is locked; the two levels are swapped.
SwapRanks(b) ==
    /\ requests[b].at = "swap"
    /\ LET form == requests[b].form
           mine == ranks[form.rank].level
           other == Head(requests[b].among)
           theirs == ranks[other].level
       IN IF requests[b].among = <<>> THEN Refuse(b) /\ UNCHANGED ranks
          ELSE /\ ~Locked(other)
               /\ IF other \notin Standing \/ (IF form.up THEN theirs <= mine ELSE theirs >= mine)
                  THEN GoOn(b, [requests[b] EXCEPT !.among = Tail(@)]) /\ UNCHANGED ranks
                  ELSE /\ Refuse(b)
                       /\ IF mine >= requests[b].level \/ theirs >= requests[b].level THEN UNCHANGED ranks
                          ELSE ranks' = [ranks EXCEPT ![form.rank].level = theirs, ![other].level = mine]
    /\ UNCHANGED <<roleVars, rows, banked, codes, sessions>>

\* Two moves that wait for each other's rank: the database ends one of them.
DeadlockFound(b) ==
    /\ requests[b].at = "swap" /\ requests[b].among # <<>>
    /\ \E other \in Browsers \ {b} :
         /\ requests[other].at = "swap" /\ requests[other].among # <<>>
         /\ Head(requests[b].among) \in Holds(other) /\ Head(requests[other].among) \in Holds(b)
    /\ Refuse(b)
    /\ UNCHANGED <<roleVars, ranks, rows, banked, codes, sessions>>

\* Create: the level is looked up, then the rank inserted; nothing says levels are unique.
ReadLevels(b) ==
    /\ requests[b].at = "lock" /\ requests[b].form.op = "create"
    /\ LET level == requests[b].form.level IN
       IF level >= requests[b].level \/ LevelUsed(level, 0) THEN Refuse(b)
       ELSE GoOn(b, [requests[b] EXCEPT !.at = "create_rank"])
    /\ UNCHANGED <<roleVars, ranks, rows, banked, codes, sessions>>

CreateRank(b) ==
    /\ requests[b].at = "create_rank" /\ GoOn(b, NoRequest)
    /\ \E r \in Ranks \ Standing :
         ranks' = [ranks EXCEPT ![r] = [level |-> requests[b].form.level, admin |-> FALSE, perms |-> {}]]
    /\ UNCHANGED <<roleVars, rows, banked, codes, sessions>>

Tops == {r \in Standing : ranks[r].level >= TopLevel}

\* Delete: a rank with members is kept, and the last one at the top.
Kept(r) == (\E p \in People : players[p].rank = r) \/ (r \in Tops /\ Cardinality(Tops) <= 1)

CountMembers(b) ==
    /\ requests[b].at = "count"
    /\ IF Kept(requests[b].form.rank) THEN Refuse(b) ELSE GoOn(b, [requests[b] EXCEPT !.at = "remove"])
    /\ UNCHANGED <<roleVars, ranks, rows, banked, codes, sessions>>

\* staff_rank_id is ON DELETE SET NULL.
DeleteRank(b) ==
    /\ requests[b].at = "remove" /\ GoOn(b, NoRequest)
    /\ LET r == requests[b].form.rank IN
       /\ ranks' = [ranks EXCEPT ![r] = Gone]
       /\ players' = [p \in People |-> IF players[p].rank = r THEN [players[p] EXCEPT !.rank = 0] ELSE players[p]]
    /\ UNCHANGED <<syncVars, changes, rows, banked, codes, sessions>>

\* SaveMappings: the mappings it sees are deleted, its own are inserted, in one
\* transaction.  Those that another save commits in between it does not see.
DeleteMappings(b) ==
    /\ requests[b].at = "lock" /\ requests[b].form.op = "map" /\ Changes
    /\ GoOn(b, [at |-> "mappings", who |-> requests[b].who, form |-> requests[b].form, late |-> FALSE])
    /\ UNCHANGED <<players, syncVars, ranks, rows, banked, codes, sessions>>

SaveMappings(b) ==
    /\ requests[b].at = "mappings"
    /\ mappings' = requests[b].form.maps \cup (IF requests[b].late THEN mappings ELSE {})
    /\ requests' = [other \in Browsers |->
                      IF other = b THEN NoRequest
                      ELSE IF requests[other].at = "mappings" THEN [requests[other] EXCEPT !.late = TRUE]
                      ELSE requests[other]]
    /\ UNCHANGED <<players, guild, bot, sync, left, notices, listening, drift, faults, hands, changes,
                   ranks, rows, banked, codes, sessions>>

-------------------------------------------------------------------------------
\* Changes of players by others: ranks and statuses of staff, levels of factions

\* SetRank, by who may: the foreign key waits for a lock of the rank.
SetRank(p, r) ==
    /\ p \in rows /\ Changes
    /\ \E by \in People \ {p} :
         /\ Can(by, "staff.edit")
         /\ Level(by) >= TopLevel \/ (Level(p) < Level(by) /\ LevelOf(r) < Level(by))
    /\ players[p].rank # r /\ ~Locked(r)
    /\ players' = [players EXCEPT ![p].rank = r] /\ Notify(p)
    /\ UNCHANGED <<mappings, guild, bot, sync, left, listening, drift, faults, hands,
                   ranks, rows, banked, codes, sessions, requests>>

SetStatus(p, status) ==
    /\ Changes
    /\ players[p].rank # 0 /\ players[p].status # status
    /\ players' = [players EXCEPT ![p].status = status] /\ Notify(p)
    /\ UNCHANGED <<mappings, guild, bot, sync, left, listening, drift, faults, hands,
                   ranks, rows, banked, codes, sessions, requests>>

SetFactionLevel(p, level) ==
    /\ Changes
    /\ p \in rows /\ players[p].police # level
    /\ players' = [players EXCEPT ![p].police = level] /\ Notify(p)
    /\ UNCHANGED <<mappings, guild, bot, sync, left, listening, drift, faults, hands,
                   ranks, rows, banked, codes, sessions, requests>>

-------------------------------------------------------------------------------

\* DiscordConnect, and the profile's re-sync, of who is signed in.
DiscordConnect(b, a) ==
    /\ requests[b] = NoRequest /\ sessions[b] # Null /\ Changes
    /\ Connect(sessions[b].who, a)
    /\ UNCHANGED accessVars

DiscordReconnect(b, g, a) ==
    /\ requests[b] = NoRequest /\ sessions[b] # Null /\ Changes
    /\ Reconnect(g, sessions[b].who, a)
    /\ UNCHANGED accessVars

\* What the bot does by itself, and what its process suffers.
Bot ==
    /\ \/ \E g \in SyncRoutines : Advance(g) \/ DatabaseFails(g)
       \/ Listen \/ StartPass \/ SyncAll \/ ListenerStops \/ ListenerReconnects \/ ProcessRestarts
    /\ UNCHANGED accessVars

Guild ==
    /\ \/ Offered("sync") /\ \E g \in Async : SyncPlayerAsync(g)
       \/ Offered("guild") /\ \E g \in Async, a \in Accounts : MemberAdd(g, a)
       \/ Offered("guild") /\ \E a \in Accounts : MemberLeaves(a)
       \/ Offered("hand") /\ \E a \in Accounts, role \in Groups : ByHand(a, role)
       \/ Offered("hand") /\ \E g \in Async, a \in Accounts : CheckDrift(g, a)
       \/ Offered("unlink") /\ \E g \in Async : Unlink(g)
    /\ UNCHANGED accessVars

SigningIn ==
    \/ Offered("join") /\ \E b \in Browsers, p \in People : SteamCallback(b, p)
    \/ Offered("join") /\ \E b \in Browsers, a \in Accounts : DiscordLogin(b, a)
    \/ \E b \in Browsers : CreatePlayer(b) \/ CreateSession(b) \/ InsertSession(b)
    \/ Offered("join") /\ \E b \in Browsers : Logout(b)
    \/ Offered("join") /\ \E p \in People : EnsureBlankPlayer(p)

Linking ==
    \/ Offered("code") /\ \E p \in People, c \in Codes : GenerateLinkCode(p, c)
    \/ Offered("code") /\ \E c \in Codes : CodeExpires(c)
    \/ Offered("code") /\ \E g \in Async, c \in Codes, a \in Accounts : Link(g, c, a)
    \/ Offered("connect") /\ \E b \in Browsers, a \in Accounts : DiscordConnect(b, a)
    \/ Offered("reconnect") /\ \E b \in Browsers, g \in Async, a \in Accounts : DiscordReconnect(b, g, a)

Panel ==
    \/ Offered("panel") /\ \E b \in Browsers : Middleware(b)
    \/ \E b \in Browsers : RequirePanel(b) \/ Page(b) \/ ActorLevel(b)

Ranking ==
    \E b \in Browsers :
        \/ LockRank(b) \/ ReadOwn(b) \/ SaveRank(b)
        \/ PickNeighbour(b) \/ SwapRanks(b) \/ DeadlockFound(b)
        \/ ReadLevels(b) \/ CreateRank(b)
        \/ CountMembers(b) \/ DeleteRank(b)
        \/ DeleteMappings(b) \/ SaveMappings(b)

Others ==
    \/ Offered("rank") /\ \E p \in People, r \in Standing \cup {0} : SetRank(p, r)
    \/ Offered("status") /\ \E p \in People, status \in {"active", "loa", "suspended"} : SetStatus(p, status)
    \/ Offered("level") /\ \E p \in People, level \in 0..1 : SetFactionLevel(p, level)

AccessNext ==
    /\ Bot \/ Guild \/ SigningIn \/ Linking \/ Panel \/ Ranking \/ Others
    /\ UNCHANGED offered

AccessSpec == AccessInit /\ [][AccessNext]_panelVars /\ Run

-------------------------------------------------------------------------------
\* Properties

\* However ranks are moved, relevelled and deleted, and members come and go, there is
\* a rank at the top for someone to be given, and nobody has a rank that is gone ("the
\* last level-100 rank can't be removed", roles.go:16).
RanksStand ==
    /\ Tops # {}
    /\ \A p \in People : players[p].rank \in Standing \cup {0}

\* No edit of the ranks takes anybody's rank away: who was given one while it was about
\* to be deleted keeps it ("a rank with members can't be deleted", roles.go:16-17).
StaffKeepRanks ==
    [][ranks' # ranks => \A p \in People : players'[p].rank = players[p].rank]_panelVars

\* Unless the database fails, nobody is let into the panel who lost their access after
\* signing in, or between the two checks of a request.
AdmittedOnlyStaff ==
    [][\A b \in Browsers :
          (requests[b].at # "panel" /\ requests'[b].at = "panel" /\ ~requests'[b].blind)
            => Access(requests[b].who)]_panelVars

\* Who is staff stays so and gets in, and nobody else.
AccessHolds == []RanksStand /\ StaffKeepRanks /\ AdmittedOnlyStaff

\* Every player has bank accounts ("same transaction as far as this call is
\* concerned", db.cpp:200).
EverybodyBanks == rows \subseteq banked

\* Two ranks are never at one level ("to an unused level below yours", roles.go:12).
LevelsDiffer == \A r, s \in Standing : r # s => ranks[r].level # ranks[s].level

\* The rank at the top keeps the permission to manage the ranks (roles.go:7-11).
TopKeepsRoles == \A r \in Tops : "roles.manage" \in ranks[r].perms

\* The mappings are those of one form ("SaveMappings replaces", settings.go:83).
OneForm == mappings \in MapForms

===============================================================================
