-------------------------------- MODULE RoleSync --------------------------------
(***************************************************************************)
(* Discord roles follow the website's database.  What a player is gives    *)
(* them entitlements, a table maps entitlements to roles, and a sync reads *)
(* both, then the member's roles, and makes the calls that bring them into *)
(* step.  A sync is run by the listener for changes of the database, by    *)
(* the full pass every quarter of an hour, and by goroutines that events   *)
(* start: someone links, joins the guild, is changed by hand, is synced    *)
(* with a command.  Unlinking, and linking another account, strip the old  *)
(* account first.                                                          *)
(*                                                                         *)
(* Each read and each call is a step of its own.  Calls fail, the listener *)
(* loses its connection and with it what it was not told yet, the process  *)
(* stops: these are faults.  EMS levels and gangs give entitlements the    *)
(* way police levels do, and are left out, as is the sync log.             *)
(***************************************************************************)
EXTENDS Integers, Sequences, FiniteSets

CONSTANTS
    People, Accounts,      \* players, Discord accounts
    Groups,                \* roles of the guild
    Teams,
    MapForms,              \* the mappings an admin may save: sets of <<entitlement, group>>
    FirstPlayers,          \* the players in the beginning
    FirstMembers,          \* the accounts that are in the guild in the beginning
    Async,                 \* goroutines other than the listener and the full pass
    Null,
    MaxFaults, MaxHands, MaxChanges   \* bounds: faults, changes of roles by hand, of players

Persons == [rank : Nat, status : {"active", "loa", "suspended"}, team : Teams \cup {Null},
            police : Nat, discord : Accounts \cup {Null}]

ASSUME RoleSyncAssumption ==
    /\ {MaxFaults, MaxHands, MaxChanges} \subseteq Nat
    /\ Null \notin People \cup Accounts \cup Teams \cup Groups
    /\ {"listener", "pass"} \cap Async = {}
    /\ FirstMembers \subseteq Accounts
    /\ FirstPlayers \in [People -> Persons]
    /\ \A form \in MapForms : \A m \in form : m[2] \in Groups

VARIABLES
    players,     \* of players: [rank, status, team, police, discord]
    mappings,    \* platform_group_map
    guild,       \* the roles of an account in the guild; Null when it is not in it
    bot,         \* is there a Discord bot, and with it a sync engine
    sync,        \* what each goroutine is doing
    left,        \* whom the full pass has still to sync
    notices,     \* whom the listener was notified of
    listening,   \* does the listener have its connection
    drift,       \* accounts with a drift timer
    faults, hands, changes

syncVars == <<mappings, guild, bot, sync, left, notices, listening, drift, faults, hands>>
roleVars == <<players, syncVars, changes>>

SyncRoutines == {"listener", "pass"} \cup Async
Rest == [at |-> "rest"]

RoleSyncInit(on) ==
    /\ players = FirstPlayers
    /\ mappings \in IF on THEN MapForms ELSE {{}}
    /\ bot = on
    /\ guild = [a \in Accounts |-> IF on /\ a \in FirstMembers THEN {} ELSE Null]
    /\ sync = [g \in SyncRoutines |-> Rest]
    /\ left = {} /\ notices = {} /\ listening = on /\ drift = {}
    /\ faults = 0 /\ hands = 0 /\ changes = 0

Fault == faults < MaxFaults /\ faults' = faults + 1

-------------------------------------------------------------------------------
\* Entitlements of a player.
Entitlements(p) ==
    LET player == players[p]
        onStaff == player.rank # 0
        of(condition, what) == IF condition THEN what ELSE {}
    IN {<<"linked">>}
       \cup of(onStaff /\ player.status = "active", {<<"staff">>, <<"staff_rank", player.rank>>})
       \cup of(onStaff /\ player.status = "loa", {<<"staff_loa">>})
       \cup of(onStaff /\ player.status # "suspended" /\ player.team # Null,
               {<<"staff_team", player.team>>})
       \cup of(player.police > 0, {<<"faction", "police">>, <<"faction_rank", player.police>>})

Managed(maps) == {m[2] : m \in maps}
Wanted(maps, ents) == {m[2] : m \in {x \in maps : x[1] \in ents}}

\* Plan: mapped groups only.
Plan(maps, ents, current) ==
    [add |-> Wanted(maps, ents) \ current,
     remove |-> (current \cap Managed(maps)) \ Wanted(maps, ents)]

\* FindPlayerByDiscordID
Owners(a) == {p \in People : players[p].discord = a}

\* log_player_changes notifies rank_changed; nobody hears it without a connection.
Notify(p) == notices' = IF listening THEN notices \cup {p} ELSE notices

-------------------------------------------------------------------------------
\* A sync of one player: SyncPlayer

Starts(g, p) ==
    sync' = [sync EXCEPT ![g] = [at |-> "mappings", who |-> p, ents |-> Entitlements(p), then |-> Rest]]

Goes(g, next) == sync' = [sync EXCEPT ![g] = next]

Mappings(g) ==
    /\ sync[g].at = "mappings"
    /\ Goes(g, IF mappings = {} THEN Rest
               ELSE [at |-> "identity", who |-> sync[g].who, ents |-> sync[g].ents,
                     maps |-> mappings, then |-> sync[g].then])
    /\ UNCHANGED <<players, mappings, guild, bot, left, notices, listening, drift, faults, hands, changes>>

Identities(g) ==
    /\ sync[g].at = "identity"
    /\ LET a == players[sync[g].who].discord IN
       Goes(g, IF a = Null THEN Rest
               ELSE [at |-> "groups", who |-> sync[g].who, ents |-> sync[g].ents,
                     maps |-> sync[g].maps, account |-> a, then |-> sync[g].then])
    /\ UNCHANGED <<players, mappings, guild, bot, left, notices, listening, drift, faults, hands, changes>>

\* The database does not answer: this player's sync is over.
DatabaseFails(g) ==
    /\ sync[g].at \in {"mappings", "identity"} /\ Fault /\ Goes(g, Rest)
    /\ UNCHANGED <<players, mappings, guild, bot, left, notices, listening, drift, hands, changes>>

\* The member's roles are read, which may fail; one who is not in the guild is skipped.
CurrentGroups(g) ==
    /\ sync[g].at = "groups"
    /\ LET a == sync[g].account
           plan == Plan(sync[g].maps, sync[g].ents, guild[a])
           calls == [at |-> "calls", who |-> sync[g].who, account |-> a, then |-> sync[g].then,
                     add |-> plan.add, remove |-> plan.remove]
       IN \/ /\ Goes(g, IF guild[a] = Null THEN sync[g].then
                        ELSE IF plan.add \cup plan.remove = {} THEN sync[g].then ELSE calls)
             /\ UNCHANGED faults
          \/ Fault /\ Goes(g, sync[g].then)
    /\ UNCHANGED <<players, mappings, guild, bot, left, notices, listening, drift, hands, changes>>

\* The calls that are left, when this one was made.
CallMade(g, add, remove) ==
    Goes(g, IF add \cup remove = {} THEN sync[g].then
            ELSE [sync[g] EXCEPT !.add = add, !.remove = remove])

\* Who changes a member's roles, the bot included, sets off its drift timer: onMemberUpdate.
Changed(a, roles) ==
    /\ guild' = [guild EXCEPT ![a] = roles]
    /\ drift' = drift \cup {a}

\* A call reaches Discord and its answer comes back or not; or it fails; a member who
\* left has no roles.
Call(g, a, roles) ==
    \/ guild[a] = Null /\ UNCHANGED <<guild, drift, faults>>
    \/ guild[a] # Null /\ Changed(a, roles) /\ UNCHANGED faults
    \/ guild[a] # Null /\ Fault /\ UNCHANGED <<guild, drift>>

\* AddGroup, for each group to add.
AddGroup(g) ==
    /\ sync[g].at = "calls"
    /\ \E role \in sync[g].add :
         /\ Call(g, sync[g].account, guild[sync[g].account] \cup {role})
         /\ CallMade(g, sync[g].add \ {role}, sync[g].remove)
    /\ UNCHANGED <<players, mappings, bot, left, notices, listening, hands, changes>>

\* RemoveGroup, after them, for each group to remove.
RemoveGroup(g) ==
    /\ sync[g].at = "calls" /\ sync[g].add = {}
    /\ \E role \in sync[g].remove :
         /\ Call(g, sync[g].account, guild[sync[g].account] \ {role})
         /\ CallMade(g, {}, sync[g].remove \ {role})
    /\ UNCHANGED <<players, mappings, bot, left, notices, listening, hands, changes>>

-------------------------------------------------------------------------------
\* Who starts one

\* The listener takes the next notification.
Listen ==
    /\ listening /\ sync["listener"] = Rest
    /\ \E p \in notices : notices' = notices \ {p} /\ Starts("listener", p)
    /\ UNCHANGED <<players, mappings, guild, bot, left, listening, drift, faults, hands, changes>>

\* Mutant: there is no full pass.
StartPassNever == FALSE /\ UNCHANGED roleVars

\* SyncAll: whoever has an account when the pass starts, one after the other.
StartPass ==
    /\ bot /\ sync["pass"] = Rest /\ left = {}
    /\ left' = {p \in People : players[p].discord # Null} /\ left' # {}
    /\ UNCHANGED <<players, mappings, guild, bot, sync, notices, listening, drift, faults, hands, changes>>

SyncAll ==
    /\ sync["pass"] = Rest
    /\ \E p \in left : left' = left \ {p} /\ Starts("pass", p)
    /\ UNCHANGED <<players, mappings, guild, bot, notices, listening, drift, faults, hands, changes>>

\* syncPlayerAsync, /sync, the onboarding button, "Sync everyone now".
SyncPlayerAsync(g) ==
    /\ bot /\ sync[g] = Rest
    /\ \E p \in People : players[p].discord # Null /\ Starts(g, p)
    /\ UNCHANGED <<players, mappings, guild, bot, left, notices, listening, drift, faults, hands, changes>>

\* onMemberAdd: an account joins the guild; its player is synced.
MemberAdd(g, a) ==
    /\ guild[a] = Null /\ sync[g] = Rest /\ hands < MaxHands
    /\ guild' = [guild EXCEPT ![a] = {}] /\ hands' = hands + 1
    /\ IF Owners(a) = {} THEN UNCHANGED sync ELSE \E p \in Owners(a) : Starts(g, p)
    /\ UNCHANGED <<players, mappings, bot, left, notices, listening, drift, faults, changes>>

\* There is no handler for a member who leaves.
MemberLeaves(a) ==
    /\ guild[a] # Null /\ hands < MaxHands
    /\ guild' = [guild EXCEPT ![a] = Null] /\ hands' = hands + 1
    /\ UNCHANGED <<players, mappings, bot, sync, left, notices, listening, drift, faults, changes>>

\* A moderator of the guild gives or takes a role.
ByHand(a, role) ==
    /\ guild[a] # Null /\ hands < MaxHands
    /\ Changed(a, IF role \in guild[a] THEN guild[a] \ {role} ELSE guild[a] \cup {role})
    /\ hands' = hands + 1
    /\ UNCHANGED <<players, mappings, bot, sync, left, notices, listening, faults, changes>>

\* The timer of an account goes off; with the setting off, nothing comes of it.
CheckDrift(g, a) ==
    /\ a \in drift /\ sync[g] = Rest
    /\ drift' = drift \ {a}
    /\ \/ UNCHANGED sync
       \/ \E p \in Owners(a) : Starts(g, p)
    /\ UNCHANGED <<players, mappings, guild, bot, left, notices, listening, faults, hands, changes>>

-------------------------------------------------------------------------------
\* Linking, unlinking, and other changes

\* linkDiscordTx, in one transaction: discord_id is unique.
LinkDiscord(p, a) ==
    IF Owners(a) \ {p} # {} THEN UNCHANGED <<players, notices>>
    ELSE /\ players' = [players EXCEPT ![p].discord = a]
         /\ IF players[p].discord = a THEN UNCHANGED notices ELSE Notify(p)

\* Strip: every mapped role of an account is removed, then what the strip was for.
StartStrip(g, p, a, then) ==
    Goes(g, IF mappings = {} THEN then
            ELSE [at |-> "groups", who |-> p, ents |-> {}, maps |-> mappings, account |-> a,
                  then |-> then])

\* /unlink: the account pressing the button is its player's.
Unlink(g) ==
    /\ bot /\ sync[g] = Rest
    /\ \E a \in Accounts : \E p \in Owners(a) : StartStrip(g, p, a, [at |-> "unlink", who |-> p])
    /\ UNCHANGED <<players, mappings, guild, bot, left, notices, listening, drift, faults, hands, changes>>

\* unlinkDiscord, whether all of the strip succeeded or not.
UnlinkDiscord(g) ==
    /\ sync[g].at = "unlink" /\ Goes(g, Rest)
    /\ LET p == sync[g].who IN
       /\ players' = [players EXCEPT ![p].discord = Null]
       /\ IF players[p].discord = Null THEN UNCHANGED notices ELSE Notify(p)
    /\ UNCHANGED <<mappings, guild, bot, left, listening, drift, faults, hands, changes>>

\* reconnectDiscord, for an account p signed in to Discord with: another one is
\* stripped first.
Reconnect(g, p, a) ==
    /\ sync[g] = Rest
    /\ LET old == players[p].discord
           link == [at |-> "link", who |-> p, account |-> a]
       IN IF bot /\ old \notin {Null, a} THEN StartStrip(g, p, old, link) ELSE Goes(g, link)
    /\ UNCHANGED <<players, mappings, guild, bot, left, notices, listening, drift, faults, hands>>

\* LinkDiscordToPlayer, then a sync; a conflict ends it.
Reconnected(g) ==
    /\ sync[g].at = "link"
    /\ LET p == sync[g].who IN
       /\ LinkDiscord(p, sync[g].account)
       /\ Goes(g, IF ~bot \/ Owners(sync[g].account) \ {p} # {} THEN Rest ELSE [at |-> "sync", who |-> p])
    /\ UNCHANGED <<mappings, guild, bot, left, listening, drift, faults, hands, changes>>

\* What a goroutine that was started to sync reads first.
AsyncBegins(g) ==
    /\ sync[g].at = "sync" /\ Starts(g, sync[g].who)
    /\ UNCHANGED <<players, mappings, guild, bot, left, notices, listening, drift, faults, hands, changes>>

\* The callback of "Connect Discord": LinkDiscordToPlayer and nothing else.
Connect(p, a) ==
    /\ LinkDiscord(p, a)
    /\ UNCHANGED <<mappings, guild, bot, sync, left, listening, drift, faults, hands>>

-------------------------------------------------------------------------------
\* Faults

\* The listener loses its connection, and what it was not told yet.
ListenerStops ==
    /\ listening /\ Fault
    /\ listening' = FALSE /\ notices' = {}
    /\ UNCHANGED <<players, mappings, guild, bot, sync, left, drift, hands, changes>>

ListenerReconnects ==
    /\ bot /\ ~listening /\ listening' = TRUE
    /\ UNCHANGED <<players, mappings, guild, bot, sync, left, notices, drift, faults, hands, changes>>

\* The process stops and starts again: every goroutine and timer is gone.
ProcessRestarts ==
    /\ bot /\ Fault
    /\ sync' = [g \in SyncRoutines |-> Rest]
    /\ left' = {} /\ notices' = {} /\ listening' = FALSE /\ drift' = {}
    /\ UNCHANGED <<players, mappings, guild, bot, hands, changes>>

\* What a goroutine does next.
Advance(g) ==
    \/ AsyncBegins(g) \/ Mappings(g) \/ Identities(g) \/ CurrentGroups(g) \/ AddGroup(g) \/ RemoveGroup(g)
    \/ UnlinkDiscord(g) \/ Reconnected(g)

\* The goroutines go round, the passes are started, and the listener comes back.
Run ==
    /\ \A g \in SyncRoutines : WF_roleVars(Advance(g))
    /\ WF_roleVars(Listen) /\ WF_roleVars(StartPass) /\ WF_roleVars(SyncAll)
    /\ WF_roleVars(ListenerReconnects)

-------------------------------------------------------------------------------
\* Properties

Stages == {"rest", "mappings", "identity", "groups", "calls", "unlink", "link", "sync"}

RoleSyncTypeOK ==
    /\ \A p \in People : players[p].discord \in Accounts \cup {Null}
    /\ mappings \subseteq UNION MapForms
    /\ guild \in [Accounts -> (SUBSET Groups) \cup {Null}]
    /\ \A g \in SyncRoutines : sync[g].at \in Stages
    /\ left \cup notices \subseteq People /\ drift \subseteq Accounts
    /\ listening \in BOOLEAN /\ faults \in 0..MaxFaults /\ hands \in 0..MaxHands /\ changes \in 0..MaxChanges

\* The roles of a player's account that sync manages are those they are entitled to.
RolesInStep ==
    \A p \in People :
        LET a == players[p].discord IN
        (a # Null /\ guild[a] # Null)
          => guild[a] \cap Managed(mappings) = Wanted(mappings, Entitlements(p))

\* When changes, faults and moderators come to rest, so do the roles, and they are
\* right, whichever syncs read an older state and finished last ("the next reconcile
\* applies it", docs/INTEGRATIONS.md:397; the full pass of Run).
RolesFollow == <>[]RolesInStep

\* A role that no mapping names is never given or taken by a sync or a strip, however
\* old the mappings it read ("Groups that aren't in platform_group_map are NEVER
\* touched", the comment of the package; Plan, Strip).
HandGivenStay ==
    [][sync' # sync =>
         \A a \in Accounts, role \in Groups :
            role \notin UNION {Managed(form) : form \in MapForms}
              => (guild[a] # Null /\ guild'[a] # Null => (role \in guild[a] <=> role \in guild'[a]))]_roleVars

\* Roles come to be right, and those given by hand are never touched on the way.
RolesKept == []RoleSyncTypeOK /\ RolesFollow /\ HandGivenStay

\* An account that belongs to nobody keeps none of the mapped roles, once nothing is
\* under way: "synced roles don't outlive the link" (the comment of Strip).
RolesLeaveWithLink ==
    \A a \in Accounts :
        (Owners(a) = {} /\ guild[a] # Null /\ \A g \in SyncRoutines : sync[g] = Rest)
          => guild[a] \cap Managed(mappings) = {}

===============================================================================
