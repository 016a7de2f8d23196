---------------------------- MODULE ControlProofs ----------------------------
(***************************************************************************)
(* Proofs about who controls what: the website's access, ranks and roles   *)
(* (Access, with RoleSync), and the manager of the servers (Supervisor).   *)
(*                                                                         *)
(* Access: for any number of players, accounts, browsers and goroutines,   *)
(* any ranks and mappings.  SyncInv says what a goroutine has read;        *)
(* RankInv that what a request found of the rank it has locked is so       *)
(* still, and that, while nobody has the top level, no edit is under way   *)
(* by somebody who had it: whoever is on top stays until somebody else is, *)
(* and the last one is only relevelled or deleted by one from the top.     *)
(*                                                                         *)
(* Supervisor: for any number of processes and goroutines and any set of   *)
(* requests, the service never runs twice; its state, the record, the tail *)
(* and the waiter follow the one process there is; what was stopped stays  *)
(* down; restarts are spaced.  All but the types and the spacing hold until *)
(* a start comes while start-up looks for what runs (raced): such a start  *)
(* does make a second process, and when the manager is opened again with   *)
(* one process at most, they hold again.                                   *)
(***************************************************************************)
EXTENDS Supervisor, Access, TLAPS

-------------------------------------------------------------------------------
(* Role synchronisation.                                                     *)

\* The roles some form maps.
Ever == UNION {Managed(form) : form \in MapForms}

Thens == {Rest} \cup [at : {"unlink"}, who : People] \cup [at : {"link"}, who : People,
  account : Accounts]
Calls == [at : {"calls"}, who : People, account : Accounts, then : Thens, add : SUBSET Ever,
  remove : SUBSET Ever]

\* What a goroutine has read is of players, and of mappings some form had.
Syncing(s) ==
    /\ s.at \in Stages
    /\ s.at \in {"mappings", "identity", "groups"} => s.who \in People /\ s.then \in Thens
    /\ s.at \in {"identity", "groups"} => s.maps \subseteq UNION MapForms
    /\ s.at = "groups" => s.account \in Accounts
    /\ s.at = "calls" => s \in Calls
    /\ s.at \in {"unlink", "link", "sync"} => s.who \in People
    /\ s.at = "link" => s.account \in Accounts

SyncInv ==
    /\ players \in [People -> Persons] /\ RoleSyncTypeOK
    /\ DOMAIN sync = SyncRoutines /\ \A g \in SyncRoutines : Syncing(sync[g])

\* A call gives or takes a mapped role.
HandsOff ==
    \A a \in Accounts, role \in Groups :
        role \notin Ever
          => (guild[a] # Null /\ guild'[a] # Null => (role \in guild[a] <=> role \in guild'[a]))

LEMMA ThensSync == ASSUME NEW t \in Thens PROVE Syncing(t)
BY DEF Thens, Syncing, Rest, Stages

LEMMA SyncBegins ==
    ASSUME NEW p \in People, NEW ents
    PROVE  Syncing([at |-> "mappings", who |-> p, ents |-> ents, then |-> Rest])
BY DEF Thens, Syncing, Rest, Stages

LEMMA SyncPut ==
    ASSUME SyncInv, NEW g \in SyncRoutines, NEW next, Syncing(next), sync' = [sync EXCEPT ![g] = next]
    PROVE  DOMAIN sync' = SyncRoutines /\ \A h \in SyncRoutines : Syncing(sync'[h])
<1>1. DOMAIN sync' = SyncRoutines  BY DEF SyncInv
<1>2. ASSUME NEW h \in SyncRoutines PROVE Syncing(sync'[h])
  <2>1. CASE h = g  BY <2>1 DEF SyncInv
  <2>2. CASE h # g
    <3>1. sync'[h] = sync[h] /\ Syncing(sync[h])  BY <2>2 DEF SyncInv
    <3> QED BY <3>1
  <2> QED BY <2>1, <2>2
<1> QED BY <1>1, <1>2

LEMMA Routines == "listener" \in SyncRoutines /\ "pass" \in SyncRoutines /\ Async \subseteq SyncRoutines
BY DEF SyncRoutines

LEMMA SyncStart == AccessInit => SyncInv
<1> SUFFICES ASSUME AccessInit PROVE SyncInv  OBVIOUS
<1>1. players \in [People -> Persons]  BY RoleSyncAssumption DEF AccessInit, RoleSyncInit
<1>2. \A p \in People : players[p].discord \in Accounts \cup {Null}  BY <1>1 DEF Persons
<1>3. mappings \subseteq UNION MapForms  BY DEF AccessInit, RoleSyncInit
<1>4. guild \in [Accounts -> (SUBSET Groups) \cup {Null}]  BY DEF AccessInit, RoleSyncInit
<1>5. DOMAIN sync = SyncRoutines
        /\ \A g \in SyncRoutines : sync[g] = Rest  BY DEF AccessInit, RoleSyncInit
<1>6. \A g \in SyncRoutines : Syncing(sync[g])
        /\ sync[g].at \in Stages  BY <1>5 DEF Rest, Syncing, Stages
<1>7. left = {} /\ notices = {} /\ drift = {} /\ faults = 0 /\ hands = 0 /\ changes = 0
        /\ listening \in BOOLEAN
  BY DEF AccessInit, RoleSyncInit, Offered
<1>8. faults \in 0..MaxFaults /\ hands \in 0..MaxHands
        /\ changes \in 0..MaxChanges  BY <1>7, RoleSyncAssumption
<1> QED BY <1>1, <1>2, <1>3, <1>4, <1>5, <1>6, <1>7, <1>8 DEF SyncInv, RoleSyncTypeOK

\* Of a step: what it leaves right.
RowsRight ==
    /\ players' \in [People -> Persons] /\ mappings' \subseteq UNION MapForms
    /\ guild' \in [Accounts -> (SUBSET Groups) \cup {Null}]
    /\ left' \cup notices' \subseteq People /\ drift' \subseteq Accounts /\ listening' \in BOOLEAN
    /\ faults' \in 0..MaxFaults /\ hands' \in 0..MaxHands /\ changes' \in 0..MaxChanges
SyncRight == DOMAIN sync' = SyncRoutines /\ \A g \in SyncRoutines : Syncing(sync'[g])

LEMMA SyncFrom == ASSUME RowsRight, SyncRight PROVE SyncInv'
<1>1. \A p \in People : players'[p].discord \in Accounts \cup {Null}  BY DEF RowsRight, Persons
<1>2. \A g \in SyncRoutines : sync'[g].at \in Stages  BY DEF SyncRight, Syncing
<1>3. RoleSyncTypeOK'  BY <1>1, <1>2 DEF RowsRight, RoleSyncTypeOK
<1>4. (\A g \in SyncRoutines : Syncing(sync[g]))'  BY DEF SyncRight, Syncing
<1> QED BY <1>3, <1>4 DEF RowsRight, SyncRight, SyncInv

LEMMA Faulty == ASSUME SyncInv, Fault PROVE faults' \in 0..MaxFaults
BY RoleSyncAssumption DEF SyncInv, RoleSyncTypeOK, Fault

LEMMA Notified == ASSUME SyncInv, NEW p \in People, Notify(p) PROVE notices' \subseteq People
BY DEF SyncInv, RoleSyncTypeOK, Notify

LEMMA PlanEver ==
    ASSUME NEW maps, maps \subseteq UNION MapForms, NEW ents, NEW current
    PROVE  Plan(maps, ents, current).add \subseteq Ever
             /\ Plan(maps, ents, current).remove \subseteq Ever
BY DEF Plan, Wanted, Managed, Ever

LEMMA EverGroups == Ever \subseteq Groups
BY RoleSyncAssumption DEF Ever, Managed

\* What a player is changed to.
LEMMA Relinked ==
    ASSUME SyncInv, NEW p \in People, NEW a \in Accounts \cup {Null}
    PROVE  [players EXCEPT ![p].discord = a] \in [People -> Persons]
<1>1. players[p] \in Persons  BY DEF SyncInv
<1>2. [players[p] EXCEPT !.discord = a] \in Persons  BY <1>1 DEF Persons
<1> QED BY <1>2 DEF SyncInv

LEMMA Linked ==
    ASSUME SyncInv, NEW p \in People, NEW a \in Accounts, LinkDiscord(p, a)
    PROVE  /\ players' \in [People -> Persons] /\ notices' \subseteq People
           /\ \A q \in People : players'[q].rank = players[q].rank
<1>1. CASE players' = [players EXCEPT ![p].discord = a] /\ (UNCHANGED notices \/ Notify(p))
  <2>1. players' \in [People -> Persons]  BY <1>1, Relinked
  <2>2. notices' \subseteq People  BY <1>1, Notified DEF SyncInv, RoleSyncTypeOK
  <2>3. ASSUME NEW q \in People PROVE players'[q].rank = players[q].rank
    <3>1. players[q] \in Persons  BY DEF SyncInv
    <3>2. players'[q] = players[q]
            \/ players'[q] = [players[q] EXCEPT !.discord = a]  BY <1>1 DEF SyncInv
    <3> QED BY <3>1, <3>2 DEF Persons
  <2> QED BY <2>1, <2>2, <2>3
<1>2. CASE UNCHANGED <<players, notices>>  BY <1>2 DEF SyncInv, RoleSyncTypeOK
<1> QED BY <1>1, <1>2 DEF LinkDiscord

-------------------------------------------------------------------------------
(* What the goroutines do.                                                   *)

LEMMA SyncTypes ==
    ASSUME SyncInv
    PROVE  /\ players \in [People -> Persons] /\ mappings \subseteq UNION MapForms
           /\ guild \in [Accounts -> (SUBSET Groups) \cup {Null}]
           /\ left \subseteq People /\ notices \subseteq People /\ drift \subseteq Accounts
                /\ listening \in BOOLEAN
           /\ faults \in 0..MaxFaults /\ hands \in 0..MaxHands /\ changes \in 0..MaxChanges
BY DEF SyncInv, RoleSyncTypeOK

\* Only what a goroutine knows changes, and maybe the count of faults.
Thinks(g, next) ==
    /\ sync' = [sync EXCEPT ![g] = next]
    /\ UNCHANGED <<players, mappings, guild, left, notices, listening, drift, hands, changes>>
    /\ UNCHANGED faults \/ Fault

LEMMA Thought ==
    ASSUME SyncInv, NEW g \in SyncRoutines, NEW next, Syncing(next), Thinks(g, next)
    PROVE  SyncInv' /\ HandsOff
<1>1. SyncRight  BY SyncPut DEF Thinks, SyncRight
<1>2. faults' \in 0..MaxFaults  BY Faulty, SyncTypes DEF Thinks
<1>3. RowsRight  BY <1>2, SyncTypes DEF Thinks, RowsRight
<1>4. HandsOff  BY DEF Thinks, HandsOff
<1> QED BY <1>1, <1>3, <1>4, SyncFrom

LEMMA ReadsKeep ==
    ASSUME SyncInv, NEW g \in SyncRoutines,
           Mappings(g) \/ Identities(g) \/ DatabaseFails(g) \/ CurrentGroups(g) \/ AsyncBegins(g)
    PROVE  SyncInv' /\ HandsOff
<1>0. Syncing(sync[g])  BY DEF SyncInv
<1>r. Syncing(Rest)  BY DEF Syncing, Rest, Stages
<1>1. CASE Mappings(g)
  <2> DEFINE next == [at |-> "identity", who |-> sync[g].who, ents |-> sync[g].ents,
                      maps |-> mappings, then |-> sync[g].then]
  <2>1. sync[g].who \in People /\ sync[g].then \in Thens  BY <1>0, <1>1 DEF Mappings, Syncing
  <2>2. Syncing(next)  BY <2>1, SyncTypes DEF Syncing, Stages
  <2>3. Thinks(g, Rest) \/ Thinks(g, next)  BY <1>1 DEF Mappings, Goes, Thinks
  <2> HIDE DEF next
  <2> QED BY <1>r, <2>2, <2>3, Thought
<1>2. CASE Identities(g)
  <2> DEFINE a == players[sync[g].who].discord
             next == [at |-> "groups", who |-> sync[g].who, ents |-> sync[g].ents,
                      maps |-> sync[g].maps, account |-> a, then |-> sync[g].then]
  <2>1. sync[g].who \in People /\ sync[g].then \in Thens /\ sync[g].maps \subseteq UNION MapForms
    BY <1>0, <1>2 DEF Identities, Syncing
  <2>2. a \in Accounts \cup {Null}  BY <2>1 DEF SyncInv, RoleSyncTypeOK
  <2>3. a \in Accounts => Syncing(next)  BY <2>1 DEF Syncing, Stages
  <2>4. Thinks(g, Rest) \/ (a # Null /\ Thinks(g, next))  BY <1>2 DEF Identities, Goes, Thinks
  <2> HIDE DEF next, a
  <2> QED BY <1>r, <2>2, <2>3, <2>4, Thought
<1>3. CASE DatabaseFails(g)
  <2>1. Thinks(g, Rest)  BY <1>3 DEF DatabaseFails, Goes, Thinks
  <2> QED BY <1>r, <2>1, Thought
<1>4. CASE CurrentGroups(g)
  <2> DEFINE plan == Plan(sync[g].maps, sync[g].ents, guild[sync[g].account])
             calls == [at |-> "calls", who |-> sync[g].who, account |-> sync[g].account,
               then |-> sync[g].then,
                       add |-> plan.add, remove |-> plan.remove]
  <2>1. sync[g].who \in People /\ sync[g].then \in Thens /\ sync[g].maps \subseteq UNION MapForms
          /\ sync[g].account \in Accounts
    BY <1>0, <1>4 DEF CurrentGroups, Syncing
  <2>2. plan.add \subseteq Ever /\ plan.remove \subseteq Ever  BY <2>1, PlanEver
  <2>3. Thinks(g, sync[g].then) \/ Thinks(g, calls)  BY <1>4 DEF CurrentGroups, Goes, Thinks
  <2> HIDE DEF plan
  <2>4. calls \in Calls  BY <2>1, <2>2 DEF Calls
  <2>5. Syncing(calls)  BY <2>4 DEF Syncing, Stages
  <2>6. Syncing(sync[g].then)  BY <2>1, ThensSync
  <2> HIDE DEF calls
  <2> QED BY <2>3, <2>5, <2>6, Thought
<1>5. CASE AsyncBegins(g)
  <2> DEFINE next == [at |-> "mappings", who |-> sync[g].who, ents |-> Entitlements(sync[g].who),
        then |-> Rest]
  <2>1. sync[g].who \in People  BY <1>0, <1>5 DEF AsyncBegins, Syncing
  <2>2. Syncing(next)  BY <2>1, SyncBegins
  <2>3. Thinks(g, next)  BY <1>5 DEF AsyncBegins, Starts, Thinks
  <2> HIDE DEF next
  <2> QED BY <2>2, <2>3, Thought
<1> QED BY <1>1, <1>2, <1>3, <1>4, <1>5

LEMMA CallsKeep ==
    ASSUME SyncInv, NEW g \in SyncRoutines, AddGroup(g) \/ RemoveGroup(g)
    PROVE  SyncInv' /\ HandsOff
<1>1. sync[g] \in Calls  BY DEF SyncInv, Syncing, AddGroup, RemoveGroup
<1>2. PICK role, add, remove, roles :
        /\ role \in Ever /\ add \subseteq Ever /\ remove \subseteq Ever
        /\ CallMade(g, add, remove) /\ Call(g, sync[g].account, roles)
        /\ roles = guild[sync[g].account] \cup {role} \/ roles = guild[sync[g].account] \ {role}
  <2>1. CASE AddGroup(g)
    <3>1. PICK role \in sync[g].add : Call(g, sync[g].account, guild[sync[g].account] \cup {role})
              /\ CallMade(g, sync[g].add \ {role}, sync[g].remove)
      BY <2>1 DEF AddGroup
    <3> QED BY <1>1, <3>1 DEF Calls
  <2>2. CASE RemoveGroup(g)
    <3>1. PICK role \in sync[g].remove : Call(g, sync[g].account, guild[sync[g].account] \ {role})
              /\ CallMade(g, {}, sync[g].remove \ {role})
      BY <2>2 DEF RemoveGroup
    <3> QED BY <1>1, <3>1 DEF Calls
  <2> QED BY <2>1, <2>2
<1> DEFINE next == IF add \cup remove = {} THEN sync[g].then ELSE [sync[g] EXCEPT !.add = add,
      !.remove = remove]
<1>3. Syncing(next)
  <2>1. Syncing(sync[g].then)  BY <1>1, ThensSync DEF Calls
  <2>2. [sync[g] EXCEPT !.add = add, !.remove = remove] \in Calls  BY <1>1, <1>2 DEF Calls
  <2>3. Syncing([sync[g] EXCEPT !.add = add, !.remove = remove])  BY <2>2 DEF Syncing, Calls, Stages
  <2> QED BY <2>1, <2>3
<1>4. sync' = [sync EXCEPT ![g] = next]  BY <1>2 DEF CallMade, Goes
<1>5. SyncRight
  <2> HIDE DEF next
  <2> QED BY <1>3, <1>4, SyncPut DEF SyncRight
<1>6. sync[g].account \in Accounts  BY <1>1 DEF Calls
<1>7. \/ UNCHANGED <<guild, drift>>
      \/ /\ guild[sync[g].account] # Null /\ guild' = [guild EXCEPT ![sync[g].account] = roles]
         /\ drift' = drift \cup {sync[g].account}
  BY <1>2 DEF Call, Changed
<1>8. guild' \in [Accounts -> (SUBSET Groups) \cup {Null}] /\ drift' \subseteq Accounts /\ HandsOff
  <2>1. CASE UNCHANGED <<guild, drift>>  BY <2>1, SyncTypes DEF HandsOff
  <2>2. CASE guild[sync[g].account] # Null /\ guild' = [guild EXCEPT ![sync[g].account] = roles]
               /\ drift' = drift \cup {sync[g].account}
    <3>1. guild[sync[g].account] \subseteq Groups  BY <1>6, <2>2, SyncTypes
    <3>2. role \in Groups  BY <1>2, EverGroups
    <3>3. roles \subseteq Groups  BY <1>2, <3>1, <3>2
    <3>4. HandsOff  BY <1>2, <1>6, <2>2, <3>1, SyncTypes DEF HandsOff
    <3> QED BY <1>6, <2>2, <3>3, <3>4, SyncTypes
  <2> QED BY <1>7, <2>1, <2>2
<1>9. faults' \in 0..MaxFaults  BY <1>2, Faulty, SyncTypes DEF Call
<1>10. UNCHANGED <<players, mappings, left, notices, listening, hands, changes>>
  BY DEF AddGroup, RemoveGroup
<1>11. RowsRight  BY <1>8, <1>9, <1>10, SyncTypes DEF RowsRight
<1> QED BY <1>5, <1>8, <1>11, SyncFrom

LEMMA LinksKeep ==
    ASSUME SyncInv, NEW g \in SyncRoutines, UnlinkDiscord(g) \/ Reconnected(g)
    PROVE  SyncInv' /\ HandsOff /\ \A p \in People : players'[p].rank = players[p].rank
<1>0. Syncing(sync[g])  BY DEF SyncInv
<1>1. sync[g].who \in People  BY <1>0 DEF Syncing, UnlinkDiscord, Reconnected
<1>2. UNCHANGED <<mappings, guild, bot, left, listening, drift, faults, hands, changes>>
  BY DEF UnlinkDiscord, Reconnected
<1>3. PICK next : Syncing(next) /\ sync' = [sync EXCEPT ![g] = next]
  <2>1. Syncing(Rest)  BY DEF Syncing, Rest, Stages
  <2>2. Syncing([at |-> "sync", who |-> sync[g].who])  BY <1>1 DEF Syncing, Stages
  <2>3. sync' = [sync EXCEPT ![g] = Rest]
          \/ sync' = [sync EXCEPT ![g] = [at |-> "sync", who |-> sync[g].who]]
    BY DEF UnlinkDiscord, Reconnected, Goes
  <2> QED BY <2>1, <2>2, <2>3
<1>4. SyncRight  BY <1>3, SyncPut DEF SyncRight
<1>5. players' \in [People -> Persons] /\ notices' \subseteq People
        /\ \A p \in People : players'[p].rank = players[p].rank
  <2>1. CASE Reconnected(g)
    <3>1. sync[g].account \in Accounts /\ LinkDiscord(sync[g].who, sync[g].account)
      BY <1>0, <2>1 DEF Reconnected, Syncing
    <3> QED BY <1>1, <3>1, Linked
  <2>2. CASE UnlinkDiscord(g)
    <3>1. players' = [players EXCEPT ![sync[g].who].discord = Null]
            /\ (UNCHANGED notices \/ Notify(sync[g].who))
      BY <2>2 DEF UnlinkDiscord
    <3>2. players' \in [People -> Persons]  BY <1>1, <3>1, Relinked
    <3>3. notices' \subseteq People  BY <1>1, <3>1, Notified, SyncTypes
    <3>4. ASSUME NEW q \in People PROVE players'[q].rank = players[q].rank
      <4>1. players[q] \in Persons  BY DEF SyncInv
      <4>2. players'[q] = players[q] \/ players'[q] = [players[q] EXCEPT !.discord = Null]
        BY <3>1, SyncTypes
      <4> QED BY <4>1, <4>2 DEF Persons
    <3> QED BY <3>2, <3>3, <3>4
  <2> QED BY <2>1, <2>2
<1>6. RowsRight  BY <1>2, <1>5, SyncTypes DEF RowsRight
<1>7. HandsOff  BY <1>2 DEF HandsOff
<1> QED BY <1>4, <1>5, <1>6, <1>7, SyncFrom

\* Whoever starts a sync of a player.
LEMMA StartsPut ==
    ASSUME SyncInv, NEW g \in SyncRoutines, NEW p \in People, Starts(g, p)
    PROVE  SyncRight
<1> DEFINE next == [at |-> "mappings", who |-> p, ents |-> Entitlements(p), then |-> Rest]
<1>1. Syncing(next) /\ sync' = [sync EXCEPT ![g] = next]  BY SyncBegins DEF Starts
<1> HIDE DEF next
<1> QED BY <1>1, SyncPut DEF SyncRight

LEMMA SameSync == ASSUME SyncInv, UNCHANGED sync PROVE SyncRight
BY DEF SyncInv, SyncRight

LEMMA Stripping ==
    ASSUME SyncInv, NEW g \in SyncRoutines, NEW p \in People, NEW a \in Accounts, NEW then \in Thens,
           StartStrip(g, p, a, then)
    PROVE  SyncRight
<1> DEFINE next == [at |-> "groups", who |-> p, ents |-> {}, maps |-> mappings, account |-> a,
      then |-> then]
<1>1. Syncing(next)  BY SyncTypes DEF Syncing, Stages
<1>2. Syncing(then)  BY ThensSync
<1>3. sync' = [sync EXCEPT ![g] = then] \/ sync' = [sync EXCEPT ![g] = next]  BY DEF StartStrip, Goes
<1> HIDE DEF next
<1> QED BY <1>1, <1>2, <1>3, SyncPut DEF SyncRight

LEMMA StartersKeep ==
    ASSUME SyncInv, Listen \/ StartPass \/ SyncAll \/ ListenerStops \/ ListenerReconnects
             \/ ProcessRestarts
    PROVE  SyncInv' /\ HandsOff
<1>1. UNCHANGED <<players, mappings, guild, hands, changes>>
  BY DEF Listen, StartPass, SyncAll, ListenerStops, ListenerReconnects, ProcessRestarts
<1>2. faults' \in 0..MaxFaults
  BY Faulty, SyncTypes
     DEF Listen, StartPass, SyncAll, ListenerStops, ListenerReconnects, ProcessRestarts
<1>3. left' \subseteq People /\ notices' \subseteq People /\ drift' \subseteq Accounts
        /\ listening' \in BOOLEAN
  BY SyncTypes DEF Listen, StartPass, SyncAll, ListenerStops, ListenerReconnects, ProcessRestarts
<1>4. SyncRight
  <2>1. CASE Listen
    <3>1. PICK p \in notices : Starts("listener", p)  BY <2>1 DEF Listen
    <3> QED BY <3>1, Routines, SyncTypes, StartsPut
  <2>2. CASE SyncAll
    <3>1. PICK p \in left : Starts("pass", p)  BY <2>2 DEF SyncAll
    <3> QED BY <3>1, Routines, SyncTypes, StartsPut
  <2>3. CASE ProcessRestarts
    <3>1. Syncing(Rest)  BY DEF Syncing, Rest, Stages
    <3> QED BY <2>3, <3>1 DEF ProcessRestarts, SyncRight
  <2>4. CASE UNCHANGED sync  BY <2>4, SameSync
  <2> QED BY <2>1, <2>2, <2>3, <2>4 DEF StartPass, ListenerStops, ListenerReconnects
<1>5. RowsRight  BY <1>1, <1>2, <1>3, SyncTypes DEF RowsRight
<1>6. HandsOff  BY <1>1 DEF HandsOff
<1> QED BY <1>4, <1>5, <1>6, SyncFrom

LEMMA GuildKeeps ==
    ASSUME SyncInv, Guild
    PROVE  SyncInv' /\ (sync' # sync => HandsOff) /\ UNCHANGED players
<1>0. UNCHANGED <<players, mappings, left, notices, listening, faults, changes>>
  BY DEF Guild, SyncPlayerAsync, MemberAdd, MemberLeaves, ByHand, CheckDrift, Unlink
<1>1. ASSUME NEW g \in Async, SyncPlayerAsync(g) PROVE SyncRight /\ UNCHANGED <<guild, drift, hands>>
  <2>1. PICK p \in People : Starts(g, p)  BY <1>1 DEF SyncPlayerAsync
  <2> QED BY <1>1, <2>1, Routines, StartsPut DEF SyncPlayerAsync
<1>2. ASSUME NEW g \in Async, NEW a \in Accounts, MemberAdd(g, a)
      PROVE  SyncRight /\ HandsOff /\ guild' \in [Accounts -> (SUBSET Groups) \cup {Null}]
             /\ UNCHANGED drift /\ hands' \in 0..MaxHands
  <2>1. CASE UNCHANGED sync  BY <2>1, SameSync, <1>2, SyncTypes, RoleSyncAssumption
               DEF MemberAdd, HandsOff
  <2>2. CASE \E p \in Owners(a) : Starts(g, p)
    <3>1. PICK p \in Owners(a) : Starts(g, p)  BY <2>2
    <3>2. p \in People  BY DEF Owners
    <3>3. SyncRight  BY <3>1, <3>2, Routines, StartsPut
    <3> QED BY <3>3, <1>2, SyncTypes, RoleSyncAssumption DEF MemberAdd, HandsOff
  <2> QED BY <1>2, <2>1, <2>2 DEF MemberAdd
<1>3. ASSUME NEW a \in Accounts, MemberLeaves(a)
      PROVE  UNCHANGED <<sync, drift>> /\ guild' \in [Accounts -> (SUBSET Groups) \cup {Null}]
               /\ hands' \in 0..MaxHands
  BY <1>3, SyncTypes, RoleSyncAssumption DEF MemberLeaves
<1>4. ASSUME NEW a \in Accounts, NEW role \in Groups, ByHand(a, role)
      PROVE  UNCHANGED sync /\ guild' \in [Accounts -> (SUBSET Groups) \cup {Null}]
               /\ drift' \subseteq Accounts
             /\ hands' \in 0..MaxHands
  <2>1. guild[a] \subseteq Groups  BY <1>4, SyncTypes DEF ByHand
  <2>2. PICK roles \in SUBSET Groups : guild' = [guild EXCEPT ![a] = roles] /\ drift' = drift \cup {a}
    BY <1>4, <2>1 DEF ByHand, Changed
  <2>3. hands' \in 0..MaxHands /\ UNCHANGED sync  BY <1>4, SyncTypes, RoleSyncAssumption DEF ByHand
  <2> QED BY <2>2, <2>3, SyncTypes
<1>5. ASSUME NEW g \in Async, NEW a \in Accounts, CheckDrift(g, a)
      PROVE  SyncRight /\ UNCHANGED <<guild, hands>> /\ drift' \subseteq Accounts
  <2>1. CASE UNCHANGED sync  BY <1>5, <2>1, SameSync, SyncTypes DEF CheckDrift
  <2>2. CASE \E p \in Owners(a) : Starts(g, p)
    <3>1. PICK p \in Owners(a) : Starts(g, p)  BY <2>2
    <3>2. p \in People  BY DEF Owners
    <3> QED BY <1>5, <3>1, <3>2, Routines, StartsPut, SyncTypes DEF CheckDrift
  <2> QED BY <1>5, <2>1, <2>2 DEF CheckDrift
<1>6. ASSUME NEW g \in Async, Unlink(g) PROVE SyncRight /\ UNCHANGED <<guild, drift, hands>>
  <2>1. PICK a \in Accounts : \E p \in Owners(a) : StartStrip(g, p, a, [at |-> "unlink", who |-> p])
    BY <1>6 DEF Unlink
  <2>2. PICK p \in Owners(a) : StartStrip(g, p, a, [at |-> "unlink", who |-> p])  BY <2>1
  <2>3. p \in People /\ [at |-> "unlink", who |-> p] \in Thens  BY DEF Owners, Thens
  <2>4. SyncRight  BY <2>2, <2>3, Routines, Stripping
  <2> QED BY <1>6, <2>4 DEF Unlink
<1>7. /\ SyncRight /\ guild' \in [Accounts -> (SUBSET Groups) \cup {Null}] /\ drift' \subseteq Accounts
      /\ hands' \in 0..MaxHands /\ (sync' # sync => HandsOff)
  <2>1. UNCHANGED guild => HandsOff  BY DEF HandsOff
  <2> QED BY <1>1, <1>2, <1>3, <1>4, <1>5, <1>6, <2>1, SameSync, SyncTypes DEF Guild
<1>8. RowsRight  BY <1>0, <1>7, SyncTypes DEF RowsRight
<1> QED BY <1>0, <1>7, <1>8, SyncFrom

-------------------------------------------------------------------------------
(* Requests, and the ranks they change.                                      *)

HoldStages == {"own", "write", "neighbour", "swap", "count", "remove"}
EditStages == HoldStages \cup {"lock", "create_rank"}
EditFields == {"at", "who", "level", "form"}

\* What a request has read of itself.
Reading(q) ==
    /\ q.at \in {"create", "access", "insert", "route", "panel"} \cup EditStages => q.who \in People
    /\ q.at = "insert" => q.access \in BOOLEAN
    /\ q.at = "route" => DOMAIN q = {"at", "who", "access", "blind"}
    /\ q.at \in EditStages => q.level \in 0..TopLevel /\ q.form \in Forms
    /\ q.at \in EditStages \ {"swap"} => DOMAIN q = EditFields
    /\ q.at = "swap" => DOMAIN q = EditFields \cup {"among"}
    /\ q.at \in {"own", "write"} => q.form.op = "save"
    /\ q.at \in {"neighbour", "swap"} => q.form.op = "move"
    /\ q.at \in {"count", "remove"} => q.form.op = "delete"
    /\ q.at = "create_rank" => q.form.op = "create" /\ q.form.level < q.level
    /\ q.at = "mappings" => DOMAIN q = {"at", "who", "form", "late"} /\ q.form \in Forms
         /\ q.form.op = "map"

\* What it found of the rank it has locked is so still.
Right(q, table, folk) ==
    /\ Reading(q)
    /\ q.at \in HoldStages => q.form.rank \in Ranks /\ table[q.form.rank] # Gone
    /\ q.at \in {"own", "write"} =>
          LET now == table[q.form.rank].level IN
          q.form.level = now \/ (now < q.level /\ q.form.level < q.level)
    /\ q.at \in {"count", "remove"} => CanEdit(table[q.form.rank].level, q.level)
    /\ q.at = "remove" => \A p \in People : folk[p].rank # q.form.rank

\* Whoever is on top stays until somebody else is; when nobody is, nobody can get there.
OnTop == \E p \in People : players[p].rank \in Tops
Low(q) == q.at \in EditStages => q.level < TopLevel

Apart == \A b, c \in Browsers : Holds(b) \cap Holds(c) # {} => b = c

RankTypes ==
    /\ codes \in [Codes -> People \cup {Null}]
    /\ sessions \in [Browsers -> Sessions \cup {Null}]
    /\ ranks \in [Ranks -> RankRows \cup {Gone}]

RankInv ==
    /\ RankTypes /\ RanksStand /\ Apart
    /\ DOMAIN requests = Browsers /\ \A b \in Browsers : Right(requests[b], ranks, players)
    /\ OnTop \/ \A b \in Browsers : Low(requests[b])

LEMMA FormFields ==
    ASSUME NEW f \in Forms
    PROVE  /\ f.op \in {"save", "move", "create", "delete", "map"}
           /\ f.op = "save" => f.rank \in Ranks /\ f.level \in Nat \ {0} /\ f.admin \in BOOLEAN
                               /\ f.perms \in SUBSET STRING
           /\ f.op \in {"move", "delete"} => f.rank \in Ranks
           /\ f.op = "create" => f.level \in Nat \ {0}
           /\ f.op = "map" => f.maps \in MapForms
<1>1. CASE f \in {[op |-> "save", rank |-> x.rank, level |-> x.level, admin |-> x.admin,
             perms |-> x.perms] :
                  x \in SaveForms}
  <2>1. PICK x \in SaveForms :
          f = [op |-> "save", rank |-> x.rank, level |-> x.level, admin |-> x.admin, perms |-> x.perms]
    BY <1>1
  <2>2. x.rank \in Ranks /\ x.level \in Nat \ {0} /\ x.admin \in BOOLEAN /\ x.perms \in SUBSET STRING
    BY AccessAssumption
  <2> QED BY <2>1, <2>2
<1>2. CASE f \in [op : {"move"}, rank : Ranks, up : BOOLEAN]  BY <1>2
<1>3. CASE f \in [op : {"create"}, level : Levels]  BY <1>3, AccessAssumption
<1>4. CASE f \in [op : {"delete"}, rank : Ranks]  BY <1>4
<1>5. CASE f \in [op : {"map"}, maps : MapForms]  BY <1>5
<1> QED BY <1>1, <1>2, <1>3, <1>4, <1>5 DEF Forms

\* What the website does to the players' rows, in which no goroutine takes part.
PeopleChange(p, next) == players' = [players EXCEPT ![p] = next] /\ (UNCHANGED notices \/ Notify(p))

LEMMA SiteKeeps ==
    ASSUME SyncInv, RankTypes, \A b \in Browsers : Reading(requests[b]),
           SigningIn \/ Linking \/ Panel \/ Ranking \/ Others
    PROVE  SyncInv' /\ (sync' # sync => HandsOff)
<1>h. UNCHANGED <<guild, hands, left, drift, listening>> => HandsOff  BY DEF HandsOff
<1>c. Changes => changes' \in 0..MaxChanges  BY SyncTypes, RoleSyncAssumption DEF Changes
<1>f. Fault => faults' \in 0..MaxFaults  BY Faulty
<1>n. ASSUME NEW p \in People, Notify(p) PROVE notices' \subseteq People  BY <1>n, Notified
<1>1. ASSUME SyncRight, UNCHANGED <<mappings, guild, left, drift, listening, hands>>,
             players' \in [People -> Persons], notices' \subseteq People,
             faults' \in 0..MaxFaults, changes' \in 0..MaxChanges
      PROVE  SyncInv' /\ (sync' # sync => HandsOff)
  <2>1. RowsRight  BY <1>1, SyncTypes DEF RowsRight
  <2> QED BY <1>h, <1>1, <2>1, SyncFrom
<1>2. ASSUME UNCHANGED <<players, mappings, guild, sync, left, notices, drift, listening, hands>>,
             UNCHANGED faults \/ Fault, UNCHANGED changes \/ Changes
      PROVE  SyncInv' /\ (sync' # sync => HandsOff)
  BY <1>1, <1>2, <1>c, <1>f, SameSync, SyncTypes
<1>3. CASE SigningIn
  <2>1. UNCHANGED <<players, mappings, guild, sync, left, notices, drift, listening, hands, changes>>
          /\ (UNCHANGED faults \/ Fault)
    BY <1>3 DEF SigningIn, SteamCallback, DiscordLogin, CreatePlayer, CreateSession, InsertSession,
            Logout,
       EnsureBlankPlayer, roleVars, syncVars
  <2> QED BY <1>2, <2>1
<1>4. CASE Panel
  <2>1. UNCHANGED <<players, mappings, guild, sync, left, notices, drift, listening, hands, changes>>
          /\ (UNCHANGED faults \/ Fault)
    BY <1>4 DEF Panel, Middleware, RequirePanel, Page, ActorLevel, roleVars, syncVars
  <2> QED BY <1>2, <2>1
<1>5. CASE Linking
  <2>1. ASSUME NEW p \in People, NEW c \in Codes, GenerateLinkCode(p, c) PROVE SyncInv'
                 /\ (sync' # sync => HandsOff)
    BY <1>2, <2>1 DEF GenerateLinkCode, syncVars
  <2>2. ASSUME NEW c \in Codes, CodeExpires(c) PROVE SyncInv' /\ (sync' # sync => HandsOff)
    BY <1>2, <2>2 DEF CodeExpires, roleVars, syncVars
  <2>3. ASSUME NEW g \in Async, NEW c \in Codes, NEW a \in Accounts, Link(g, c, a)
        PROVE  SyncInv' /\ (sync' # sync => HandsOff)
    <3>1. codes[c] \in People  BY <2>3 DEF Link, RankTypes
    <3>2. Syncing([at |-> "sync", who |-> codes[c]])  BY <3>1 DEF Syncing, Stages
    <3>3. SyncRight  BY <2>3, <3>2, Routines, SyncPut DEF Link, Goes, SyncRight
    <3>4. players' \in [People -> Persons] /\ notices' \subseteq People  BY <2>3, <3>1, Linked DEF Link
    <3> QED BY <1>1, <2>3, <3>3, <3>4, SyncTypes DEF Link
  <2>4. ASSUME NEW b \in Browsers, NEW a \in Accounts, DiscordConnect(b, a)
        PROVE  SyncInv' /\ (sync' # sync => HandsOff)
    <3>1. sessions[b].who \in People  BY <2>4 DEF DiscordConnect, RankTypes, Sessions
    <3>2. players' \in [People -> Persons] /\ notices' \subseteq People
      BY <2>4, <3>1, Linked DEF DiscordConnect, Connect
    <3>3. UNCHANGED <<mappings, guild, sync, left, drift, listening, faults, hands>> /\ Changes
      BY <2>4 DEF DiscordConnect, Connect
    <3> QED BY <1>1, <1>c, <3>2, <3>3, SameSync, SyncTypes
  <2>5. ASSUME NEW b \in Browsers, NEW g \in Async, NEW a \in Accounts, DiscordReconnect(b, g, a)
        PROVE  SyncInv' /\ (sync' # sync => HandsOff)
    <3>1. sessions[b].who \in People  BY <2>5 DEF DiscordReconnect, RankTypes, Sessions
    <3>2. PICK p \in People : p = sessions[b].who  BY <3>1
    <3>3. Reconnect(g, p, a) /\ Changes  BY <2>5, <3>2 DEF DiscordReconnect
    <3> DEFINE link == [at |-> "link", who |-> p, account |-> a]
               old == players[p].discord
    <3>4. link \in Thens  BY DEF Thens
    <3>5. \/ old \notin {Null, a} /\ StartStrip(g, p, old, link)
          \/ sync' = [sync EXCEPT ![g] = link]
      BY <3>3 DEF Reconnect, Goes
    <3>6. old \in Accounts \cup {Null}  BY DEF SyncInv, RoleSyncTypeOK
    <3>7. Syncing(link)  BY <3>4, ThensSync
    <3> HIDE DEF link, old
    <3>8. SyncRight
      <4>1. CASE old \notin {Null, a}
                   /\ StartStrip(g, p, old, link)  BY <3>4, <3>6, <4>1, Routines, Stripping
      <4>2. CASE sync' = [sync EXCEPT ![g] = link]  BY <3>7, <4>2, Routines, SyncPut DEF SyncRight
      <4> QED BY <3>5, <4>1, <4>2
    <3> QED BY <1>1, <1>c, <3>3, <3>8, SyncTypes DEF Reconnect
  <2> QED BY <1>5, <2>1, <2>2, <2>3, <2>4, <2>5 DEF Linking
<1>6. CASE Ranking
  <2>1. PICK b \in Browsers :
          \/ LockRank(b) \/ ReadOwn(b) \/ SaveRank(b) \/ PickNeighbour(b) \/ SwapRanks(b)
               \/ DeadlockFound(b)
          \/ ReadLevels(b) \/ CreateRank(b) \/ CountMembers(b)
          \/ DeleteRank(b) \/ DeleteMappings(b) \/ SaveMappings(b)
    BY <1>6 DEF Ranking
  <2>2. CASE LockRank(b) \/ ReadOwn(b) \/ SaveRank(b) \/ PickNeighbour(b) \/ SwapRanks(b)
               \/ DeadlockFound(b)
               \/ ReadLevels(b) \/ CreateRank(b) \/ CountMembers(b)
    <3>1. UNCHANGED roleVars
      BY <2>2 DEF LockRank, ReadOwn, SaveRank, PickNeighbour, SwapRanks, DeadlockFound, ReadLevels,
              CreateRank,
         CountMembers
    <3> QED BY <1>2, <3>1 DEF roleVars, syncVars
  <2>3. CASE DeleteRank(b)
    <3>1. UNCHANGED <<syncVars, changes>>  BY <2>3 DEF DeleteRank
    <3>2. players' \in [People -> Persons]
      <4>1. \A p \in People : players[p] \in Persons /\ [players[p] EXCEPT !.rank = 0] \in Persons
        BY SyncTypes DEF Persons
      <4> QED BY <2>3, <4>1 DEF DeleteRank
    <3> QED BY <1>1, <3>1, <3>2, SameSync, SyncTypes DEF syncVars
  <2>4. CASE DeleteMappings(b)
    BY <1>2, <2>4 DEF DeleteMappings, syncVars
  <2>5. CASE SaveMappings(b)
    <3>1. requests[b].form.maps \in MapForms  BY <2>5, FormFields DEF SaveMappings, Reading
    <3>2. mappings' \subseteq UNION MapForms  BY <2>5, <3>1, SyncTypes DEF SaveMappings
    <3>3. UNCHANGED <<players, guild, sync, left, notices, drift, listening, hands, faults, changes>>
      BY <2>5 DEF SaveMappings
    <3>4. RowsRight  BY <3>2, <3>3, SyncTypes DEF RowsRight
    <3> QED BY <3>3, <3>4, SameSync, SyncFrom
  <2> QED BY <2>1, <2>2, <2>3, <2>4, <2>5
<1>7. CASE Others
  <2>1. PICK p \in People, next \in Persons : PeopleChange(p, next)
          /\ UNCHANGED <<mappings, guild, sync, left, drift,
              listening, faults, hands>> /\ Changes
    <3>1. ASSUME NEW p \in People, NEW r \in Standing \cup {0}, SetRank(p, r)
          PROVE  [players[p] EXCEPT !.rank = r] \in Persons
                 /\ PeopleChange(p, [players[p] EXCEPT !.rank = r]) /\ Changes
      <4>1. players[p] \in Persons /\ r \in Nat  BY SyncTypes, AccessAssumption DEF Standing
      <4> QED BY <3>1, <4>1 DEF SetRank, PeopleChange, Persons
    <3>2. ASSUME NEW p \in People, NEW s \in {"active", "loa", "suspended"}, SetStatus(p, s)
          PROVE  [players[p] EXCEPT !.status = s] \in Persons
                 /\ PeopleChange(p, [players[p] EXCEPT !.status = s]) /\ Changes
      <4>1. players[p] \in Persons  BY SyncTypes
      <4> QED BY <3>2, <4>1 DEF SetStatus, PeopleChange, Persons
    <3>3. ASSUME NEW p \in People, NEW l \in 0..1, SetFactionLevel(p, l)
          PROVE  [players[p] EXCEPT !.police = l] \in Persons
                 /\ PeopleChange(p, [players[p] EXCEPT !.police = l]) /\ Changes
      <4>1. players[p] \in Persons  BY SyncTypes
      <4> QED BY <3>3, <4>1 DEF SetFactionLevel, PeopleChange, Persons
    <3>4. UNCHANGED <<mappings, guild, sync, left, drift, listening, faults, hands>>
      BY <1>7 DEF Others, SetRank, SetStatus, SetFactionLevel
    <3> QED BY <1>7, <3>1, <3>2, <3>3, <3>4 DEF Others
  <2>2. players' \in [People -> Persons] /\ notices' \subseteq People
    BY <1>n, <2>1, SyncTypes DEF PeopleChange
  <2> QED BY <1>1, <1>c, <2>1, <2>2, SameSync, SyncTypes
<1> QED BY <1>3, <1>4, <1>5, <1>6, <1>7

LEMMA SyncKeeps ==
    ASSUME SyncInv, RankTypes, \A b \in Browsers : Reading(requests[b]), [AccessNext]_panelVars
    PROVE  SyncInv' /\ (sync' # sync => HandsOff)
<1>1. CASE Bot
  <2>1. ASSUME NEW g \in SyncRoutines, Advance(g) \/ DatabaseFails(g) PROVE SyncInv' /\ HandsOff
    BY <2>1, ReadsKeep, CallsKeep, LinksKeep DEF Advance
  <2> QED BY <1>1, <2>1, StartersKeep DEF Bot
<1>2. CASE Guild  BY <1>2, GuildKeeps
<1>3. CASE SigningIn \/ Linking \/ Panel \/ Ranking \/ Others  BY <1>3, SiteKeeps
<1>4. CASE UNCHANGED panelVars
  <2>1. UNCHANGED <<players, mappings, guild, bot, sync, left, notices, listening, drift, faults,
          hands, changes>>
    BY <1>4 DEF panelVars, roleVars, syncVars
  <2>2. RowsRight  BY <2>1, SyncTypes DEF RowsRight
  <2> QED BY <2>1, <2>2, SameSync, SyncFrom
<1> QED BY <1>1, <1>2, <1>3, <1>4 DEF AccessNext

LEMMA RankStart == AccessInit => RankInv
<1> SUFFICES ASSUME AccessInit PROVE RankInv  OBVIOUS
<1>1. ranks = FirstRanks /\ players = FirstPlayers /\ sessions = FirstSessions
        /\ codes = [c \in Codes |-> Null]
        /\ requests = [b \in Browsers |-> NoRequest]
  BY DEF AccessInit, RoleSyncInit
<1>2. RankTypes  BY <1>1, AccessAssumption DEF RankTypes
<1>3. RanksStand
  <2>1. \E r \in Ranks : ranks[r] # Gone /\ ranks[r].level = TopLevel  BY <1>1, AccessAssumption
  <2>2. Tops # {}  BY <2>1, AccessAssumption DEF Tops, Standing
  <2>3. \A p \in People : players[p].rank \in Standing \cup {0}  BY <1>1, AccessAssumption DEF Standing
  <2> QED BY <2>2, <2>3 DEF RanksStand
<1>4. DOMAIN requests = Browsers /\ \A b \in Browsers : requests[b].at = "idle"  BY <1>1 DEF NoRequest
<1>5. \A b \in Browsers : Right(requests[b], ranks, players) /\ Low(requests[b]) /\ Holds(b) = {}
  BY <1>4 DEF Right, Reading, Low, Holds, HoldStages, EditStages
<1> QED BY <1>2, <1>3, <1>4, <1>5 DEF RankInv, Apart

\* Levels are at most the top one.
LEMMA LevelTypes ==
    ASSUME RankTypes, RanksStand, NEW p \in People
    PROVE  Level(p) \in 0..TopLevel
             /\ (Level(p) >= TopLevel /\ players[p].rank # 0 => players[p].rank \in Tops)
<1>1. CASE players[p].rank = 0  BY <1>1, AccessAssumption DEF Level, LevelOf
<1>2. CASE players[p].rank # 0
  <2>1. players[p].rank \in Standing  BY <1>2 DEF RanksStand
  <2>2. ranks[players[p].rank] \in RankRows  BY <2>1 DEF RankTypes, Standing
  <2> QED BY <1>2, <2>1, <2>2, AccessAssumption DEF Level, LevelOf, RankRows, Tops
<1> QED BY <1>1, <1>2

\* The level of somebody is low as long as nobody is on top.
LEMMA LowLevel ==
    ASSUME RankTypes, RanksStand, ~OnTop, NEW p \in People, Can(p, "roles.manage")
    PROVE  Level(p) < TopLevel
<1>1. players[p].rank # 0  BY DEF Can
<1>2. players[p].rank \notin Tops  BY DEF OnTop
<1> QED BY <1>1, <1>2, LevelTypes, AccessAssumption

LEMMA RankFrom ==
    ASSUME RankTypes', RanksStand', Apart', DOMAIN requests' = Browsers,
           \A c \in Browsers : Right(requests'[c], ranks', players'),
           OnTop' \/ \A c \in Browsers : Low(requests'[c])
    PROVE  RankInv'
BY DEF RankInv

\* What another request has found is so still, when nobody changed its rank.
LEMMA Untouched ==
    ASSUME NEW q, NEW table, NEW folk, Right(q, table, folk), NEW table2, NEW folk2,
           q.at \in HoldStages => table2[q.form.rank] = table[q.form.rank],
           q.at = "remove" => \A p \in People : folk2[p].rank # q.form.rank
    PROVE  Right(q, table2, folk2)
BY DEF Right, HoldStages

LEMMA StillApart ==
    ASSUME Apart, DOMAIN requests = Browsers, NEW b \in Browsers, NEW q,
             requests' = [requests EXCEPT ![b] = q],
           q.at \in HoldStages => q.form.rank \in Holds(b) \/ ~Locked(q.form.rank)
    PROVE  Apart'
<1> SUFFICES ASSUME NEW c \in Browsers, NEW d \in Browsers, NEW r, r \in Holds(c)', r \in Holds(d)'
             PROVE  c = d
  BY DEF Apart
<1>1. Holds(b)' = IF q.at \in HoldStages THEN {q.form.rank} ELSE {}  BY DEF Holds, HoldStages
<1>2. \A e \in Browsers \ {b} : Holds(e)' = Holds(e)  BY DEF Holds
<1>3. ASSUME NEW e \in Browsers \ {b}, r \in Holds(b)', r \in Holds(e) PROVE FALSE
  <2>1. q.at \in HoldStages /\ r = q.form.rank  BY <1>1, <1>3
  <2>2. Locked(r)  BY <1>3 DEF Locked
  <2>3. r \in Holds(b)  BY <2>1, <2>2
  <2> QED BY <1>3, <2>3 DEF Apart
<1>4. CASE c = b  BY <1>2, <1>3, <1>4
<1>5. CASE d = b  BY <1>2, <1>3, <1>5
<1>6. CASE c # b /\ d # b  BY <1>2, <1>6 DEF Apart
<1> QED BY <1>4, <1>5, <1>6

\* Of a step: nobody's rank changes.
RanksKept == \A p \in People : players'[p].rank = players[p].rank

\* Steps that leave the ranks, and everybody's, as they are: of one request,
LEMMA OneRequest ==
    ASSUME RankInv, RankTypes', UNCHANGED ranks, RanksKept,
           NEW b \in Browsers, NEW q, requests' = [requests EXCEPT ![b] = q], Right(q, ranks, players),
           q.at \in HoldStages => q.form.rank \in Holds(b) \/ ~Locked(q.form.rank), OnTop \/ Low(q)
    PROVE  RankInv'
<1>1. Apart' /\ DOMAIN requests' = Browsers  BY StillApart DEF RankInv
<1>2. RanksStand' /\ (OnTop => OnTop')  BY DEF RankInv, RanksStand, OnTop, Tops, Standing, RanksKept
<1>3. ASSUME NEW c \in Browsers PROVE Right(requests'[c], ranks', players')
  <2>1. PICK x : x = requests'[c]  OBVIOUS
  <2>2. Right(x, ranks, players)  BY <2>1 DEF RankInv
  <2>3. x.at = "remove" => \A p \in People : players'[p].rank # x.form.rank  BY <2>2
          DEF Right, RanksKept
  <2>4. Right(x, ranks', players')  BY <2>2, <2>3, Untouched
  <2> QED BY <2>1, <2>4
<1>4. OnTop' \/ \A c \in Browsers : Low(requests'[c])
  <2>1. CASE OnTop  BY <1>2, <2>1
  <2>2. CASE ~OnTop
    <3>1. Low(q) /\ \A c \in Browsers : Low(requests[c])  BY <2>2 DEF RankInv
    <3>2. \A c \in Browsers : requests'[c] = q \/ requests'[c] = requests[c]  BY DEF RankInv
    <3> QED BY <3>1, <3>2
  <2> QED BY <2>1, <2>2
<1> QED BY <1>1, <1>2, <1>3, <1>4, RankFrom

\* and of none.
LEMMA NoRequests ==
    ASSUME RankInv, RankTypes', UNCHANGED <<ranks, requests>>, RanksKept
    PROVE  RankInv'
<1>1. Apart' /\ DOMAIN requests' = Browsers  BY DEF RankInv, Apart, Holds
<1>2. RanksStand' /\ (OnTop => OnTop')  BY DEF RankInv, RanksStand, OnTop, Tops, Standing, RanksKept
<1>3. ASSUME NEW c \in Browsers PROVE Right(requests'[c], ranks', players')
  <2>1. PICK x : x = requests'[c]  OBVIOUS
  <2>2. Right(x, ranks, players)  BY <2>1 DEF RankInv
  <2>3. x.at = "remove" => \A p \in People : players'[p].rank # x.form.rank  BY <2>2
          DEF Right, RanksKept
  <2>4. Right(x, ranks', players')  BY <2>2, <2>3, Untouched
  <2> QED BY <2>1, <2>4
<1>4. OnTop' \/ \A c \in Browsers : Low(requests'[c])  BY <1>2 DEF RankInv
<1> QED BY <1>1, <1>2, <1>3, <1>4, RankFrom

\* A request that edits nothing has nothing to keep right.
LEMMA Elsewhere ==
    ASSUME NEW q, Reading(q), q.at \notin EditStages
    PROVE  Right(q, ranks, players) /\ Low(q) /\ q.at \notin HoldStages
BY DEF Right, Low, EditStages, HoldStages

LEMMA AtRest == Reading(NoRequest) /\ NoRequest.at \notin EditStages
BY DEF Reading, NoRequest, EditStages, HoldStages

LEMMA AccessBool == ASSUME NEW p PROVE Access(p) \in BOOLEAN
BY Zenon DEF Access

LEMMA SameTypes == ASSUME RankInv, UNCHANGED <<codes, sessions, ranks>> PROVE RankTypes'
BY DEF RankInv, RankTypes

LEMMA Elsewise ==
    ASSUME RankInv, RankTypes', UNCHANGED ranks, RanksKept, NEW b \in Browsers, NEW q,
           requests' = [requests EXCEPT ![b] = q], Reading(q), q.at \notin EditStages
    PROVE  RankInv'
BY Elsewhere, OneRequest

LEMMA SigningKeeps ==
    ASSUME RankInv, SigningIn
    PROVE  RankInv' /\ RanksKept
<1>1. UNCHANGED <<players, ranks, codes>>
  BY DEF SigningIn, SteamCallback, DiscordLogin, CreatePlayer, CreateSession, InsertSession, Logout,
     EnsureBlankPlayer, roleVars, syncVars
<1>2. RanksKept  BY <1>1 DEF RanksKept
<1>3. ASSUME NEW b \in Browsers, NEW p \in People, SteamCallback(b, p) PROVE RankInv'
  <2> DEFINE q == [at |-> IF p \in rows THEN "access" ELSE "create", who |-> p]
  <2>0. requests' = [requests EXCEPT ![b] = q]  BY <1>3 DEF SteamCallback, GoOn
  <2>1. q \in [at : {"access", "create"}, who : People]  OBVIOUS
  <2> HIDE DEF q
  <2>2. Reading(q) /\ q.at \notin EditStages  BY <2>1 DEF Reading, EditStages, HoldStages
  <2>3. RankTypes'  BY <1>3, SameTypes DEF SteamCallback
  <2> QED BY <1>1, <1>2, <2>0, <2>2, <2>3, Elsewise
<1>4. ASSUME NEW b \in Browsers, NEW a \in Accounts, DiscordLogin(b, a) PROVE RankInv'
  <2>0. PICK p \in Owners(a) : requests' = [requests EXCEPT ![b] = [at |-> "access", who |-> p]]
    BY <1>4 DEF DiscordLogin, GoOn
  <2> DEFINE q == [at |-> "access", who |-> p]
  <2>1. q \in [at : {"access"}, who : People]  BY DEF Owners
  <2>4. requests' = [requests EXCEPT ![b] = q]  BY <2>0
  <2> HIDE DEF q
  <2>2. Reading(q) /\ q.at \notin EditStages  BY <2>1 DEF Reading, EditStages, HoldStages
  <2>3. RankTypes'  BY <1>4, SameTypes DEF DiscordLogin
  <2> QED BY <1>1, <1>2, <2>2, <2>3, <2>4, Elsewise
<1>5. ASSUME NEW b \in Browsers, CreatePlayer(b) PROVE RankInv'
  <2>1. requests[b].who \in People  BY <1>5 DEF CreatePlayer, RankInv, Right, Reading
  <2>2. PICK q : requests' = [requests EXCEPT ![b] = q]
                 /\ (q = NoRequest \/ q \in [at : {"access"}, who : People])
    BY <1>5, <2>1 DEF CreatePlayer, GoOn
  <2>3. Reading(q) /\ q.at \notin EditStages  BY <2>2, AtRest DEF Reading, EditStages, HoldStages
  <2>4. RankTypes'  BY <1>5, SameTypes DEF CreatePlayer
  <2> QED BY <1>1, <1>2, <2>2, <2>3, <2>4, Elsewise
<1>6. ASSUME NEW b \in Browsers, CreateSession(b) PROVE RankInv'
  <2> DEFINE q == [at |-> "insert", who |-> requests[b].who, access |-> Access(requests[b].who)]
  <2>1. requests[b].who \in People  BY <1>6 DEF CreateSession, RankInv, Right, Reading
  <2>2. requests' = [requests EXCEPT ![b] = q]  BY <1>6 DEF CreateSession, GoOn
  <2>3. q.access \in BOOLEAN  BY AccessBool
  <2>4. Reading(q) /\ q.at \notin EditStages  BY <2>1, <2>3 DEF Reading, EditStages, HoldStages
  <2>5. RankTypes'  BY <1>6, SameTypes DEF CreateSession
  <2> HIDE DEF q
  <2> QED BY <1>1, <1>2, <2>2, <2>4, <2>5, Elsewise
<1>7. ASSUME NEW b \in Browsers, InsertSession(b) PROVE RankInv'
  <2>1. requests[b].who \in People /\ requests[b].access \in BOOLEAN
    BY <1>7 DEF InsertSession, RankInv, Right, Reading
  <2>2. [who |-> requests[b].who, access |-> requests[b].access] \in Sessions  BY <2>1 DEF Sessions
  <2>3. RankTypes'  BY <1>1, <1>7, <2>2 DEF InsertSession, RankInv, RankTypes
  <2>4. requests' = [requests EXCEPT ![b] = NoRequest]  BY <1>7 DEF InsertSession, GoOn
  <2> QED BY <1>1, <1>2, <2>3, <2>4, AtRest, Elsewise
<1>8. ASSUME NEW b \in Browsers, Logout(b) PROVE RankInv'
  <2>1. RankTypes' /\ UNCHANGED <<ranks, requests>>  BY <1>1, <1>8 DEF Logout, RankInv, RankTypes
  <2> QED BY <1>2, <2>1, NoRequests
<1>9. ASSUME NEW p \in People, EnsureBlankPlayer(p) PROVE RankInv'
  <2>1. UNCHANGED <<ranks, requests, codes, sessions>>  BY <1>9 DEF EnsureBlankPlayer
  <2> QED BY <1>2, <2>1, SameTypes, NoRequests
<1> QED BY <1>2, <1>3, <1>4, <1>5, <1>6, <1>7, <1>8, <1>9 DEF SigningIn

LEMMA PanelKeeps ==
    ASSUME RankInv, Panel
    PROVE  RankInv' /\ RanksKept
<1>1. UNCHANGED <<players, ranks, codes>>
  BY DEF Panel, Middleware, RequirePanel, Page, ActorLevel, roleVars, syncVars
<1>2. RanksKept  BY <1>1 DEF RanksKept
<1>3. ASSUME NEW b \in Browsers, Middleware(b) PROVE RankInv'
  <2>1. sessions[b] \in Sessions  BY <1>3 DEF Middleware, RankInv, RankTypes
  <2> DEFINE live == [at |-> "route", who |-> sessions[b].who, access |-> Access(sessions[b].who),
        blind |-> FALSE]
             cached == [at |-> "route", who |-> sessions[b].who, access |-> sessions[b].access,
               blind |-> TRUE]
             Entered(q) == q.at = "route" /\ q.who = sessions[b].who
               /\ DOMAIN q = {"at", "who", "access", "blind"}
  <2>0. requests' = [requests EXCEPT ![b] = live] \/ requests' = [requests EXCEPT ![b] = cached]
    BY <1>3 DEF Middleware, GoOn
  <2>r. Entered(live) /\ Entered(cached)  OBVIOUS
  <2> HIDE DEF live, cached
  <2>2. PICK q : requests' = [requests EXCEPT ![b] = q] /\ Entered(q)
    <3>1. CASE requests' = [requests EXCEPT ![b] = live]  BY <2>r, <3>1
    <3>2. CASE requests' = [requests EXCEPT ![b] = cached]  BY <2>r, <3>2
    <3> QED BY <2>0, <3>1, <3>2
  <2>3. Reading(q) /\ q.at \notin EditStages
    BY <2>1, <2>2 DEF Reading, EditStages, HoldStages, Sessions
  <2>4. sessions' \in [Browsers -> Sessions \cup {Null}]
    <3>1. [sessions[b] EXCEPT !.access = Access(sessions[b].who)] \in Sessions  BY <2>1, AccessBool
            DEF Sessions
    <3>2. UNCHANGED sessions
            \/ sessions' = [sessions EXCEPT ![b] = [sessions[b] EXCEPT !.access = Access(sessions[b].who)]]
      BY <1>3 DEF Middleware
    <3> QED BY <3>1, <3>2 DEF RankInv, RankTypes
  <2>5. RankTypes'  BY <1>1, <2>4 DEF RankInv, RankTypes
  <2> QED BY <1>1, <1>2, <2>2, <2>3, <2>5, Elsewise
<1>4. ASSUME NEW b \in Browsers, RequirePanel(b) PROVE RankInv'
  <2>1. DOMAIN requests[b] = {"at", "who", "access", "blind"} /\ requests[b].who \in People
    BY <1>4 DEF RequirePanel, RankInv, Right, Reading
  <2> DEFINE let(blind) == [requests[b] EXCEPT !.at = "panel", !.blind = blind]
  <2>0. \/ requests' = [requests EXCEPT ![b] = let(FALSE)]
             \/ requests' = [requests EXCEPT ![b] = let(TRUE)]
        \/ requests' = [requests EXCEPT ![b] = NoRequest]
    BY <1>4 DEF RequirePanel, Admitted, GoOn
  <2>a. \A blind \in BOOLEAN : let(blind).at = "panel" /\ let(blind).who \in People  BY <2>1
  <2> HIDE DEF let
  <2>2. PICK q : requests' = [requests EXCEPT ![b] = q]
                 /\ (q = NoRequest \/ (q.at = "panel" /\ q.who \in People))
    BY <2>0, <2>a
  <2>3. q # NoRequest => q.at = "panel" /\ q.who \in People  BY <2>2
  <2>4. Reading(q) /\ q.at \notin EditStages  BY <2>3, AtRest DEF Reading, EditStages, HoldStages
  <2>5. RankTypes'  BY <1>4, SameTypes DEF RequirePanel
  <2> QED BY <1>1, <1>2, <2>2, <2>4, <2>5, Elsewise
<1>5. ASSUME NEW b \in Browsers, Page(b) PROVE RankInv'
  <2>1. requests' = [requests EXCEPT ![b] = NoRequest] /\ RankTypes'  BY <1>5, SameTypes DEF Page, GoOn
  <2> QED BY <1>1, <1>2, <2>1, AtRest, Elsewise
<1>6. ASSUME NEW b \in Browsers, ActorLevel(b) PROVE RankInv'
  <2>1. PICK form \in Forms : requests' = [requests EXCEPT ![b] =
             [at |-> "lock", who |-> requests[b].who, level |-> Level(requests[b].who), form |-> form]]
    BY <1>6 DEF ActorLevel, GoOn, Asked
  <2> DEFINE q == [at |-> "lock", who |-> requests[b].who, level |-> Level(requests[b].who),
        form |-> form]
  <2>2. requests[b].who \in People  BY <1>6 DEF ActorLevel, RankInv, Right, Reading
  <2>3. q.level \in 0..TopLevel  BY <2>2, LevelTypes DEF RankInv
  <2>4. Right(q, ranks, players)  BY <2>2, <2>3 DEF Right, Reading, EditStages, HoldStages, EditFields
  <2>5. OnTop \/ Low(q)  BY <1>6, <2>2, LowLevel DEF Low, RankInv, ActorLevel
  <2>6. q.at \notin HoldStages  BY DEF HoldStages
  <2>7. RankTypes'  BY <1>6, SameTypes DEF ActorLevel
  <2>8. requests' = [requests EXCEPT ![b] = q]  BY <2>1
  <2> HIDE DEF q
  <2> QED BY <1>1, <1>2, <2>4, <2>5, <2>6, <2>7, <2>8, OneRequest
<1> QED BY <1>2, <1>3, <1>4, <1>5, <1>6 DEF Panel

-------------------------------------------------------------------------------
(* The ranks are edited.                                                     *)

\* An edit goes on to its next stage.
LEMMA NextStage ==
    ASSUME NEW q, DOMAIN q = EditFields, NEW s
    PROVE  LET n == [q EXCEPT !.at = s] IN
           n.at = s /\ n.who = q.who /\ n.level = q.level /\ n.form = q.form /\ DOMAIN n = EditFields
BY DEF EditFields

LEMMA LowAgain ==
    ASSUME RankInv, NEW b \in Browsers, requests[b].at \in EditStages, NEW q,
             q.level = requests[b].level
    PROVE  OnTop \/ Low(q)
BY DEF RankInv, Low

LEMMA RefusalKeeps ==
    ASSUME RankInv, NEW b \in Browsers, Refuse(b), UNCHANGED <<ranks, players, codes, sessions>>
    PROVE  RankInv'
<1>1. RankTypes' /\ RanksKept  BY SameTypes DEF RanksKept
<1>2. requests' = [requests EXCEPT ![b] = NoRequest]  BY DEF Refuse, GoOn
<1> QED BY <1>1, <1>2, AtRest, Elsewise

\* An edit that goes on, with the lock it has or one nobody has.
LEMMA EditKeeps ==
    ASSUME RankInv, NEW b \in Browsers, NEW q, requests' = [requests EXCEPT ![b] = q],
           UNCHANGED <<ranks, players, codes, sessions>>, requests[b].at \in EditStages,
           Right(q, ranks, players), q.level = requests[b].level,
           q.at \in HoldStages => q.form.rank \in Holds(b) \/ ~Locked(q.form.rank)
    PROVE  RankInv'
<1>1. RankTypes' /\ RanksKept  BY SameTypes DEF RanksKept
<1>2. OnTop \/ Low(q)  BY LowAgain
<1> QED BY <1>1, <1>2, OneRequest

LEMMA LockKeeps == ASSUME RankInv, NEW b \in Browsers, LockRank(b) PROVE RankInv'
<1>0. UNCHANGED <<ranks, players, codes, sessions>>  BY DEF LockRank, roleVars
<1>1. CASE Refuse(b)  BY <1>0, <1>1, RefusalKeeps
<1>2. CASE ~Refuse(b)
  <2> DEFINE old == requests[b]
             form == old.form
             stage == CASE form.op = "save" -> "own" [] form.op = "move" -> "neighbour" [] form.op = "delete" -> "count"
             next == [old EXCEPT !.at = stage]
  <2>1. old.at = "lock" /\ form.op \notin {"create", "map"} /\ ~Locked(form.rank)
          /\ requests' = [requests EXCEPT ![b] = next]
          /\ form.rank \in Standing
          /\ (form.op # "move" => CanEdit(ranks[form.rank].level, old.level))
          /\ (form.op = "save" => MayRelevel(form.rank, form.level, old.level))
    BY <1>2 DEF LockRank, GoOn
  <2>2. Reading(old) /\ old.at \in EditStages  BY <2>1 DEF RankInv, Right, EditStages
  <2>3. old.who \in People /\ old.level \in 0..TopLevel /\ form \in Forms /\ DOMAIN old = EditFields
    BY <2>1, <2>2 DEF Reading
  <2>4. form.op \in {"save", "move", "delete"}  BY <2>1, <2>3, FormFields
  <2>5. next.at = stage /\ next.who = old.who /\ next.level = old.level /\ next.form = form
          /\ DOMAIN next = EditFields
    BY <2>3, NextStage
  <2>6. stage = (IF form.op = "save" THEN "own" ELSE IF form.op = "move" THEN "neighbour" ELSE "count")
    BY <2>4
  <2>7. form.rank \in Ranks /\ ranks[form.rank] # Gone  BY <2>1 DEF Standing
  <2>8. form.op = "save" => form.level = ranks[form.rank].level
                            \/ (ranks[form.rank].level < old.level /\ form.level < old.level)
    BY <2>1 DEF MayRelevel
  <2> HIDE DEF next, stage
  <2>9. PICK q : q = next  OBVIOUS
  <2>10. Reading(q)
    BY <2>2, <2>3, <2>4, <2>5, <2>6, <2>9 DEF Reading, EditStages, HoldStages
  <2>11. Right(q, ranks, players)
    BY <2>1, <2>4, <2>5, <2>6, <2>7, <2>8, <2>9, <2>10 DEF Right, HoldStages
  <2>12. requests' = [requests EXCEPT ![b] = q] /\ q.level = requests[b].level /\ ~Locked(q.form.rank)
    BY <2>1, <2>5, <2>9
  <2> QED BY <1>0, <2>2, <2>11, <2>12, EditKeeps
<1> QED BY <1>1, <1>2

LEMMA OwnKeeps == ASSUME RankInv, NEW b \in Browsers, ReadOwn(b) PROVE RankInv'
<1>0. UNCHANGED <<ranks, players, codes, sessions>>  BY DEF ReadOwn, roleVars
<1>1. CASE Refuse(b)  BY <1>0, <1>1, RefusalKeeps
<1>2. CASE ~Refuse(b)
  <2> DEFINE next == [requests[b] EXCEPT !.at = "write"]
  <2>1. requests[b].at = "own" /\ requests' = [requests EXCEPT ![b] = next]  BY <1>2 DEF ReadOwn, GoOn
  <2>2. Right(requests[b], ranks, players)  BY DEF RankInv
  <2>3. DOMAIN requests[b] = EditFields  BY <2>1, <2>2 DEF Right, Reading, EditStages, HoldStages
  <2>4. next.at = "write" /\ next.who = requests[b].who /\ next.level = requests[b].level
          /\ next.form = requests[b].form /\ DOMAIN next = EditFields
    BY <2>3, NextStage
  <2> HIDE DEF next
  <2>5. Reading(next)  BY <2>1, <2>2, <2>4 DEF Right, Reading, EditStages, HoldStages
  <2>6. Right(next, ranks, players)  BY <2>1, <2>2, <2>4, <2>5 DEF Right, HoldStages
  <2>7. next.form.rank \in Holds(b)  BY <2>1, <2>4 DEF Holds
  <2>8. requests[b].at \in EditStages  BY <2>1 DEF EditStages, HoldStages
  <2> QED BY <1>0, <2>1, <2>4, <2>6, <2>7, <2>8, EditKeeps
<1> QED BY <1>1, <1>2

LEMMA CountKeeps == ASSUME RankInv, NEW b \in Browsers, CountMembers(b) PROVE RankInv'
<1>0. UNCHANGED <<ranks, players, codes, sessions>>  BY DEF CountMembers, roleVars
<1>1. CASE Refuse(b)  BY <1>0, <1>1, RefusalKeeps
<1>2. CASE ~Refuse(b)
  <2> DEFINE next == [requests[b] EXCEPT !.at = "remove"]
  <2>1. requests[b].at = "count" /\ requests' = [requests EXCEPT ![b] = next]
          /\ ~Kept(requests[b].form.rank)
    BY <1>2 DEF CountMembers, GoOn
  <2>2. Right(requests[b], ranks, players)  BY DEF RankInv
  <2>3. DOMAIN requests[b] = EditFields  BY <2>1, <2>2 DEF Right, Reading, EditStages, HoldStages
  <2>4. next.at = "remove" /\ next.who = requests[b].who /\ next.level = requests[b].level
          /\ next.form = requests[b].form /\ DOMAIN next = EditFields
    BY <2>3, NextStage
  <2> HIDE DEF next
  <2>5. Reading(next)  BY <2>1, <2>2, <2>4 DEF Right, Reading, EditStages, HoldStages
  <2>6. \A p \in People : players[p].rank # next.form.rank  BY <2>1, <2>4 DEF Kept
  <2>7. Right(next, ranks, players)  BY <2>1, <2>2, <2>4, <2>5, <2>6 DEF Right, HoldStages
  <2>8. next.form.rank \in Holds(b)  BY <2>1, <2>4 DEF Holds
  <2>9. requests[b].at \in EditStages  BY <2>1 DEF EditStages, HoldStages
  <2> QED BY <1>0, <2>1, <2>4, <2>7, <2>8, <2>9, EditKeeps
<1> QED BY <1>1, <1>2

LEMMA LevelsKeep == ASSUME RankInv, NEW b \in Browsers, ReadLevels(b) PROVE RankInv'
<1>0. UNCHANGED <<ranks, players, codes, sessions>>  BY DEF ReadLevels, roleVars
<1>1. CASE Refuse(b)  BY <1>0, <1>1, RefusalKeeps
<1>2. CASE ~Refuse(b)
  <2> DEFINE next == [requests[b] EXCEPT !.at = "create_rank"]
  <2>1. requests[b].at = "lock" /\ requests[b].form.op = "create"
          /\ requests' = [requests EXCEPT ![b] = next]
          /\ ~(requests[b].form.level >= requests[b].level)
    BY <1>2 DEF ReadLevels, GoOn
  <2>2. Reading(requests[b])  BY DEF RankInv, Right
  <2>3. DOMAIN requests[b] = EditFields /\ requests[b].level \in 0..TopLevel
          /\ requests[b].form.level \in Nat
    BY <2>1, <2>2, FormFields DEF Reading, EditStages, HoldStages
  <2>4. next.at = "create_rank" /\ next.who = requests[b].who /\ next.level = requests[b].level
          /\ next.form = requests[b].form /\ DOMAIN next = EditFields
    BY <2>3, NextStage
  <2>5. requests[b].form.level < requests[b].level  BY <2>1, <2>3, AccessAssumption
  <2> HIDE DEF next
  <2>6. Reading(next)  BY <2>1, <2>2, <2>4, <2>5 DEF Reading, EditStages, HoldStages
  <2>7. Right(next, ranks, players) /\ next.at \notin HoldStages  BY <2>4, <2>6 DEF Right, HoldStages
  <2>8. requests[b].at \in EditStages  BY <2>1 DEF EditStages
  <2> QED BY <1>0, <2>1, <2>4, <2>7, <2>8, EditKeeps
<1> QED BY <1>1, <1>2

LEMMA NeighbourKeeps == ASSUME RankInv, NEW b \in Browsers, PickNeighbour(b) PROVE RankInv'
<1>0. UNCHANGED <<ranks, players, codes, sessions>>  BY DEF PickNeighbour, roleVars
<1> DEFINE form == requests[b].form
           next == [at |-> "swap", who |-> requests[b].who, level |-> requests[b].level, form |-> form,
                    among |-> Neighbours(form.rank, form.up)]
<1>1. requests[b].at = "neighbour"
        /\ requests' = [requests EXCEPT ![b] = next]  BY DEF PickNeighbour, GoOn
<1>2. Right(requests[b], ranks, players)  BY DEF RankInv
<1>3. next.at = "swap" /\ next.who = requests[b].who /\ next.level = requests[b].level
        /\ next.form = requests[b].form /\ DOMAIN next = EditFields \cup {"among"}
  BY DEF EditFields
<1> HIDE DEF next
<1>4. Reading(next)  BY <1>1, <1>2, <1>3 DEF Right, Reading, EditStages, HoldStages
<1>5. Right(next, ranks, players)  BY <1>1, <1>2, <1>3, <1>4 DEF Right, HoldStages
<1>6. next.form.rank \in Holds(b)  BY <1>1, <1>3 DEF Holds
<1>7. requests[b].at \in EditStages  BY <1>1 DEF EditStages, HoldStages
<1> QED BY <1>0, <1>1, <1>3, <1>5, <1>6, <1>7, EditKeeps

\* Steps that change the ranks: whoever is on top stays there, and so does the rank.
LEMMA RankSteps ==
    ASSUME RankInv, RankTypes', RanksKept, NEW b \in Browsers,
             requests' = [requests EXCEPT ![b] = NoRequest],
           \A c \in Browsers \ {b} : requests[c].at \in HoldStages =>
                ranks'[requests[c].form.rank] = ranks[requests[c].form.rank],
           \A r \in Ranks : ranks[r] # Gone
             /\ ranks'[r] = Gone => \A p \in People : players[p].rank # r,
           \A r \in Tops : (OnTop => \E p \in People : players[p].rank = r) => r \in Tops'
    PROVE  RankInv'
<1>1. Apart' /\ DOMAIN requests' = Browsers
  BY AtRest, StillApart DEF RankInv, EditStages
<1>2. ASSUME NEW c \in Browsers PROVE Right(requests'[c], ranks', players')
  <2>1. CASE c = b
    <3>1. requests'[c] = NoRequest  BY <2>1 DEF RankInv
    <3>2. Right(NoRequest, ranks', players')  BY AtRest DEF Right, EditStages, HoldStages
    <3> QED BY <3>1, <3>2
  <2>2. CASE c # b
    <3>1. PICK x : x = requests[c] /\ x = requests'[c]  BY <2>2 DEF RankInv
    <3>2. Right(x, ranks, players)  BY <3>1 DEF RankInv
    <3>3. x.at \in HoldStages => ranks'[x.form.rank] = ranks[x.form.rank]  BY <2>2, <3>1
    <3>4. x.at = "remove" => \A p \in People : players'[p].rank # x.form.rank  BY <3>2
            DEF Right, RanksKept
    <3>5. Right(x, ranks', players')  BY <3>2, <3>3, <3>4, Untouched
    <3> QED BY <3>1, <3>5
  <2> QED BY <2>1, <2>2
<1>3. OnTop => OnTop'
  <2> SUFFICES ASSUME OnTop PROVE OnTop'  OBVIOUS
  <2>1. PICK p \in People : players[p].rank \in Tops  BY DEF OnTop
  <2>2. players[p].rank \in Tops'  BY <2>1
  <2>3. players'[p].rank \in Tops'  BY <2>2 DEF RanksKept
  <2> QED BY <2>3 DEF OnTop
<1>4. Tops' # {}
  <2>1. CASE OnTop
    <3>1. PICK p \in People : players[p].rank \in Tops  BY <2>1 DEF OnTop
    <3> QED BY <3>1
  <2>2. CASE ~OnTop
    <3>1. PICK r : r \in Tops  BY DEF RankInv, RanksStand
    <3> QED BY <2>2, <3>1
  <2> QED BY <2>1, <2>2
<1>5. ASSUME NEW p \in People PROVE players'[p].rank \in (Standing \cup {0})'
  <2>1. players[p].rank = 0 \/ (players[p].rank \in Ranks /\ ranks[players[p].rank] # Gone)
    BY DEF RankInv, RanksStand, Standing
  <2>2. players[p].rank = 0 \/ (players[p].rank \in Ranks /\ ranks'[players[p].rank] # Gone)  BY <2>1
  <2>3. players'[p].rank = players[p].rank  BY DEF RanksKept
  <2> QED BY <2>2, <2>3 DEF Standing
<1>6. RanksStand'  BY <1>4, <1>5 DEF RanksStand
<1>7. OnTop' \/ \A c \in Browsers : Low(requests'[c])
  <2>1. CASE OnTop  BY <1>3, <2>1
  <2>2. CASE ~OnTop
    <3>1. \A c \in Browsers : Low(requests[c])  BY <2>2 DEF RankInv
    <3>2. \A c \in Browsers : requests'[c] = NoRequest \/ requests'[c] = requests[c]  BY DEF RankInv
    <3>3. Low(NoRequest)  BY AtRest DEF Low
    <3> QED BY <3>1, <3>2, <3>3
  <2> QED BY <2>1, <2>2
<1> QED BY <1>1, <1>2, <1>6, <1>7, RankFrom

\* Two requests never hold one rank.
LEMMA OtherRank ==
    ASSUME RankInv, NEW b \in Browsers, NEW c \in Browsers \ {b}, requests[b].at \in HoldStages,
           requests[c].at \in HoldStages
    PROVE  requests[c].form.rank # requests[b].form.rank
BY DEF RankInv, Apart, Holds, HoldStages

LEMMA RankLevel == ASSUME RankTypes, NEW r \in Ranks, ranks[r] # Gone PROVE ranks[r] \in RankRows
  /\ ranks[r].level \in 1..TopLevel
BY DEF RankTypes, RankRows

LEMMA SaveKeeps == ASSUME RankInv, NEW b \in Browsers, SaveRank(b) PROVE RankInv' /\ RanksKept
<1> DEFINE q == requests[b]
           r == q.form.rank
           row == [level |-> q.form.level, admin |-> q.form.admin, perms |-> q.form.perms]
<1>1. q.at = "write" /\ requests' = [requests EXCEPT ![b] = NoRequest]
        /\ ranks' = [ranks EXCEPT ![r] = row]
        /\ UNCHANGED <<players, codes, sessions>>
  BY DEF SaveRank, GoOn, roleVars
<1>2. Right(q, ranks, players) /\ Reading(q)  BY DEF RankInv, Right
<1>3. q.level \in 0..TopLevel /\ q.form \in Forms /\ q.form.op = "save"
  BY <1>1, <1>2 DEF Reading, EditStages, HoldStages
<1>4. r \in Ranks /\ q.form.level \in Nat \ {0} /\ q.form.admin \in BOOLEAN
        /\ q.form.perms \in SUBSET STRING
  BY <1>3, FormFields
<1>5. ranks[r] # Gone /\ ranks[r].level \in 1..TopLevel
  BY <1>1, <1>2, <1>4, RankLevel DEF Right, HoldStages, RankInv
<1>6. q.form.level = ranks[r].level \/ (ranks[r].level < q.level /\ q.form.level < q.level)
  BY <1>1, <1>2 DEF Right
<1>7. q.form.level \in 1..TopLevel  BY <1>3, <1>4, <1>5, <1>6, AccessAssumption
<1>8. row \in RankRows  BY <1>4, <1>7 DEF RankRows
<1>9. ranks \in [Ranks -> RankRows \cup {Gone}]  BY DEF RankInv, RankTypes
<1>10. RankTypes'
  <2> HIDE DEF row
  <2> QED BY <1>1, <1>8, <1>9 DEF RankInv, RankTypes
<1>11. RanksKept  BY <1>1 DEF RanksKept
<1>12. row # Gone  BY <1>8, AccessAssumption
<1>13. ASSUME NEW s \in Tops PROVE s \in Tops'
  <2>1. s \in Ranks /\ ranks[s] # Gone /\ ranks[s].level >= TopLevel  BY DEF Tops, Standing
  <2>2. CASE s = r
    <3>1. q.form.level = ranks[r].level  BY <1>3, <1>5, <1>6, <2>1, <2>2, AccessAssumption
    <3>2. ranks'[s] = row /\ row.level = q.form.level  BY <1>1, <1>9, <2>1, <2>2
    <3> QED BY <1>12, <2>1, <2>2, <3>1, <3>2 DEF Tops, Standing
  <2>3. CASE s # r
    <3>1. ranks'[s] = ranks[s]  BY <1>1, <1>9, <2>1, <2>3
    <3> QED BY <2>1, <3>1 DEF Tops, Standing
  <2> QED BY <2>2, <2>3
<1>14. ASSUME NEW c \in Browsers \ {b}, requests[c].at \in HoldStages
       PROVE  ranks'[requests[c].form.rank] = ranks[requests[c].form.rank]
  <2>1. requests[c].form.rank # r  BY <1>1, <1>14, OtherRank DEF HoldStages
  <2>2. requests[c].form.rank \in Ranks  BY <1>14 DEF RankInv, Right
  <2> QED BY <1>1, <1>9, <2>1, <2>2
<1>15. \A s \in Ranks : ranks'[s] = Gone => ranks[s] = Gone
  <2> HIDE DEF row
  <2> QED BY <1>1, <1>4, <1>9, <1>12
<1> QED BY <1>1, <1>10, <1>11, <1>13, <1>14, <1>15, RankSteps

LEMMA CreateKeeps == ASSUME RankInv, NEW b \in Browsers, CreateRank(b) PROVE RankInv' /\ RanksKept
<1> DEFINE q == requests[b]
           row == [level |-> q.form.level, admin |-> FALSE, perms |-> {}]
<1>1. q.at = "create_rank" /\ requests' = [requests EXCEPT ![b] = NoRequest]
        /\ UNCHANGED <<players, codes, sessions>>
  BY DEF CreateRank, GoOn, roleVars
<1>2. PICK r \in Ranks \ Standing : ranks' = [ranks EXCEPT ![r] = row]  BY DEF CreateRank
<1>3. q.level \in 0..TopLevel /\ q.form \in Forms /\ q.form.op = "create" /\ q.form.level < q.level
  BY <1>1 DEF RankInv, Right, Reading, EditStages
<1>4. q.form.level \in Nat \ {0}  BY <1>3, FormFields
<1>5. row \in RankRows  BY <1>3, <1>4, AccessAssumption DEF RankRows
<1>6. ranks \in [Ranks -> RankRows \cup {Gone}]  BY DEF RankInv, RankTypes
<1> HIDE DEF row
<1>7. RankTypes'  BY <1>1, <1>2, <1>5, <1>6 DEF RankInv, RankTypes
<1>8. RanksKept  BY <1>1 DEF RanksKept
<1>9. row # Gone /\ ranks[r] = Gone  BY <1>5, AccessAssumption DEF Standing
<1>10. \A s \in Ranks : ranks[s] # Gone => ranks'[s] = ranks[s]  BY <1>2, <1>6, <1>9
<1>11. Tops \subseteq Tops'  BY <1>10 DEF Tops, Standing
<1>12. ASSUME NEW c \in Browsers \ {b}, requests[c].at \in HoldStages
       PROVE  ranks'[requests[c].form.rank] = ranks[requests[c].form.rank]
  <2>1. requests[c].form.rank \in Ranks
          /\ ranks[requests[c].form.rank] # Gone  BY <1>12 DEF RankInv, Right
  <2> QED BY <1>10, <2>1
<1>13. \A s \in Ranks : ranks[s] # Gone => ranks'[s] # Gone  BY <1>10
<1> QED BY <1>1, <1>7, <1>8, <1>11, <1>12, <1>13, RankSteps

LEMMA DeleteKeeps == ASSUME SyncInv, RankInv, NEW b \in Browsers, DeleteRank(b) PROVE RankInv'
  /\ RanksKept
<1> DEFINE q == requests[b]
           r == q.form.rank
<1>1. q.at = "remove" /\ requests' = [requests EXCEPT ![b] = NoRequest]
        /\ ranks' = [ranks EXCEPT ![r] = Gone]
        /\ UNCHANGED <<codes, sessions>>
  BY DEF DeleteRank, GoOn
<1>2. Right(q, ranks, players) /\ Reading(q)  BY DEF RankInv, Right
<1>3. q.level \in 0..TopLevel /\ q.form \in Forms  BY <1>1, <1>2 DEF Reading, EditStages, HoldStages
<1>4. r \in Ranks /\ ranks[r] # Gone /\ CanEdit(ranks[r].level, q.level)
        /\ \A p \in People : players[p].rank # r
  BY <1>1, <1>2 DEF Right, HoldStages
<1>5. RanksKept
  <2>1. \A p \in People : players'[p] = players[p]  BY <1>4 DEF DeleteRank
  <2> QED BY <2>1 DEF RanksKept
<1>6. ranks \in [Ranks -> RankRows \cup {Gone}]  BY DEF RankInv, RankTypes
<1>7. RankTypes'  BY <1>1, <1>6 DEF RankInv, RankTypes
<1>8. ranks[r].level \in 1..TopLevel  BY <1>4, RankLevel DEF RankInv
<1>9. ASSUME NEW s \in Tops, OnTop => \E p \in People : players[p].rank = s PROVE s \in Tops'
  <2>1. s \in Ranks /\ ranks[s] # Gone /\ ranks[s].level >= TopLevel  BY DEF Tops, Standing
  <2>2. s # r
    <3>1. CASE OnTop  BY <1>4, <1>9, <3>1
    <3>2. CASE ~OnTop
      <4>1. Low(q)  BY <3>2 DEF RankInv
      <4>2. q.level < TopLevel  BY <1>1, <4>1 DEF Low, EditStages, HoldStages
      <4>3. ranks[r].level < TopLevel  BY <1>3, <1>4, <1>8, <4>2, AccessAssumption DEF CanEdit
      <4> QED BY <1>8, <2>1, <4>3, AccessAssumption
    <3> QED BY <3>1, <3>2
  <2>3. ranks'[s] = ranks[s]  BY <1>1, <1>6, <2>1, <2>2
  <2> QED BY <2>1, <2>3 DEF Tops, Standing
<1>10. ASSUME NEW c \in Browsers \ {b}, requests[c].at \in HoldStages
       PROVE  ranks'[requests[c].form.rank] = ranks[requests[c].form.rank]
  <2>1. requests[c].form.rank # r  BY <1>1, <1>10, OtherRank DEF HoldStages
  <2>2. requests[c].form.rank \in Ranks  BY <1>10 DEF RankInv, Right
  <2> QED BY <1>1, <1>6, <2>1, <2>2
<1>11. ASSUME NEW s \in Ranks, ranks[s] # Gone,
                ranks'[s] = Gone PROVE \A p \in People : players[p].rank # s
  BY <1>1, <1>4, <1>6, <1>11
<1> QED BY <1>1, <1>5, <1>7, <1>9, <1>10, <1>11, RankSteps

LEMMA SwapKeeps == ASSUME RankInv, NEW b \in Browsers, SwapRanks(b) PROVE RankInv' /\ RanksKept
<1> DEFINE q == requests[b]
           r == q.form.rank
           other == Head(q.among)
           mine == ranks[r].level
           theirs == ranks[other].level
<1>0. q.at = "swap" /\ UNCHANGED <<players, codes, sessions>>  BY DEF SwapRanks, roleVars
<1>1. RanksKept  BY <1>0 DEF RanksKept
<1>2. Right(q, ranks, players) /\ Reading(q)  BY DEF RankInv, Right
<1>3. q.level \in 0..TopLevel /\ DOMAIN q = EditFields \cup {"among"} /\ r \in Ranks /\ ranks[r] # Gone
  BY <1>0, <1>2 DEF Reading, Right, EditStages, HoldStages
<1>4. CASE Refuse(b) /\ UNCHANGED ranks  BY <1>0, <1>1, <1>4, RefusalKeeps
<1>5. CASE GoOn(b, [q EXCEPT !.among = Tail(@)]) /\ UNCHANGED ranks
  <2> DEFINE next == [q EXCEPT !.among = Tail(@)]
  <2>1. next.at = q.at /\ next.who = q.who /\ next.level = q.level /\ next.form = q.form
          /\ DOMAIN next = DOMAIN q
    BY <1>3 DEF EditFields
  <2>2. requests' = [requests EXCEPT ![b] = next]  BY <1>5 DEF GoOn
  <2> HIDE DEF next
  <2>r. Reading(next)  BY <1>0, <1>2, <2>1 DEF Reading, EditStages, HoldStages
  <2>3. Right(next, ranks, players)  BY <1>0, <1>2, <2>1, <2>r DEF Right, HoldStages
  <2>4. next.form.rank \in Holds(b)  BY <1>0, <2>1 DEF Holds
  <2>5. q.at \in EditStages  BY <1>0 DEF EditStages, HoldStages
  <2> QED BY <1>0, <1>1, <1>5, <2>1, <2>2, <2>3, <2>4, <2>5, EditKeeps
<1>6. CASE /\ Refuse(b) /\ ~Locked(other) /\ other \in Standing
           /\ ~(mine >= q.level \/ theirs >= q.level)
           /\ ranks' = [ranks EXCEPT ![r].level = theirs, ![other].level = mine]
           /\ (IF q.form.up THEN ~(theirs <= mine) ELSE ~(theirs >= mine))
  <2>1. other \in Ranks /\ ranks[other] # Gone  BY <1>6 DEF Standing
  <2>2. mine \in 1..TopLevel /\ theirs \in 1..TopLevel /\ ranks[r] \in RankRows
          /\ ranks[other] \in RankRows
    BY <1>3, <2>1, RankLevel DEF RankInv
  <2>3. mine < q.level /\ theirs < q.level  BY <1>3, <1>6, <2>2, AccessAssumption
  <2>4. mine < TopLevel /\ theirs < TopLevel  BY <1>3, <2>2, <2>3, AccessAssumption
  <2>5. ranks \in [Ranks -> RankRows \cup {Gone}]  BY DEF RankInv, RankTypes
  <2>6. other # r  BY <1>6, <2>2, AccessAssumption
  <2>7. [ranks[r] EXCEPT !.level = theirs] \in RankRows
          /\ [ranks[other] EXCEPT !.level = mine] \in RankRows
    BY <2>2 DEF RankRows
  <2>8. PICK low \in RankRows, high \in RankRows : ranks' = [ranks EXCEPT ![r] = low, ![other] = high]
    <3>1. ranks' = [ranks EXCEPT ![r] = [ranks[r] EXCEPT !.level = theirs],
                                 ![other] = [ranks[other] EXCEPT !.level = mine]]
      BY <1>3, <1>6, <2>1, <2>5, <2>6
    <3> QED BY <2>7, <3>1
  <2>9. RankTypes'  BY <1>0, <1>3, <2>1, <2>5, <2>8 DEF RankInv, RankTypes
  <2>10. low # Gone /\ high # Gone  BY AccessAssumption
  <2>11. requests' = [requests EXCEPT ![b] = NoRequest]  BY <1>6 DEF Refuse, GoOn
  <2>12. ASSUME NEW s \in Tops PROVE s \in Tops'
    <3>1. s \in Ranks /\ ranks[s] # Gone /\ ranks[s].level >= TopLevel  BY DEF Tops, Standing
    <3>2. s # r /\ s # other  BY <2>2, <2>4, <3>1, AccessAssumption
    <3>3. ranks'[s] = ranks[s]  BY <2>5, <2>8, <3>1, <3>2
    <3> QED BY <3>1, <3>3 DEF Tops, Standing
  <2>13. ASSUME NEW c \in Browsers \ {b}, requests[c].at \in HoldStages
         PROVE  ranks'[requests[c].form.rank] = ranks[requests[c].form.rank]
    <3>1. requests[c].form.rank # r  BY <1>0, <2>13, OtherRank DEF HoldStages
    <3>2. requests[c].form.rank \in Ranks  BY <2>13 DEF RankInv, Right
    <3>3. requests[c].form.rank \in Holds(c)  BY <2>13 DEF Holds, HoldStages
    <3>4. requests[c].form.rank # other  BY <1>6, <3>3 DEF Locked
    <3> QED BY <2>5, <2>8, <3>1, <3>2, <3>4
  <2>14. \A s \in Ranks : ranks'[s] = Gone => ranks[s] = Gone  BY <1>3, <2>1, <2>5, <2>8, <2>10
  <2> QED BY <1>1, <2>9, <2>11, <2>12, <2>13, <2>14, RankSteps
<1> QED BY <1>4, <1>5, <1>6 DEF SwapRanks

\* The mappings are saved.
LEMMA MappingsKeep ==
    ASSUME RankInv, NEW b \in Browsers, DeleteMappings(b) \/ SaveMappings(b)
    PROVE  RankInv' /\ RanksKept
<1>0. UNCHANGED <<ranks, players, codes, sessions>>  BY DEF DeleteMappings, SaveMappings
<1>1. RankTypes' /\ RanksKept  BY <1>0, SameTypes DEF RanksKept
<1>2. Reading(requests[b]) /\ DOMAIN requests = Browsers  BY DEF RankInv, Right
<1>3. CASE DeleteMappings(b)
  <2> DEFINE q == [at |-> "mappings", who |-> requests[b].who, form |-> requests[b].form,
        late |-> FALSE]
  <2>1. requests' = [requests EXCEPT ![b] = q] /\ requests[b].at = "lock" /\ requests[b].form.op = "map"
    BY <1>3 DEF DeleteMappings, GoOn
  <2>2. Reading(q) /\ q.at \notin EditStages  BY <1>2, <2>1 DEF Reading, EditStages, HoldStages
  <2> HIDE DEF q
  <2> QED BY <1>0, <1>1, <2>1, <2>2, Elsewise
<1>4. CASE SaveMappings(b)
  <2>1. DOMAIN requests' = Browsers  BY <1>4 DEF SaveMappings
  <2>2. ASSUME NEW c \in Browsers, requests'[c] # requests[c]
        PROVE  Reading(requests'[c]) /\ requests'[c].at \notin EditStages
    <3>1. CASE c = b
      <4>1. requests'[c] = NoRequest  BY <1>4, <3>1 DEF SaveMappings
      <4> QED BY <4>1, AtRest
    <3>2. CASE c # b
      <4> DEFINE q == [requests[c] EXCEPT !.late = TRUE]
      <4>1. requests'[c] = q /\ requests[c].at = "mappings"  BY <1>4, <2>2, <3>2 DEF SaveMappings
      <4>2. Reading(requests[c])  BY DEF RankInv, Right
      <4>3. DOMAIN requests[c] = {"at", "who", "form", "late"}  BY <4>1, <4>2 DEF Reading
      <4>4. q.at = "mappings" /\ q.form = requests[c].form /\ DOMAIN q = {"at", "who", "form", "late"}
        BY <4>1, <4>3
      <4> HIDE DEF q
      <4>5. Reading(q) /\ q.at \notin EditStages  BY <4>1, <4>2, <4>4
              DEF Reading, EditStages, HoldStages
      <4> QED BY <4>1, <4>5
    <3> QED BY <3>1, <3>2
  <2>3. ASSUME NEW c \in Browsers PROVE Right(requests'[c], ranks', players')
    <3>1. PICK x : x = requests'[c]  OBVIOUS
    <3>2. Right(x, ranks, players)
      <4>1. CASE requests'[c] = requests[c]  BY <3>1, <4>1 DEF RankInv
      <4>2. CASE requests'[c] # requests[c]
        <5>1. Reading(x) /\ x.at \notin EditStages  BY <2>2, <3>1, <4>2
        <5> QED BY <5>1, Elsewhere
      <4> QED BY <4>1, <4>2
    <3> QED BY <1>0, <3>1, <3>2
  <2>4. \A c \in Browsers : Holds(c)' \subseteq Holds(c)
    <3>1. ASSUME NEW c \in Browsers PROVE Holds(c)' \subseteq Holds(c)
      <4>1. CASE requests'[c] = requests[c]  BY <4>1 DEF Holds
      <4>2. CASE requests'[c] # requests[c]  BY <2>2, <4>2 DEF Holds, EditStages, HoldStages
      <4> QED BY <4>1, <4>2
    <3> QED BY <3>1
  <2>5. Apart'
    <3> SUFFICES ASSUME NEW c \in Browsers, NEW d \in Browsers, NEW r, r \in Holds(c)', r \in Holds(d)'
                 PROVE  c = d
      BY DEF Apart
    <3>1. r \in Holds(c) /\ r \in Holds(d)  BY <2>4
    <3> QED BY <3>1 DEF RankInv, Apart
  <2>6. RanksStand' /\ (OnTop => OnTop')  BY <1>0 DEF RankInv, RanksStand, OnTop, Tops, Standing
  <2>7. OnTop' \/ \A c \in Browsers : Low(requests'[c])
    <3>1. ASSUME \A c \in Browsers : Low(requests[c]) PROVE \A c \in Browsers : Low(requests'[c])
      <4>1. ASSUME NEW c \in Browsers PROVE Low(requests'[c])
        <5>1. CASE requests'[c] = requests[c]  BY <3>1, <5>1
        <5>2. CASE requests'[c] # requests[c]  BY <2>2, <5>2 DEF Low
        <5> QED BY <5>1, <5>2
      <4> QED BY <4>1
    <3> QED BY <2>6, <3>1 DEF RankInv
  <2> QED BY <1>1, <2>1, <2>3, <2>5, <2>6, <2>7, RankFrom
<1> QED BY <1>3, <1>4

LEMMA RankingKeeps == ASSUME SyncInv, RankInv, Ranking PROVE RankInv' /\ RanksKept
<1> PICK b \in Browsers :
        \/ LockRank(b) \/ ReadOwn(b) \/ SaveRank(b)
        \/ PickNeighbour(b) \/ SwapRanks(b) \/ DeadlockFound(b)
        \/ ReadLevels(b) \/ CreateRank(b)
        \/ CountMembers(b) \/ DeleteRank(b)
        \/ DeleteMappings(b) \/ SaveMappings(b)
  BY DEF Ranking
<1>1. CASE LockRank(b) \/ ReadOwn(b) \/ PickNeighbour(b) \/ DeadlockFound(b) \/ ReadLevels(b)
             \/ CountMembers(b)
  <2>1. UNCHANGED <<ranks, players, codes, sessions>>
    BY <1>1 DEF LockRank, ReadOwn, PickNeighbour, DeadlockFound, ReadLevels, CountMembers, roleVars
  <2>2. RanksKept  BY <2>1 DEF RanksKept
  <2>3. DeadlockFound(b) => Refuse(b)  BY DEF DeadlockFound
  <2> QED BY <1>1, <2>1, <2>2, <2>3, LockKeeps, OwnKeeps, NeighbourKeeps, LevelsKeep, CountKeeps,
        RefusalKeeps
<1>2. CASE SaveRank(b)  BY <1>2, SaveKeeps
<1>3. CASE SwapRanks(b)  BY <1>3, SwapKeeps
<1>4. CASE CreateRank(b)  BY <1>4, CreateKeeps
<1>5. CASE DeleteRank(b)  BY <1>5, DeleteKeeps
<1>6. CASE DeleteMappings(b) \/ SaveMappings(b)  BY <1>6, MappingsKeep
<1> QED BY <1>1, <1>2, <1>3, <1>4, <1>5, <1>6

-------------------------------------------------------------------------------
(* What others do.                                                           *)

LEMMA SetRankKeeps ==
    ASSUME SyncInv, RankInv, NEW p \in People, NEW r \in Standing \cup {0}, SetRank(p, r)
    PROVE  RankInv'
<1>1. PICK by \in People \ {p} : Can(by, "staff.edit")
            /\ (Level(by) >= TopLevel \/ (Level(p) < Level(by) /\ LevelOf(r) < Level(by)))
  BY DEF SetRank
<1>2. ~Locked(r) /\ players' = [players EXCEPT ![p].rank = r]
        /\ UNCHANGED <<ranks, codes, sessions, requests>>
  BY DEF SetRank
<1>3. players \in [People -> Persons]  BY DEF SyncInv
<1>4. players'[p].rank = r /\ \A q \in People \ {p} : players'[q] = players[q]
  <2>1. players[p] \in Persons  BY <1>3
  <2> QED BY <1>2, <1>3, <2>1 DEF Persons
<1>5. RankTypes'  BY <1>2, SameTypes
<1>6. Apart' /\ DOMAIN requests' = Browsers  BY <1>2 DEF RankInv, Apart, Holds
<1>7. Standing' = Standing /\ Tops' = Tops  BY <1>2 DEF Standing, Tops
<1>8. RanksStand'  BY <1>4, <1>7 DEF RankInv, RanksStand
<1>9. ASSUME NEW c \in Browsers PROVE Right(requests'[c], ranks', players')
  <2>1. PICK x : x = requests[c] /\ x = requests'[c]  BY <1>2
  <2>2. Right(x, ranks, players)  BY <2>1 DEF RankInv
  <2>3. ASSUME x.at = "remove", NEW q \in People PROVE players'[q].rank # x.form.rank
    <3>1. players[q].rank # x.form.rank  BY <2>2, <2>3 DEF Right
    <3>2. x.form.rank \in Holds(c)  BY <2>1, <2>3 DEF Holds
    <3>3. x.form.rank # r  BY <1>2, <3>2 DEF Locked
    <3> QED BY <1>4, <3>1, <3>3
  <2>4. Right(x, ranks', players')  BY <1>2, <2>2, <2>3, Untouched
  <2> QED BY <2>1, <2>4
<1>10. OnTop => OnTop'
  <2> SUFFICES ASSUME OnTop PROVE OnTop'  OBVIOUS
  <2>1. PICK q \in People : players[q].rank \in Tops  BY DEF OnTop
  <2>2. CASE q # p  BY <1>4, <1>7, <2>1, <2>2 DEF OnTop
  <2>3. CASE q = p
    <3>1. players[by].rank # 0  BY <1>1 DEF Can
    <3>2. Level(by) \in 0..TopLevel /\ (Level(by) >= TopLevel => players[by].rank \in Tops)
      BY <3>1, LevelTypes DEF RankInv
    <3>3. players[p].rank \in Standing
            /\ ranks[players[p].rank].level >= TopLevel  BY <2>1, <2>3 DEF Tops
    <3>4. players[p].rank # 0  BY <3>3, AccessAssumption DEF Standing
    <3>5. Level(p) >= TopLevel  BY <3>3, <3>4 DEF Level, LevelOf
    <3>6. Level(p) \in 0..TopLevel  BY LevelTypes DEF RankInv
    <3>7. Level(by) >= TopLevel  BY <1>1, <3>2, <3>5, <3>6, AccessAssumption
    <3>8. players'[by].rank \in Tops  BY <1>4, <3>2, <3>7
    <3> QED BY <1>7, <3>8 DEF OnTop
  <2> QED BY <2>2, <2>3
<1>11. OnTop' \/ \A c \in Browsers : Low(requests'[c])  BY <1>2, <1>10 DEF RankInv
<1> QED BY <1>5, <1>6, <1>8, <1>9, <1>11, RankFrom

\* Of somebody, something else than the rank is changed.
LEMMA RankIs ==
    ASSUME SyncInv, NEW p \in People, NEW x,
           players' = [players EXCEPT ![p].status = x] \/ players' = [players EXCEPT ![p].police = x]
    PROVE  RanksKept
<1>1. players[p] \in Persons /\ DOMAIN players = People  BY DEF SyncInv
<1>2. ASSUME NEW q \in People PROVE players'[q].rank = players[q].rank
  <2>1. \/ players'[q] = players[q]
        \/ players'[q] = [players[p] EXCEPT !.status = x] /\ q = p
        \/ players'[q] = [players[p] EXCEPT !.police = x] /\ q = p
    BY <1>1
  <2> QED BY <1>1, <2>1 DEF Persons
<1> QED BY <1>2 DEF RanksKept

LEMMA OthersKeep == ASSUME SyncInv, RankInv, Others PROVE RankInv'
<1>0. UNCHANGED <<ranks, requests, codes, sessions>>  BY DEF Others, SetRank, SetStatus, SetFactionLevel
<1>1. ASSUME NEW p \in People, NEW r \in Standing \cup {0}, SetRank(p, r) PROVE RankInv'
  BY <1>1, SetRankKeeps
<1>2. ASSUME NEW p \in People, NEW x, SetStatus(p, x) \/ SetFactionLevel(p, x) PROVE RankInv'
  <2>1. RanksKept  BY <1>2, RankIs DEF SetStatus, SetFactionLevel
  <2> QED BY <1>0, <2>1, SameTypes, NoRequests
<1> QED BY <1>1, <1>2 DEF Others

LEMMA LinkingKeeps == ASSUME SyncInv, RankInv, Linking PROVE RankInv'
<1>0. UNCHANGED <<ranks, requests, sessions>>
  BY DEF Linking, GenerateLinkCode, CodeExpires, Link, DiscordConnect, DiscordReconnect, accessVars
<1>1. codes' \in [Codes -> People \cup {Null}]
  <2>1. codes \in [Codes -> People \cup {Null}]  BY DEF RankInv, RankTypes
  <2>2. UNCHANGED codes \/ \E c \in Codes, p \in People \cup {Null} : codes' = [codes EXCEPT ![c] = p]
    BY DEF Linking, GenerateLinkCode, CodeExpires, Link, DiscordConnect, DiscordReconnect, accessVars
  <2> QED BY <2>1, <2>2
<1>2. RankTypes'  BY <1>0, <1>1 DEF RankInv, RankTypes
<1>3. ASSUME NEW p \in People, NEW a \in Accounts, LinkDiscord(p, a) PROVE RanksKept
  BY <1>3, Linked DEF RanksKept
<1>4. ASSUME NEW g \in Async, NEW c \in Codes, NEW a \in Accounts, Link(g, c, a) PROVE RanksKept
  <2>1. codes[c] \in People  BY <1>4 DEF Link, RankInv, RankTypes
  <2> QED BY <1>3, <1>4, <2>1 DEF Link
<1>5. ASSUME NEW b \in Browsers, NEW a \in Accounts, DiscordConnect(b, a) PROVE RanksKept
  <2>1. sessions[b].who \in People  BY <1>5 DEF DiscordConnect, RankInv, RankTypes, Sessions
  <2> QED BY <1>3, <1>5, <2>1 DEF DiscordConnect, Connect
<1>6. ASSUME UNCHANGED players PROVE RanksKept  BY <1>6 DEF RanksKept
<1>7. ASSUME NEW p, NEW c, GenerateLinkCode(p, c) \/ CodeExpires(c) PROVE UNCHANGED players
  BY <1>7 DEF GenerateLinkCode, CodeExpires, roleVars
<1>8. ASSUME NEW b, NEW g, NEW a, DiscordReconnect(b, g, a) PROVE UNCHANGED players
  BY <1>8 DEF DiscordReconnect, Reconnect
<1>9. RanksKept  BY <1>4, <1>5, <1>6, <1>7, <1>8 DEF Linking
<1> QED BY <1>0, <1>2, <1>9, NoRequests

LEMMA BotKeeps == ASSUME SyncInv, RankInv, Bot \/ Guild PROVE RankInv'
<1>0. UNCHANGED accessVars  BY DEF Bot, Guild
<1>1. RankTypes' /\ UNCHANGED <<ranks, requests>>  BY <1>0, SameTypes DEF accessVars
<1>2. ASSUME UNCHANGED players PROVE RanksKept  BY <1>2 DEF RanksKept
<1>3. RanksKept
  <2>1. CASE Guild  BY <1>2, <2>1, GuildKeeps
  <2>2. CASE Bot
    <3>1. ASSUME NEW g \in SyncRoutines, UnlinkDiscord(g) \/ Reconnected(g) PROVE RanksKept
      BY <3>1, LinksKeep DEF RanksKept
    <3>2. ASSUME NEW g \in SyncRoutines, AsyncBegins(g) \/ Mappings(g) \/ Identities(g)
                   \/ CurrentGroups(g)
                    \/ AddGroup(g) \/ RemoveGroup(g) \/ DatabaseFails(g)
          PROVE  RanksKept
      BY <1>2, <3>2 DEF AsyncBegins, Mappings, Identities, CurrentGroups, AddGroup, RemoveGroup,
         DatabaseFails
    <3>3. ASSUME Listen \/ StartPass \/ SyncAll \/ ListenerStops \/ ListenerReconnects
                   \/ ProcessRestarts
          PROVE  RanksKept
      BY <1>2, <3>3 DEF Listen, StartPass, SyncAll, ListenerStops, ListenerReconnects, ProcessRestarts
    <3> QED BY <2>2, <3>1, <3>2, <3>3 DEF Bot, Advance
  <2> QED BY <2>1, <2>2
<1> QED BY <1>1, <1>3, NoRequests

LEMMA RankKeeps ==
    ASSUME SyncInv, RankInv, [AccessNext]_panelVars
    PROVE  RankInv' /\ (ranks' # ranks => RanksKept)
<1>1. CASE Bot \/ Guild
  <2>1. UNCHANGED ranks  BY <1>1 DEF Bot, Guild, accessVars
  <2> QED BY <1>1, <2>1, BotKeeps
<1>2. CASE Linking
  <2>1. UNCHANGED ranks
    BY <1>2 DEF Linking, GenerateLinkCode, CodeExpires, Link, DiscordConnect, DiscordReconnect,
            accessVars
  <2> QED BY <1>2, <2>1, LinkingKeeps
<1>3. CASE Others
  <2>1. UNCHANGED ranks  BY <1>3 DEF Others, SetRank, SetStatus, SetFactionLevel
  <2> QED BY <1>3, <2>1, OthersKeep
<1>4. CASE SigningIn  BY <1>4, SigningKeeps
<1>5. CASE Panel  BY <1>5, PanelKeeps
<1>6. CASE Ranking  BY <1>6, RankingKeeps
<1>7. CASE UNCHANGED panelVars
  <2>1. UNCHANGED <<ranks, requests, codes, sessions, players>>  BY <1>7
          DEF panelVars, roleVars, syncVars, accessVars
  <2>2. RankTypes' /\ RanksKept  BY <2>1, SameTypes DEF RanksKept
  <2> QED BY <2>1, <2>2, NoRequests
<1> QED BY <1>1, <1>2, <1>3, <1>4, <1>5, <1>6, <1>7 DEF AccessNext

\* Edits of the ranks let nobody in.
LEMMA RankingStays ==
    ASSUME RankInv, Ranking, NEW b \in Browsers
    PROVE  requests'[b].at = "panel" => requests[b].at = "panel"
<1>0. DOMAIN requests = Browsers  BY DEF RankInv
<1>r. NoRequest.at # "panel"  BY DEF NoRequest
<1>1. ASSUME NEW c \in Browsers, NEW q, GoOn(c, q), q.at # "panel"
      PROVE  requests'[b].at = "panel" => requests[b].at = "panel"
  BY <1>0, <1>1 DEF GoOn
<1>2. ASSUME NEW c \in Browsers, Refuse(c)
      PROVE  requests'[b].at = "panel" => requests[b].at = "panel"
  BY <1>1, <1>2, <1>r DEF Refuse
<1>3. ASSUME NEW c \in Browsers, NEW s, s # "panel", requests[c].at \in EditStages,
             GoOn(c, [requests[c] EXCEPT !.at = s])
      PROVE  requests'[b].at = "panel" => requests[b].at = "panel"
  <2>1. "at" \in DOMAIN requests[c]  BY <1>3 DEF RankInv, Right, Reading, EditFields
  <2> DEFINE q == [requests[c] EXCEPT !.at = s]
  <2>2. q.at # "panel" /\ GoOn(c, q)  BY <1>3, <2>1
  <2> HIDE DEF q
  <2> QED BY <1>1, <2>2
<1> PICK c \in Browsers :
        \/ LockRank(c) \/ ReadOwn(c) \/ SaveRank(c)
        \/ PickNeighbour(c) \/ SwapRanks(c) \/ DeadlockFound(c)
        \/ ReadLevels(c) \/ CreateRank(c)
        \/ CountMembers(c) \/ DeleteRank(c)
        \/ DeleteMappings(c) \/ SaveMappings(c)
  BY DEF Ranking
<1>4. CASE LockRank(c)
  <2> DEFINE form == requests[c].form
             stage == CASE form.op = "save" -> "own" [] form.op = "move" -> "neighbour" [] form.op = "delete" -> "count"
  <2>1. requests[c].at = "lock" /\ form.op \notin {"create", "map"}
          /\ (Refuse(c) \/ GoOn(c, [requests[c] EXCEPT !.at = stage]))
    BY <1>4 DEF LockRank
  <2>2. Reading(requests[c])  BY DEF RankInv, Right
  <2>3. form.op \in {"save", "move", "delete"}  BY <2>1, <2>2, FormFields DEF Reading, EditStages
  <2>4. stage # "panel"  BY <2>3
  <2>5. requests[c].at \in EditStages  BY <2>1 DEF EditStages
  <2> HIDE DEF stage
  <2> QED BY <1>2, <1>3, <2>1, <2>4, <2>5
<1>5. CASE ReadOwn(c)
  <2>1. requests[c].at \in EditStages /\ (Refuse(c) \/ GoOn(c, [requests[c] EXCEPT !.at = "write"]))
    BY <1>5 DEF ReadOwn, EditStages, HoldStages
  <2> QED BY <1>2, <1>3, <2>1
<1>6. CASE CountMembers(c)
  <2>1. requests[c].at \in EditStages /\ (Refuse(c) \/ GoOn(c, [requests[c] EXCEPT !.at = "remove"]))
    BY <1>6 DEF CountMembers, EditStages, HoldStages
  <2> QED BY <1>2, <1>3, <2>1
<1>7. CASE ReadLevels(c)
  <2>1. requests[c].at \in EditStages
          /\ (Refuse(c) \/ GoOn(c, [requests[c] EXCEPT !.at = "create_rank"]))
    BY <1>7 DEF ReadLevels, EditStages
  <2> QED BY <1>2, <1>3, <2>1
<1>8. CASE SaveRank(c) \/ CreateRank(c) \/ DeleteRank(c) \/ DeadlockFound(c)
  <2>1. GoOn(c, NoRequest)  BY <1>8 DEF SaveRank, CreateRank, DeleteRank, DeadlockFound, Refuse
  <2> QED BY <1>1, <1>r, <2>1
<1>9. CASE PickNeighbour(c)
  <2> DEFINE q == [at |-> "swap", who |-> requests[c].who, level |-> requests[c].level,
        form |-> requests[c].form,
                   among |-> Neighbours(requests[c].form.rank, requests[c].form.up)]
  <2>1. GoOn(c, q) /\ q.at # "panel"  BY <1>9 DEF PickNeighbour
  <2> HIDE DEF q
  <2> QED BY <1>1, <2>1
<1>10. CASE SwapRanks(c)
  <2> DEFINE q == [requests[c] EXCEPT !.among = Tail(@)]
  <2>1. requests[c].at = "swap" /\ (Refuse(c) \/ GoOn(c, q))  BY <1>10 DEF SwapRanks
  <2>2. DOMAIN requests[c] = EditFields \cup {"among"}
    BY <2>1 DEF RankInv, Right, Reading, EditStages, HoldStages
  <2>3. q.at = "swap"  BY <2>1, <2>2 DEF EditFields
  <2> HIDE DEF q
  <2> QED BY <1>1, <1>2, <2>1, <2>3
<1>11. CASE DeleteMappings(c)
  <2> DEFINE q == [at |-> "mappings", who |-> requests[c].who, form |-> requests[c].form,
        late |-> FALSE]
  <2>1. GoOn(c, q) /\ q.at # "panel"  BY <1>11 DEF DeleteMappings
  <2> HIDE DEF q
  <2> QED BY <1>1, <2>1
<1>12. CASE SaveMappings(c)
  <2>1. CASE b = c  BY <1>12, <1>r, <2>1 DEF SaveMappings
  <2>2. CASE b # c /\ requests[b].at # "mappings"  BY <1>12, <2>2 DEF SaveMappings
  <2>3. CASE b # c /\ requests[b].at = "mappings"
    <3> DEFINE q == [requests[b] EXCEPT !.late = TRUE]
    <3>1. requests'[b] = q  BY <1>12, <2>3 DEF SaveMappings
    <3>2. DOMAIN requests[b] = {"at", "who", "form", "late"}  BY <2>3 DEF RankInv, Right, Reading
    <3>3. q.at = "mappings"  BY <2>3, <3>2
    <3> HIDE DEF q
    <3> QED BY <3>1, <3>3
  <2> QED BY <2>1, <2>2, <2>3
<1> QED BY <1>4, <1>5, <1>6, <1>7, <1>8, <1>9, <1>10, <1>11, <1>12

-------------------------------------------------------------------------------
(* The theorems.                                                             *)

\* What goroutines, requests and rows are at, at any time.
AccessInv == SyncInv /\ RankInv

LEMMA AccessKeeps ==
    ASSUME AccessInv, [AccessNext]_panelVars
    PROVE  AccessInv' /\ (sync' # sync => HandsOff) /\ (ranks' # ranks => RanksKept)
<1>1. RankTypes /\ \A b \in Browsers : Reading(requests[b])  BY DEF AccessInv, RankInv, Right
<1> QED BY <1>1, SyncKeeps, RankKeeps DEF AccessInv

\* Only requirePanel lets a request into the panel; it reads the access, unless the
\* database fails.
LEMMA Admitting ==
    ASSUME RankInv, [AccessNext]_panelVars, NEW b \in Browsers,
           requests[b].at # "panel", requests'[b].at = "panel", ~requests'[b].blind
    PROVE  Access(requests[b].who)
<1>0. DOMAIN requests = Browsers  BY DEF RankInv
<1>r. NoRequest.at # "panel"  BY DEF NoRequest
<1>1. CASE Bot \/ Guild \/ UNCHANGED panelVars  BY <1>1 DEF Bot, Guild, panelVars, accessVars
<1>2. CASE Linking \/ Others
  <2>1. UNCHANGED requests
    BY <1>2 DEF Linking, GenerateLinkCode, CodeExpires, Link, DiscordConnect, DiscordReconnect,
            accessVars,
       Others, SetRank, SetStatus, SetFactionLevel
  <2> QED BY <2>1
<1>3. ASSUME NEW c \in Browsers, RequirePanel(c) PROVE Access(requests[b].who)
  <2>1. DOMAIN requests[c] = {"at", "who", "access", "blind"}  BY <1>3
          DEF RequirePanel, RankInv, Right, Reading
  <2>2. c = b
    <3>1. \E q : requests' = [requests EXCEPT ![c] = q]  BY <1>3 DEF RequirePanel, Admitted, GoOn
    <3> QED BY <1>0, <3>1
  <2> DEFINE blindly == [requests[b] EXCEPT !.at = "panel", !.blind = TRUE]
  <2>3. blindly.blind = TRUE  BY <2>1, <2>2
  <2>4. requests'[b] # blindly  BY <2>3
  <2> HIDE DEF blindly
  <2>5. requests'[b] # NoRequest  BY <1>r
  <2> USE DEF blindly
  <2>6. Admitted(b, Access(requests[b].who), FALSE)
    <3>1. CASE Admitted(b, requests[b].access, TRUE)
      <4>1. requests'[b] = blindly \/ requests'[b] = NoRequest  BY <1>0, <3>1 DEF Admitted, GoOn
      <4> QED BY <2>4, <2>5, <4>1
    <3> QED BY <1>3, <2>2, <3>1 DEF RequirePanel
  <2>7. CASE ~Access(requests[b].who)
    <3>1. requests'[b] = NoRequest  BY <1>0, <2>6, <2>7 DEF Admitted, GoOn
    <3> QED BY <2>5, <3>1
  <2> QED BY <2>7
<1>4. ASSUME NEW c \in Browsers, NEW q, requests' = [requests EXCEPT ![c] = q], q.at # "panel"
      PROVE  FALSE
  BY <1>0, <1>4
<1>5. CASE SigningIn
  <2>1. ASSUME NEW c \in Browsers, NEW p \in People, SteamCallback(c, p) PROVE FALSE
    <3> DEFINE q == [at |-> IF p \in rows THEN "access" ELSE "create", who |-> p]
    <3>1. requests' = [requests EXCEPT ![c] = q] /\ q.at # "panel"  BY <2>1 DEF SteamCallback, GoOn
    <3> HIDE DEF q
    <3> QED BY <1>4, <3>1
  <2>2. ASSUME NEW c \in Browsers, NEW a \in Accounts, DiscordLogin(c, a) PROVE FALSE
    <3>1. PICK p : requests' = [requests EXCEPT ![c] = [at |-> "access", who |-> p]]
      BY <2>2 DEF DiscordLogin, GoOn
    <3> QED BY <1>4, <3>1
  <2>3. ASSUME NEW c \in Browsers, CreatePlayer(c) PROVE FALSE
    <3>1. \/ requests' = [requests EXCEPT ![c] = NoRequest]
          \/ requests' = [requests EXCEPT ![c] = [at |-> "access", who |-> requests[c].who]]
      BY <2>3 DEF CreatePlayer, GoOn
    <3> QED BY <1>4, <1>r, <3>1
  <2>4. ASSUME NEW c \in Browsers, CreateSession(c) PROVE FALSE
    <3> DEFINE q == [at |-> "insert", who |-> requests[c].who, access |-> Access(requests[c].who)]
    <3>1. requests' = [requests EXCEPT ![c] = q] /\ q.at # "panel"  BY <2>4 DEF CreateSession, GoOn
    <3> HIDE DEF q
    <3> QED BY <1>4, <3>1
  <2>5. ASSUME NEW c \in Browsers, InsertSession(c) PROVE FALSE
    BY <1>4, <1>r, <2>5 DEF InsertSession, GoOn
  <2>6. ASSUME NEW x, Logout(x)
                 \/ EnsureBlankPlayer(x) PROVE FALSE  BY <2>6 DEF Logout, EnsureBlankPlayer
  <2> QED BY <1>5, <2>1, <2>2, <2>3, <2>4, <2>5, <2>6 DEF SigningIn
<1>6. CASE Panel
  <2>1. ASSUME NEW c \in Browsers, Middleware(c) PROVE FALSE
    <3>1. PICK access, blind : requests' = [requests EXCEPT ![c] =
             [at |-> "route", who |-> sessions[c].who, access |-> access, blind |-> blind]]
      BY <2>1 DEF Middleware, GoOn
    <3> QED BY <1>4, <3>1
  <2>2. ASSUME NEW c \in Browsers, Page(c) PROVE FALSE  BY <1>4, <1>r, <2>2 DEF Page, GoOn
  <2>3. ASSUME NEW c \in Browsers, ActorLevel(c) PROVE FALSE
    <3>1. PICK form : requests' = [requests EXCEPT ![c] =
             [at |-> "lock", who |-> requests[c].who, level |-> Level(requests[c].who), form |-> form]]
      BY <2>3 DEF ActorLevel, GoOn
    <3> QED BY <1>4, <3>1
  <2> QED BY <1>3, <1>6, <2>1, <2>2, <2>3 DEF Panel
<1>7. CASE Ranking  BY <1>0, <1>7, RankingStays
<1> QED BY <1>1, <1>2, <1>5, <1>6, <1>7 DEF AccessNext

\* Whatever is moved, deleted, linked, synced and restarted in between, what goroutines
\* have read is of players and of mappings there were, two edits never lock one rank,
\* what an edit found of the rank it locked is so still, and while nobody is at the top
\* level no edit is under way by one who was (SyncPlayer, Strip, lockRank, Update, Move,
\* Delete, SetRank).
THEOREM AccessInvariance == AccessSpec => []AccessInv
<1>1. AccessInit => AccessInv  BY SyncStart, RankStart DEF AccessInv
<1>2. AccessInv /\ [AccessNext]_panelVars => AccessInv'  BY AccessKeeps
<1> QED BY <1>1, <1>2, PTL DEF AccessSpec

\* The types of players, mappings, the guild and the goroutines hold.
THEOREM RolesTyped == AccessSpec => []RoleSyncTypeOK
<1>1. AccessInv => RoleSyncTypeOK  BY DEF AccessInv, SyncInv
<1> QED BY <1>1, AccessInvariance, PTL

\* However old the mappings are that a sync or a strip has read, it never gives or takes
\* a role that no form of the mappings names (Plan, Strip).
THEOREM HandGivenUntouched == AccessSpec => HandGivenStay
<1>1. ASSUME AccessInv, [AccessNext]_panelVars
      PROVE  [sync' # sync =>
                \A a \in Accounts, role \in Groups :
                   role \notin UNION {Managed(form) : form \in MapForms}
                     => (guild[a] # Null /\ guild'[a] # Null
                       => (role \in guild[a] <=> role \in guild'[a]))]_roleVars
  BY <1>1, AccessKeeps DEF HandsOff, Ever
<1> QED BY <1>1, AccessInvariance, PTL DEF AccessSpec, HandGivenStay

\* There is always a rank at the top level and nobody has a rank that is gone, no edit of
\* the ranks takes anybody's, and only who has access when it is read is let into the
\* panel (Update, Move, Delete, requirePanel).
THEOREM StaffStayAndGetIn == AccessSpec => AccessHolds
<1>1. AccessInv => RanksStand  BY DEF AccessInv, RankInv
<1>2. ASSUME AccessInv, [AccessNext]_panelVars
      PROVE  [ranks' # ranks => \A p \in People : players'[p].rank = players[p].rank]_panelVars
  BY <1>2, AccessKeeps DEF RanksKept
<1>3. ASSUME AccessInv, [AccessNext]_panelVars
      PROVE  [\A b \in Browsers :
                (requests[b].at # "panel" /\ requests'[b].at = "panel" /\ ~requests'[b].blind)
                  => Access(requests[b].who)]_panelVars
  BY <1>3, Admitting DEF AccessInv
<1> QED BY <1>1, <1>2, <1>3, AccessInvariance, PTL
      DEF AccessSpec, AccessHolds, StaffKeepRanks, AdmittedOnlyStaff

-------------------------------------------------------------------------------
(* The manager of the servers.                                               *)

USE SupervisorAssumption

-----------------------------------------------------------------------------
(* The steps, by what they are about.                                        *)

Launch(g) == Check(g) \/ Build(g) \/ Failed(g) \/ Attach(g) \/ SetRunState(g) \/ Watch(g)
Ending(g) == Exited(g) \/ Clear(g) \/ Wake(g)
Halting(g) == Cancel(g) \/ Look(g) \/ Ask(g) \/ Kill(g) \/ Await(g)
Scheduling(g) == Schedule(g) \/ Book(g) \/ Fire(g) \/ Due(g)
Recovering(g) == Load(g) \/ Adopt(g) \/ Adopted(g)
Finding(g) == Find(g) \/ Search(g) \/ Found(g) \/ FoundRecord(g) \/ AutoStart(g)
World ==
    \/ Forget \/ CoolDown \/ Open \/ Close
    \/ Request \/ SetServiceOptions \/ Exit \/ StartedElsewhere

LEMMA StepCases ==
    ASSUME NEW g \in Goroutines, Step(g)
    PROVE  \/ Launch(g) \/ Ending(g) \/ Halting(g) \/ Scheduling(g)
           \/ Recovering(g) \/ Finding(g)
BY DEF Step, Launch, Ending, Halting, Scheduling, Recovering, Finding

LEMMA NextCases ==
    ASSUME [Next]_vars
    PROVE  \/ \E g \in Goroutines :
                \/ Launch(g) \/ Ending(g) \/ Halting(g) \/ Scheduling(g)
                \/ Recovering(g) \/ Finding(g)
           \/ World
           \/ UNCHANGED vars
BY StepCases DEF Next, World

-----------------------------------------------------------------------------
(* The inductive invariant.                                                  *)

Starting == {"build", "failed", "attach"}
Launching == Starting \cup {"record", "watch"}
Stopping == {"ask", "kill", "await"}
Reattaching == {"load", "adopt", "adopted", "find", "search", "found", "foundRecord", "auto"}

\* Where a goroutine may be with what it runs, and where it holds a process.
Places ==
    \A g \in Goroutines :
        /\ run[g].op = "none" => run[g].pc = "idle"
        /\ run[g].op = "wait" => run[g].pc \in {"watching", "clear", "asleep", "check"} \cup Launching
        /\ run[g].op = "start" => run[g].pc \in {"check"} \cup Launching
        /\ run[g].op = "stop" => run[g].pc \in {"cancel"} \cup Stopping
        /\ run[g].op = "stopAll" => run[g].pc \in {"cancel", "look"} \cup Stopping
        /\ run[g].op = "cancel" => run[g].pc = "cancel"
        /\ run[g].op = "restart" => run[g].pc \in {"look", "check"} \cup Stopping \cup Launching
        /\ run[g].op = "schedule" => run[g].pc \in {"schedule", "book"}
        /\ run[g].op = "scheduled"
             => run[g].pc \in {"timer", "fired", "check"} \cup Stopping \cup Launching
        /\ run[g].op = "startup" => run[g].pc \in {"check"} \cup Reattaching \cup Launching

Having == {"attach", "record", "watch", "watching", "kill", "adopt", "adopted", "found", "foundRecord"}
Holders == \A g \in Goroutines : run[g].pc \in Having => run[g].pid \in Processes

\* Nothing of a session is left when the manager has closed.
ClosedInv ==
    ~up => /\ \A g \in Goroutines : run[g] = Idle
           /\ state = "stopped" /\ proc = None /\ ~stopping /\ tails = {}
           /\ pending = None /\ ~cooling /\ halted = "no" /\ ~missed

\* One goroutine is starting the service, exactly while the state says so.
StarterInv ==
    /\ proc # None <=> state \in {"running", "stopping"}
    /\ state = "starting" <=> \E g \in Goroutines : run[g].pc \in Starting
    /\ \A g, h \in Goroutines : run[g].pc \in Starting /\ run[h].pc \in Starting => g = h
    /\ (\E g \in Goroutines : At(g, "build") \/ At(g, "failed")) => alive = {}

\* One goroutine answers for the process there is, from Attach to Clear.
Owning == {"record", "watch", "adopted", "found", "watching"}
Owner(g) == run[g].pc \in Owning \cup {"clear"}

OwnerInv ==
    /\ \A g, h \in Goroutines : Owner(g) /\ Owner(h) => g = h
    /\ proc # None <=> \E g \in Goroutines : Owner(g)
    /\ \A g \in Goroutines : run[g].pc \in Owning => run[g].pid = proc
    /\ \A g \in Goroutines : At(g, "clear") => proc \notin alive

\* There is one start-up, and until it has looked for what runs nobody else starts or
\* adopts the service: a request that comes meanwhile finds it as start-up does.
LookingAt == {"load", "adopt", "adopted", "find", "search", "found", "foundRecord"}

StartupInv ==
    \A g \in Goroutines : run[g].op = "startup" =>
        /\ \A h \in Goroutines \ {g} : run[h].op # "startup"
        /\ run[g].pc \in LookingAt => \A h \in Goroutines \ {g} : run[h].pc \notin Launching
        /\ run[g].pc \in {"load", "adopt"} => proc = None
        /\ At(g, "adopt") => run[g].pid = record
        /\ At(g, "search") => proc = None
        /\ At(g, "foundRecord") => proc \in {None, run[g].pid}

\* There is one process, which is supervised, about to be, or still to be found.
AliveInv ==
    /\ OneProcess
    /\ proc # None => alive \subseteq {proc}
    /\ up /\ (\A g \in Goroutines : run[g].pc \notin {"load", "adopt", "find", "search"})
           => alive \subseteq {proc} \cup Holding({"attach"})

\* state.json names the process from SetRunState on, the tail follows it from Watch on.
RecordInv ==
    \A g \in Goroutines : run[g].pc \in {"watch", "adopted", "watching"} =>
        record = run[g].pid \/ \E h \in Goroutines : At(h, "foundRecord")

TailInv ==
    /\ \A g \in Goroutines : At(g, "watching") => stopTail = run[g].pid /\ tails = {run[g].pid}
    /\ (\A g \in Goroutines : ~At(g, "watching")) => tails = {}

\* Once it is stopped in time nothing is on its way to a start, and its end is no crash.
DownInv ==
    halted = "inTime" =>
        /\ OnTheirWay = {} /\ state # "starting"
        /\ proc # None => stopping
        /\ proc = None => state # "crashed"

\* A restart that waits or is due is the one that is pending, unless a cancel came late.
TimerInv == ~missed => \A g \in Goroutines : run[g].pc \in {"timer", "fired"} => pending = g /\ ~cooling

\* What holds whoever has asked for what, and when; and what a start that races with
\* start-up breaks.
AtAnyTime == TypeOK /\ Places /\ Holders /\ ClosedInv /\ TimerInv
Orderly == StarterInv /\ OwnerInv /\ StartupInv /\ AliveInv /\ RecordInv /\ TailInv /\ DownInv

Inductive == AtAnyTime /\ (~raced => Orderly)

-----------------------------------------------------------------------------
(* Notation that every leaf below looks through.                             *)

USE DEF G, Idle, IdleOnes, At, Goto, Return, Watched, SetRunning, Halt, Cancelled, Unscheduled,
        Still, GivesUp, Fresh, Searching, First, service, logs, control, history,
        Starting, Launching, Stopping, Reattaching, LookingAt, Having

\* TypeOK, in a part for the Boolean variables and one for the others: the
\* provers that do the one well are not those that do the other.
Goroutine == [pc : Steps, op : Ops, pid : Processes \cup {None}]

Flags ==
    /\ up \in BOOLEAN /\ stopping \in BOOLEAN /\ cooling \in BOOLEAN /\ missed \in BOOLEAN
    /\ raced \in BOOLEAN /\ toggles \in [auto : BOOLEAN, onCrash : BOOLEAN]

Data ==
    /\ alive \subseteq Processes /\ record \in Processes \cup {None}
    /\ state \in {"stopped", "starting", "running", "stopping", "crashed", "crash-loop"}
    /\ proc \in Processes \cup {None} /\ crashes \in Nat
    /\ tails \subseteq Processes /\ stopTail \in Processes \cup {None}
    /\ run \in [Goroutines -> Goroutine]
    /\ pending \in Goroutines \cup {None} /\ halted \in {"no", "inTime", "late"}

LEMMA Types == TypeOK <=> Flags /\ Data
BY DEF TypeOK, Flags, Data, Goroutine

LEMMA FlagsStep ==
    ASSUME Flags, [Next]_vars
    PROVE  Flags'
<1>. USE DEF Flags
<1>1. ASSUME NEW g \in Goroutines, Launch(g) PROVE Flags'
  BY <1>1, Zenon DEF Launch, Check, Build, Failed, Attach, SetRunState, Watch
<1>2. ASSUME NEW g \in Goroutines, Ending(g) PROVE Flags'
  BY <1>2, Zenon DEF Ending, Exited, Clear, Wake
<1>3. ASSUME NEW g \in Goroutines, Halting(g) PROVE Flags'
  BY <1>3, Zenon DEF Halting, Cancel, Look, Ask, Kill, Await
<1>4. ASSUME NEW g \in Goroutines, Scheduling(g) PROVE Flags'
  BY <1>4, Zenon DEF Scheduling, Schedule, Book, Fire, Due
<1>5. ASSUME NEW g \in Goroutines, Recovering(g) PROVE Flags'
  BY <1>5, Zenon DEF Recovering, Load, Adopt, Adopted
<1>6. ASSUME NEW g \in Goroutines, Finding(g) PROVE Flags'
  BY <1>6, Zenon DEF Finding, Find, Search, Found, FoundRecord, AutoStart
<1>7. CASE World
  BY <1>7, Zenon DEF World, Forget, CoolDown, Open, Close, Request,
       SetServiceOptions, Exit, StartedElsewhere
<1>8. CASE UNCHANGED vars
  BY <1>8, Zenon DEF vars
<1>. QED BY <1>1, <1>2, <1>3, <1>4, <1>5, <1>6, <1>7, <1>8, NextCases

LEMMA DataStep ==
    ASSUME Flags, Data, Places, Holders, [Next]_vars
    PROVE  Data'
<1>. USE DEF Flags, Data, Goroutine, Steps, Ops, Places, Holders
<1>1. ASSUME NEW g \in Goroutines, Launch(g) PROVE Data'
  BY <1>1, SMTT(20) DEF Launch, Check, Build, Failed, Attach, SetRunState,
       Watch
<1>2. ASSUME NEW g \in Goroutines, Ending(g) PROVE Data'
  BY <1>2, SMTT(20) DEF Ending, Exited, Clear, Wake
<1>3. ASSUME NEW g \in Goroutines, Halting(g) PROVE Data'
  BY <1>3, SMTT(20) DEF Halting, Cancel, Look, Ask, Kill, Await
<1>4. ASSUME NEW g \in Goroutines, Scheduling(g) PROVE Data'
  BY <1>4, SMTT(20) DEF Scheduling, Schedule, Book, Fire, Due
<1>5. ASSUME NEW g \in Goroutines, Recovering(g) PROVE Data'
  <2>1. CASE Load(g)
    BY <2>1 DEF Load
  <2>2. CASE Adopt(g)
    BY <2>2 DEF Adopt
  <2>3. CASE Adopted(g)
    BY <2>3 DEF Adopted
  <2>. QED BY <1>5, <2>1, <2>2, <2>3 DEF Recovering
<1>6. ASSUME NEW g \in Goroutines, Finding(g) PROVE Data'
  BY <1>6, SMTT(20) DEF Finding, Find, Search, Found, FoundRecord, AutoStart
<1>7. CASE World
  BY <1>7, SMTT(20) DEF World, Forget, CoolDown, Open, Close, Request,
       SetServiceOptions, Exit, StartedElsewhere
<1>8. CASE UNCHANGED vars
  BY <1>8, SMTT(20) DEF vars
<1>. QED BY <1>1, <1>2, <1>3, <1>4, <1>5, <1>6, <1>7, <1>8, NextCases

LEMMA TypeOKStep ==
    ASSUME TypeOK, Places, Holders, [Next]_vars
    PROVE  TypeOK'
<1>1. Flags' /\ Data'
  BY Types, FlagsStep, DataStep
<1>. QED BY <1>1 DEF TypeOK, Flags, Data, Goroutine

\* A goroutine is only ever where its operation goes.
LEMMA PlacesStep ==
    ASSUME TypeOK, Places, [Next]_vars
    PROVE  Places'
<1>. USE DEF TypeOK, Places, Steps, Ops
<1>1. ASSUME NEW g \in Goroutines, Launch(g) PROVE Places'
  BY <1>1, SMTT(20) DEF Launch, Check, Build, Failed, Attach, SetRunState,
       Watch
<1>2. ASSUME NEW g \in Goroutines, Ending(g) PROVE Places'
  BY <1>2, SMTT(20) DEF Ending, Exited, Clear, Wake
<1>3. ASSUME NEW g \in Goroutines, Halting(g) PROVE Places'
  BY <1>3, SMTT(20) DEF Halting, Cancel, Look, Ask, Kill, Await
<1>4. ASSUME NEW g \in Goroutines, Scheduling(g) PROVE Places'
  BY <1>4, SMTT(20) DEF Scheduling, Schedule, Book, Fire, Due
<1>5. ASSUME NEW g \in Goroutines, Recovering(g) PROVE Places'
  BY <1>5, SMTT(20) DEF Recovering, Load, Adopt, Adopted
<1>6. ASSUME NEW g \in Goroutines, Finding(g) PROVE Places'
  BY <1>6, SMTT(20) DEF Finding, Find, Search, Found, FoundRecord, AutoStart
<1>7. CASE World
  BY <1>7, SMTT(20) DEF World, Forget, CoolDown, Open, Close, Request,
       SetServiceOptions, Exit, StartedElsewhere
<1>8. CASE UNCHANGED vars
  BY <1>8, SMTT(20) DEF vars
<1>. QED BY <1>1, <1>2, <1>3, <1>4, <1>5, <1>6, <1>7, <1>8, NextCases

\* Whoever is to handle a process has one.
LEMMA HoldersStep ==
    ASSUME TypeOK, Holders, [Next]_vars
    PROVE  Holders'
<1>. USE DEF TypeOK, Holders, Steps, Ops
<1>1. ASSUME NEW g \in Goroutines, Launch(g) PROVE Holders'
  BY <1>1, SMTT(20) DEF Launch, Check, Build, Failed, Attach, SetRunState,
       Watch
<1>2. ASSUME NEW g \in Goroutines, Ending(g) PROVE Holders'
  BY <1>2, SMTT(20) DEF Ending, Exited, Clear, Wake
<1>3. ASSUME NEW g \in Goroutines, Halting(g) PROVE Holders'
  BY <1>3, SMTT(20) DEF Halting, Cancel, Look, Ask, Kill, Await
<1>4. ASSUME NEW g \in Goroutines, Scheduling(g) PROVE Holders'
  BY <1>4, SMTT(20) DEF Scheduling, Schedule, Book, Fire, Due
<1>5. ASSUME NEW g \in Goroutines, Recovering(g) PROVE Holders'
  BY <1>5, SMTT(20) DEF Recovering, Load, Adopt, Adopted
<1>6. ASSUME NEW g \in Goroutines, Finding(g) PROVE Holders'
  BY <1>6, SMTT(20) DEF Finding, Find, Search, Found, FoundRecord, AutoStart
<1>7. CASE World
  BY <1>7, SMTT(20) DEF World, Forget, CoolDown, Open, Close, Request,
       SetServiceOptions, Exit, StartedElsewhere
<1>8. CASE UNCHANGED vars
  BY <1>8, SMTT(20) DEF vars
<1>. QED BY <1>1, <1>2, <1>3, <1>4, <1>5, <1>6, <1>7, <1>8, NextCases

\* Closing leaves nothing behind, and while the manager is closed nobody acts.
LEMMA ClosedInvStep ==
    ASSUME ClosedInv, [Next]_vars
    PROVE  ClosedInv'
<1>. USE DEF ClosedInv
<1>1. ASSUME NEW g \in Goroutines, Launch(g) PROVE ClosedInv'
  BY <1>1, SMTT(20) DEF Launch, Check, Build, Failed, Attach, SetRunState,
       Watch
<1>2. ASSUME NEW g \in Goroutines, Ending(g) PROVE ClosedInv'
  BY <1>2, SMTT(20) DEF Ending, Exited, Clear, Wake
<1>3. ASSUME NEW g \in Goroutines, Halting(g) PROVE ClosedInv'
  BY <1>3, SMTT(20) DEF Halting, Cancel, Look, Ask, Kill, Await
<1>4. ASSUME NEW g \in Goroutines, Scheduling(g) PROVE ClosedInv'
  BY <1>4, SMTT(20) DEF Scheduling, Schedule, Book, Fire, Due
<1>5. ASSUME NEW g \in Goroutines, Recovering(g) PROVE ClosedInv'
  BY <1>5, SMTT(20) DEF Recovering, Load, Adopt, Adopted
<1>6. ASSUME NEW g \in Goroutines, Finding(g) PROVE ClosedInv'
  BY <1>6, SMTT(20) DEF Finding, Find, Search, Found, FoundRecord, AutoStart
<1>7. CASE World
  BY <1>7, SMTT(20) DEF World, Forget, CoolDown, Open, Close, Request,
       SetServiceOptions, Exit, StartedElsewhere
<1>8. CASE UNCHANGED vars
  BY <1>8, SMTT(20) DEF vars
<1>. QED BY <1>1, <1>2, <1>3, <1>4, <1>5, <1>6, <1>7, <1>8, NextCases

\* A start that has not raced with start-up came when start-up had looked.
LEMMA NoRace ==
    ASSUME NEW g \in Goroutines, Check(g), TypeOK, ~raced', run'[g] # Idle
    PROVE  \A h \in Goroutines : run[h].pc \notin LookingAt
<1>1. raced' = (raced \/ Looking) \/ run' = [run EXCEPT ![g] = Idle]
  BY Zenon DEF Check
<1>2. CASE raced' = (raced \/ Looking)
  <2>1. ~Looking
    BY <1>2, Zenon
  <2>. QED BY <2>1, Zenon DEF Looking
<1>3. CASE run' = [run EXCEPT ![g] = Idle]
  BY <1>3, SMT DEF TypeOK
<1>. QED BY <1>1, <1>2, <1>3

\* Attach makes an owner when there is no process, Clear ends it with the process.
LEMMA OwnerInvStep ==
    ASSUME TypeOK, Places, Holders, ClosedInv, StarterInv, OwnerInv, StartupInv, [Next]_vars
    PROVE  OwnerInv'
<1>. USE DEF TypeOK, Places, Holders, ClosedInv, StarterInv, OwnerInv,
       StartupInv, Steps, Ops, Owning, Owner, Holding
<1>1. ASSUME NEW g \in Goroutines, Launch(g) PROVE OwnerInv'
  BY <1>1, SMTT(20) DEF Launch, Check, Build, Failed, Attach, SetRunState,
       Watch
<1>2. ASSUME NEW g \in Goroutines, Ending(g) PROVE OwnerInv'
  BY <1>2, SMTT(20) DEF Ending, Exited, Clear, Wake
<1>3. ASSUME NEW g \in Goroutines, Halting(g) PROVE OwnerInv'
  BY <1>3, SMTT(20) DEF Halting, Cancel, Look, Ask, Kill, Await
<1>4. ASSUME NEW g \in Goroutines, Scheduling(g) PROVE OwnerInv'
  BY <1>4, SMTT(20) DEF Scheduling, Schedule, Book, Fire, Due
<1>5. ASSUME NEW g \in Goroutines, Recovering(g) PROVE OwnerInv'
  BY <1>5, SMTT(20) DEF Recovering, Load, Adopt, Adopted
<1>6. ASSUME NEW g \in Goroutines, Finding(g) PROVE OwnerInv'
  BY <1>6, SMTT(20) DEF Finding, Find, Search, Found, FoundRecord, AutoStart
<1>7. CASE World
  BY <1>7, SMTT(20) DEF World, Forget, CoolDown, Open, Close, Request,
       SetServiceOptions, Exit, StartedElsewhere
<1>8. CASE UNCHANGED vars
  BY <1>8, SMTT(20) DEF vars
<1>. QED BY <1>1, <1>2, <1>3, <1>4, <1>5, <1>6, <1>7, <1>8, NextCases

\* Here the race would do its harm.
LEMMA StartupInvStep ==
    ASSUME TypeOK, Places, ClosedInv, OwnerInv, StartupInv, ~raced', [Next]_vars
    PROVE  StartupInv'
<1>. USE DEF TypeOK, Places, ClosedInv, OwnerInv, StartupInv, Steps, Ops,
       Owning, Owner
<1>1. ASSUME NEW g \in Goroutines, Launch(g) PROVE StartupInv'
  <2>1. CASE Check(g) /\ run'[g] # Idle
    <3>1. \A h \in Goroutines : run[h].pc \notin LookingAt
      BY <2>1, NoRace
    <3>. QED BY <2>1, <3>1, SMTT(20) DEF Check
  <2>2. CASE Check(g) /\ run'[g] = Idle
    BY <2>2, SMTT(20) DEF Check
  <2>3. CASE ~Check(g)
    BY <1>1, <2>3, SMTT(20) DEF Launch, Build, Failed, Attach, SetRunState,
         Watch
  <2>. QED BY <2>1, <2>2, <2>3
<1>2. ASSUME NEW g \in Goroutines, Ending(g) PROVE StartupInv'
  BY <1>2, SMTT(20) DEF Ending, Exited, Clear, Wake
<1>3. ASSUME NEW g \in Goroutines, Halting(g) PROVE StartupInv'
  BY <1>3, SMTT(20) DEF Halting, Cancel, Look, Ask, Kill, Await
<1>4. ASSUME NEW g \in Goroutines, Scheduling(g) PROVE StartupInv'
  BY <1>4, SMTT(20) DEF Scheduling, Schedule, Book, Fire, Due
<1>5. ASSUME NEW g \in Goroutines, Recovering(g) PROVE StartupInv'
  BY <1>5, SMTT(20) DEF Recovering, Load, Adopt, Adopted
<1>6. ASSUME NEW g \in Goroutines, Finding(g) PROVE StartupInv'
  BY <1>6, SMTT(20) DEF Finding, Find, Search, Found, FoundRecord, AutoStart
<1>7. CASE World
  BY <1>7, SMTT(20) DEF World, Forget, CoolDown, Open, Close, Request,
       SetServiceOptions, Exit, StartedElsewhere
<1>8. CASE UNCHANGED vars
  BY <1>8, SMTT(20) DEF vars
<1>. QED BY <1>1, <1>2, <1>3, <1>4, <1>5, <1>6, <1>7, <1>8, NextCases

\* Check tests and sets the state in one section, so there is one starter.
LEMMA StarterInvStep ==
    ASSUME TypeOK, Places, Holders, ClosedInv, StarterInv, OwnerInv, StartupInv, AliveInv, ~raced', [Next]_vars
    PROVE  StarterInv'
<1>. USE DEF TypeOK, Places, Holders, ClosedInv, StarterInv, OwnerInv,
       StartupInv, AliveInv, Steps, Ops, Owning, Owner, OneProcess, Holding
<1>1. ASSUME NEW g \in Goroutines, Launch(g) PROVE StarterInv'
  <2>1. CASE Check(g) /\ run'[g] # Idle
    <3>1. \A h \in Goroutines : run[h].pc \notin LookingAt
      BY <2>1, NoRace
    <3>. QED BY <2>1, <3>1, SMTT(20) DEF Check
  <2>2. CASE Check(g) /\ run'[g] = Idle
    BY <2>2, SMTT(20) DEF Check
  <2>3. CASE ~Check(g)
    BY <1>1, <2>3, SMTT(20) DEF Launch, Build, Failed, Attach, SetRunState,
         Watch
  <2>. QED BY <2>1, <2>2, <2>3
<1>2. ASSUME NEW g \in Goroutines, Ending(g) PROVE StarterInv'
  BY <1>2, SMTT(20) DEF Ending, Exited, Clear, Wake
<1>3. ASSUME NEW g \in Goroutines, Halting(g) PROVE StarterInv'
  <2>1. CASE Cancel(g)
    BY <2>1, SMTT(20) DEF Cancel
  <2>2. CASE Look(g)
    BY <2>2, SMTT(20) DEF Look
  <2>3. CASE Ask(g)
    BY <2>3, SMTT(20) DEF Ask
  <2>4. CASE Kill(g)
    BY <2>4, SMTT(20) DEF Kill
  <2>5. CASE Await(g)
    <3>1. UNCHANGED <<alive, state, proc>>
      BY <2>5 DEF Await
    <3>2. run'[g].pc \in {"check", "idle"} /\ \A h \in Goroutines \ {g} : run'[h] = run[h]
      BY <2>5 DEF Await
    <3>3. ~(run[g].pc \in Starting) /\ ~(run'[g].pc \in Starting)
      BY <2>5, <3>2 DEF Await
    <3>4. \A h \in Goroutines :
             /\ run'[h].pc \in Starting <=> run[h].pc \in Starting
             /\ run'[h].pc \in {"build", "failed"} <=> run[h].pc \in {"build", "failed"}
      BY <2>5, <3>2, <3>3 DEF Await
    <3>5. (\E h \in Goroutines : At(h, "build")' \/ At(h, "failed")') => alive = {}
      BY <3>4
    <3>. HIDE DEF Starting
    <3>. QED BY <3>1, <3>4, <3>5
  <2>. QED BY <1>3, <2>1, <2>2, <2>3, <2>4, <2>5 DEF Halting
<1>4. ASSUME NEW g \in Goroutines, Scheduling(g) PROVE StarterInv'
  BY <1>4, SMTT(20) DEF Scheduling, Schedule, Book, Fire, Due
<1>5. ASSUME NEW g \in Goroutines, Recovering(g) PROVE StarterInv'
  BY <1>5, SMTT(20) DEF Recovering, Load, Adopt, Adopted
<1>6. ASSUME NEW g \in Goroutines, Finding(g) PROVE StarterInv'
  BY <1>6, SMTT(20) DEF Finding, Find, Search, Found, FoundRecord, AutoStart
<1>7. CASE World
  BY <1>7, SMTT(20) DEF World, Forget, CoolDown, Open, Close, Request,
       SetServiceOptions, Exit, StartedElsewhere
<1>8. CASE UNCHANGED vars
  BY <1>8, SMTT(20) DEF vars
<1>. QED BY <1>1, <1>2, <1>3, <1>4, <1>5, <1>6, <1>7, <1>8, NextCases

\* A program is started when none runs, and is owned or found before the next start.
LEMMA AliveInvStep ==
    ASSUME TypeOK, Places, ClosedInv, StarterInv, OwnerInv, StartupInv, AliveInv, TailInv, [Next]_vars
    PROVE  AliveInv'
<1>. USE DEF TypeOK, Places, ClosedInv, StarterInv, OwnerInv, StartupInv,
       AliveInv, TailInv, Steps, Ops, Owning, Owner, OneProcess, Holding
<1>1. ASSUME NEW g \in Goroutines, Launch(g) PROVE AliveInv'
  BY <1>1, SMTT(20) DEF Launch, Check, Build, Failed, Attach, SetRunState,
       Watch
<1>2. ASSUME NEW g \in Goroutines, Ending(g) PROVE AliveInv'
  BY <1>2, SMTT(20) DEF Ending, Exited, Clear, Wake
<1>3. ASSUME NEW g \in Goroutines, Halting(g) PROVE AliveInv'
  BY <1>3, SMTT(20) DEF Halting, Cancel, Look, Ask, Kill, Await
<1>4. ASSUME NEW g \in Goroutines, Scheduling(g) PROVE AliveInv'
  BY <1>4, SMTT(20) DEF Scheduling, Schedule, Book, Fire, Due
<1>5. ASSUME NEW g \in Goroutines, Recovering(g) PROVE AliveInv'
  BY <1>5, SMTT(20) DEF Recovering, Load, Adopt, Adopted
<1>6. ASSUME NEW g \in Goroutines, Finding(g) PROVE AliveInv'
  BY <1>6, SMTT(20) DEF Finding, Find, Search, Found, FoundRecord, AutoStart
<1>7. CASE World
  BY <1>7, SMTT(20) DEF World, Forget, CoolDown, Open, Close, Request,
       SetServiceOptions, Exit, StartedElsewhere
<1>8. CASE UNCHANGED vars
  BY <1>8, SMTT(20) DEF vars
<1>. QED BY <1>1, <1>2, <1>3, <1>4, <1>5, <1>6, <1>7, <1>8, NextCases

\* SetRunState writes the record before anybody waits; only the owner removes it.
LEMMA RecordInvStep ==
    ASSUME TypeOK, Places, OwnerInv, StartupInv, RecordInv, [Next]_vars
    PROVE  RecordInv'
<1>. USE DEF TypeOK, Places, OwnerInv, StartupInv, RecordInv, Steps, Ops,
       Owning, Owner
<1>1. ASSUME NEW g \in Goroutines, Launch(g) PROVE RecordInv'
  BY <1>1, SMTT(20) DEF Launch, Check, Build, Failed, Attach, SetRunState,
       Watch
<1>2. ASSUME NEW g \in Goroutines, Ending(g) PROVE RecordInv'
  BY <1>2, SMTT(20) DEF Ending, Exited, Clear, Wake
<1>3. ASSUME NEW g \in Goroutines, Halting(g) PROVE RecordInv'
  BY <1>3, SMTT(20) DEF Halting, Cancel, Look, Ask, Kill, Await
<1>4. ASSUME NEW g \in Goroutines, Scheduling(g) PROVE RecordInv'
  BY <1>4, SMTT(20) DEF Scheduling, Schedule, Book, Fire, Due
<1>5. ASSUME NEW g \in Goroutines, Recovering(g) PROVE RecordInv'
  <2>1. CASE Load(g)
    BY <2>1, SMTT(20) DEF Load
  <2>2. CASE Adopt(g)
    <3>1. \A h \in Goroutines : ~Owner(h)
      BY <2>2 DEF Adopt
    <3>2. run[g].pid = record
      BY <2>2 DEF Adopt
    <3>. QED BY <2>2, <3>1, <3>2, SMTT(20) DEF Adopt
  <2>3. CASE Adopted(g)
    BY <2>3, SMTT(20) DEF Adopted
  <2>. QED BY <1>5, <2>1, <2>2, <2>3 DEF Recovering
<1>6. ASSUME NEW g \in Goroutines, Finding(g) PROVE RecordInv'
  BY <1>6, SMTT(20) DEF Finding, Find, Search, Found, FoundRecord, AutoStart
<1>7. CASE World
  BY <1>7, SMTT(20) DEF World, Forget, CoolDown, Open, Close, Request,
       SetServiceOptions, Exit, StartedElsewhere
<1>8. CASE UNCHANGED vars
  BY <1>8, SMTT(20) DEF vars
<1>. QED BY <1>1, <1>2, <1>3, <1>4, <1>5, <1>6, <1>7, <1>8, NextCases

\* The tail starts and ends with the goroutine that waits.
LEMMA TailInvStep ==
    ASSUME TypeOK, OwnerInv, TailInv, [Next]_vars
    PROVE  TailInv'
<1>. USE DEF TypeOK, OwnerInv, TailInv, Steps, Ops, Owning, Owner
<1>1. ASSUME NEW g \in Goroutines, Launch(g) PROVE TailInv'
  BY <1>1, SMTT(20) DEF Launch, Check, Build, Failed, Attach, SetRunState,
       Watch
<1>2. ASSUME NEW g \in Goroutines, Ending(g) PROVE TailInv'
  BY <1>2, SMTT(20) DEF Ending, Exited, Clear, Wake
<1>3. ASSUME NEW g \in Goroutines, Halting(g) PROVE TailInv'
  BY <1>3, SMTT(20) DEF Halting, Cancel, Look, Ask, Kill, Await
<1>4. ASSUME NEW g \in Goroutines, Scheduling(g) PROVE TailInv'
  BY <1>4, SMTT(20) DEF Scheduling, Schedule, Book, Fire, Due
<1>5. ASSUME NEW g \in Goroutines, Recovering(g) PROVE TailInv'
  BY <1>5, SMTT(20) DEF Recovering, Load, Adopt, Adopted
<1>6. ASSUME NEW g \in Goroutines, Finding(g) PROVE TailInv'
  BY <1>6, SMTT(20) DEF Finding, Find, Search, Found, FoundRecord, AutoStart
<1>7. CASE World
  BY <1>7, SMTT(20) DEF World, Forget, CoolDown, Open, Close, Request,
       SetServiceOptions, Exit, StartedElsewhere
<1>8. CASE UNCHANGED vars
  BY <1>8, SMTT(20) DEF vars
<1>. QED BY <1>1, <1>2, <1>3, <1>4, <1>5, <1>6, <1>7, <1>8, NextCases

\* An idle service whose end was intended has nobody on the way to start it.
LEMMA DownInvStep ==
    ASSUME TypeOK, Places, ClosedInv, StarterInv, OwnerInv, DownInv, [Next]_vars
    PROVE  DownInv'
<1>. USE DEF TypeOK, Places, ClosedInv, StarterInv, OwnerInv, DownInv, Steps,
       Ops, Owning, Owner, OnTheirWay
<1>1. ASSUME NEW g \in Goroutines, Launch(g) PROVE DownInv'
  BY <1>1, SMTT(20) DEF Launch, Check, Build, Failed, Attach, SetRunState,
       Watch
<1>2. ASSUME NEW g \in Goroutines, Ending(g) PROVE DownInv'
  BY <1>2, SMTT(20) DEF Ending, Exited, Clear, Wake
<1>3. ASSUME NEW g \in Goroutines, Halting(g) PROVE DownInv'
  BY <1>3, SMTT(20) DEF Halting, Cancel, Look, Ask, Kill, Await
<1>4. ASSUME NEW g \in Goroutines, Scheduling(g) PROVE DownInv'
  BY <1>4, SMTT(20) DEF Scheduling, Schedule, Book, Fire, Due
<1>5. ASSUME NEW g \in Goroutines, Recovering(g) PROVE DownInv'
  BY <1>5, SMTT(20) DEF Recovering, Load, Adopt, Adopted
<1>6. ASSUME NEW g \in Goroutines, Finding(g) PROVE DownInv'
  BY <1>6, SMTT(20) DEF Finding, Find, Search, Found, FoundRecord, AutoStart
<1>7. CASE World
  BY <1>7, SMTT(20) DEF World, Forget, CoolDown, Open, Close, Request,
       SetServiceOptions, Exit, StartedElsewhere
<1>8. CASE UNCHANGED vars
  BY <1>8, SMTT(20) DEF vars
<1>. QED BY <1>1, <1>2, <1>3, <1>4, <1>5, <1>6, <1>7, <1>8, NextCases

\* The timer that is pending is the only one.
LEMMA TimerInvStep ==
    ASSUME TimerInv, TypeOK, Places, ClosedInv, [Next]_vars
    PROVE  TimerInv'
<1>. USE DEF TimerInv, TypeOK, Places, ClosedInv, Steps, Ops
<1>1. ASSUME NEW g \in Goroutines, Launch(g) PROVE TimerInv'
  BY <1>1, SMTT(20) DEF Launch, Check, Build, Failed, Attach, SetRunState,
       Watch
<1>2. ASSUME NEW g \in Goroutines, Ending(g) PROVE TimerInv'
  BY <1>2, SMTT(20) DEF Ending, Exited, Clear, Wake
<1>3. ASSUME NEW g \in Goroutines, Halting(g) PROVE TimerInv'
  BY <1>3, SMTT(20) DEF Halting, Cancel, Look, Ask, Kill, Await
<1>4. ASSUME NEW g \in Goroutines, Scheduling(g) PROVE TimerInv'
  BY <1>4, SMTT(20) DEF Scheduling, Schedule, Book, Fire, Due
<1>5. ASSUME NEW g \in Goroutines, Recovering(g) PROVE TimerInv'
  BY <1>5, SMTT(20) DEF Recovering, Load, Adopt, Adopted
<1>6. ASSUME NEW g \in Goroutines, Finding(g) PROVE TimerInv'
  BY <1>6, SMTT(20) DEF Finding, Find, Search, Found, FoundRecord, AutoStart
<1>7. CASE World
  BY <1>7, SMTT(20) DEF World, Forget, CoolDown, Open, Close, Request,
       SetServiceOptions, Exit, StartedElsewhere
<1>8. CASE UNCHANGED vars
  BY <1>8, SMTT(20) DEF vars
<1>. QED BY <1>1, <1>2, <1>3, <1>4, <1>5, <1>6, <1>7, <1>8, NextCases

-----------------------------------------------------------------------------
(* The initial states, and the invariant.                                    *)

LEMMA InitInductive == Init => Inductive
<1>. SUFFICES ASSUME Init PROVE Inductive
  OBVIOUS
<1>. USE DEF Init
<1>1. TypeOK
  <2>1. Flags
    BY DEF Flags
  <2>2. Data
    BY DEF Data, Goroutine, Steps, Ops
  <2>. QED BY <2>1, <2>2, Types
<1>2. Places /\ Holders /\ ClosedInv
  BY DEF Places, Holders, ClosedInv
<1>3. StarterInv /\ OwnerInv /\ StartupInv
  BY DEF StarterInv, OwnerInv, StartupInv, Owner, Owning
<1>4. AliveInv /\ RecordInv /\ TailInv /\ DownInv /\ TimerInv
  BY DEF AliveInv, OneProcess, RecordInv, TailInv, DownInv, TimerInv
<1>. QED BY <1>1, <1>2, <1>3, <1>4 DEF Inductive, AtAnyTime, Orderly

HIDE DEF G, Idle, IdleOnes, At, Goto, Return, Watched, SetRunning, Halt, Cancelled, Unscheduled,
         Still, GivesUp, Fresh, Searching, First, service, logs, control, history,
         Starting, Launching, Stopping, Reattaching, LookingAt, Having

LEMMA AnyTimeStep ==
    ASSUME AtAnyTime, [Next]_vars
    PROVE  AtAnyTime'
BY TypeOKStep, PlacesStep, HoldersStep, ClosedInvStep, TimerInvStep DEF AtAnyTime

LEMMA OrderlyStep ==
    ASSUME AtAnyTime, Orderly, ~raced', [Next]_vars
    PROVE  Orderly'
BY StarterInvStep, OwnerInvStep, StartupInvStep, AliveInvStep, RecordInvStep, TailInvStep, DownInvStep
   DEF AtAnyTime, Orderly

\* A manager that opens starts in order, whatever has happened before it closed.
LEMMA OpenedOrderly ==
    ASSUME TypeOK, ClosedInv, raced, Open, ~raced'
    PROVE  Orderly'
<1>1. PICK g \in Goroutines : run' = [run EXCEPT ![g] = G("load", "startup", None)]
  BY Zenon DEF Open, IdleOnes
<1>2. ~up /\ raced' = (raced /\ ~OneProcess) /\ UNCHANGED <<alive, record, service, toggles, logs, halted>>
  BY Zenon DEF Open
<1>3. OneProcess'
  <2>1. OneProcess /\ alive' = alive
    BY <1>2, Zenon
  <2>. QED BY <2>1, Zenon DEF OneProcess
<1>4. run'[g] = G("load", "startup", None) /\ \A h \in Goroutines \ {g} : run'[h] = Idle
  BY <1>1, <1>2, SMT DEF TypeOK, ClosedInv
<1>5. state' = "stopped" /\ proc' = None /\ tails' = {} /\ halted' = "no"
  BY <1>2, SMT DEF ClosedInv, service, logs
<1>. USE DEF G, Idle, At
<1>6. StarterInv' /\ OwnerInv'
  BY <1>4, <1>5, SMT DEF StarterInv, OwnerInv, Starting, Owner, Owning
<1>7. StartupInv'
  BY <1>4, <1>5, SMT DEF StartupInv, LookingAt, Launching, Starting
<1>8. AliveInv'
  BY <1>3, <1>4, <1>5, SMT DEF AliveInv
<1>9. RecordInv' /\ TailInv' /\ DownInv'
  BY <1>4, <1>5, SMT DEF RecordInv, TailInv, DownInv
<1>. QED BY <1>6, <1>7, <1>8, <1>9 DEF Orderly

\* A race is over only when the manager is opened again.
LEMMA RacedStep ==
    ASSUME raced, ~raced', [Next]_vars
    PROVE  Open
<1>1. ASSUME NEW g \in Goroutines, Launch(g) PROVE raced'
  BY <1>1, Zenon DEF Launch, Check, Build, Failed, Attach, SetRunState, Watch, history
<1>2. ASSUME NEW g \in Goroutines, Ending(g) PROVE raced'
  BY <1>2, Zenon DEF Ending, Exited, Clear, Wake, history
<1>3. ASSUME NEW g \in Goroutines, Halting(g) PROVE raced'
  BY <1>3, Zenon DEF Halting, Cancel, Look, Ask, Kill, Await, history
<1>4. ASSUME NEW g \in Goroutines, Scheduling(g) PROVE raced'
  BY <1>4, Zenon DEF Scheduling, Schedule, Book, Fire, Due, history
<1>5. ASSUME NEW g \in Goroutines, Recovering(g) PROVE raced'
  BY <1>5, Zenon DEF Recovering, Load, Adopt, Adopted, history
<1>6. ASSUME NEW g \in Goroutines, Finding(g) PROVE raced'
  BY <1>6, Zenon DEF Finding, Find, Search, Found, FoundRecord, AutoStart, history
<1>7. ASSUME World, ~Open PROVE raced'
  BY <1>7, Zenon DEF World, Forget, CoolDown, Close, Request,
       SetServiceOptions, Exit, StartedElsewhere, history
<1>8. ASSUME UNCHANGED vars PROVE raced'
  BY <1>8, Zenon DEF vars, history
<1>. QED BY <1>1, <1>2, <1>3, <1>4, <1>5, <1>6, <1>7, <1>8, NextCases

LEMMA InductiveStep ==
    ASSUME Inductive, [Next]_vars
    PROVE  Inductive'
<1>1. AtAnyTime'
  BY AnyTimeStep DEF Inductive
<1>2. ASSUME ~raced, ~raced' PROVE Orderly'
  BY <1>2, OrderlyStep DEF Inductive
<1>3. ASSUME raced, ~raced' PROVE Orderly'
  BY <1>3, RacedStep, OpenedOrderly DEF Inductive, AtAnyTime
<1>. QED BY <1>1, <1>2, <1>3 DEF Inductive

\* services.go, controlapi.go: what the goroutines, the records and the process are to
\* each other in every state, whoever asks for what, and when.
THEOREM Invariance == Spec => []Inductive
<1>1. Inductive /\ [Next]_vars => Inductive'
  BY InductiveStep
<1>. QED BY <1>1, InitInductive, PTL DEF Spec

-----------------------------------------------------------------------------
(* The properties.                                                           *)

\* Every variable keeps its shape.
THEOREM TypeCorrect == Spec => []TypeOK
<1>1. Inductive => TypeOK
  BY DEF Inductive, AtAnyTime
<1>. QED BY <1>1, Invariance, PTL

\* launch and findRunning (services.go): though waiters, requests, timers, start-up and
\* closing interleave, two processes of the service never run at once until somebody's
\* start comes before start-up has looked for what runs (app.go begins both at once).
THEOREM OneUnlessRaced == Spec => []NeverTwice
<1>1. Inductive => NeverTwice
  BY DEF Inductive, Orderly, AliveInv, NeverTwice
<1>. QED BY <1>1, Invariance, PTL

\* services.go: the process that runs, the state the window shows, the goroutine
\* that waits, the record to re-attach by and the tail of the log agree, unless a start
\* has come before start-up had looked.
THEOREM AlwaysInStep == Spec => []InStep
<1>1. AtAnyTime /\ Orderly => Supervised /\ StatusTrue /\ Reattachable /\ TailsEnd
  <2>. SUFFICES ASSUME AtAnyTime, Orderly
                PROVE  Supervised /\ StatusTrue /\ Reattachable /\ TailsEnd
    OBVIOUS
  <2>. USE DEF AtAnyTime, Orderly
  <2>1. ASSUME up, ~Startup PROVE \A g \in Goroutines : run[g].pc \notin Reattaching
    BY <2>1 DEF Startup, Places, Reattaching, Launching, Starting, Stopping, TypeOK, Steps, Ops
  <2>2. Supervised
    <3>. SUFFICES ASSUME up, ~Startup
                  PROVE  /\ alive \subseteq {proc} \cup Holding({"attach"})
                         /\ proc # None => \/ proc \in Holding({"record", "watch", "watching"})
                                          \/ \E g \in Goroutines : At(g, "clear")
      BY DEF Supervised
    <3>1. alive \subseteq {proc} \cup Holding({"attach"})
      BY <2>1 DEF AliveInv, Reattaching
    <3>2. ASSUME proc # None, NEW g \in Goroutines, Owner(g), ~At(g, "clear")
          PROVE  proc \in Holding({"record", "watch", "watching"})
      BY <2>1, <3>2 DEF OwnerInv, Owner, Owning, Holding, Reattaching, At
    <3>. QED BY <3>1, <3>2 DEF OwnerInv
  <2>3. StatusTrue
    <3>1. (proc # None) <=> (state \in {"running", "stopping"})
      BY DEF StarterInv
    <3>2. (state = "starting") <=> (\E g \in Goroutines : run[g].pc \in {"build", "failed", "attach"})
      BY DEF StarterInv, Starting
    <3>3. (proc # None) = (state \in {"running", "stopping"})
      BY <3>1
    <3>4. (state = "starting") = (\E g \in Goroutines : run[g].pc \in {"build", "failed", "attach"})
      BY <3>2
    <3>. QED BY <3>3, <3>4, Zenon DEF StatusTrue
  <2>4. Reattachable
    <3>. SUFFICES ASSUME up, ~Startup, proc \in alive, proc \notin Holding({"record"})
                  PROVE  record = proc
      BY DEF Reattachable
    <3>1. proc # None
      BY DEF TypeOK
    <3>2. PICK g \in Goroutines : Owner(g)
      BY <3>1 DEF OwnerInv
    <3>3. run[g].pc \in {"watch", "watching"} /\ run[g].pid = proc
      BY <2>1, <3>2 DEF OwnerInv, Owner, Owning, Holding, Reattaching, At
    <3>. QED BY <2>1, <3>3 DEF RecordInv, Reattaching, At
  <2>5. TailsEnd
    BY DEF TailsEnd, TailInv, Holding, At
  <2>. QED BY <2>2, <2>3, <2>4, <2>5
<1>2. Inductive => InStep
  BY <1>1 DEF Inductive, AtAnyTime, InStep
<1>. QED BY <1>2, Invariance, PTL

\* controlapi.go: between two scheduled restarts there is the cool-down, unless a
\* cancel came when the timer of the second had fired.
THEOREM SpacedRestarts == Spec => RestartsSpaced
<1>1. Inductive /\ [Next]_vars
        => [\A g \in Goroutines : At(g, "fired") /\ run'[g].pc = "ask" => ~cooling \/ missed]_vars
  BY DEF Inductive, AtAnyTime, TimerInv, At
<1>. QED BY <1>1, Invariance, PTL DEF Spec, RestartsSpaced

\* services.go and controlapi.go: nothing starts a service that was stopped, or has
\* given up, until somebody asks for it, and no second restart comes too soon; but for a
\* stop too late for a restart past its last check, a cancel too late for a timer that
\* has fired, and a start before start-up had looked.
THEOREM OnlyAllowedStarts == Spec => StartsAllowed
<1>1. Inductive /\ [Next]_vars => [\A g \in Goroutines : Begins(g) => halted # "inTime" \/ raced]_vars
  BY DEF Inductive, Orderly, DownInv, OnTheirWay, Begins, At
<1>2. Spec => StaysDown
  BY <1>1, Invariance, PTL DEF Spec, StaysDown
<1>. QED BY <1>2, SpacedRestarts, PTL DEF StartsAllowed

===============================================================================
