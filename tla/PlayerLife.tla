------------------------------ MODULE PlayerLife ------------------------------
(***************************************************************************)
(* A player's life on the game server: joining, spawning, death, revival,  *)
(* a new life, leaving, autosaves, and the jail, with the row of players,  *)
(* the record loaded from it (ALife_sessions) and the body in the world.   *)
(*                                                                         *)
(* Event handlers, arrests and bail run to their end.  What a client asks  *)
(* for by remoteExec, the autosave and the jail's loop are scripts that    *)
(* may be suspended between any two statements.                            *)
(*                                                                         *)
(* Of what is saved only three columns matter here: alive, gear and jail.  *)
(* Gear is an outfit's number, one for each life, 0 for none.  Money and   *)
(* carried items are in BankDb and Items, positions are left out.          *)
(***************************************************************************)
EXTENDS Integers, FiniteSets

CONSTANTS
    Players,
    Scripts,      \* clients' requests running at the same time
    None,
    Sentence,     \* time units an arrest gives
    Faults,       \* {"refused", "restart"}: saves that fail, a restart
    MaxFaults, MaxLives, MaxArrests  \* bounds

Rows == [alive : BOOLEAN, gear : Nat, jail : Nat]

ASSUME LifeAssumption ==
    /\ None \notin Players \cup Int \cup Rows
    /\ Sentence \in Nat \ {0}
    /\ Faults \subseteq {"refused", "restart"}
    /\ {MaxFaults, MaxLives, MaxArrests} \subseteq Nat

VARIABLES
    saved,     \* the row: [alive, gear, jail]
    record,    \* ALife_sessions: None or such a record
    unit,      \* "gone", "waiting" (no alife_faction), "spawned", "dead", "claimed" or "revived"
    client,    \* what the player sees: "off", "loading", "menu", "pending", "playing", "down", "reviving"
    worn,      \* the outfit on the unit or its body
    lost,      \* the last outfit left on a body for good
    jail,      \* ALife_jail: None or the time left
    online,    \* ALife_online: a session opened in player_sessions
    script, saver, warden,
    faults, arrests,
    \* What really happened:
    dead,      \* died, and neither revived nor in a new life
    owed,      \* time still to be served
    free,      \* no sentence, or it is over
    doubtful   \* a failed save, or an older reading written over what came after

world == <<unit, client, worn, lost>>
truth == <<dead, owed, free>>
bounds == <<faults, arrests>>
vars == <<saved, record, world, jail, online, script, saver, warden, bounds, truth, doubtful>>

-------------------------------------------------------------------------------

Idle == [at |-> "idle", p |-> None, row |-> None, own |-> FALSE, here |-> FALSE]
NoSave == [at |-> "idle", p |-> None, gear |-> 0, old |-> FALSE]
NoCheck == [at |-> "idle", p |-> None, left |-> 0]

Init ==
    /\ saved \in [Players -> {[alive |-> TRUE, gear |-> 0, jail |-> 0]}]
    /\ record = [p \in Players |-> None]
    /\ unit = [p \in Players |-> "gone"] /\ client = [p \in Players |-> "off"]
    /\ worn = [p \in Players |-> 0] /\ lost = [p \in Players |-> 0]
    /\ jail = [p \in Players |-> None]
    /\ online = [p \in Players |-> FALSE]
    /\ script = [s \in Scripts |-> Idle] /\ saver = NoSave /\ warden = NoCheck
    /\ faults = 0 /\ arrests = 0
    /\ dead = [p \in Players |-> FALSE]
    /\ owed = [p \in Players |-> 0] /\ free = [p \in Players |-> TRUE]
    /\ doubtful = {}

\* A save, unless the database refuses: nothing but the log tells.  "stale" says
\* whether an older reading is being written over something newer.
Save(p, row, stale) ==
    \/ /\ saved' = [saved EXCEPT ![p] = row]
       /\ doubtful' = IF stale THEN doubtful \cup {p} ELSE doubtful
       /\ UNCHANGED faults
    \/ /\ "refused" \in Faults /\ faults < MaxFaults /\ faults' = faults + 1
       /\ doubtful' = doubtful \cup {p}
       /\ UNCHANGED saved

\* Changing the record if the player has one.
Record(p, column, value) ==
    record' = IF record[p] = None THEN record ELSE [record EXCEPT ![p][column] = value]

RunningFor(p) == \E s \in Scripts : script[s].p = p

\* The object a script was called with is the player's no more.
Cut(p) == [s \in Scripts |-> IF script[s].p = p THEN [script[s] EXCEPT !.own = FALSE, !.here = FALSE] ELSE script[s]]

\* The same for the autosave when the unit dies or leaves.
Aged(p) == IF saver.p = p THEN [saver EXCEPT !.old = TRUE] ELSE saver

To(s, at) == script' = [script EXCEPT ![s].at = at]
Ended(s) == script' = [script EXCEPT ![s] = Idle]

-------------------------------------------------------------------------------
(* Joining and the session.                                                 *)

Join(p) ==
    /\ unit[p] = "gone"
    /\ unit' = [unit EXCEPT ![p] = "waiting"] /\ client' = [client EXCEPT ![p] = "loading"]
    /\ UNCHANGED <<saved, record, worn, lost, jail, online, script, saver, warden, bounds, truth, doubtful>>

\* The client asks for its character, again if the answer is long in coming.
AskSession(p, s) ==
    /\ client[p] = "loading" /\ script[s] = Idle
    /\ script' = [script EXCEPT ![s] = [Idle EXCEPT !.at = "load", !.p = p, !.here = TRUE]]
    /\ UNCHANGED <<saved, record, world, jail, online, saver, warden, bounds, truth, doubtful>>

\* What the database answers to "load": the row's columns (whether the player is
\* banned, which it looks at first, is in Casework).
LoadPlayer(p) == saved[p]

\* Reading the row; the third failure in a row is told to the client.
Load(s) ==
    LET p == script[s].p
    IN  /\ script[s].at = "load"
        /\ \/ script' = [script EXCEPT ![s].at = "set", ![s].row = LoadPlayer(p)] /\ UNCHANGED <<faults, client>>
           \/ /\ "refused" \in Faults /\ faults < MaxFaults /\ faults' = faults + 1
              /\ Ended(s)
              /\ client' = IF script[s].here /\ client[p] = "loading" THEN [client EXCEPT ![p] = "error"] ELSE client
        /\ UNCHANGED <<saved, record, unit, worn, lost, jail, online, saver, warden, arrests, truth, doubtful>>

\* What was loaded becomes the session, whether the player is still there or not.
SetSession(s) ==
    LET p == script[s].p
        row == script[s].row
    IN  /\ script[s].at = "set"
        /\ record' = [record EXCEPT ![p] = row]
        /\ script' = [t \in Scripts |-> IF t = s THEN [script[s] EXCEPT !.at = "online"]
                                        ELSE IF script[t].p = p THEN [script[t] EXCEPT !.own = FALSE] ELSE script[t]]
        /\ doubtful' = IF row # saved[p] \/ \E t \in Scripts : script[t].p = p /\ script[t].own
                       THEN doubtful \cup {p} ELSE doubtful
        /\ UNCHANGED <<saved, world, jail, online, saver, warden, bounds, truth>>

\* Opening a player's session closes one left open; ending closes it; "reset",
\* at server start, closes everybody's.
RecordSession(op, who) == online' = [p \in Players |-> IF p \in who THEN op = "start" ELSE online[p]]

\* A session for the website's list unless one is open, then the answer: the
\* first one opens the spawn menu.
GoOnline(s) ==
    LET p == script[s].p
    IN  /\ script[s].at = "online"
        /\ \/ RecordSession("start", {p}) /\ UNCHANGED faults
           \/ /\ ~online[p] /\ "refused" \in Faults /\ faults < MaxFaults /\ faults' = faults + 1
              /\ UNCHANGED online
        /\ client' = IF script[s].here /\ client[p] = "loading" THEN [client EXCEPT ![p] = "menu"] ELSE client
        /\ Ended(s)
        /\ UNCHANGED <<saved, record, unit, worn, lost, jail, saver, warden, arrests, truth, doubtful>>

-------------------------------------------------------------------------------
(* Spawning.                                                                *)

\* A spawn point picked, again if no answer came: the unit is shown and is
\* somebody from here on.
Pick(p, s) ==
    /\ client[p] \in {"menu", "pending"} /\ script[s] = Idle
    /\ record[p] # None
    /\ script' = [script EXCEPT ![s] = [at |-> IF record[p].alive THEN "alive" ELSE "life", p |-> p,
                                        row |-> record[p], own |-> TRUE, here |-> TRUE]]
    /\ unit' = [unit EXCEPT ![p] = "spawned"] /\ client' = [client EXCEPT ![p] = "pending"]
    /\ dead' = [dead EXCEPT ![p] = FALSE]
    /\ UNCHANGED <<saved, record, worn, lost, jail, online, saver, warden, bounds, owed, free, doubtful>>

\* A death not revived: the gear stays with the body.
NewLife(s) ==
    LET p == script[s].p
    IN  /\ script[s].at = "life"
        /\ IF script[s].own THEN record' = [record EXCEPT ![p].gear = 0] ELSE UNCHANGED record
        /\ Save(p, [saved[p] EXCEPT !.gear = 0], FALSE)
        /\ script' = [script EXCEPT ![s].at = "alive", ![s].row.gear = 0]
        /\ UNCHANGED <<world, jail, online, saver, warden, arrests, truth>>

SaveAlive(s) ==
    LET p == script[s].p
    IN  /\ script[s].at = "alive"
        /\ IF script[s].own THEN record' = [record EXCEPT ![p].alive = TRUE] ELSE UNCHANGED record
        /\ Save(p, [saved[p] EXCEPT !.alive = TRUE], FALSE)
        /\ To(s, "approve")
        /\ UNCHANGED <<world, jail, online, saver, warden, arrests, truth>>

\* Mutant of StillServing: whoever carries on where he was is not sent back.
StillServingElsewhere(row) == row.jail > 0 /\ ~row.alive

StillServing(row) == row.jail > 0

\* The answer: the saved outfit, or a fresh one.
Approve(s) ==
    LET p == script[s].p
        gear == IF script[s].own THEN record[p].gear ELSE script[s].row.gear
    IN  /\ script[s].at = "approve"
        /\ IF script[s].here /\ unit[p] = "spawned"
           THEN /\ client' = [client EXCEPT ![p] = "playing"]
                /\ worn' = [worn EXCEPT ![p] = IF gear = 0 THEN lost[p] + 1 ELSE gear]
           ELSE UNCHANGED <<client, worn>>
        /\ IF StillServing(script[s].row) /\ script[s].here THEN To(s, "jail") ELSE Ended(s)
        /\ UNCHANGED <<saved, record, unit, lost, jail, online, saver, warden, bounds, truth, doubtful>>

\* The record's sentence is not the one the script began with.
TermChanged(s) == script[s].own => record[script[s].p].jail # script[s].row.jail

\* Back in jail with the time the record had, first in memory ...
JailAgain(s) ==
    LET p == script[s].p
    IN  /\ script[s].at = "jail"
        /\ IF script[s].here
           THEN /\ jail' = [jail EXCEPT ![p] = script[s].row.jail] /\ To(s, "term")
                /\ doubtful' = IF TermChanged(s) THEN doubtful \cup {p} ELSE doubtful
           ELSE Ended(s) /\ UNCHANGED <<jail, doubtful>>
        /\ UNCHANGED <<saved, record, world, online, saver, warden, bounds, truth>>

\* ... then in the row and the record.
SaveTerm(s) ==
    LET p == script[s].p
    IN  /\ script[s].at = "term"
        /\ Save(p, [saved[p] EXCEPT !.jail = script[s].row.jail], TermChanged(s))
        /\ Record(p, "jail", script[s].row.jail)
        /\ Ended(s)
        /\ UNCHANGED <<world, jail, online, saver, warden, arrests, truth>>

-------------------------------------------------------------------------------
(* Death and revival.                                                       *)

\* Damage is back on some seconds after the answer, when what put the player in
\* the world has ended.
Kill(p) ==
    /\ unit[p] = "spawned" /\ client[p] = "playing" /\ ~RunningFor(p)
    /\ lost[p] < MaxLives
    /\ unit' = [unit EXCEPT ![p] = "dead"] /\ client' = [client EXCEPT ![p] = "down"]
    /\ Save(p, [saved[p] EXCEPT !.alive = FALSE], FALSE)
    /\ Record(p, "alive", FALSE)
    /\ dead' = [dead EXCEPT ![p] = TRUE]
    /\ saver' = Aged(p)
    /\ UNCHANGED <<worn, lost, jail, online, script, warden, arrests, owed, free>>

\* A medic claims the body, and the player's client is told.
Revive(p) ==
    /\ unit[p] = "dead"
    /\ unit' = [unit EXCEPT ![p] = "claimed"]
    /\ UNCHANGED <<saved, record, client, worn, lost, jail, online, script, saver, warden, bounds, truth, doubtful>>

\* Respawning, claimed or not: the outfit stays on the body.
Respawn(p) ==
    /\ unit[p] \in {"dead", "claimed"}
    /\ unit' = [unit EXCEPT ![p] = "waiting"] /\ client' = [client EXCEPT ![p] = "loading"]
    /\ lost' = [lost EXCEPT ![p] = worn[p]] /\ worn' = [worn EXCEPT ![p] = 0]
    /\ UNCHANGED <<saved, record, jail, online, script, saver, warden, bounds, truth, doubtful>>

RespawnRevived(p) ==
    /\ unit[p] = "claimed"
    /\ unit' = [unit EXCEPT ![p] = "revived"] /\ client' = [client EXCEPT ![p] = "reviving"]
    /\ UNCHANGED <<saved, record, worn, lost, jail, online, script, saver, warden, bounds, truth, doubtful>>

\* The new unit is put where the body was, the body removed ...
CompleteRevive(p, s) ==
    /\ unit[p] = "revived" /\ script[s] = Idle
    /\ unit' = [unit EXCEPT ![p] = "spawned"]
    /\ script' = [script EXCEPT ![s] = [at |-> "raise", p |-> p, own |-> TRUE, here |-> TRUE,
                                        row |-> [alive |-> TRUE, gear |-> worn[p], jail |-> 0]]]
    /\ worn' = [worn EXCEPT ![p] = 0]
    /\ dead' = [dead EXCEPT ![p] = FALSE]
    /\ UNCHANGED <<saved, record, client, lost, jail, online, saver, warden, bounds, owed, free, doubtful>>

\* ... saved as alive, and the outfit sent back.
Raise(s) ==
    LET p == script[s].p
    IN  /\ script[s].at = "raise"
        /\ IF script[s].own THEN Record(p, "alive", TRUE) ELSE UNCHANGED record
        /\ Save(p, [saved[p] EXCEPT !.alive = TRUE], FALSE)
        /\ IF script[s].here
           THEN client' = [client EXCEPT ![p] = "playing"] /\ worn' = [worn EXCEPT ![p] = script[s].row.gear]
           ELSE UNCHANGED <<client, worn>>
        /\ Ended(s)
        /\ UNCHANGED <<unit, lost, jail, online, saver, warden, arrests, truth>>

-------------------------------------------------------------------------------
(* Leaving, and the server stopping.                                        *)

\* Mutant of SavedOnLeave: anybody with a living unit is saved.
SavedWhoeverLives(p) == unit[p] \in {"waiting", "spawned"}

\* Only a unit that is somebody is saved.
SavedOnLeave(p) == unit[p] = "spawned"

Leave(p) ==
    LET time == IF jail[p] = None THEN saved[p].jail ELSE jail[p]
    IN  /\ unit[p] # "gone"
        /\ unit' = [unit EXCEPT ![p] = "gone"] /\ client' = [client EXCEPT ![p] = "off"]
        /\ RecordSession("end", {p})
        /\ jail' = [jail EXCEPT ![p] = None]
        /\ Save(p, IF SavedOnLeave(p) THEN [alive |-> TRUE, gear |-> worn[p], jail |-> time]
                   ELSE [saved[p] EXCEPT !.jail = time], FALSE)
        /\ record' = [record EXCEPT ![p] = None]
        /\ lost' = IF unit[p] \in {"dead", "claimed", "revived"} THEN [lost EXCEPT ![p] = worn[p]] ELSE lost
        /\ worn' = [worn EXCEPT ![p] = 0]
        /\ script' = Cut(p) /\ saver' = Aged(p)
        /\ UNCHANGED <<warden, arrests, truth>>

\* Everything but the rows is gone, bodies too, and the open sessions are closed.
Restart ==
    /\ "restart" \in Faults /\ faults < MaxFaults /\ faults' = faults + 1
    /\ record' = [p \in Players |-> None]
    /\ unit' = [p \in Players |-> "gone"] /\ client' = [p \in Players |-> "off"]
    /\ worn' = [p \in Players |-> 0] /\ lost' = [p \in Players |-> 0]
    /\ jail' = [p \in Players |-> None] /\ RecordSession("reset", Players)
    /\ script' = [s \in Scripts |-> Idle] /\ saver' = NoSave /\ warden' = NoCheck
    /\ UNCHANGED <<saved, arrests, truth, doubtful>>

-------------------------------------------------------------------------------
(* The autosave: alive, then gear, of one player after the other.           *)

Visit(p) ==
    /\ saver = NoSave
    /\ unit[p] = "spawned"
    /\ saver' = [at |-> "alive", p |-> p, gear |-> 0, old |-> FALSE]
    /\ UNCHANGED <<saved, record, world, jail, online, script, warden, bounds, truth, doubtful>>

AutosaveAlive ==
    LET p == saver.p
    IN  /\ saver.at = "alive"
        /\ Save(p, [saved[p] EXCEPT !.alive = TRUE], saver.old /\ ~saved[p].alive)
        /\ saver' = [saver EXCEPT !.at = "look"]
        /\ UNCHANGED <<record, world, jail, online, script, warden, arrests, truth>>

\* Alive still: what it wears is read ...
LookAtGear ==
    /\ saver.at = "look"
    /\ saver' = IF saver.old THEN NoSave ELSE [saver EXCEPT !.at = "gear", !.gear = worn[saver.p]]
    /\ UNCHANGED <<saved, record, world, jail, online, script, warden, bounds, truth, doubtful>>

\* ... and saved, in the row and, if that went well, in the record.
AutosaveGear ==
    LET p == saver.p
    IN  /\ saver.at = "gear"
        /\ Save(p, [saved[p] EXCEPT !.gear = saver.gear], saver.old /\ saved[p].gear # saver.gear)
        /\ IF faults' = faults THEN Record(p, "gear", saver.gear) ELSE UNCHANGED record
        /\ saver' = NoSave
        /\ UNCHANGED <<world, jail, online, script, warden, arrests, truth>>

-------------------------------------------------------------------------------
(* The jail.                                                                *)

\* A second passes for everybody in jail.
Tick ==
    /\ \E p \in Players : jail[p] # None /\ jail[p] > 0
    /\ jail' = [p \in Players |-> IF jail[p] # None /\ jail[p] > 0 THEN jail[p] - 1 ELSE jail[p]]
    /\ owed' = [p \in Players |-> IF jail[p] # None /\ owed[p] > 0 THEN owed[p] - 1 ELSE owed[p]]
    /\ warden' = IF warden.left > 0 THEN [warden EXCEPT !.left = warden.left - 1] ELSE warden
    /\ UNCHANGED <<saved, record, world, online, script, saver, bounds, dead, free, doubtful>>

\* An arrest, of somebody wanted and restrained at the jail.
Arrest(p) ==
    /\ unit[p] = "spawned" /\ client[p] = "playing"
    /\ arrests < MaxArrests /\ arrests' = arrests + 1
    /\ jail' = [jail EXCEPT ![p] = Sentence]
    /\ Save(p, [saved[p] EXCEPT !.jail = Sentence], FALSE)
    /\ Record(p, "jail", Sentence)
    /\ owed' = [owed EXCEPT ![p] = Sentence] /\ free' = [free EXCEPT ![p] = FALSE]
    /\ UNCHANGED <<world, online, script, saver, warden, dead>>

\* Bail paid: released at once.
Bail(p) ==
    /\ jail[p] # None
    /\ jail' = [jail EXCEPT ![p] = None]
    /\ Save(p, [saved[p] EXCEPT !.jail = 0], FALSE)
    /\ Record(p, "jail", 0)
    /\ owed' = [owed EXCEPT ![p] = 0] /\ free' = [free EXCEPT ![p] = TRUE]
    /\ UNCHANGED <<world, online, script, saver, warden, arrests, dead>>

\* The loop looks at a prisoner's time ...
LookAtPrisoner(p) ==
    /\ warden = NoCheck /\ jail[p] # None
    /\ warden' = [at |-> "act", p |-> p, left |-> jail[p]]
    /\ UNCHANGED <<saved, record, world, jail, online, script, saver, bounds, truth, doubtful>>

\* ... and saves what is left, unless there is none: then the prisoner goes,
SaveTime ==
    LET p == warden.p
    IN  /\ warden.at = "act" /\ warden.left > 0
        /\ Save(p, [saved[p] EXCEPT !.jail = warden.left], jail[p] # warden.left)
        /\ warden' = NoCheck
        /\ UNCHANGED <<record, world, jail, online, script, saver, arrests, truth>>

\* out of the map,
Release ==
    /\ warden.at = "act" /\ warden.left = 0
    /\ jail' = [jail EXCEPT ![warden.p] = None]
    /\ doubtful' = IF jail[warden.p] \notin {0, None} THEN doubtful \cup {warden.p} ELSE doubtful
    /\ warden' = [warden EXCEPT !.at = "clear"]
    /\ UNCHANGED <<saved, record, world, online, script, saver, bounds, truth>>

\* then out of the row and the record.
ClearSentence ==
    LET p == warden.p
    IN  /\ warden.at = "clear"
        /\ Save(p, [saved[p] EXCEPT !.jail = 0], jail[p] # None)
        /\ Record(p, "jail", 0)
        /\ owed' = [owed EXCEPT ![p] = 0] /\ free' = [free EXCEPT ![p] = TRUE]
        /\ warden' = NoCheck
        /\ UNCHANGED <<world, jail, online, script, saver, arrests, dead>>

Next ==
    \/ \E p \in Players :
          \/ Join(p) \/ Kill(p) \/ Revive(p) \/ Respawn(p) \/ RespawnRevived(p) \/ Leave(p)
          \/ Visit(p) \/ Arrest(p) \/ Bail(p) \/ LookAtPrisoner(p)
          \/ \E s \in Scripts : AskSession(p, s) \/ Pick(p, s) \/ CompleteRevive(p, s)
    \/ \E s \in Scripts :
          \/ Load(s) \/ SetSession(s) \/ GoOnline(s)
          \/ NewLife(s) \/ SaveAlive(s) \/ Approve(s) \/ JailAgain(s) \/ SaveTerm(s) \/ Raise(s)
    \/ AutosaveAlive \/ LookAtGear \/ AutosaveGear
    \/ Tick \/ SaveTime \/ Release \/ ClearSentence
    \/ Restart

Spec == Init /\ [][Next]_vars

-------------------------------------------------------------------------------
(* Properties.                                                              *)

\* The shape of rows, records, units and scripts.
TypeOK ==
    /\ saved \in [Players -> Rows]
    /\ record \in [Players -> Rows \cup {None}]
    /\ unit \in [Players -> {"gone", "waiting", "spawned", "dead", "claimed", "revived"}]
    /\ client \in [Players -> {"off", "loading", "error", "menu", "pending", "playing", "down", "reviving"}]
    /\ worn \in [Players -> Nat] /\ lost \in [Players -> Nat]
    /\ jail \in [Players -> Nat \cup {None}]
    /\ online \in [Players -> BOOLEAN]
    /\ script \in [Scripts -> [at : {"idle", "load", "set", "online", "life", "alive", "approve", "jail", "term", "raise"},
                               p : Players \cup {None}, row : Rows \cup {None}, own : BOOLEAN, here : BOOLEAN]]
    /\ saver \in [at : {"idle", "alive", "look", "gear"}, p : Players \cup {None}, gear : Nat, old : BOOLEAN]
    /\ warden \in [at : {"idle", "act", "clear"}, p : Players \cup {None}, left : Nat]
    /\ dead \in [Players -> BOOLEAN] /\ owed \in [Players -> Nat] /\ free \in [Players -> BOOLEAN]
    /\ doubtful \subseteq Players

Sure == Players \ doubtful

\* A death that was neither revived nor followed by a new life is in the row,
\* wherever the player goes.
DeathRecorded == \A p \in Sure : dead[p] => ~saved[p].alive

\* Nobody goes about in an outfit that was left on a body for good.
OutfitOnce == \A p \in Sure : unit[p] = "spawned" /\ worn[p] > 0 => worn[p] > lost[p]

\* A life is lived once: it ends for good in the row, and its outfit with it.
OneLife == TypeOK /\ DeathRecorded /\ OutfitOnce

\* Leaving, dying, coming back or a restart gets nobody out of jail early.
SentenceServed ==
    \A p \in Sure :
        /\ owed[p] <= saved[p].jail
        /\ jail[p] # None => owed[p] <= jail[p]
        /\ unit[p] = "spawned" /\ owed[p] > 0 => jail[p] # None \/ RunningFor(p)

\* Who served the sentence or paid bail is not sent back for it.
FreeStaysFree == \A p \in Sure : free[p] => saved[p].jail = 0 /\ jail[p] = None

\* A sentence is served to its end, once.
TermsKept == SentenceServed /\ FreeStaysFree

\* Only who is connected is in ALife_online and has a session open for the
\* website.  The code breaks it: a request whose record was still being loaded
\* when its player left opens one.
OnlineConnected == \A p \in Players : online[p] => unit[p] # "gone"

================================================================================
