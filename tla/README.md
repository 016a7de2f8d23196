# TLA+ models of TasDyn-ALife

TasDyn-ALife runs an Arma 3 roleplay server: an SQF mission, a C++ extension
through which the mission reaches PostgreSQL, the database schema with its
triggers, a Go website that works on the same tables, and a Go/Wails program
that supervises the services of the machine. This directory holds TLA+ modules
of those parts, TLC instances that check them, and TLAPS proofs. Every
definition is translated from the source; `PROJECT.json` (`map`) gives the file
and the lines each one stands for.

## The system

| Part | Source | State it keeps | Reached by |
|---|---|---|---|
| Database | `src/database/schema.sql` | all durable state; triggers keep cached columns in step | SQL from the extension, the website, operators |
| Extension | `src/src/cpp_extension/src` | one libpq connection under one mutex | `callExtension` from the mission, synchronous |
| Mission, server | `src/src/ALife.Altis/functions/server` | player records (`ALife_sessions`), item lists, containers, vehicles in the world, market prices, jail and wanted state | `remoteExec` (scheduled: may be suspended between any two statements) and `remoteExecCall` (unscheduled: runs to its end) |
| Mission, client | `src/src/ALife.Altis/functions/client` | what one player sees | events from the server |
| Website | `src/src/website/internal` | sessions, permissions, cases, bans, applications, factions, staff, tickets, rules, documents, notifications, outbox | HTTP handlers (one goroutine per request, pooled connections) and background loops |
| Bot | the website's program with `-mode bot` | what its last pass saw | Discord's gateway, the database's notifications, tickers |
| Server manager | `src/src/server_manager` | supervised processes, settings, log rings, control API | Wails UI, HTTP control API, watchdog loops |

What makes it hard to test: PostgreSQL transactions of three programs meet on
the same rows; scheduled SQF code is suspended between reading a record and
writing it back; the game's copy of a record, the database and the world's
objects are three states kept in step by hand; a COMMIT's answer may be lost;
website handlers check and then write in separate statements; background loops
(outbox, audit poster, role sync, status, Steam) retry work that may have been
done; and the server manager's goroutines share process state.

### Components, their state and what makes them correct

| Component | State | Correct when | Modules |
|---|---|---|---|
| Bank (`db.cpp`, `website/internal/bank`, triggers) | accounts, cached balances, pockets, history, spent tokens | balance, cache and history agree, nothing goes below zero, a token pays once, a transfer moves both legs or none, every transaction ends | `BankLedger`, `BankDb` |
| Items and cash in hand (`itemsChange`, `giveItem`, shops, `containerTransfer`, gathering, processing) | a joined player's record, the row, bags, trunks | no sequence of legs and refusals makes or loses an item or a dollar; record and row agree | `Items` |
| Vehicles and garages | the row, the object, `ALife_vehicleObjects` | a vehicle is in the world at most once, and only while its row says so; fees are for what was done | `Garage` |
| Sessions, spawn, death, revive; jail | `ALife_sessions`, `ALife_jail`, the row | no death is forgotten, no outfit had twice, a sentence is served once and to its end | `PlayerLife` |
| Server manager (`services.go`, `app.go`, `controlapi.go`) | process, state, `state.json`, tails, pending restart | a service runs at most once, is watched and recorded, stays down once stopped, comes back once crashed | `Supervisor` |
| Staff and their recruitment (`applications`, `staff`) | applications, interviews, ranks, teams, leave | one open application each; whoever is accepted was hired; ranks change from above only; leave ends | `Careers` |
| Delivery to Discord (`discord/outbox.go`, `audit/poster.go`) | unsent rows | every row is sent or given up, and is not sent after it was marked | `Delivery`, refining `Mailbox` |
| Factions (`factions`, the Command handlers) | levels, ranks, probations, discipline, blacklist, divisions, qualifications | levels change from above only; warnings count once; corrections undo what they correct; decisions stand | `Factions` |
| Cases and bans (`cases`, `AdminBan`) | cases, timeline, points, bans, appeals, flags | a case bans a player once; an accepted appeal has lifted its ban; what the code puts in timeline and log is there once | `Casework` |
| Role synchronisation (`rolesync`, `discord/events.go`) | entitlements in the database, roles in the guild | they come to agree, and what no mapping names is left alone | `RoleSync` |
| Sign-in, permissions, custom roles (`auth`, `roles`) | sessions, link codes, ranks of the staff | nobody without access gets in; ranks stand and nobody loses one by an edit | `Access` |
| Notifications, tickets, rules, documents, project board | the tables of each | answers are told, highlights are true, nothing typed is lost, versions are complete, cards land where they are dropped | `Notices`, `Tickets`, `Rulebook`, `Drive`, `Board` |
| Gangs | members and their log | the log replays to the members | `Gangs` |
| Steam profiles | the bans last known, flags | no count is kept above what was told, unless its flag was lost | `Steam` |
| Status page, the bot's messages | checks; the pointers to the live messages | time without a check counts as down; what is posted is true | `Monitor`, `Bulletin` |

How they interact: the mission reaches every table through the extension; the
website's handlers call `SetRank`, `SetLevel`, the audit log, the notices and
the outbox inside or after their own transactions; changes of players, ranks
and mappings reach the bot as notifications of the database; the bot's loops
read the outbox, the staff log and the status checks; the website starts and
stops services through the manager's control API.

## Modules

Each component's module declares its state and bounds as CONSTANTS and
VARIABLES, has one action per handler (or per statement where something may come
between two), and ends with its properties. Composition: `BankDb` extends
`BankLedger` and is shown to implement it; `Delivery` is shown to implement two
instances of `Mailbox`; `Careers` extends `Delivery`, since a decision queues
its letter in its own transaction; `Access` extends `RoleSync`, since signing in,
linking and ranks change what a player is entitled to; `Tickets` and `Rulebook`
extend `Notices`; `Bulletin` extends `Monitor`; `Office` puts the pages side by
side. The `MC` modules give the constants values, and eight `...Proofs` modules
hold the theorems about the components they are named after (`CareersProofs`
those about `Delivery` too, `GameDatabaseProofs` those about `BankDb` and
`Garage`, `ControlProofs` those about `Supervisor`, `RoleSync` and `Access`,
`OfficeProofs` those about the pages of `Office`).

Requests of the website are `request[w]`, `sync[g]`, `desk[c]`, ...: a record of
where the goroutine is and of what it has read. A handler whose transaction
reads only rows it has locked, or whose one statement checks and writes, is one
action, as PostgreSQL serialises it; any other is split at the read that may be
stale. A request may be given up at any of its steps but the first, which is a
client gone, a failing database or the victim of a deadlock.

Several instances check one set of operations at a time: a *scene* is chosen in
the initial state (`offered`), and only its operations are begun. Within a scene
every interleaving is explored; the scenes pair the operations that write what
the others read. That keeps an instance of a module with forty handlers within
minutes, and no property depends on three different operations meeting.

### The bank: BankLedger, BankDb

`BankLedger` is the abstract bank: a transfer, purchase, deposit, withdrawal,
cash change or hand edit is one step over `balance` and `cash`, and a spent token
admits no second one. `BankDb` extends it with what the database does: `tx[s]`
is a session's request and its next statement, `img[s]` its uncommitted row
versions, `accLock` and `rowLock` the row locks on `bank_accounts` and
`players`. Each statement that can wait is an action: `LockFirst`, `LockSecond`
(`SELECT ... FOR UPDATE`), `CheckFunds`, `Debit` and `Credit` (an INSERT with
its BEFORE trigger and the balance update), `SyncDebit` and `SyncCredit` (the
cache trigger, which takes the `players` row), `LockRow`, `MoveCash`, `Commit`,
`Rollback`, `Disconnect`, `DeadlockVictim`. The requests `MoveMoney`,
`Compensate`, `BankTxTransfer`, `BankTxPurchase`, `BankCash`, `SaveCashDelta`,
`EditPlayersBank`, `EditAccountBalance` begin a transaction. The game is one
session because `Database::mutex_` serialises the extension.

`Inductive` is the invariant the proofs use: `TypeOK`, `BalancesAgree` and
`NeverNegative`, and for every session `RequestInv` (which statements the
operation may be at), `LockInv` (which locks it holds there), `RowsInv` and
`CacheInv` (what its own row versions are). `BalancesAgree` alone is not
inductive: a commit publishes private versions, so one has to know what they
are and that nobody else changed those rows meanwhile, which the locks give.

Run `bank`: all eight operations, three accounts of two players (one with two
factions), two transactions out of the three sessions. Two running transactions
meet on every pair of statements, which is where locks matter; the proofs remove
the bound. `LedgerSpec` is the refinement. Fairness: `SF` for a session's
statements (PostgreSQL's lock queue lets a waiter through in the end), `WF` for
refusals and the deadlock check, none for requests; under it every transaction
ends, two that wait for each other by one being chosen as the victim.

Left out: the share locks of foreign keys, account creation (in `Access`), and
the answer to `SaveCashDelta`'s COMMIT, which `Items` has ("commitLost").

### Items

A handler run by `remoteExec` is a script with a request (`ask`), a leg and a
stage in the leg. The legs are changes of an item list (`out`, `in`, `back`,
`goods`: `ReadList`, `SaveList`, `SetRecord`, the three statements of
`itemsChange`) or of cash (`charge`, `pay`, `cashOut`, `cashIn`, `cashBack`:
`SaveCash`, then `Book`). `FirstLeg`, `AfterWait`, `OnOk` and `OnRefusal` say
which leg follows which, and are all that tells `giveItem`, `shopBuy`,
`shopSell`, `requestGather` and `requestProcess` apart. Handlers run by
`remoteExecCall` (`Take`, `Store`, `Strip`, `AdminGive`, `AdminGiveCash`,
`UseAtOnce`) are one action. `Leave`, `Join`, `Crash` and `Expire` are the world
around them.

`saved` and `pocket` are the rows, `record` and `purse` the game's copy,
`told` and `toldCash` the sum of the changes answered OK, `issued` what was made
or bought less what was used up. A save may be refused, may run and lose its
reply, or may lose its COMMIT behind an OK. `doubtful` collects the players to
whom one of the last two happened, or two of whose list changes overlapped: for
those the code has no way to keep the three in step, so `ListsAgree` and
`PocketAgrees` speak of the others. The finding `NothingDuplicated` is what that
exclusion leaves out.

Run `items_handlers`: every handler but paid processing, two scripts, three
requests, one fault. Run `items_sessions`: two classes, a bag and a trunk, gifts,
paid processing, strips and container moves, with two of: refusal, leaving and
rejoining, restart; `StoresHold` is `NothingFromNothing` (processing makes no
more than it uses up) and `TrunksSaved` (a restart brings back what is in a
trunk). Two players, two scripts and quantities of one or two are enough for
every overlap of two handlers on one list; a third request lets a second handler
of the same script follow. Weights and prices are 1, a purchase paid from the
bank is one whose payment `BankDb` models, and bag ids are reused.

Other things the model shows when asked, and that the text of the repository
words differently: a save that ran and lost its reply is refunded, so the item
exists twice (`fn_itemsChange.sqf:35`); a trunk save that fails is only logged,
and a restart brings the item back (`fn_containerTransfer.sqf:140`); a gift is
not held to `carryWeight` (`fn_giveItem.sqf:80`); a refund of cash that is itself
refused is shown to the player all the same (`fn_giveItem.sqf:44`).

`ItemsProofs` proves what the two runs check for any players, classes,
containers, scripts and quantities. `ListsAgree` is inductive with `TypeOK`: it
says, for a player not in doubt, that at most one script is between reading and
writing back, and what it holds in terms of the record. Each action has a frame
lemma (scripts that hold no list, players whose list is not touched) and one
lemma for its effect.

`HandlersBalance` compares sums over players, containers and scripts before and
after. `SumMoves` says what such a sum does when one summand changes; it is
shown without an induction, for the smallest set where it would fail. Every
action then shows `ItemsBalance` and `CashBalances` (what leaves one place comes
to another, is made, or is lost with a fault counted), and `NothingMade` where no
handler makes items. These rest on `Sound`: nothing is below zero, a script is on
a leg its handler has (`Fits`), a bag that is gone is empty, nobody is off line
before a fault. `TrunksSaved` is inductive beside it. `StoresHold` adds that
nothing comes of nothing, which is true of servers where nobody buys, gathers or
is given anything (`NoMakers`, as in `items_sessions`): processing owes what it
took in (`AllOwed`) until it puts it out. `PocketAgrees` is `Booked` for each
player, whose scripts that have saved and not booked (`AllUnbooked`) make up the
difference between row and record; rejoining drops both at once.

### Garage

`row[v]` is `vehicles.status`, `car[o]` the `alife_vehicleId` of an object,
`known[v]` the map's entry. The garage window, impounding and the staff's menu
run by `remoteExecCall`, so a handler is atomic to the rest of the mission, but
the website's `VehicleAction` may run between two of its database calls:
`Retrieve`, `Fee`, `TakeOut` are the three calls of a retrieval, `AdminPull`,
`TakeOut` and `AdminStore`, `PutBack` those of the staff's. `Store`, `Impound`,
`Wreck` make one call each. A purchase is a script that may be suspended:
`Buy`, `Charge`, `Add`, `Create`, `Register`. `Restart` empties the world and
puts back the rows that say spawned. A call may be refused, or run and lose its
reply.

`doubtful` collects the vehicles whose store was told to have failed and had
not, and those handled while their purchase was under way; of these the code
itself may put two in the world (the garage shows a row that says spawned and
whose object it does not find as garaged), so `OneObject` and `DestroyedStays`
speak of the others. `paid` and `served` count what was taken for a vehicle
and what was handed over for it; an unpaid retrieval counts in neither. An
impounding whose call was refused deletes the object and leaves the row
spawned, so no fee is ever due (`fn_vehicleAction.sqf:78`).

Run `garage`: two vehicles, three objects, two purchases at a time, two faults
of any kind, seven requests, which buy two vehicles, store, impound and retrieve
one of them with a staff action in between.

`GameDatabaseProofs` proves its type and all three properties. `OneObject` is not inductive: one has
to know that a vehicle a handler or a buyer is about to put in the world is not
there yet (`HandlerInv`, `BuyersInv`), which holds because a handler begins
only with a vehicle that is not out, and because nothing but the buyer itself
reaches one that is being bought without making it doubtful.

Left out: fuel, damage and skins, keys and locks (they live and die with the
object), and the order of start-up: the reset is taken to end before anybody
reaches a garage.

### PlayerLife

`saved[p]` is the player's row, reduced to `alive`, the number of the outfit in
`gear` (one for each life, 0 for none) and `jail`; `record[p]` is
`ALife_sessions`, `jail[p]` is `ALife_jail`, `online[p]` is `ALife_online`.
`unit` says what the server knows of the unit (nobody yet, spawned, dead,
claimed by a medic, respawned as revived), `client` what the player sees. `dead`,
`owed` and `free` record what really happened, whatever was saved.

Event handlers, arrests, bail and medics' requests run to their end
(`remoteExecCall`, mission events). A session request (`Load`, `SetSession`,
`GoOnline`), a spawn request (`Pick`, `NewLife`, `SaveAlive`, `Approve`,
`JailAgain`, `SaveTerm`), the end of a revival (`CompleteRevive`, `Raise`), the
autosave and the jail's loop are scripts that may be suspended between any two
of these steps, and clients ask again when an answer is long in coming.

Run `player_life`: one player, two requests at a time, a sentence of two time
units, one death that leaves an outfit behind, one arrest, one failed call or
restart. `OneLife` is `TypeOK`, `DeathRecorded` (whoever died is not loaded
alive) and `OutfitOnce`; `TermsKept` is `SentenceServed` and `FreeStaysFree`.
Players do not share any of this state, so one is enough; a second death or
arrest begins from a state that was already reached.

A failed save is only logged here, so a player is `doubtful` after one, and
after an older reading was written over something newer: an autosave that read
`alive` before a death and writes it after (`fn_savePlayer.sqf:30`), the jail's
loop writing the time of someone released meanwhile (`fn_jail.sqf:152`), a spawn
request that sets a term bailed out of since it began. The code has nothing
against these, the properties leave such players out, and with a single player
the run stops there (`StillSure`), where no property but `TypeOK` says anything.

What was assumed: a unit takes damage again three seconds after the answer, when
the script that put it in the world has ended; a second pick reaches the server
only when the first has not been answered for twenty seconds; a restart takes
the bodies with it; a new arrest replaces the sentence. An autosave or a leave
between "spawned" and the answer saves a unit not yet dressed, as the code does.

`PlayerLifeProofs` proves `OneLife` and `TermsKept` for any number of players and
scripts and any number of lives, arrests and faults. The invariant has a part
for each player (`UnitInv`: who has a body has a session, alive or dead as the
body is; `GearInv`: outfits left on a body are in neither row nor record, but for
the one a script is about to write off; `TermInv`: what is owed is in row,
record and memory, and a clock or a script will see to it), a part for each
script (`ScriptInv`, `LivedInv`: what it has read still holds of its player),
and one for autosave and warden. `UnitInv` and `ScriptInv` hold of everybody, the
rest of the players nobody is in doubt about (`Sure`). One lemma per action shows
the part of its own player; `OnePlayer` keeps everybody else's.

Left out: bans, whitelisted slots, positions and spawn points, the saved name,
combat logging, the wanted list, an arrest's reward and the price of bail.

### Supervisor

A goroutine is `[pc, op, pid]`; a step is one statement, or one section under
`service.mu` or `control.mu`. `op` says what it runs: a request, the waiter of a
process, the scheduled restart, start-up. `alive` (processes on the machine)
and `record` (state.json) outlive the manager; `Close` ends every goroutine
anywhere. `Check`/`Build`/`Attach`/`SetRunState`/`Watch` are `startService` and
`launch`; `Exited`/`Clear`/`Wake` are `wait`; `Look`/`Ask`/`Kill`/`Await` are
`Stop`, `StopAllServices` and `Restart`; `Schedule`/`Book`/`Fire`/`Due` and
`Cancel` are the control API's restart; `Load`/`Adopt`/.../`AutoStart` are
`startServices`.

Run `supervisor_safety`: two processes, three goroutines, every request but the
bare cancel, also during start-up. `NeverTwice`: until a start has raced with
start-up, there is `OneProcess`; `InStep`, which is `TypeOK` and, until then,
`Supervised`, `StatusTrue`, `Reattachable` and `TailsEnd` (process, watcher, shown
state, state.json and tails tell of one process); `StartsAllowed`, which is
`StaysDown` and `RestartsSpaced`. Two processes show a second one beside the
first; three goroutines are a waiter and two requests, or start-up. TLC checks the
states right after a race and does not go on from them (`UntilRaced`): all but
types and spacing promise nothing there, and the proof covers what comes after,
opening the manager anew included. Run `supervisor_live`:
`WF` for each goroutine's step, since the Go scheduler runs what can run and
sleeps, builds and polls end; none for requests, exits, opening. `NeverWedged`
is `StartEnds` and `CrashRecovers` (a crashed service does not stay crashed
while the manager is up); `FoundAgain` says that one left running is found.

Durations are not modelled, but for one: the five seconds before a crash restart
outlast start-up's search (`Searching`). Two races are known and left out of
what the properties promise, by the history variables: a stop between a
waiter's last check and its restart is not honoured (`halted = "late"`;
`services.go:515`, where the comment at 529 says that Stop "cancels a pending
crash restart"), and a cancel that comes after a timer has fired lets two
restarts through within the cooldown (`missed`; `controlapi.go:223`). A third is
the finding `OneProcess`: the control API answers before start-up has found the
running process (`app.go:80-81`), so an early start makes a second one; `raced`
says that a start was begun while start-up was `Looking`, and lasts until the
manager is opened again with one process at most. The properties of the run say
that these are the only ways. `StopAll` passes over a service
that waits to restart after a crash (`app.go:233`), which then comes back;
nothing says that it should not. `lastError`, warnings, the TeamSpeak key
watcher and the performance figures are left out.

`ControlProofs` proves all three properties for any number of processes and
goroutines, without a hypothesis on when requests come. The invariant has a part
that always holds (`AtAnyTime`: the types and the timers, `TimerInv`) and one that
holds unless a start has raced (`Orderly`). In that, `OneProcess` needs to know who
may start one: one goroutine at most is between `starting` and its process
(`StarterInv`), one at most answers for the process there is, from attaching to
clearing (`OwnerInv`), and start-up has the service to itself until it has picked
up what runs (`StartupInv`), so that what is alive is supervised, about to be, or
still to be found (`AliveInv`). `RecordInv`, `TailInv` and `DownInv` tie
state.json, the tail and a stop to them. A race ends only by opening the manager
again, which is `Orderly` by itself (`RacedStep`, `OpenedOrderly`).

### Delivery and Mailbox, Careers

`Mailbox` is the abstract promise: a message that was posted is confirmed once
it was heard, or dropped; nothing is said that was not posted, or again once it
is confirmed or dropped. `Delivery` has the two loops: the outbox's worker
(`TakeBatch`, `Send`, `Mark`: backoff, a day's age limit, `Classify` telling what
will never succeed) and the poster of the staff log (`TakePending`, `PostRow`,
`MarkPosted`). A fault is a call whose answer is lost, a mark the database
refuses, or a restart of the process. `MailboxSpec` is the refinement of both;
how often a message is heard before it is marked is left open there, and is the
finding `PostedOnce`.

`Careers` has the applications of the staff (`StaffApplySubmit`,
`ApplicationAction`'s four branches, `SaveInterview`, `StaffApplyWithdraw`), the
staff pages (`StaffAdd`, `StaffSetPlacement`, `StaffSetStatus`, `StaffAddNote`)
and the sweep that ends leave. `AcceptStaff` is split as in the code: the status
it read, the rank's transaction, the team's, its own.

Run `careers`: a head admin, a junior and an outsider, two requests at a time,
two applications, seven scenes; batches of two, one fault, three messages.
`ApplicationsInOrder` is `TypeOK`, one open application each, and "accepted was
hired", the last where the reviewer has a rank to give (finding
`AcceptedWereHired`). `LoopsGetDone` is `LeaveEnds` and `EveryMessageEnds`.
Fairness: `WF` for the sweep and for each step of the loops, which go round as
long as the process runs, and for time (a backoff and a day pass); none for
requests. Restarts and faults are bounded, as a process that always crashes
delivers nothing.

`CareersProofs` proves the others for any people, ranks, permissions, requests,
batches, letters and faults. For the refinement of `Mailbox`: the keys of letters
are distinct, what the worker has in hand is queued and there once, and what it
is about to mark as sent was heard (`Sending`); likewise the poster (`Posting`).
That a batch is the first so many rows in order of their ids (`FirstIds`) is
shown by counting. For the applications: an applicant had no rank when applying,
so that a rank of theirs is one they were hired to (`AppsOK`), and a request that
accepts is about its applicant and has given the rank once past its first
transaction (`RequestOK`). `OneOpenApplication`, the types, `OnlyFromAbove` and
`MailboxSpec` need no hypothesis. "Accepted was hired" assumes
`DecidersHaveRanks`: who holds `applications.decide` is offered a rank to hire
at. `schema.sql:448` gives that permission to level 40, which is above others;
with a permission at the lowest rank it is false, which is the finding
`AcceptedWereHired`.

### Factions

One faction (the police and EMS run the same code): `level`, the ladder `ranks`
with who may command, change levels up to which, and how many slots; probations
with their training sheet; the discipline log `entries`, which is only ever
appended to, and the suspensions, demotions and blacklisting that the ladder
draws from it; postings to divisions; qualifications and their heads;
applications to the faction and to divisions. A change of level is three steps:
what the session may do (`CommandMaySet`), both players locked (`SetLevel`) and
the commit (`CommitLevel`), which runs `AfterLevelChange` inside: probation for
who comes in, an end of probation and postings for who leaves. Entries of
discipline lock their player and draw the conversion and the ladder's consequences before they commit
(`IssueDiscipline`, `Issued`).

Run `factions`: a cabinet member, a sergeant and a recruit, two requests at once,
seventeen scenes. `DisciplineAddsUp` is `TypeOK`, `WarningsCountOnce` and
`LogAddsUp`; `MembershipHolds` is `TraineesAreMembers` and `BlacklistedStayOut`;
`OnlyFromAbove` and `DecisionsStand` are of levels and of applications. `Few`
prunes a fifth entry of discipline and second postings or holders where several
kinds meet. Three ranks give somebody above, between and below; six entries a
conversion after three warnings and its correction.

`FactionsProofs` proves all four, for any number of people, ranks, divisions,
requests and entries. `Sorts` says what the tables hold and what a request at
each place carries; `Asked` sums up every request that only asks, so that each
further invariant deals with those once. `LocksHold`: two requests never hold the
same player, and what `setLevel` checked of the two it holds stays so; from it
`OnlyFromAbove` and the blacklist's half of `MembershipHolds`. `DecisionsOK`: the
request that is to finish an application has admitted its player, and letters say
what rows say. `LogOK` counts the warnings before an entry since the last
conversion, `CorrectionsOK` pairs a correction with its entry. That the points
which count never fall below zero is a statement about a sum over the log; it is
shown for the smallest set, closed under that pairing, where it would fail.

### Casework

Cases with their timeline (`timeline[c]`, entries by kind), participants,
points, bans by id, appeals, flags, and who is banned in Discord. `BanIssue`,
`LockCase`, `InsertBan`, `DiscordBan` are the steps of a ban: the request, the
lock of its case with the count of running bans, the insert, the call after the
commit. The game's `AdminBan` is two steps without a case. An appeal is looked
up and submitted in two statements, and decided in one transaction that is as
if never made where the ban is over (`DecideAppeal`). `Restart` loses the call
to Discord.

Run `casework`: one player, one of the staff with every permission, two cases,
two requests and the game, three scenes. `RecordComplete`: what happened is on
record where the code puts it, once. Points, bans, revocations, lifts, decided
appeals, opening and closing are counted in the timeline (`TimelineComplete`) and
in the staff log (`LogComplete`); participants (`PeopleComplete`), and appeals when
they are handed in, in the timeline alone; a review of a flag in the log alone
(`ReviewsLogged`). A note is the entry itself and there is nothing to count it
against. The package says that every write is in the staff log: the finding
`EveryWriteLogged`. `BansHold` is `OneFromEachCase`,
`AppealsHonoured`, `PunishedWhileOpen` and `DiscordFollows`. Two bans from two
cases are the finding `LiftedIsFree`.

`CaseworkProofs` proves both for any number of players, staff, cases, awards,
bans, appeals and requests. `Records` counts timeline and log against the tables
row by row; with a finite set of players the participants of a case are counted
as they join (`Taking`), and the reviews as flags change hands. `BansHold` follows from `LockHolds` (a request between the lock of
its case and its insert has the case to itself, found it open and without a ban
of the player), with `OneBan`, `OneAppeal`, `AppealsHonoured` and `Tells` (what
Discord is told comes of a ban there is, or of one that was lifted).

### RoleSync and Access

`sync[g]` is a goroutine of the engine: the listener, the full pass, and those
that events start. A sync reads the mappings, the entitlements and the member's
roles, and makes its calls one at a time (`Mappings`, `Identities`,
`CurrentGroups`, `AddGroup`, `RemoveGroup`); a strip takes from the old account
before it is unlinked. Faults: a failing read or call, the listener losing its
connection and what it was notified of, a restart. `ByHand` is a moderator in
Discord, and `MemberLeaves` a guild's member.

`Access` adds sessions by browser, sign-in by Steam or by a linked account, the
two checks of a request to the panel, link codes, and the pages on which the
ranks of the staff are edited, moved, created and deleted, each with the
statement under the lock apart from what was read of the actor before.

Run `access`: three players, two accounts, two browsers, four ranks, fifteen
scenes, each with one of: a fault, a change by hand, changes of staff.
`RolesKept` is `RoleSyncTypeOK`, `RolesFollow` (when changes come to rest, the
roles come to be right and stay so) and `HandGivenStay`; `AccessHolds` is
`RanksStand`, `StaffKeepRanks` and `AdmittedOnlyStaff`. Fairness (`Run`): `WF`
for each goroutine's next step, for the listener and its reconnection and for
the quarter-hourly pass, which the process starts as long as it runs; changes,
faults and hands are bounded, as `RolesFollow` is about what happens when they
cease.

`ControlProofs` proves all of it but `RolesFollow`, for any players, accounts,
goroutines, browsers, mappings and ranks, as long as the data begin with a rank at
the highest level and none above it ("`TopLevel` is the highest staff level",
`roles.go:82`) and every rank of a player is there. `HandGivenStay` follows from
`SyncInv`: whatever a goroutine has read and whatever it waits to call is of
mappings some form had. For the ranks, `RankInv` says of every request what it has
found and may rely on (`Right`): while it holds a rank's lock the rank is there, its
level is below the actor's, or the top one, as when it was read, and after members
were counted nobody has been given the rank, since `SetRank` waits for the lock; no
two requests hold one rank (`Apart`). That the last rank of the top level stays is
not about locks: such a rank is never given another level, but it may be deleted by
an actor who was at the top when their level was read, which may be long ago, and
two may delete two of them at once, each counting the other's. So `RankInv` has
`OnTop \/ \A b \in Browsers : Low(requests[b])`: either somebody is at the top now, and
their rank, which has a member, cannot be deleted; or no edit is under way by
anybody who was. Nobody leaves the top by themselves: whoever takes a rank of the
top level from somebody has one, and keeps it.

### The office: Notices, Tickets, Rulebook, Drive, Board, Gangs, Steam, Monitor, Bulletin

Small modules of pages where several people write to the same rows, and of what
the website and the bot do beside them; `Office` offers one of them in a scene,
with the notices they send. `OfficeProofs` proves what each page keeps, and
`OfficeInv` puts it together: a page's variables are written by the page alone.

- `Tickets`: an answer is written, the assignee read and told in three
  statements, while others assign the ticket anew, close and reopen it.
  `EveryAnswerTold`: the owner, or somebody who held the ticket meanwhile, is
  told of every public answer. Proved with `TellingInv`: an answer not told yet
  has one request that will, if any; it counts everybody who holds the ticket
  until then, and once it has read whom to tell, that stays right.
- `Rulebook`: a text is a sequence of lines as the parser takes them
  (`ParseDoc`), the section editor's form is written out (`FormatDoc`) and parsed
  again, and a save compares with the live version under a lock of the table.
  `HighlightsTrue`, `NothingLost`. The highlights are told by number, so the
  proof needs that no number stands twice in what the parser makes of a text
  (`NumbersOnce`), which is shown line by line of any text (`LineRead`,
  `TextRead`): each rule takes its number from those not seen yet; and, with
  `RulesInv`, that the version a save compared with is still the last one.
  For `NothingLost` the proof follows the parser along what the form wrote, piece by
  piece: `Takes(x, lines, y)` says that the lines take it from the place `x` of a
  document to `y`, and points, rules, subsections and sections are such steps, put
  together in the order of the form (`FormRead`, `NothingIsLost`); with `FormsInv`,
  that every save and version made in the editor carries the form it was written
  from. Assumed of a form is its shape only (`IsForm`). A line is its kind and
  its words: what is shown is the structure of the round trip, not that its
  characters are read right; a text that itself begins with a mark (an introduction with `#` in
  front), which `ParseDoc` would take for one, is outside the model.
- `Drive`: what somebody may see and edit is worked out before the transaction;
  a save keeps the text of before, per item. `VersionsComplete`: the versions and
  the text are all texts the document ever had, in order. Proved with `Savers`:
  one save holds the row of a document, and what it read is what it still says.
- `Board`: a card's place is a double; here a whole number of the finest steps a
  double can tell apart, `2^Precision` to each unit, so that a gap can be exactly
  halved `Precision` times and no oftener (`MaxMoves`). `LandsBefore`: a card
  dropped on another lands directly before it (`Above`: by number, then by id),
  whoever else moves or adds cards, unless that one shares its number with a third
  (finding `JustBefore`). Proved with `GridInv`: after so many moves every
  number is a multiple of so small a step that the next gap can be halved; and
  with `LockInv` and `RightPlace`: between reading a place and writing it nobody
  else writes a number.
- `Gangs`: an insert or update of a member's row waits for another transaction's
  on that row, and does not see what is not committed. An entry of the log has its
  id when it is inserted, and one that is rolled back leaves its id empty.
  `GangLogReplays`, proved with `EntriesInv`: a player's row is held by one
  transaction, an entry that is not committed is the last one of its player, so
  that to commit it is to append to what a reader sees, whatever ids lie
  between.
- `Steam`: the count known is read, the new one written, the flag inserted in
  three statements, while another refresh may go on with an older answer.
  `UntoldOnlyIfLost`: the count kept of a player is not above all that was there at
  first and was or is about to be told, unless the flag that was to tell it was lost
  (its insert failed, or the website stopped before it), which the code does not
  make up for; a rise to no more than was told before is the finding
  `EveryIncreaseFlagged`. Proved with `SteamInv`: the count a refresh read is covered
  by a flag, made or about to be, too; so a refresh that finds no rise writes a
  count that is covered.
- `Monitor`: one check per component and interval, recorded while website and
  database are up; time in ticks of half an interval. `OutagesCount`: missing
  minutes of the website's own check are shown as down, but one interval for
  each start and each midnight (finding `MissingMinutesCount`). Proved with
  `OutageInv`, which counts the checks that share an interval with an earlier one:
  no more than the starts, for within one run of the website they lie an interval
  apart. So the intervals with nothing in them are bounded by those that passed,
  the checks and the starts (`GapsBound`); and what the page adds up day by day
  is at least those that passed less the checks, less one a day (`NotUpBound`).
- `Bulletin`: the bot, a process of its own a tick behind the website, edits one
  message in place and posts changes; an administrator posts the welcome
  message. `PostsAreTrue`: a post says what the latest check said, and an earlier
  one said otherwise. Proved with `PassInv`: the states a pass goes by are those
  of when it read the checks, and the states before, of no later. The instance
  monitors the game and the website: the bot's own component cannot be announced
  by a bot that is down.

Run `office`: two requests at a time, eleven scenes. Four notices, one ticket
with two messages, three versions of the rules from five forms, one folder and
one item with two saves, three cards with three moves, four deeds of two gangs'
leaders (one of whom shares his name with another player), two bans and four refreshes of a
player, nine ticks with two troubles. Each bound is one more than the case the
property is about needs: a third version to be compared with a second one saved
meanwhile, a third card to be moved between two, a third refresh beside two that
overlap. No fairness is stated: its properties are of safety, and what becomes
of a message is `Delivery`'s.

## What the runs check

| Run | Module | Properties |
|---|---|---|
| `bank` | `MCBankDb` | `BalancesAgree`, `NeverNegative`, `FundsCheckHolds`, `LedgerSpec` (refinement), `EveryTransactionEnds` (liveness) |
| `items_handlers` | `MCItems` | `ListsAgree`, `PocketAgrees` |
| `items_sessions` | `MCItems` | `HandlersBalance`, `StoresHold` |
| `garage` | `MCGarage` | `OneObject`, `EveryPaymentServed`, `DestroyedStays` |
| `player_life` | `MCPlayerLife` | `OneLife`, `TermsKept` |
| `supervisor_safety` | `MCSupervisor` | `NeverTwice`, `InStep`, `StartsAllowed` |
| `supervisor_live` | `MCSupervisor` | `NeverWedged`, `FoundAgain` (liveness) |
| `careers` | `MCCareers` | `ApplicationsInOrder`, `OnlyFromAbove`, `MailboxSpec` (refinement), `LoopsGetDone` (liveness) |
| `factions` | `MCFactions` | `DisciplineAddsUp`, `DecisionsStand`, `OnlyFromAbove`, `MembershipHolds` |
| `casework` | `MCCasework` | `RecordComplete`, `BansHold` |
| `access` | `MCAccess` | `RolesKept` (with liveness), `AccessHolds` |
| `office` | `MCOffice` | `EveryAnswerTold`, `HighlightsTrue`, `NothingLost`, `VersionsComplete`, `GangLogReplays`, `UntoldOnlyIfLost`, `OutagesCount`, `PostsAreTrue`, `LandsBefore` |

A property that is a conjunction has its parts defined beside it, each with what
it says; a run that names the whole checks each part. `CHECK_DEADLOCK FALSE`
stands where a bounded number of requests is made and then the system rests, or
where, as in the manager, nothing need happen once every goroutine waits; in
`player_life` and `office` something can always go on.
Symmetry is over requests, scripts and other names nothing is said of, and only
in runs without liveness.

Some properties leave out, by a history variable, who met one of the disagreements
below or lost an answer: `ListsAgree` and `PocketAgrees` players whose changes
overlapped or who were not told (`doubtful`), `OneObject` vehicles handled while
being bought, `TermsKept` players a late save overtook. What goes wrong there they
do not show; the `hazards` in `PROJECT.json` say which.

Not everything a bound cuts off is proved not to matter: the instances are
chosen so that two of everything that can meet do meet, once with a fault.

## Where the code and its text disagree

Each of these is a definition in the module it belongs to, which TLC finds
violated, or would in an instance that offers the case; `PROJECT.json`
(`findings`) quotes the line that says otherwise. They are not properties of a
run; where one that is checked speaks of the same state, it leaves the case out
by name: `NeverTwice` is `OneProcess` up to a start that raced. One is checked
where the case cannot come up: `AcceptedWereHired` with a reviewer who has ranks
to give.

| Definition | Module | What the model shows |
|---|---|---|
| `TransfersNeverDeadlock` | `BankDb` | opposite transfers between players with two accounts each deadlock in the cache trigger, and one is aborted |
| `EverybodyBanks` | `Access` | a player made by the game may stay without bank accounts |
| `NothingDuplicated` | `Items` | a container move between a gift's read and its save duplicates the item |
| `OnlineConnected` | `PlayerLife` | who leaves while the record loads stays online |
| `OneProcess` | `Supervisor` | a start before start-up has looked makes a second process |
| `ToldTheDecision`, `AcceptedWereHired` | `Careers` | an accepted applicant is told "not accepted", or accepted at no rank |
| `PostedOnce` | `Delivery` | a row of the staff log is posted twice |
| `ConfirmingPromotes`, `PostedAreMembers`, `OneSpecialistDivision`, `HeadsHold` | `Factions` | promotions, postings and heads decided on what was true before |
| `EveryWriteLogged` | `Casework` | notes, participants and appeals handed in have no row in the staff log |
| `LiftedIsFree` | `Casework` | two running bans from two cases; lifting one does not let the player in |
| `OneForm`, `RolesLeaveWithLink` | `RoleSync`, `Access` | two saved forms mix; roles stay on an account that was exchanged for another |
| `TopKeepsRoles`, `LevelsDiffer` | `Access` | the top rank loses `roles.manage`; two ranks at one level |
| `AssigneesHelp` | `Tickets` | a ticket assigned to somebody suspended |
| `NoticeNamesChanges` | `Rulebook` | a notice names another save's changes |
| `FoldersRemovedEmpty`, `MembersReadAsMembers` | `Drive` | something inside an archived folder; a command's file on the members' page |
| `JustBefore`, `LinkedOnce` | `Board` | two cards at one place; one link twice |
| `EveryIncreaseFlagged`, `FlaggedOnce` | `Steam` | a ban not flagged, or flagged twice |
| `MissingMinutesCount` | `Monitor` | a day with restarts hides missing minutes |
| `NeverReposted`, `ChangesTold` | `Bulletin` | a live message twice; a change never posted |

## What is proved and what is only checked

Each theorem holds for every value of the constants that satisfies the `ASSUME`s
of its modules (finite sets of players, distinct names, amounts above zero, ranks
and permissions of the right kind), which every run evaluates, and the hypothesis
in the last column.

| Theorem | States | Hypothesis |
|---|---|---|
| `GameDatabaseProofs!Invariance` | `[]Inductive` of `BankDb` | |
| `GameDatabaseProofs!TypeCorrect`, `HealthCheck`, `NoOverdraft`, `FundsCheck` | `[]` of `TypeOK`, `BalancesAgree`, `NeverNegative`, `FundsCheckHolds` | |
| `GameDatabaseProofs!Refinement` | `LedgerSpec`: every committed transaction is one step of the ledger, every other step a stutter | |
| `GameDatabaseProofs!GarageInvariance` | `[]GarageInductive` | |
| `GameDatabaseProofs!GarageTypeCorrect`, `OneObjectHolds` | `[]GarageTypeOK`, `[]OneObject` | |
| `GameDatabaseProofs!PaymentsServed` | `[]EveryPaymentServed`, by counting the buyers between charge and record | |
| `GameDatabaseProofs!DestroyedUntilRestored` | `DestroyedStays`, from `GarageInductive` and "a handler never begins with a destroyed vehicle" | |
| `ItemsProofs!TypeCorrect` | `[]TypeOK` | |
| `ItemsProofs!ListsStayInStep`, `PocketsAgree` | `[]ListsAgree`, `[]PocketAgrees` | |
| `ItemsProofs!HandlersAlwaysBalance` | `[]HandlersBalance` | |
| `ItemsProofs!TrunksStaySaved` | `[]TrunksSaved` | |
| `ItemsProofs!StoresKept` | `[]StoresHold` | `NoMakers`: no handler offered buys, gathers or gives |
| `PlayerLifeProofs!LivedOnce`, `ServedOnce` | `[]OneLife`, `[]TermsKept` | |
| `ControlProofs!TypeCorrect`, `SpacedRestarts` | `[]TypeOK`, `RestartsSpaced` | |
| `ControlProofs!OneUnlessRaced`, `AlwaysInStep`, `OnlyAllowedStarts` | `[]NeverTwice`, `[]InStep`, `StartsAllowed` | |
| `ControlProofs!AccessInvariance` | `[](SyncInv /\ RankInv)` of `Access` | |
| `ControlProofs!RolesTyped`, `HandGivenUntouched` | `[]RoleSyncTypeOK`, `HandGivenStay` | |
| `ControlProofs!StaffStayAndGetIn` | `AccessHolds`: `[]RanksStand`, `StaffKeepRanks`, `AdmittedOnlyStaff` | |
| `CareersProofs!TypeCorrect`, `OneApplication` | `[]TypeOK`, `[]OneOpenApplication` | |
| `CareersProofs!AcceptedInOrder` | `[]ApplicationsInOrder` | `DecidersHaveRanks`: who decides has a rank to give |
| `CareersProofs!ChangedFromAboveOnly` | `OnlyFromAbove` | |
| `CareersProofs!Mailboxes` | `MailboxSpec`: outbox and poster implement `Mailbox` | |
| `FactionsProofs!TypeCorrect` | `[]TypeOK` | |
| `FactionsProofs!ChangedFromAbove`, `BlacklistKeepsOut`, `MembershipKept` | `OnlyFromAbove`, `BlacklistedStayOut`, `MembershipHolds` | |
| `FactionsProofs!DecisionsKept`, `DisciplineKept` | `[]DecisionsStand`, `[]DisciplineAddsUp` | |
| `CaseworkProofs!EverythingRecorded`, `BansAlwaysHold` | `[]RecordComplete`, `BansHold` | |
| `OfficeProofs!OfficeInvariance` | `[]OfficeInv`, of eight pages | |
| `OfficeProofs!AnswersAreTold`, `DocumentsComplete`, `GangLogsReplay`, `OnlyLostFlagsUntold` | `[]` of `EveryAnswerTold`, `VersionsComplete`, `GangLogReplays`, `UntoldOnlyIfLost` | |
| `OfficeProofs!HighlightsAreTrue` | `[]HighlightsTrue`, for any texts | |
| `OfficeProofs!NothingTypedLost` | `[]NothingLost`, for any forms of the section editor | |
| `OfficeProofs!BotPostsTrue` | `[]PostsAreTrue` | |
| `OfficeProofs!OutagesAreCounted` | `[]OutagesCount`, for any length of a day, of an interval and of time | |
| `OfficeProofs!CardsLandThere` | `LandsBefore`, while no gap is halved oftener than a double allows (`MaxMoves <= Precision`) | |

In each the invariant a run checks is not inductive as it stands; the
strengthening is described with its component above, and was checked by TLC on
the component's instance first. An action property follows from the inductive
invariant in the state before the step. Sums and counts over sets of any size
appear in three components, and recursive functions over sequences of any length
in four pages (the parser's text line by line and the form it was written from, a
gang's log entry by entry, the powers of two of the board, the days of the status
page); as the prover has no induction over data, what is said of them is shown for a smallest set or a shortest prefix where it would fail,
from the fact that the natural numbers are well-founded.

Only checked by TLC: liveness, which depends on ENABLED and is out of the prover's
reach (`EveryTransactionEnds`, `NeverWedged`, `FoundAgain`, `LoopsGetDone`,
`RolesFollow`). Every safety property of a passing run is stated by a theorem.

## Not modelled

`PROJECT.json` lists each with its reason. In short: market prices, lockers,
placed objects, clothing, weapon and licence shops, the phone, the wanted list
and the staff's tools of the game are single-actor or copies of what `Items` and
`BankDb` have; the client's scripts are trusted with nothing, so every request is
modelled as arriving in any order at any time; the extension's dispatch, the
database's log and notification triggers, the website's pages, look-ups,
dashboards and bot commands read, render and call what is modelled; the server
manager's deployment, settings and user interface are used by one operator at a
time. Not modelled inside a component: texts, formats and lengths of time, where
no property tells them apart; TeamSpeak, whose engine does not exist yet; the
support panel's sign-in, which is the admin panel's. Of lengths of time the
order is kept: a backoff, a day, a cooldown, a quarter of an hour may end at any
moment after they began.
