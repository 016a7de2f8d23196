-------------------------------- MODULE Items --------------------------------
(***************************************************************************)
(* What players carry: virtual items and cash in hand, in three places     *)
(* that the mission keeps in step by hand -- the record loaded when the    *)
(* player joined (ALife_sessions), the players row in the database, and    *)
(* the containers of the world (dropped bags, vehicle trunks).             *)
(*                                                                         *)
(* A handler started by remoteExec, or a job it spawns, is a script: the   *)
(* scheduler may suspend it between any two statements and run others.     *)
(* A handler run by remoteExecCall is atomic.  An item list is saved whole *)
(* (read the list, save it, then change the record); cash is saved as a    *)
(* signed change.                                                          *)
(*                                                                         *)
(* Weights and prices are 1.  A purchase paid from the bank is one whose   *)
(* payment BankDb models.                                                  *)
(***************************************************************************)
EXTENDS Integers, FiniteSets, FiniteSetsExt

CONSTANTS
    Players, Classes,
    Product,      \* Product[c]: what a processor makes of c
    Bags,         \* ids of dropped bags
    Trunks,       \* owned vehicles standing in the world
    Scripts,      \* scripts that may run at the same time
    Handlers,     \* scripted handlers and atomic ones used in this instance
    Carry,        \* CfgALife carryWeight
    Capacity,     \* what a trunk holds
    Quantities,   \* quantities and amounts a request may ask for
    InitItems, InitCash,
    Faults,       \* what may go wrong: {"refused", "replyLost", "commitLost", "leave", "crash"}
    MaxFaults,    \* bound on how often
    MaxRequests   \* bound on requests

Scripted == {"give", "discard", "use", "buy", "buyByBank", "sell", "giveCash",
             "gather", "process", "processFree"}
Unscheduled == {"take", "store", "strip", "adminGive", "adminCash", "useAtOnce"}

ASSUME ItemsAssumption ==
    /\ Players # {} /\ Classes # {}
    /\ \A S \in {Players, Classes, Bags, Trunks, Scripts} : IsFiniteSet(S)
    /\ Product \in [Classes -> Classes]
    /\ Bags \cap Trunks = {}
    /\ Handlers \subseteq Scripted \cup Unscheduled
    /\ Faults \subseteq {"refused", "replyLost", "commitLost", "leave", "crash"}
    /\ Carry \in Nat /\ Capacity \in Nat /\ Quantities \subseteq Nat \ {0}
    /\ InitItems \in Nat /\ InitCash \in Nat /\ MaxFaults \in Nat /\ MaxRequests \in Nat

VARIABLES
    online,     \* players with a record
    login,      \* how often each player has joined: which record is current
    record,     \* [Players -> [Classes -> Nat]]  the record's <faction>_items
    purse,      \* [Players -> Int]               the record's <faction>_cash
    saved,      \* players.<faction>_items
    pocket,     \* players.<faction>_cash
    stock,      \* the items in each container
    boxCash,    \* the cash in each container
    open,       \* the bags on the ground
    trunkSaved, \* vehicles.inventory, by vehicle
    scripts,    \* each script's job and where it is
    busy,       \* ALife_busy: gathering or processing
    requests, faults,
    \* What the handlers were told, and whom that may not be true of:
    told,       \* [Players -> [Classes -> Int]]  the sum of the changes answered OK
    toldCash,   \* [Players -> Int]
    issued,     \* [Classes -> Int]  made or bought, less used up and sold
    issuedCash,
    doubtful    \* players with overlapping changes or a misleading answer, unsaved trunks

db == <<saved, pocket, trunkSaved>>
world == <<stock, boxCash, open>>
ghosts == <<told, toldCash, issued, issuedCash, doubtful>>
vars == <<online, login, record, purse, db, world, scripts, busy, requests, faults, ghosts>>

-------------------------------------------------------------------------------

Containers == Bags \cup Trunks
Nothing == [c \in Classes |-> 0]
SumOf(f) == MapThenSumSet(LAMBDA x : f[x], DOMAIN f)
Weight(items) == SumOf(items)
Least(a, b) == IF a <= b THEN a ELSE b
Greatest(a, b) == IF a <= b THEN b ELSE a
Room(items, limit) == IF Weight(items) < limit THEN limit - Weight(items) ELSE 0
Plus(items, c, n) == [items EXCEPT ![c] = items[c] + n]

NoRequest == [kind |-> "none", who |-> CHOOSE p \in Players : TRUE, other |-> CHOOSE p \in Players : TRUE,
              class |-> CHOOSE c \in Classes : TRUE, n |-> 0, seen |-> [p \in Players |-> 0]]

\* A script: its request, the leg it is on and how far, and the list it has read.
At(request, leg, stage, list, gen) ==
    [ask |-> request, leg |-> leg, stage |-> stage, list |-> list, gen |-> gen]

Idle == At(NoRequest, "done", "none", Nothing, 0)

Init ==
    /\ online = Players
    /\ login = [p \in Players |-> 0]
    /\ record = [p \in Players |-> [c \in Classes |-> InitItems]]
    /\ purse = [p \in Players |-> InitCash]
    /\ saved = record /\ pocket = purse /\ told = record /\ toldCash = purse
    /\ stock = [k \in Containers |-> Nothing]
    /\ boxCash = [k \in Containers |-> 0]
    /\ open = {}
    /\ trunkSaved = [t \in Trunks |-> [items |-> Nothing, cash |-> 0]]
    /\ scripts = [s \in Scripts |-> Idle]
    /\ busy = {}
    /\ requests = 0 /\ faults = 0
    /\ issued = [c \in Classes |-> InitItems * Cardinality(Players)]
    /\ issuedCash = InitCash * Cardinality(Players)
    /\ doubtful = {}

\* The database's answers to the saves of one step, each "OK" or a fault.
Bad(answer) == IF answer = "OK" THEN 0 ELSE 1

Answered(a, b, c) ==
    /\ {a, b, c} \subseteq Faults \cup {"OK"}
    /\ faults + Bad(a) + Bad(b) + Bad(c) <= MaxFaults
    /\ faults' = faults + Bad(a) + Bad(b) + Bad(c)

-------------------------------------------------------------------------------
(* The legs of a handler: item changes ("out", "in", "back", "goods") and   *)
(* cash changes.  Which follows which, and what follows a refusal, is all   *)
(* that tells the handlers apart.                                           *)

ItemLegs == {"out", "in", "back", "goods"}
CashLegs == {"charge", "pay", "cashOut", "cashIn", "cashBack"}

FirstLeg(kind) ==
    IF kind \in {"gather", "process", "processFree"} THEN "wait"
    ELSE IF kind = "buy" THEN "charge"
    ELSE IF kind = "buyByBank" THEN "goods"
    ELSE IF kind = "giveCash" THEN "cashOut"
    ELSE "out"

AfterWait(kind) ==
    IF kind = "gather" THEN "goods" ELSE IF kind = "process" THEN "charge" ELSE "out"

\* Mutant of OnOk: once it has been paid for, processing gives the outputs and
\* does not take the inputs.
OnOkOutputsOnly(j) ==
    IF j.leg = "out" /\ j.ask.kind = "give" THEN "in"
    ELSE IF j.leg = "out" /\ j.ask.kind = "sell" THEN "pay"
    ELSE IF j.leg = "charge" \/ (j.leg = "out" /\ j.ask.kind = "processFree") THEN "goods"
    ELSE IF j.leg = "cashOut" THEN "cashIn"
    ELSE "done"

OnOk(j) ==
    IF j.leg = "out" /\ j.ask.kind = "give" THEN "in"
    ELSE IF j.leg = "out" /\ j.ask.kind = "sell" THEN "pay"
    ELSE IF j.leg = "out" /\ j.ask.kind \in {"process", "processFree"} THEN "goods"
    ELSE IF j.leg = "charge" THEN IF j.ask.kind = "process" THEN "out" ELSE "goods"
    ELSE IF j.leg = "cashOut" THEN "cashIn"
    ELSE "done"

\* Mutant of OnRefusal: a gift goes on although the giver has nothing.
OnRefusalGoOn(j) ==
    IF j.leg \in {"in", "pay"} THEN "back"
    ELSE IF j.leg = "cashIn" THEN "cashBack"
    ELSE IF j.leg = "out" /\ j.ask.kind = "give" THEN "in"
    ELSE "done"

OnRefusal(j) ==
    IF j.leg \in {"in", "pay"} THEN "back"
    ELSE IF j.leg = "cashIn" THEN "cashBack"
    ELSE "done"

Whose(j) == IF j.leg \in {"in", "cashIn"} THEN j.ask.other ELSE j.ask.who
What(j) == IF j.leg = "goods" /\ j.ask.kind \in {"process", "processFree"} THEN Product[j.ask.class] ELSE j.ask.class
Delta(j) == IF j.leg \in {"out", "charge", "cashOut"} THEN -j.ask.n ELSE j.ask.n

Stage(leg) == IF leg \in ItemLegs THEN "read" ELSE IF leg \in CashLegs THEN "save" ELSE leg

Goto(s, j, leg) ==
    scripts' = [scripts EXCEPT ![s] = IF leg = "done" THEN Idle ELSE At(j.ask, leg, Stage(leg), Nothing, 0)]

\* The scripts between reading p's list and writing it back.
Changing(p) ==
    {s \in Scripts : /\ scripts[s].leg \in ItemLegs /\ Whose(scripts[s]) = p
                     /\ scripts[s].stage \in {"save", "set"}}

Overlapped(P) == {p \in P : Changing(p) # {}}

-------------------------------------------------------------------------------
(* Requests that become scripts.                                            *)

Start(s, kind, p, q, c, n) ==
    /\ scripts[s].stage = "none"
    /\ requests < MaxRequests
    /\ kind \in Handlers
    /\ p \in online
    /\ requests' = requests + 1
    /\ scripts' = [scripts EXCEPT ![s] =
          At([kind |-> kind, who |-> p, other |-> q, class |-> c, n |-> n, seen |-> login],
             FirstLeg(kind), Stage(FirstLeg(kind)), Nothing, 0)]
    /\ UNCHANGED <<online, login, record, purse, db, world, faults, ghosts>>

GiveItem(s) ==
    \E p, q \in Players, c \in Classes, n \in Quantities :
        /\ p # q /\ q \in online
        /\ Start(s, "give", p, q, c, n)
        /\ UNCHANGED busy

GiveCash(s) ==
    \E p, q \in Players, c \in Classes, n \in Quantities :
        /\ p # q /\ q \in online
        /\ purse[p] >= n
        /\ Start(s, "giveCash", p, q, c, n)
        /\ UNCHANGED busy

\* Discarding, using an item up, buying, selling.
Ask(s) ==
    \E kind \in {"discard", "use", "buy", "buyByBank", "sell"}, p \in Players, c \in Classes, n \in Quantities :
        Start(s, kind, p, p, c, n) /\ UNCHANGED busy

\* The amount gathered is random; a processor takes everything they carry.
Gather(s) ==
    \E p \in Players, c \in Classes, n \in Quantities :
        /\ p \notin busy
        /\ Room(record[p], Carry) >= 1
        /\ Start(s, "gather", p, p, c, n)
        /\ busy' = busy \cup {p}

Process(s) ==
    \E kind \in {"process", "processFree"}, p \in Players, c \in Classes :
        /\ p \notin busy
        /\ record[p][c] >= 1
        /\ kind = "process" => purse[p] >= record[p][c]
        /\ Start(s, kind, p, p, c, record[p][c])
        /\ busy' = busy \cup {p}

\* The time is up: still there, and as much as fits or is still carried.
WaitOver(s) ==
    LET j == scripts[s]
        r == j.ask
        most == IF r.kind = "gather" THEN Room(record[r.who], Carry) ELSE record[r.who][r.class]
    IN  /\ j.stage = "wait"
        /\ busy' = busy \ {r.who}
        /\ \/ \E n \in 1..r.n :
                 /\ n = Least(r.n, most)
                 /\ r.who \in online /\ r.seen[r.who] = login[r.who]
                 /\ Goto(s, At([kind |-> r.kind, who |-> r.who, other |-> r.other, class |-> r.class,
                                n |-> n, seen |-> r.seen], "wait", "wait", Nothing, 0), AfterWait(r.kind))
           \/ Goto(s, j, "done")
        /\ UNCHANGED <<online, login, record, purse, db, world, requests, faults, ghosts>>

-------------------------------------------------------------------------------
(* itemsChange.                                                             *)

ReadList(s) ==
    LET j == scripts[s]
        p == Whose(j)
        left == record[p][What(j)] + Delta(j)
    IN  /\ j.stage = "read"
        /\ IF p \in online /\ left >= 0
           THEN /\ scripts' = [scripts EXCEPT ![s] =
                      At(j.ask, j.leg, "save", Plus(record[p], What(j), Delta(j)), login[p])]
                /\ doubtful' = doubtful \cup Overlapped({p})
           ELSE Goto(s, j, OnRefusal(j)) /\ UNCHANGED doubtful
        /\ UNCHANGED <<online, login, record, purse, db, world, busy, requests, faults,
                       told, toldCash, issued, issuedCash>>

\* What an acknowledged leg makes or uses up.
Issue(j) ==
    IF j.leg = "goods" THEN Plus(issued, What(j), j.ask.n)
    ELSE IF j.leg = "pay" \/ (j.leg = "out" /\ j.ask.kind \notin {"give", "sell"})
         THEN Plus(issued, j.ask.class, -j.ask.n)
    ELSE issued

\* The whole list is saved.  A connection lost after the UPDATE ran is
\* answered like a refusal.
SaveList(s) ==
    LET j == scripts[s]
        p == Whose(j)
    IN  /\ j.leg \in ItemLegs /\ j.stage = "save"
        /\ \E answer \in {"OK", "refused", "replyLost"} :
              /\ Answered(answer, "OK", "OK")
              /\ saved' = IF answer = "refused" THEN saved ELSE [saved EXCEPT ![p] = j.list]
              /\ doubtful' = doubtful \cup (IF answer = "replyLost" THEN {p} ELSE {})
              /\ IF answer = "OK"
                 THEN /\ scripts' = [scripts EXCEPT ![s] = At(j.ask, j.leg, "set", j.list, j.gen)]
                      /\ told' = [told EXCEPT ![p] = Plus(told[p], What(j), Delta(j))]
                      /\ issued' = Issue(j)
                 ELSE Goto(s, j, OnRefusal(j)) /\ UNCHANGED <<told, issued>>
        /\ UNCHANGED <<online, login, record, purse, pocket, trunkSaved, world, busy, requests,
                       toldCash, issuedCash>>

\* The record the list was read from; a player who has rejoined has another.
SetRecord(s) ==
    LET j == scripts[s]
        p == Whose(j)
    IN  /\ j.leg \in ItemLegs /\ j.stage = "set"
        /\ record' = IF j.gen = login[p] THEN [record EXCEPT ![p] = j.list] ELSE record
        /\ Goto(s, j, OnOk(j))
        /\ UNCHANGED <<online, login, purse, db, world, busy, requests, faults, ghosts>>

-------------------------------------------------------------------------------
(* Cash legs: a signed change, refused below zero, then the record.         *)

IssueCash(j) ==
    IF j.leg = "charge" THEN issuedCash - j.ask.n ELSE IF j.leg = "pay" THEN issuedCash + j.ask.n ELSE issuedCash

\* SaveCashDelta answers OK even when its COMMIT failed; giveItem ignores the
\* answer to its refund.
SaveCash(s) ==
    LET j == scripts[s]
        p == Whose(j)
    IN  /\ j.leg \in CashLegs /\ j.stage = "save"
        /\ \E answer \in {"OK", "refused", "commitLost"} :
              LET short == pocket[p] + Delta(j) < 0
                  applied == answer = "OK" /\ ~short
                  accepted == applied \/ (answer = "commitLost" /\ ~short) \/ j.leg = "cashBack"
              IN  /\ Answered(answer, "OK", "OK")
                  /\ pocket' = IF applied THEN [pocket EXCEPT ![p] = pocket[p] + Delta(j)] ELSE pocket
                  /\ doubtful' = doubtful \cup (IF accepted /\ (~applied \/ j.ask.seen[p] # login[p]) THEN {p} ELSE {})
                  /\ IF accepted
                     THEN /\ scripts' = [scripts EXCEPT ![s] = At(j.ask, j.leg, "book", Nothing, 0)]
                          /\ toldCash' = [toldCash EXCEPT ![p] = toldCash[p] + Delta(j)]
                          /\ issuedCash' = IssueCash(j)
                          /\ issued' = Issue(j)
                     ELSE Goto(s, j, OnRefusal(j)) /\ UNCHANGED <<toldCash, issuedCash, issued>>
        /\ UNCHANGED <<online, login, record, purse, saved, trunkSaved, world, busy, requests, told>>

\* The record the handler looked up when it started.
Book(s) ==
    LET j == scripts[s]
        p == Whose(j)
    IN  /\ j.stage = "book"
        /\ purse' = IF j.ask.seen[p] = login[p] THEN [purse EXCEPT ![p] = purse[p] + Delta(j)] ELSE purse
        /\ Goto(s, j, OnOk(j))
        /\ UNCHANGED <<online, login, record, db, world, busy, requests, faults, ghosts>>

-------------------------------------------------------------------------------
(* Atomic handlers (remoteExecCall).                                        *)

Asked(handler) ==
    /\ handler \in Handlers
    /\ requests < MaxRequests
    /\ requests' = requests + 1

\* Mutant of ChangeList: the record is changed before the save is known to be done.
ChangeListFirst(p, c, d, answer) ==
    /\ saved' = IF answer = "refused" \/ d = 0 THEN saved ELSE [saved EXCEPT ![p] = Plus(record[p], c, d)]
    /\ record' = [record EXCEPT ![p] = Plus(record[p], c, d)]
    /\ told' = IF answer = "OK" THEN [told EXCEPT ![p] = Plus(told[p], c, d)] ELSE told

\* itemsChange within an atomic handler: p's list changed by d, and whether the
\* database has it and the handler was told so.
ChangeList(p, c, d, answer) ==
    /\ saved' = IF answer = "refused" \/ d = 0 THEN saved ELSE [saved EXCEPT ![p] = Plus(record[p], c, d)]
    /\ record' = IF answer = "OK" THEN [record EXCEPT ![p] = Plus(record[p], c, d)] ELSE record
    /\ told' = IF answer = "OK" THEN [told EXCEPT ![p] = Plus(told[p], c, d)] ELSE told

MisledBy(p, answer) == IF answer = "replyLost" THEN {p} ELSE {}

\* Storing into a bag's id lays that bag on the ground.
Laid(k) == open \cup ({k} \ Trunks)

TrunkRow(k) == [items |-> stock'[k], cash |-> boxCash'[k]]

\* A bag with nothing in it goes away.
Tidied(bags) == {b \in bags : stock'[b] # Nothing \/ boxCash'[b] > 0}

\* d dollars out of a container and to p; below zero, the other way.
PayFrom(k, p, d, answer) ==
    /\ boxCash' = [boxCash EXCEPT ![k] = boxCash[k] - d]
    /\ pocket' = IF answer = "OK" THEN [pocket EXCEPT ![p] = pocket[p] + d] ELSE pocket
    /\ purse' = [purse EXCEPT ![p] = purse[p] + d]
    /\ toldCash' = [toldCash EXCEPT ![p] = toldCash[p] + d]

\* d items and some dollars out of k and to p (below zero: into it), saved with
\* the given answers.  A trunk is saved after a move; the answer is only logged.
Move(p, k, c, d, dollars, a, b, t) ==
    LET moved == IF a = "OK" THEN d ELSE 0
        short == pocket[p] + dollars < 0
        paid == IF b # "refused" /\ ~short THEN dollars ELSE 0
        saves == k \in Trunks /\ (moved # 0 \/ paid # 0)
    IN  /\ d = 0 => a = "OK"
        /\ dollars = 0 \/ short => b = "OK"
        /\ ~saves => t = "OK"
        /\ Answered(a, b, t)
        /\ ChangeList(p, c, d, a)
        /\ stock' = [stock EXCEPT ![k] = Plus(stock[k], c, -moved)]
        /\ PayFrom(k, p, paid, b)
        /\ open' = Tidied(Laid(k))
        /\ trunkSaved' = IF saves /\ t = "OK" THEN [trunkSaved EXCEPT ![k] = TrunkRow(k)] ELSE trunkSaved
        /\ doubtful' = doubtful \cup MisledBy(p, a)
                       \cup (IF d # 0 THEN Overlapped({p}) ELSE {})
                       \cup (IF b = "commitLost" THEN {p} ELSE {})
                       \cup (IF saves /\ t # "OK" THEN {k} ELSE {})

\* containerTransfer, sign 1 to take and -1 to store: as much of what was asked
\* for as is there and fits, one kind of item and some cash.
Transfer(p, k, sign, c, n, m) ==
    LET have == IF sign = 1 THEN stock[k][c] ELSE record[p][c]
        fit == IF sign = 1 THEN Room(record[p], Carry)
               ELSE IF k \in Trunks THEN Room(stock[k], Capacity) ELSE have
        dollars == Greatest(0, Least(m, IF sign = 1 THEN boxCash[k] ELSE purse[p]))
    IN  /\ p \in online
        /\ \E items \in 0..n, a \in {"OK", "refused", "replyLost"}, b \in {"OK", "refused", "commitLost"}, t \in {"OK", "refused"} :
              /\ items = Least(n, Least(have, fit))
              /\ Move(p, k, c, sign * items, sign * dollars, a, b, t)
        /\ UNCHANGED <<online, login, scripts, busy, issued, issuedCash>>

Take ==
    \E p \in Players, k \in open \cup Trunks, c \in Classes, n, m \in Quantities \cup {0} :
        Asked("take") /\ Transfer(p, k, 1, c, n, m)

\* Into a container, or a new bag for whoever has something to put in it.
Store ==
    \E p \in Players, k \in Containers, c \in Classes, n, m \in Quantities \cup {0} :
        /\ Asked("store")
        /\ k \in Bags \ open => record[p] # Nothing \/ purse[p] > 0
        /\ Transfer(p, k, -1, c, n, m)

\* A police officer empties a restrained player's items into a bag.
Strip ==
    \E p \in online, b \in Bags \ open, answer \in {"OK", "refused", "replyLost"} :
        /\ Asked("strip")
        /\ record[p] # Nothing
        /\ Answered(answer, "OK", "OK")
        /\ saved' = IF answer = "refused" THEN saved ELSE [saved EXCEPT ![p] = Nothing]
        /\ IF answer = "OK"
           THEN /\ record' = [record EXCEPT ![p] = Nothing]
                /\ told' = [told EXCEPT ![p] = [c \in Classes |-> told[p][c] - record[p][c]]]
                /\ stock' = [stock EXCEPT ![b] = record[p]]
                /\ open' = open \cup {b}
           ELSE UNCHANGED <<record, told, stock, open>>
        /\ doubtful' = doubtful \cup Overlapped({p}) \cup MisledBy(p, answer)
        /\ UNCHANGED <<online, login, purse, pocket, trunkSaved, boxCash, scripts, busy,
                       toldCash, issued, issuedCash>>

\* Staff give items (d = 1), or a medkit or zip ties are used up (d = -1).
ChangeAtOnce(handler, d) ==
    \E p \in online, c \in Classes, answer \in {"OK", "refused", "replyLost"} :
        /\ Asked(handler)
        /\ record[p][c] + d >= 0
        /\ Answered(answer, "OK", "OK")
        /\ ChangeList(p, c, d, answer)
        /\ issued' = IF answer = "OK" THEN Plus(issued, c, d) ELSE issued
        /\ doubtful' = doubtful \cup Overlapped({p}) \cup MisledBy(p, answer)
        /\ UNCHANGED <<online, login, purse, pocket, trunkSaved, world, scripts, busy, toldCash, issuedCash>>

AdminGive == ChangeAtOnce("adminGive", 1)
UseAtOnce == ChangeAtOnce("useAtOnce", -1)

\* Mutant of AdminGiveCash: the record is not told.
AdminGiveUnbooked ==
    \E p \in online, n \in Quantities :
        /\ Asked("adminCash")
        /\ pocket' = [pocket EXCEPT ![p] = pocket[p] + n]
        /\ toldCash' = [toldCash EXCEPT ![p] = toldCash[p] + n]
        /\ issuedCash' = issuedCash + n
        /\ UNCHANGED <<online, login, record, purse, saved, trunkSaved, world, scripts, busy, faults,
                       told, issued, doubtful>>

AdminGiveCash ==
    \E p \in online, n \in Quantities, answer \in {"OK", "refused", "commitLost"} :
        /\ Asked("adminCash")
        /\ Answered(answer, "OK", "OK")
        /\ pocket' = IF answer = "OK" THEN [pocket EXCEPT ![p] = pocket[p] + n] ELSE pocket
        /\ IF answer = "refused"
           THEN UNCHANGED <<purse, toldCash, issuedCash>>
           ELSE /\ purse' = [purse EXCEPT ![p] = purse[p] + n]
                /\ toldCash' = [toldCash EXCEPT ![p] = toldCash[p] + n]
                /\ issuedCash' = issuedCash + n
        /\ doubtful' = doubtful \cup (IF answer = "commitLost" THEN {p} ELSE {})
        /\ UNCHANGED <<online, login, record, saved, trunkSaved, world, scripts, busy, told, issued>>

-------------------------------------------------------------------------------
(* The world around the handlers.                                           *)

\* The sync loop removes a bag that has lain too long.
Expire ==
    \E b \in open :
        /\ open' = open \ {b}
        /\ issued' = [c \in Classes |-> issued[c] - stock[b][c]]
        /\ issuedCash' = issuedCash - boxCash[b]
        /\ stock' = [stock EXCEPT ![b] = Nothing]
        /\ boxCash' = [boxCash EXCEPT ![b] = 0]
        /\ UNCHANGED <<online, login, record, purse, db, scripts, busy, requests, faults,
                       told, toldCash, doubtful>>

Leave ==
    \E p \in online :
        /\ "leave" \in Faults /\ faults < MaxFaults
        /\ faults' = faults + 1
        /\ online' = online \ {p}
        /\ UNCHANGED <<login, record, purse, db, world, scripts, busy, requests, ghosts>>

\* The record is loaded from the database.
Join ==
    \E p \in Players \ online :
        /\ online' = online \cup {p}
        /\ login' = [login EXCEPT ![p] = login[p] + 1]
        /\ record' = [record EXCEPT ![p] = saved[p]]
        /\ purse' = [purse EXCEPT ![p] = pocket[p]]
        /\ doubtful' = doubtful \cup Overlapped({p})
        /\ UNCHANGED <<db, world, scripts, busy, requests, faults, told, toldCash, issued, issuedCash>>

\* The server process ends and starts again: scripts and bags are gone, trunks
\* are what was last saved.
Crash ==
    /\ "crash" \in Faults /\ faults < MaxFaults
    /\ faults' = faults + 1
    /\ online' = {}
    /\ scripts' = [s \in Scripts |-> Idle]
    /\ busy' = {}
    /\ open' = {}
    /\ stock' = [k \in Containers |-> IF k \in Trunks THEN trunkSaved[k].items ELSE Nothing]
    /\ boxCash' = [k \in Containers |-> IF k \in Trunks THEN trunkSaved[k].cash ELSE 0]
    /\ UNCHANGED <<login, record, purse, db, requests, ghosts>>

Request(s) == GiveItem(s) \/ GiveCash(s) \/ Ask(s) \/ Gather(s) \/ Process(s)

Step(s) == WaitOver(s) \/ ReadList(s) \/ SaveList(s) \/ SetRecord(s) \/ SaveCash(s) \/ Book(s)

Next ==
    \/ \E s \in Scripts : Request(s) \/ Step(s)
    \/ Take \/ Store \/ Strip \/ AdminGive \/ UseAtOnce \/ AdminGiveCash
    \/ Expire \/ Leave \/ Join \/ Crash

Spec == Init /\ [][Next]_vars

-------------------------------------------------------------------------------
(* Properties.                                                              *)

Lists == [Players -> [Classes -> Int]]

Requested ==
    [kind : Scripted \cup {"none"}, who : Players, other : Players, class : Classes, n : Nat,
     seen : [Players -> Nat]]

Jobs ==
    [ask : Requested, leg : ItemLegs \cup CashLegs \cup {"wait", "done"},
     stage : {"read", "save", "set", "book", "wait", "done", "none"}, list : [Classes -> Int], gen : Nat]

\* The shape of records, tables, containers and scripts.
TypeOK ==
    /\ online \subseteq Players /\ login \in [Players -> Nat]
    /\ record \in Lists /\ saved \in Lists /\ told \in Lists
    /\ purse \in [Players -> Int] /\ pocket \in [Players -> Int] /\ toldCash \in [Players -> Int]
    /\ stock \in [Containers -> [Classes -> Int]] /\ boxCash \in [Containers -> Int]
    /\ open \subseteq Bags
    /\ trunkSaved \in [Trunks -> [items : [Classes -> Int], cash : Int]]
    /\ scripts \in [Scripts -> Jobs]
    /\ busy \subseteq Players
    /\ requests \in 0..MaxRequests /\ faults \in 0..MaxFaults
    /\ issued \in [Classes -> Int] /\ issuedCash \in Int
    /\ doubtful \subseteq Players \cup Trunks

\* Items and cash a handler has taken from one place and not yet put in another.
Carried(j, c) ==
    IF /\ j.ask.class = c /\ j.ask.kind \in {"give", "sell"}
       /\ \/ j.leg = "out" /\ j.stage = "set"
          \/ j.leg \in {"in", "pay", "back"} /\ j.stage \in {"read", "save"}
    THEN j.ask.n ELSE 0

CashCarried(j) ==
    IF \/ j.leg = "cashOut" /\ j.stage = "book"
       \/ j.leg \in {"cashIn", "cashBack"} /\ j.stage = "save"
    THEN j.ask.n ELSE 0

Told(c) == SumOf([p \in Players |-> told[p][c]])
Stored(c) == SumOf([k \in Containers |-> stock[k][c]])
InFlight(c) == SumOf([s \in Scripts |-> Carried(scripts[s], c)])
CashInFlight == SumOf([s \in Scripts |-> CashCarried(scripts[s])])

Accounted(c) == Told(c) + Stored(c) + InFlight(c)
CashAccounted == SumOf(toldCash) + SumOf(boxCash) + CashInFlight

UnsavedTrunks == doubtful \cap Trunks

\* The legs of every handler balance: counting what the database acknowledged,
\* what lies in containers and what is between two legs, no sequence of gifts,
\* sales, refunds, drops and refusals makes an item or a dollar, and none loses
\* one unless something was refused, a player left or the server went down.
HandlersBalance ==
    UnsavedTrunks = {} =>
        /\ \A c \in Classes : Accounted(c) <= issued[c] /\ (faults = 0 => Accounted(c) = issued[c])
        /\ CashAccounted <= issuedCash /\ (faults = 0 => CashAccounted = issuedCash)

\* Where nothing is bought, gathered or given by staff, processing makes no more
\* than it uses up, whatever the player does with the inputs while it runs.
NothingFromNothing ==
    SumOf(issued) <= InitItems * Cardinality(Players) * Cardinality(Classes)

\* Where changes did not overlap and no answer misled, the record, the database
\* and what handlers were told are one list, but for the one change being made.
ListsAgree ==
    \A p \in Players \ doubtful :
        /\ saved[p] = told[p]
        /\ Changing(p) = {} /\ p \in online => record[p] = saved[p]
        /\ \A s \in Changing(p) :
              LET j == scripts[s]
              IN  /\ Changing(p) = {s}
                  /\ j.gen = login[p]
                  /\ j.list = Plus(record[p], What(j), Delta(j))
                  /\ saved[p] = IF j.stage = "set" THEN j.list ELSE record[p]

\* A change of p's cash that is saved and not yet in p's record.
Unbooked(j, p) ==
    IF j.stage = "book" /\ Whose(j) = p /\ j.ask.seen[p] = login[p] THEN Delta(j) ELSE 0

\* Cash is saved as a change, so however scripts overlap the database has what
\* handlers were told, and the record follows once it is booked.
PocketAgrees ==
    \A p \in Players \ doubtful :
        /\ pocket[p] = toldCash[p]
        /\ p \in online => pocket[p] = purse[p] + SumOf([s \in Scripts |-> Unbooked(scripts[s], p)])

\* What a restart would bring back into a trunk is what is in it now.
TrunksSaved ==
    \A t \in Trunks \ doubtful : trunkSaved[t].items = stock[t] /\ trunkSaved[t].cash = boxCash[t]

\* Nothing comes of nothing, neither from processing nor from a restart.
StoresHold == NothingFromNothing /\ TrunksSaved

\* docs/DATA_CONTRACT.md on fields saved as whole values: "so there's no
\* duplication class to guard against here".
NothingDuplicated ==
    \A c \in Classes :
        SumOf([p \in Players |-> saved[p][c]]) + Stored(c) + InFlight(c) <= issued[c]

=============================================================================
