-------------------------------- MODULE Garage --------------------------------
(***************************************************************************)
(* Owned vehicles: the row in the vehicles table (fn_garage.sqf reads its  *)
(* status from there), the object in the game's world, and the map         *)
(* ALife_vehicleObjects from the one to the other.                         *)
(*                                                                         *)
(* The garage, impounding and the staff's menu are run by remoteExecCall:  *)
(* no other script of the mission runs meanwhile, but between two of their *)
(* database calls the website's VehicleAction may change the row.  Buying  *)
(* is run by remoteExec and may be suspended between any two statements.   *)
(*                                                                         *)
(* Fuel, damage, skin and keys are left out; what a trunk keeps is in      *)
(* Items.                                                                  *)
(***************************************************************************)
EXTENDS Naturals, FiniteSets

CONSTANTS
    Vehicles,    \* vehicles.id
    Objects,     \* objects the world may hold
    Buyers,      \* runs of shopBuyVehicle at the same time
    None,
    Faults,      \* what may go wrong: {"refused", "replyLost", "restart"}
    MaxFaults,   \* bound on how often
    MaxRequests  \* bound on requests

ASSUME GarageAssumption ==
    /\ None \notin Objects \cup Vehicles /\ IsFiniteSet(Buyers)
    /\ Faults \subseteq {"refused", "replyLost", "restart"}
    /\ MaxFaults \in Nat /\ MaxRequests \in Nat

VARIABLES
    row,       \* vehicles.status, "none" before the row exists
    car,       \* car[o]: the alife_vehicleId of a living object
    known,     \* ALife_vehicleObjects
    handler,   \* the atomic handler under way
    buyers,    \* shopBuyVehicle's runs
    requests, faults,
    \* What players paid and what they got for it:
    paid, served,
    doubtful   \* vehicles of which the game was misled, or meddled with while being bought

world == <<car, known>>
ledger == <<paid, served>>
garageVars == <<row, world, handler, buyers, requests, faults, ledger, doubtful>>

-------------------------------------------------------------------------------

Rest == [op |-> "none", id |-> None, was |-> "none", next |-> "none"]
Browsing == [id |-> None, next |-> "none"]

GarageInit ==
    /\ row \in [Vehicles -> {"none", "garaged"}]
    /\ car = [o \in Objects |-> None]
    /\ known = [v \in Vehicles |-> None]
    /\ handler = Rest
    /\ buyers = [b \in Buyers |-> Browsing]
    /\ requests = 0 /\ faults = 0
    /\ paid = 0 /\ served = 0
    /\ doubtful = {}

\* A database call's answer: "replyLost" if it ran and the game is told it did not.
Answer(a) ==
    /\ a = "OK" \/ (a \in Faults /\ faults < MaxFaults)
    /\ faults' = IF a = "OK" THEN faults ELSE faults + 1

Answers == {"OK", "refused", "replyLost"}

SetRow(v, status, a) == row' = IF a = "refused" THEN row ELSE [row EXCEPT ![v] = status]

\* Really in the world, as far as the garage can tell.
Out(v) == known[v] # None /\ car[known[v]] = v

\* What the garage's list shows.
Shown(v) == IF row[v] = "spawned" /\ ~Out(v) THEN "garaged" ELSE row[v]

Unused == {o \in Objects : car[o] = None /\ \A v \in Vehicles : known[v] # o}

\* A vehicle that is being bought and not yet in the map.
BeingBought(v) == \E b \in Buyers : buyers[b].id = v

Asked ==
    /\ handler = Rest
    /\ requests < MaxRequests
    /\ requests' = requests + 1

Touched(v) == doubtful' = IF BeingBought(v) THEN doubtful \cup {v} ELSE doubtful

\* vehicleSpawn, within an atomic handler.
Spawned(v) ==
    \E o \in Unused :
        /\ car' = [car EXCEPT ![o] = v]
        /\ known' = [known EXCEPT ![v] = o]

Gone(o) ==
    /\ car' = [car EXCEPT ![o] = None]
    /\ known' = [known EXCEPT ![car[o]] = None]

-------------------------------------------------------------------------------
(* Buying: charged, then recorded, then put in the world, then in the map.  *)

Buy(b) ==
    /\ Asked
    /\ buyers[b] = Browsing
    /\ buyers' = [buyers EXCEPT ![b] = [id |-> None, next |-> "charge"]]
    /\ UNCHANGED <<row, world, handler, faults, ledger, doubtful>>

Charge(b) ==
    /\ buyers[b].next = "charge" /\ handler = Rest
    /\ \E a \in Answers :
         /\ Answer(a)
         /\ paid' = IF a = "refused" THEN paid ELSE paid + 1
         /\ buyers' = [buyers EXCEPT ![b] = IF a = "OK" THEN [id |-> None, next |-> "add"] ELSE Browsing]
    /\ UNCHANGED <<row, world, handler, requests, served, doubtful>>

\* A vehicle whose row could not be added is driven off without an id: it can
\* not be stored, so it is none of the garage's.
Add(b) ==
    /\ buyers[b].next = "add" /\ handler = Rest
    /\ \E a \in Answers, v \in Vehicles :
         /\ Answer(a)
         /\ row[v] = "none"
         /\ SetRow(v, "spawned", a)
         /\ buyers' = [buyers EXCEPT ![b] = IF a = "OK" THEN [id |-> v, next |-> "create"] ELSE Browsing]
    /\ served' = served + 1
    /\ UNCHANGED <<world, handler, requests, paid, doubtful>>

Create(b) ==
    /\ buyers[b].next = "create" /\ handler = Rest
    /\ \E o \in Unused : car' = [car EXCEPT ![o] = buyers[b].id]
    /\ buyers' = [buyers EXCEPT ![b] = [id |-> buyers[b].id, next |-> "register"]]
    /\ UNCHANGED <<row, known, handler, requests, faults, ledger, doubtful>>

\* The object just created, or none if it has been taken away again.
Register(b) ==
    LET v == buyers[b].id
    IN  /\ buyers[b].next = "register" /\ handler = Rest
        /\ \/ \E o \in Objects : car[o] = v /\ known' = [known EXCEPT ![v] = o]
           \/ (\A o \in Objects : car[o] # v) /\ known' = [known EXCEPT ![v] = None]
        /\ buyers' = [buyers EXCEPT ![b] = Browsing]
        /\ UNCHANGED <<row, car, handler, requests, faults, ledger, doubtful>>

-------------------------------------------------------------------------------
(* The garage's window.                                                     *)

TakeUp(op, v, was, next) == handler' = [op |-> op, id |-> v, was |-> was, next |-> next]

\* Mutant of Retrieve: no look at the fee.
RetrieveFree(v) ==
    /\ Asked
    /\ Shown(v) \in {"garaged", "impounded"}
    /\ TakeUp("retrieve", v, Shown(v), "status")
    /\ Touched(v)
    /\ UNCHANGED <<row, world, buyers, faults, ledger>>

\* The owner's list is read: a vehicle that is not destroyed and not out.
Retrieve(v) ==
    /\ Asked
    /\ Shown(v) \in {"garaged", "impounded"}
    /\ TakeUp("retrieve", v, Shown(v), IF Shown(v) = "impounded" THEN "fee" ELSE "status")
    /\ Touched(v)
    /\ UNCHANGED <<row, world, buyers, faults, ledger>>

\* The release fee, from the bank.
Fee ==
    /\ handler.next = "fee"
    /\ \E a \in Answers :
         /\ Answer(a)
         /\ paid' = IF a = "refused" THEN paid ELSE paid + 1
         /\ handler' = IF a = "OK" THEN [op |-> handler.op, id |-> handler.id, was |-> handler.was, next |-> "status"] ELSE Rest
    /\ UNCHANGED <<row, world, buyers, requests, served, doubtful>>

\* The row is set to spawned whatever it is now, and the vehicle appears.
TakeOut ==
    LET v == handler.id
    IN  /\ handler.next = "status"
        /\ \E a \in Answers :
             /\ Answer(a)
             /\ SetRow(v, "spawned", a)
             /\ IF a = "OK"
                THEN /\ Spawned(v)
                     /\ served' = IF handler.op = "retrieve" /\ handler.was = "impounded" THEN served + 1 ELSE served
                ELSE UNCHANGED <<world, served>>
        /\ handler' = Rest
        /\ UNCHANGED <<buyers, requests, paid, doubtful>>

\* The owner's store, and the staff's of a vehicle that is out: one call.
Store(o) ==
    LET v == car[o]
    IN  /\ Asked
        /\ v # None
        /\ \E a \in Answers :
             /\ Answer(a)
             /\ SetRow(v, "garaged", a)
             /\ doubtful' = IF a = "replyLost" \/ BeingBought(v) THEN doubtful \cup {v} ELSE doubtful
             /\ IF a = "OK" THEN Gone(o) ELSE UNCHANGED world
        /\ UNCHANGED <<handler, buyers, ledger>>

\* The police take it away, recorded or not.
Impound(o) ==
    LET v == car[o]
    IN  /\ Asked
        /\ v # None
        /\ \E a \in Answers : Answer(a) /\ SetRow(v, "impounded", a)
        /\ Gone(o)
        /\ Touched(v)
        /\ UNCHANGED <<handler, buyers, ledger>>

\* Mutant of AdminPull: no look whether it is out already.
AdminPullAny(v) ==
    /\ Asked
    /\ row[v] \notin {"none", "destroyed"}
    /\ TakeUp("pull", v, row[v], "status")
    /\ Touched(v)
    /\ UNCHANGED <<row, world, buyers, faults, ledger>>

\* Staff take one out next to themselves, impounded or not, no fee.
AdminPull(v) ==
    /\ Asked
    /\ ~Out(v)
    /\ row[v] \notin {"none", "destroyed"}
    /\ TakeUp("pull", v, row[v], "status")
    /\ Touched(v)
    /\ UNCHANGED <<row, world, buyers, faults, ledger>>

\* Staff send one back that is not in the world: what was saved is read first.
AdminStore(v) ==
    /\ Asked
    /\ ~Out(v)
    /\ row[v] \notin {"none", "destroyed"}
    /\ TakeUp("putBack", v, row[v], "putBack")
    /\ Touched(v)
    /\ UNCHANGED <<row, world, buyers, faults, ledger>>

PutBack ==
    /\ handler.next = "putBack"
    /\ \E a \in Answers : Answer(a) /\ SetRow(handler.id, "garaged", a)
    /\ handler' = Rest
    /\ UNCHANGED <<world, buyers, requests, ledger, doubtful>>

-------------------------------------------------------------------------------
(* The website, wrecks and restarts.                                        *)

\* Mutant of From: staff may destroy any vehicle from the website.
FromAny(action) ==
    IF action = "release" THEN {"impounded"}
    ELSE IF action = "destroy" THEN {"garaged", "impounded", "spawned"} ELSE {"destroyed"}

From(action) ==
    IF action = "release" THEN {"impounded"}
    ELSE IF action = "destroy" THEN {"garaged", "impounded"} ELSE {"destroyed"}

To(action) == IF action = "destroy" THEN "destroyed" ELSE "garaged"

\* VehicleAction, under the row's lock.
VehicleAction(v) ==
    \E action \in {"release", "destroy", "restore"} :
        /\ requests < MaxRequests /\ requests' = requests + 1
        /\ row[v] \in From(action)
        /\ row' = [row EXCEPT ![v] = To(action)]
        /\ UNCHANGED <<world, handler, buyers, faults, ledger, doubtful>>

\* A vehicle in the map is wrecked: gone for good, if that can be recorded.
Wreck(o) ==
    LET v == car[o]
    IN  /\ Asked
        /\ v # None /\ ~BeingBought(v)
        /\ \E a \in Answers : Answer(a) /\ SetRow(v, "destroyed", a)
        /\ Gone(o)
        /\ UNCHANGED <<handler, buyers, ledger, doubtful>>

\* The server stops anywhere and starts again; before anybody can reach a
\* garage, the vehicles left out are put back (the answer is only logged).
Restart ==
    /\ "restart" \in Faults /\ faults < MaxFaults /\ faults' = faults + 1
    /\ \/ row' = [v \in Vehicles |-> IF row[v] = "spawned" THEN "garaged" ELSE row[v]]
       \/ "refused" \in Faults /\ UNCHANGED row
    /\ car' = [o \in Objects |-> None]
    /\ known' = [v \in Vehicles |-> None]
    /\ handler' = Rest
    /\ buyers' = [b \in Buyers |-> Browsing]
    /\ UNCHANGED <<requests, ledger, doubtful>>

GarageNext ==
    \/ \E b \in Buyers : Buy(b) \/ Charge(b) \/ Add(b) \/ Create(b) \/ Register(b)
    \/ \E v \in Vehicles : Retrieve(v) \/ AdminPull(v) \/ AdminStore(v) \/ VehicleAction(v)
    \/ Fee \/ TakeOut \/ PutBack
    \/ \E o \in Objects : Store(o) \/ Impound(o) \/ Wreck(o)
    \/ Restart

GarageSpec == GarageInit /\ [][GarageNext]_garageVars

-------------------------------------------------------------------------------
(* Properties.                                                              *)

Statuses == {"none", "garaged", "spawned", "impounded", "destroyed"}

\* The shape of rows, objects, the map and what runs.
GarageTypeOK ==
    /\ row \in [Vehicles -> Statuses]
    /\ car \in [Objects -> Vehicles \cup {None}]
    /\ known \in [Vehicles -> Objects \cup {None}]
    /\ handler \in [op : {"none", "retrieve", "pull", "putBack"}, id : Vehicles \cup {None},
                    was : Statuses, next : {"none", "fee", "status", "putBack"}]
    /\ buyers \in [Buyers -> [id : Vehicles \cup {None}, next : {"none", "charge", "add", "create", "register"}]]
    /\ requests \in Nat /\ faults \in Nat /\ paid \in Nat /\ served \in Nat
    /\ doubtful \subseteq Vehicles

\* A vehicle is in the world once at most, and only while its row says that it
\* is out; the garage finds it there unless it is just being bought.
OneObject ==
    \A v \in Vehicles \ doubtful :
        /\ \A o, q \in Objects : car[o] = v /\ car[q] = v => o = q
        /\ \A o \in Objects : car[o] = v => row[v] = "spawned" /\ (BeingBought(v) \/ known[v] = o)

\* A vehicle marked destroyed is out of the game until staff restore it: none is
\* in the world, and only a handler that looked at it before undoes the mark.
DestroyedStays ==
    [][\A v \in Vehicles \ doubtful : row[v] = "destroyed" /\ row'[v] # "destroyed" =>
          \/ row'[v] = "garaged" /\ \A o \in Objects : car[o] # v
          \/ handler.id = v /\ handler.was # "destroyed"]_garageVars

\* Every fee and price paid was for a vehicle that was handed over or is about
\* to be, unless a call failed or the server stopped in between.
EveryPaymentServed ==
    LET underWay == Cardinality({b \in Buyers : buyers[b].next = "add"})
                    + (IF handler.op = "retrieve" /\ handler.was = "impounded" /\ handler.next = "status" THEN 1 ELSE 0)
    IN  /\ served + underWay <= paid
        /\ faults = 0 => served + underWay = paid

-------------------------------------------------------------------------------
(* Why OneObject holds: a vehicle that a handler or a buyer is about to put   *)
(* in the world is not there yet, and one being bought is nobody else's.      *)

Absent(v) == \A o \in Objects : car[o] # v

BuyersInv ==
    \A b \in Buyers :
        /\ buyers[b].next \in {"create", "register"} <=> buyers[b].id # None
        /\ buyers[b].id \notin doubtful =>
              /\ buyers[b].id # None => row[buyers[b].id] = "spawned"
              /\ buyers[b].next = "create" => Absent(buyers[b].id)
              /\ \A c \in Buyers : buyers[c].id = buyers[b].id /\ buyers[b].id # None => b = c

HandlerInv ==
    /\ handler.id = None <=> handler.next = "none"
    /\ handler.id \in Vehicles \ doubtful => Absent(handler.id) /\ ~BeingBought(handler.id)

GarageInductive == GarageTypeOK /\ OneObject /\ BuyersInv /\ HandlerInv

================================================================================
