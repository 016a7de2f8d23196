---------------------------- MODULE PlayerLifeProofs ----------------------------
(***************************************************************************)
(* Proofs about PlayerLife, for any number of players and scripts: a death *)
(* is not forgotten, an outfit is had once, a sentence is served to its    *)
(* end and only once.  All is said of one player and of the scripts that   *)
(* work for that player; a step for one player leaves the others alone.    *)
(***************************************************************************)
EXTENDS PlayerLife, TLAPS

\* Where a player has a body, and where the scripts that put one into the world are.
Present == {"spawned", "dead", "claimed", "revived"}
Living == {"life", "alive", "approve", "jail", "term", "raise"}
Lived == {"alive", "approve", "jail", "term", "raise"}

\* An outfit that is not on a body for good.
Unworn(p, gear) == gear = 0 \/ gear > lost[p]

\* A script has still to write off the outfit of an earlier life.
WritesOff(s, p) == script[s].p = p /\ script[s].at = "life" /\ script[s].own
WrittenOff(p) == \E s \in Scripts : WritesOff(s, p)

\* A script will send the player back to jail.
SendsBack(s, p) ==
    /\ script[s].p = p /\ script[s].own
    /\ script[s].at \in {"life", "alive", "approve", "jail"} /\ script[s].row.jail > 0
SentBack(p) == \E s \in Scripts : SendsBack(s, p)

\* A body has a session, and is a living one or a dead one.
UnitInv(p) ==
    /\ unit[p] \in Present => record[p] # None
    /\ unit[p] = "spawned" => ~dead[p]
    /\ unit[p] \in {"dead", "claimed", "revived"} => dead[p]
    /\ free[p] => owed[p] = 0

\* The row and the record say of a death and of an outfit what the world does.
GearInv(p) ==
    /\ dead[p] => ~saved[p].alive
    /\ Unworn(p, worn[p])
    /\ record[p] # None /\ record[p].alive => saved[p].alive /\ Unworn(p, record[p].gear)
    /\ unit[p] \in Present /\ ~WrittenOff(p) => Unworn(p, saved[p].gear) /\ Unworn(p, record[p].gear)
    /\ saved[p].alive /\ ~Unworn(p, saved[p].gear) => WrittenOff(p) /\ ~record[p].alive

\* Row, record and memory have the time that is owed, until it is served.
TermInv(p) ==
    /\ owed[p] <= saved[p].jail
    /\ jail[p] # None => owed[p] <= jail[p]
    /\ record[p] # None => owed[p] <= record[p].jail
    /\ unit[p] \in Present /\ owed[p] > 0 => jail[p] # None \/ SentBack(p)
    /\ free[p] => saved[p].jail = 0 /\ jail[p] = None /\ (record[p] # None => record[p].jail = 0)

\* A script that has got past reading works for a player who lives, with what it read.
ScriptInv(s) ==
    /\ script[s].at # "idle" => script[s].p \in Players
    /\ script[s].at \in Living \cup {"set"} => script[s].row \in Rows
    /\ script[s].own => /\ script[s].here /\ script[s].at \in Living
                           /\ record[script[s].p] # None /\ unit[script[s].p] = "spawned"
    /\ script[s].at \in {"jail", "term"} => script[s].row.jail > 0
    /\ script[s].at \in Living => ~dead[script[s].p]

\* Its record is its own as long as its player is there.  Once an earlier life is
\* written off, nothing of it is in the row, or in what the script works on.
LivedInv(s) ==
    script[s].at \in Living /\ script[s].p \in Sure =>
        /\ script[s].here => script[s].own
        /\ script[s].at \in Lived => Unworn(script[s].p, saved[script[s].p].gear)
        /\ script[s].at \in Lived /\ script[s].own => Unworn(script[s].p, record[script[s].p].gear)
        /\ script[s].at = "raise" /\ script[s].here => Unworn(script[s].p, script[s].row.gear)

\* The autosave knows when it is late; the warden has a prisoner.
SaverInv ==
    /\ saver.at # "idle" => saver.p \in Players
    /\ saver.at # "idle" /\ ~saver.old => unit[saver.p] = "spawned"
    /\ saver.at = "gear" /\ ~saver.old /\ saver.p \in Sure => Unworn(saver.p, saver.gear)
    /\ warden.at # "idle" => warden.p \in Players

Inductive ==
    /\ TypeOK /\ SaverInv
    /\ \A p \in Players : UnitInv(p) /\ (p \in Sure => GearInv(p) /\ TermInv(p))
    /\ \A s \in Scripts : ScriptInv(s) /\ LivedInv(s)

-----------------------------------------------------------------------------
(* What the helpers write.                                                   *)

\* TypeOK, the Boolean functions apart from the rest.
Flags ==
    /\ online \in [Players -> BOOLEAN]
    /\ dead \in [Players -> BOOLEAN] /\ free \in [Players -> BOOLEAN]
Script == [at : {"idle", "load", "set", "online", "life", "alive", "approve", "jail", "term", "raise"},
           p : Players \cup {None}, row : Rows \cup {None}, own : BOOLEAN, here : BOOLEAN]
Data ==
    /\ saved \in [Players -> Rows]
    /\ record \in [Players -> Rows \cup {None}]
    /\ unit \in [Players -> {"gone", "waiting", "spawned", "dead", "claimed", "revived"}]
    /\ client \in [Players -> {"off", "loading", "error", "menu", "pending", "playing", "down",
         "reviving"}]
    /\ worn \in [Players -> Nat] /\ lost \in [Players -> Nat]
    /\ jail \in [Players -> Nat \cup {None}]
    /\ script \in [Scripts -> Script]
    /\ saver \in [at : {"idle", "alive", "look", "gear"}, p : Players \cup {None}, gear : Nat,
         old : BOOLEAN]
    /\ warden \in [at : {"idle", "act", "clear"}, p : Players \cup {None}, left : Nat]
    /\ owed \in [Players -> Nat]
    /\ doubtful \subseteq Players

LEMMA Types == TypeOK <=> Flags /\ Data
BY DEF TypeOK, Flags, Data, Script

LEMMA NoneIsNobody == None \notin Players /\ None \notin Int
BY LifeAssumption

LEMMA SentenceType == Sentence \in Nat /\ Sentence > 0
BY LifeAssumption

\* What everybody else's row is to a step.
Others(p) == Players \ {p}

LEMMA Elements ==
    ASSUME Data, NEW p \in Players
    PROVE  /\ saved[p] \in Rows /\ (record[p] # None => record[p] \in Rows)
           /\ worn[p] \in Nat /\ lost[p] \in Nat /\ owed[p] \in Nat
                /\ (jail[p] # None => jail[p] \in Nat)
BY DEF Data

\* A row with another value in a column.
LEMMA Column ==
    ASSUME NEW row \in Rows, NEW alive \in BOOLEAN, NEW n \in Nat
    PROVE  /\ [row EXCEPT !.alive = alive] \in Rows /\ [row EXCEPT !.gear = n] \in Rows
                /\ [row EXCEPT !.jail = n] \in Rows
           /\ [row EXCEPT !.alive = alive].alive = alive /\ [row EXCEPT !.alive = alive].gear = row.gear
           /\ [row EXCEPT !.alive = alive].jail = row.jail
           /\ [row EXCEPT !.gear = n].alive = row.alive /\ [row EXCEPT !.gear = n].gear = n
           /\ [row EXCEPT !.gear = n].jail = row.jail
           /\ [row EXCEPT !.jail = n].alive = row.alive /\ [row EXCEPT !.jail = n].gear = row.gear
           /\ [row EXCEPT !.jail = n].jail = n
BY DEF Rows

\* A save writes the row of one player, or leaves a doubt.
LEMMA SaveWrites ==
    ASSUME Data, NEW p \in Players, NEW row \in Rows, NEW stale, Save(p, row, stale)
    PROVE  /\ saved' \in [Players -> Rows] /\ doubtful' \subseteq Players
           /\ Sure' \subseteq Sure
           /\ \A q \in Others(p) : saved'[q] = saved[q]
           /\ p \in Sure' => saved'[p] = row /\ ~stale
<1>1. CASE saved' = [saved EXCEPT ![p] = row]
             /\ doubtful' = IF stale THEN doubtful \cup {p} ELSE doubtful
  BY <1>1 DEF Data, Sure, Others
<1>2. CASE saved' = saved /\ doubtful' = doubtful \cup {p}
  BY <1>2 DEF Data, Sure, Others
<1>. QED BY <1>1, <1>2 DEF Save

\* The same of one column, of the row and of the record.
LEMMA SaveAliveWrites ==
    ASSUME Data, NEW p \in Players, NEW alive \in BOOLEAN, NEW stale,
             Save(p, [saved[p] EXCEPT !.alive = alive], stale)
    PROVE  /\ saved' \in [Players -> Rows] /\ doubtful' \subseteq Players
           /\ Sure' \subseteq Sure
           /\ \A q \in Others(p) : saved'[q] = saved[q]
           /\ p \in Sure' => saved'[p].alive = alive /\ saved'[p].gear = saved[p].gear
                /\ saved'[p].jail = saved[p].jail /\ ~stale
<1>. DEFINE row == [saved[p] EXCEPT !.alive = alive]
<1>1. saved[p] \in Rows
  BY Elements
<1>2. row \in Rows /\ row.alive = alive /\ row.gear = saved[p].gear /\ row.jail = saved[p].jail
  BY <1>1 DEF Rows
<1>3. Save(p, row, stale)
  OBVIOUS
<1>. HIDE DEF row
<1>. QED BY <1>2, <1>3, SaveWrites

LEMMA SaveGearWrites ==
    ASSUME Data, NEW p \in Players, NEW n \in Nat, NEW stale,
             Save(p, [saved[p] EXCEPT !.gear = n], stale)
    PROVE  /\ saved' \in [Players -> Rows] /\ doubtful' \subseteq Players
           /\ Sure' \subseteq Sure
           /\ \A q \in Others(p) : saved'[q] = saved[q]
           /\ p \in Sure' => saved'[p].alive = saved[p].alive /\ saved'[p].gear = n
                /\ saved'[p].jail = saved[p].jail /\ ~stale
<1>. DEFINE row == [saved[p] EXCEPT !.gear = n]
<1>1. saved[p] \in Rows
  BY Elements
<1>2. row \in Rows /\ row.alive = saved[p].alive /\ row.gear = n /\ row.jail = saved[p].jail
  BY <1>1 DEF Rows
<1>3. Save(p, row, stale)
  OBVIOUS
<1>. HIDE DEF row
<1>. QED BY <1>2, <1>3, SaveWrites

LEMMA SaveJailWrites ==
    ASSUME Data, NEW p \in Players, NEW n \in Nat, NEW stale,
             Save(p, [saved[p] EXCEPT !.jail = n], stale)
    PROVE  /\ saved' \in [Players -> Rows] /\ doubtful' \subseteq Players
           /\ Sure' \subseteq Sure
           /\ \A q \in Others(p) : saved'[q] = saved[q]
           /\ p \in Sure' => saved'[p].alive = saved[p].alive /\ saved'[p].gear = saved[p].gear
                /\ saved'[p].jail = n /\ ~stale
<1>. DEFINE row == [saved[p] EXCEPT !.jail = n]
<1>1. saved[p] \in Rows
  BY Elements
<1>2. row \in Rows /\ row.alive = saved[p].alive /\ row.gear = saved[p].gear /\ row.jail = n
  BY <1>1 DEF Rows
<1>3. Save(p, row, stale)
  OBVIOUS
<1>. HIDE DEF row
<1>. QED BY <1>2, <1>3, SaveWrites

LEMMA RecordAliveWrites ==
    ASSUME Data, NEW p \in Players, NEW alive \in BOOLEAN, Record(p, "alive", alive)
    PROVE  /\ record' \in [Players -> Rows \cup {None}]
           /\ \A q \in Others(p) : record'[q] = record[q]
           /\ record'[p] = None <=> record[p] = None
           /\ record[p] # None => record'[p].alive = alive /\ record'[p].gear = record[p].gear
                /\ record'[p].jail = record[p].jail
<1>1. CASE record[p] = None
  BY <1>1 DEF Data, Record
<1>2. CASE record[p] # None
  <2>. DEFINE row == [record[p] EXCEPT !.alive = alive]
  <2>1. record' = [record EXCEPT ![p] = row]
    BY <1>2 DEF Record
  <2>2. row \in Rows /\ row.alive = alive /\ row.gear = record[p].gear /\ row.jail = record[p].jail
    BY <1>2, Elements DEF Rows
  <2>. HIDE DEF row
  <2>3. record' \in [Players -> Rows \cup {None}] /\ record'[p] = row
          /\ \A q \in Others(p) : record'[q] = record[q]
    BY <2>1, <2>2 DEF Data, Others
  <2>4. row # None
    BY <2>2, LifeAssumption
  <2>. QED BY <1>2, <2>2, <2>3, <2>4
<1>. QED BY <1>1, <1>2

LEMMA RecordGearWrites ==
    ASSUME Data, NEW p \in Players, NEW n \in Nat, Record(p, "gear", n)
    PROVE  /\ record' \in [Players -> Rows \cup {None}]
           /\ \A q \in Others(p) : record'[q] = record[q]
           /\ record'[p] = None <=> record[p] = None
           /\ record[p] # None => record'[p].alive = record[p].alive /\ record'[p].gear = n
                /\ record'[p].jail = record[p].jail
<1>1. CASE record[p] = None
  BY <1>1 DEF Data, Record
<1>2. CASE record[p] # None
  <2>. DEFINE row == [record[p] EXCEPT !.gear = n]
  <2>1. record' = [record EXCEPT ![p] = row]
    BY <1>2 DEF Record
  <2>2. row \in Rows /\ row.alive = record[p].alive /\ row.gear = n /\ row.jail = record[p].jail
    BY <1>2, Elements DEF Rows
  <2>. HIDE DEF row
  <2>3. record' \in [Players -> Rows \cup {None}] /\ record'[p] = row
          /\ \A q \in Others(p) : record'[q] = record[q]
    BY <2>1, <2>2 DEF Data, Others
  <2>4. row # None
    BY <2>2, LifeAssumption
  <2>. QED BY <1>2, <2>2, <2>3, <2>4
<1>. QED BY <1>1, <1>2

LEMMA RecordJailWrites ==
    ASSUME Data, NEW p \in Players, NEW n \in Nat, Record(p, "jail", n)
    PROVE  /\ record' \in [Players -> Rows \cup {None}]
           /\ \A q \in Others(p) : record'[q] = record[q]
           /\ record'[p] = None <=> record[p] = None
           /\ record[p] # None => record'[p].alive = record[p].alive /\ record'[p].gear = record[p].gear
                /\ record'[p].jail = n
<1>1. CASE record[p] = None
  BY <1>1 DEF Data, Record
<1>2. CASE record[p] # None
  <2>. DEFINE row == [record[p] EXCEPT !.jail = n]
  <2>1. record' = [record EXCEPT ![p] = row]
    BY <1>2 DEF Record
  <2>2. row \in Rows /\ row.alive = record[p].alive /\ row.gear = record[p].gear /\ row.jail = n
    BY <1>2, Elements DEF Rows
  <2>. HIDE DEF row
  <2>3. record' \in [Players -> Rows \cup {None}] /\ record'[p] = row
          /\ \A q \in Others(p) : record'[q] = record[q]
    BY <2>1, <2>2 DEF Data, Others
  <2>4. row # None
    BY <2>2, LifeAssumption
  <2>. QED BY <1>2, <2>2, <2>3, <2>4
<1>. QED BY <1>1, <1>2

LEMMA SaverAges ==
    ASSUME Data, NEW p \in Players, saver' = Aged(p)
    PROVE  /\ saver' \in [at : {"idle", "alive", "look", "gear"}, p : Players \cup {None}, gear : Nat,
                old : BOOLEAN]
           /\ saver'.at = saver.at /\ saver'.p = saver.p /\ saver'.gear = saver.gear
           /\ saver.p = p => saver'.old = TRUE
           /\ saver.p # p => saver' = saver
BY DEF Data, Aged

-----------------------------------------------------------------------------
(* Whom a step does not touch.                                               *)

Untouched(q) ==
    /\ saved'[q] = saved[q] /\ record'[q] = record[q] /\ unit'[q] = unit[q]
    /\ worn'[q] = worn[q] /\ lost'[q] = lost[q] /\ jail'[q] = jail[q]
    /\ dead'[q] = dead[q] /\ owed'[q] = owed[q] /\ free'[q] = free[q]

LEMMA PlayerStays ==
    ASSUME NEW q \in Players, Untouched(q),
           \A s \in Scripts : script[s].p = q => script'[s] = script[s] \/ script[s].at = "idle"
    PROVE  /\ UnitInv(q) => UnitInv(q)'
           /\ GearInv(q) => GearInv(q)'
           /\ TermInv(q) => TermInv(q)'
<1>1. WrittenOff(q) => WrittenOff(q)'
  BY DEF WrittenOff, WritesOff
<1>2. SentBack(q) => SentBack(q)'
  BY DEF SentBack, SendsBack
<1>3. CASE WrittenOff(q)' => WrittenOff(q)
  <2>1. WrittenOff(q)' <=> WrittenOff(q)
    BY <1>1, <1>3
  <2>. QED BY <2>1, <1>2 DEF Untouched, UnitInv, GearInv, TermInv, Unworn
<1>. QED BY <1>1, <1>2 DEF Untouched, UnitInv, GearInv, TermInv, Unworn

LEMMA ScriptStays ==
    ASSUME NEW s \in Scripts, script'[s] = script[s], Sure' \subseteq Sure,
           script[s].at # "idle" => Untouched(script[s].p), ScriptInv(s), LivedInv(s)
    PROVE  ScriptInv(s)' /\ LivedInv(s)'
<1>1. ScriptInv(s)'
  BY DEF Untouched, ScriptInv, Unworn, Living
<1>2. LivedInv(s)'
  BY DEF Untouched, LivedInv, Unworn, Living, Lived
<1>. QED BY <1>1, <1>2

\* A step about one player.
LEMMA OnePlayer ==
    ASSUME Inductive, NEW p \in Players, \A q \in Others(p) : Untouched(q), Sure' \subseteq Sure,
           \A s \in Scripts : script[s].p # p => script'[s] = script[s] \/ script[s].at = "idle",
           Flags', Data', SaverInv', UnitInv(p)', p \in Sure' => GearInv(p)' /\ TermInv(p)',
           \A s \in Scripts : script[s].p = p \/ script'[s] # script[s] => ScriptInv(s)' /\ LivedInv(s)'
    PROVE  Inductive'
<1>. USE DEF Inductive
<1>1. ASSUME NEW q \in Players PROVE UnitInv(q)' /\ (q \in Sure' => GearInv(q)' /\ TermInv(q)')
  <2>1. CASE q = p
    BY <2>1
  <2>2. CASE q # p
    <3>1. Untouched(q)
      BY <2>2 DEF Others
    <3>2. \A s \in Scripts : script[s].p = q => script'[s] = script[s] \/ script[s].at = "idle"
      BY <2>2
    <3>3. UnitInv(q) /\ (q \in Sure => GearInv(q) /\ TermInv(q))
      OBVIOUS
    <3>4. /\ UnitInv(q) => UnitInv(q)'
          /\ GearInv(q) => GearInv(q)'
          /\ TermInv(q) => TermInv(q)'
      BY <3>1, <3>2, PlayerStays
    <3>. QED BY <3>3, <3>4
  <2>. QED BY <2>1, <2>2
<1>2. ASSUME NEW s \in Scripts PROVE ScriptInv(s)' /\ LivedInv(s)'
  <2>1. CASE script[s].p = p \/ script'[s] # script[s]
    BY <2>1
  <2>2. CASE script[s].p # p /\ script'[s] = script[s]
    <3>1. script[s].at # "idle" => script[s].p \in Players
      BY DEF ScriptInv
    <3>2. script[s].at # "idle" => Untouched(script[s].p)
      BY <2>2, <3>1 DEF Others
    <3>. QED BY <2>2, <3>2, ScriptStays
  <2>. QED BY <2>1, <2>2
<1>3. TypeOK'
  BY DEF TypeOK, Flags, Data, Script
<1>. QED BY <1>1, <1>2, <1>3

-----------------------------------------------------------------------------
(* Scripts.                                                                  *)

Stages == {"idle", "load", "set", "online", "life", "alive", "approve", "jail", "term", "raise"}

LEMMA IdleType == Idle \in Script /\ Idle.at = "idle" /\ Idle.own = FALSE
BY DEF Idle, Script

LEMMA ScriptType ==
    ASSUME Data, NEW s \in Scripts
    PROVE  script[s] \in Script
BY DEF Data

LEMMA NewScript ==
    ASSUME Data, NEW s \in Scripts, NEW row \in Script, script' = [script EXCEPT ![s] = row]
    PROVE  /\ script' \in [Scripts -> Script] /\ script'[s] = row
           /\ \A t \in Scripts \ {s} : script'[t] = script[t]
BY DEF Data

LEMMA ToMoves ==
    ASSUME Data, NEW s \in Scripts, NEW at \in Stages, To(s, at)
    PROVE  /\ script' \in [Scripts -> Script]
           /\ \A t \in Scripts \ {s} : script'[t] = script[t]
           /\ script'[s].at = at /\ script'[s].p = script[s].p /\ script'[s].row = script[s].row
           /\ script'[s].own = script[s].own /\ script'[s].here = script[s].here
<1>. DEFINE row == [script[s] EXCEPT !.at = at]
<1>1. script' = [script EXCEPT ![s] = row]
  BY DEF To
<1>2. /\ row \in Script /\ row.at = at /\ row.p = script[s].p /\ row.row = script[s].row
      /\ row.own = script[s].own /\ row.here = script[s].here
  BY ScriptType DEF Script, Stages
<1>. HIDE DEF row
<1>. QED BY <1>1, <1>2, NewScript

LEMMA EndedMoves ==
    ASSUME Data, NEW s \in Scripts, Ended(s)
    PROVE  /\ script' \in [Scripts -> Script] /\ script'[s] = Idle
           /\ \A t \in Scripts \ {s} : script'[t] = script[t]
BY NewScript, IdleType DEF Ended

\* What a script that ends, or goes on, leaves to be done.
LEMMA ScriptGoes ==
    ASSUME NEW s \in Scripts, NEW p, script[s].p = p, \A t \in Scripts \ {s} : script'[t] = script[t]
    PROVE  /\ WrittenOff(p) => WrittenOff(p)' \/ WritesOff(s, p)
           /\ WrittenOff(p)' => WrittenOff(p) \/ WritesOff(s, p)'
           /\ SentBack(p) => SentBack(p)' \/ SendsBack(s, p)
<1>. QED BY DEF WrittenOff, WritesOff, SentBack, SendsBack

\* An idle script that ends was of nobody.
LEMMA IdleScripts ==
    ASSUME NEW s \in Scripts, script'[s] = Idle
    PROVE  ScriptInv(s)' /\ LivedInv(s)'
BY DEF ScriptInv, LivedInv, Idle, Living, Lived

-----------------------------------------------------------------------------
(* What happens to a player.                                                 *)

LEMMA JoinKeeps ==
    ASSUME Inductive, NEW p \in Players, Join(p)
    PROVE  Inductive'
<1>. USE DEF Inductive
<1>1. Flags /\ Data
  BY Types
<1>2. /\ unit[p] = "gone" /\ unit' = [unit EXCEPT ![p] = "waiting"]
      /\ client' = [client EXCEPT ![p] = "loading"]
      /\ UNCHANGED <<saved, record, worn, lost, jail, online, script, saver, warden, faults, arrests,
           dead, owed, free, doubtful>>
  BY DEF Join, bounds, truth, world
<1>4. /\ saved' \in [Players -> Rows] /\ doubtful' \subseteq Players /\ Sure' \subseteq Sure
      /\ \A q \in Players : saved'[q] = saved[q]
  BY <1>1, <1>2 DEF Data, Sure
<1>5. record' \in [Players -> Rows \cup {None}] /\ record' = record
  BY <1>1, <1>2 DEF Data
<1>6. /\ unit'[p] = "waiting"
      /\ \A q \in Others(p) : unit'[q] = unit[q]
  BY <1>1, <1>2 DEF Flags, Data, Others
<1>7. \A q \in Others(p) : Untouched(q)
  BY <1>2, <1>4, <1>5, <1>6 DEF Untouched, Others
<1>8. Flags'
  BY <1>1, <1>2, Zenon DEF Flags
<1>10. Data'
  BY <1>1, <1>2, <1>4, <1>5, <1>6 DEF Data
<1>11. SaverInv'
  BY <1>1, <1>2, <1>4, <1>6 DEF SaverInv, Others, Unworn
<1>12. UnitInv(p)'
  BY <1>1, <1>2, <1>5, <1>6 DEF UnitInv, Present
<1>13. WrittenOff(p)' = WrittenOff(p) /\ SentBack(p)' = SentBack(p)
  BY <1>2 DEF WrittenOff, SentBack, WritesOff, SendsBack
<1>14. p \in Sure' => GearInv(p)'
  BY <1>2, <1>4, <1>5, <1>6, <1>13 DEF GearInv, Unworn, Present
<1>15. p \in Sure' => TermInv(p)'
  BY <1>1, <1>2, <1>4, <1>5, <1>6, <1>13 DEF TermInv, Present
<1>16. \A t \in Scripts : script[t].p = p \/ script'[t] # script[t] => ScriptInv(t)' /\ LivedInv(t)'
  BY <1>2, <1>4, <1>5, <1>6, <1>13 DEF ScriptInv, LivedInv, Unworn, Living, Lived
<1>17. \A t \in Scripts : script[t].p # p => script'[t] = script[t] \/ script[t].at = "idle"
  BY <1>2, <1>6, <1>13
<1>. QED BY <1>4, <1>7, <1>8, <1>10, <1>11, <1>12, <1>14, <1>15, <1>16, <1>17, OnePlayer

LEMMA KillKeeps ==
    ASSUME Inductive, NEW p \in Players, Kill(p)
    PROVE  Inductive'
<1>. USE DEF Inductive
<1>1. Flags /\ Data
  BY Types
<1>2. /\ unit[p] = "spawned" /\ ~RunningFor(p) /\ unit' = [unit EXCEPT ![p] = "dead"]
      /\ client' = [client EXCEPT ![p] = "down"]
      /\ Save(p, [saved[p] EXCEPT !.alive = FALSE], FALSE) /\ Record(p, "alive", FALSE)
      /\ dead' = [dead EXCEPT ![p] = TRUE] /\ saver' = Aged(p)
      /\ UNCHANGED <<worn, lost, jail, online, script, warden, arrests, owed, free>>
  BY DEF Kill, bounds, truth, world
<1>4. /\ saved' \in [Players -> Rows] /\ doubtful' \subseteq Players /\ Sure' \subseteq Sure
      /\ \A q \in Others(p) : saved'[q] = saved[q]
      /\ p \in Sure' => saved'[p].alive = FALSE /\ saved'[p].gear = saved[p].gear
           /\ saved'[p].jail = saved[p].jail
  BY <1>1, <1>2, Elements, SaveAliveWrites
<1>5. /\ record' \in [Players -> Rows \cup {None}]
      /\ \A q \in Others(p) : record'[q] = record[q]
      /\ record'[p] = None <=> record[p] = None
      /\ record[p] # None => record'[p].alive = FALSE /\ record'[p].gear = record[p].gear
           /\ record'[p].jail = record[p].jail
  BY <1>1, <1>2, Elements, RecordAliveWrites
<1>6. /\ unit'[p] = "dead" /\ dead'[p] = TRUE
      /\ \A q \in Others(p) : unit'[q] = unit[q] /\ dead'[q] = dead[q]
  BY <1>1, <1>2 DEF Flags, Data, Others
<1>7. \A q \in Others(p) : Untouched(q)
  BY <1>2, <1>4, <1>5, <1>6 DEF Untouched, Others
<1>8. Flags'
  BY <1>1, <1>2, Zenon DEF Flags
<1>10. Data'
  BY <1>1, <1>2, <1>4, <1>5, <1>6, SaverAges DEF Data
<1>11. SaverInv'
  BY <1>1, <1>2, <1>4, <1>6, SaverAges DEF SaverInv, Others, Unworn
<1>12. UnitInv(p)'
  BY <1>1, <1>2, <1>5, <1>6 DEF UnitInv, Present
<1>13. ~WrittenOff(p) /\ ~SentBack(p) /\ \A t \in Scripts : script[t].p # p /\ script'[t] = script[t]
  BY <1>2 DEF RunningFor, WrittenOff, SentBack, WritesOff, SendsBack
<1>14. p \in Sure' => GearInv(p)'
  BY <1>2, <1>4, <1>5, <1>6, <1>13 DEF GearInv, Unworn, Present
<1>15. p \in Sure' => TermInv(p)'
  BY <1>1, <1>2, <1>4, <1>5, <1>6, <1>13 DEF TermInv, Present
<1>16. \A t \in Scripts : script[t].p = p \/ script'[t] # script[t] => ScriptInv(t)' /\ LivedInv(t)'
  BY <1>2, <1>4, <1>5, <1>6, <1>13 DEF ScriptInv, LivedInv, Unworn, Living, Lived
<1>17. \A t \in Scripts : script[t].p # p => script'[t] = script[t] \/ script[t].at = "idle"
  BY <1>2, <1>6, <1>13
<1>. QED BY <1>4, <1>7, <1>8, <1>10, <1>11, <1>12, <1>14, <1>15, <1>16, <1>17, OnePlayer

LEMMA ReviveKeeps ==
    ASSUME Inductive, NEW p \in Players, Revive(p)
    PROVE  Inductive'
<1>. USE DEF Inductive
<1>1. Flags /\ Data
  BY Types
<1>2. /\ unit[p] = "dead" /\ unit' = [unit EXCEPT ![p] = "claimed"]
      /\ UNCHANGED <<saved, record, client, worn, lost, jail, online, script, saver, warden, faults,
           arrests, dead, owed, free, doubtful>>
  BY DEF Revive, bounds, truth, world
<1>4. /\ saved' \in [Players -> Rows] /\ doubtful' \subseteq Players /\ Sure' \subseteq Sure
      /\ \A q \in Players : saved'[q] = saved[q]
  BY <1>1, <1>2 DEF Data, Sure
<1>5. record' \in [Players -> Rows \cup {None}] /\ record' = record
  BY <1>1, <1>2 DEF Data
<1>6. /\ unit'[p] = "claimed"
      /\ \A q \in Others(p) : unit'[q] = unit[q]
  BY <1>1, <1>2 DEF Flags, Data, Others
<1>7. \A q \in Others(p) : Untouched(q)
  BY <1>2, <1>4, <1>5, <1>6 DEF Untouched, Others
<1>8. Flags'
  BY <1>1, <1>2, Zenon DEF Flags
<1>10. Data'
  BY <1>1, <1>2, <1>4, <1>5, <1>6 DEF Data
<1>11. SaverInv'
  BY <1>1, <1>2, <1>4, <1>6 DEF SaverInv, Others, Unworn
<1>12. UnitInv(p)'
  BY <1>1, <1>2, <1>5, <1>6 DEF UnitInv, Present
<1>13. WrittenOff(p)' = WrittenOff(p) /\ SentBack(p)' = SentBack(p)
  BY <1>2 DEF WrittenOff, SentBack, WritesOff, SendsBack
<1>14. p \in Sure' => GearInv(p)'
  BY <1>2, <1>4, <1>5, <1>6, <1>13 DEF GearInv, Unworn, Present
<1>15. p \in Sure' => TermInv(p)'
  BY <1>1, <1>2, <1>4, <1>5, <1>6, <1>13 DEF TermInv, Present
<1>16. \A t \in Scripts : script[t].p = p \/ script'[t] # script[t] => ScriptInv(t)' /\ LivedInv(t)'
  BY <1>2, <1>4, <1>5, <1>6, <1>13 DEF ScriptInv, LivedInv, Unworn, Living, Lived
<1>17. \A t \in Scripts : script[t].p # p => script'[t] = script[t] \/ script[t].at = "idle"
  BY <1>2, <1>6, <1>13
<1>. QED BY <1>4, <1>7, <1>8, <1>10, <1>11, <1>12, <1>14, <1>15, <1>16, <1>17, OnePlayer

LEMMA RespawnKeeps ==
    ASSUME Inductive, NEW p \in Players, Respawn(p)
    PROVE  Inductive'
<1>. USE DEF Inductive
<1>1. Flags /\ Data
  BY Types
<1>2. /\ unit[p] \in {"dead", "claimed"} /\ unit' = [unit EXCEPT ![p] = "waiting"]
      /\ client' = [client EXCEPT ![p] = "loading"]
      /\ lost' = [lost EXCEPT ![p] = worn[p]] /\ worn' = [worn EXCEPT ![p] = 0]
      /\ UNCHANGED <<saved, record, jail, online, script, saver, warden, faults, arrests, dead, owed,
           free, doubtful>>
  BY DEF Respawn, bounds, truth, world
<1>4. /\ saved' \in [Players -> Rows] /\ doubtful' \subseteq Players /\ Sure' \subseteq Sure
      /\ \A q \in Players : saved'[q] = saved[q]
  BY <1>1, <1>2 DEF Data, Sure
<1>5. record' \in [Players -> Rows \cup {None}] /\ record' = record
  BY <1>1, <1>2 DEF Data
<1>6. /\ unit'[p] = "waiting" /\ lost'[p] = worn[p] /\ worn'[p] = 0
      /\ \A q \in Others(p) : unit'[q] = unit[q] /\ lost'[q] = lost[q] /\ worn'[q] = worn[q]
  BY <1>1, <1>2 DEF Flags, Data, Others
<1>7. \A q \in Others(p) : Untouched(q)
  BY <1>2, <1>4, <1>5, <1>6 DEF Untouched, Others
<1>8. Flags'
  BY <1>1, <1>2, Zenon DEF Flags
<1>10. Data'
  BY <1>1, <1>2, <1>4, <1>5, <1>6 DEF Data
<1>11. SaverInv'
  BY <1>1, <1>2, <1>4, <1>6 DEF SaverInv, Others, Unworn, UnitInv
<1>12. UnitInv(p)'
  BY <1>1, <1>2, <1>5, <1>6 DEF UnitInv, Present
<1>13. WrittenOff(p)' = WrittenOff(p) /\ SentBack(p)' = SentBack(p)
         /\ \A t \in Scripts : script[t].p = p => script[t].at \notin Living
  BY <1>2 DEF WrittenOff, SentBack, WritesOff, SendsBack, UnitInv, ScriptInv
<1>14. p \in Sure' => GearInv(p)'
  BY <1>2, <1>4, <1>5, <1>6, <1>13 DEF GearInv, Unworn, Present, UnitInv
<1>15. p \in Sure' => TermInv(p)'
  BY <1>1, <1>2, <1>4, <1>5, <1>6, <1>13 DEF TermInv, Present
<1>16. \A t \in Scripts : script[t].p = p \/ script'[t] # script[t] => ScriptInv(t)' /\ LivedInv(t)'
  BY <1>2, <1>4, <1>5, <1>6, <1>13 DEF ScriptInv, LivedInv, Unworn, Living, Lived
<1>17. \A t \in Scripts : script[t].p # p => script'[t] = script[t] \/ script[t].at = "idle"
  BY <1>2, <1>6, <1>13
<1>. QED BY <1>4, <1>7, <1>8, <1>10, <1>11, <1>12, <1>14, <1>15, <1>16, <1>17, OnePlayer

LEMMA RespawnRevivedKeeps ==
    ASSUME Inductive, NEW p \in Players, RespawnRevived(p)
    PROVE  Inductive'
<1>. USE DEF Inductive
<1>1. Flags /\ Data
  BY Types
<1>2. /\ unit[p] = "claimed" /\ unit' = [unit EXCEPT ![p] = "revived"]
      /\ client' = [client EXCEPT ![p] = "reviving"]
      /\ UNCHANGED <<saved, record, worn, lost, jail, online, script, saver, warden, faults, arrests,
           dead, owed, free, doubtful>>
  BY DEF RespawnRevived, bounds, truth, world
<1>4. /\ saved' \in [Players -> Rows] /\ doubtful' \subseteq Players /\ Sure' \subseteq Sure
      /\ \A q \in Players : saved'[q] = saved[q]
  BY <1>1, <1>2 DEF Data, Sure
<1>5. record' \in [Players -> Rows \cup {None}] /\ record' = record
  BY <1>1, <1>2 DEF Data
<1>6. /\ unit'[p] = "revived"
      /\ \A q \in Others(p) : unit'[q] = unit[q]
  BY <1>1, <1>2 DEF Flags, Data, Others
<1>7. \A q \in Others(p) : Untouched(q)
  BY <1>2, <1>4, <1>5, <1>6 DEF Untouched, Others
<1>8. Flags'
  BY <1>1, <1>2, Zenon DEF Flags
<1>10. Data'
  BY <1>1, <1>2, <1>4, <1>5, <1>6 DEF Data
<1>11. SaverInv'
  BY <1>1, <1>2, <1>4, <1>6 DEF SaverInv, Others, Unworn
<1>12. UnitInv(p)'
  BY <1>1, <1>2, <1>5, <1>6 DEF UnitInv, Present
<1>13. WrittenOff(p)' = WrittenOff(p) /\ SentBack(p)' = SentBack(p)
  BY <1>2 DEF WrittenOff, SentBack, WritesOff, SendsBack
<1>14. p \in Sure' => GearInv(p)'
  BY <1>2, <1>4, <1>5, <1>6, <1>13 DEF GearInv, Unworn, Present
<1>15. p \in Sure' => TermInv(p)'
  BY <1>1, <1>2, <1>4, <1>5, <1>6, <1>13 DEF TermInv, Present
<1>16. \A t \in Scripts : script[t].p = p \/ script'[t] # script[t] => ScriptInv(t)' /\ LivedInv(t)'
  BY <1>2, <1>4, <1>5, <1>6, <1>13 DEF ScriptInv, LivedInv, Unworn, Living, Lived
<1>17. \A t \in Scripts : script[t].p # p => script'[t] = script[t] \/ script[t].at = "idle"
  BY <1>2, <1>6, <1>13
<1>. QED BY <1>4, <1>7, <1>8, <1>10, <1>11, <1>12, <1>14, <1>15, <1>16, <1>17, OnePlayer

LEMMA VisitKeeps ==
    ASSUME Inductive, NEW p \in Players, Visit(p)
    PROVE  Inductive'
<1>. USE DEF Inductive
<1>1. Flags /\ Data
  BY Types
<1>2. /\ unit[p] = "spawned"
      /\ saver' = [at |-> "alive", p |-> p, gear |-> 0, old |-> FALSE]
      /\ UNCHANGED <<saved, record, unit, client, worn, lost, jail, online, script, warden, faults,
           arrests, dead, owed, free, doubtful>>
  BY DEF Visit, bounds, truth, world
<1>4. /\ saved' \in [Players -> Rows] /\ doubtful' \subseteq Players /\ Sure' \subseteq Sure
      /\ \A q \in Players : saved'[q] = saved[q]
  BY <1>1, <1>2 DEF Data, Sure
<1>5. record' \in [Players -> Rows \cup {None}] /\ record' = record
  BY <1>1, <1>2 DEF Data
<1>7. \A q \in Others(p) : Untouched(q)
  BY <1>2, <1>4, <1>5 DEF Untouched, Others
<1>8. Flags'
  BY <1>1, <1>2, Zenon DEF Flags
<1>10. Data'
  BY <1>1, <1>2, <1>4, <1>5 DEF Data
<1>11. SaverInv'
  BY <1>1, <1>2, <1>4 DEF SaverInv, Others, Unworn
<1>12. UnitInv(p)'
  BY <1>1, <1>2, <1>5 DEF UnitInv, Present
<1>13. WrittenOff(p)' = WrittenOff(p) /\ SentBack(p)' = SentBack(p)
  BY <1>2 DEF WrittenOff, SentBack, WritesOff, SendsBack
<1>14. p \in Sure' => GearInv(p)'
  BY <1>2, <1>4, <1>5, <1>13 DEF GearInv, Unworn, Present
<1>15. p \in Sure' => TermInv(p)'
  BY <1>1, <1>2, <1>4, <1>5, <1>13 DEF TermInv, Present
<1>16. \A t \in Scripts : script[t].p = p \/ script'[t] # script[t] => ScriptInv(t)' /\ LivedInv(t)'
  BY <1>2, <1>4, <1>5, <1>13 DEF ScriptInv, LivedInv, Unworn, Living, Lived
<1>17. \A t \in Scripts : script[t].p # p => script'[t] = script[t] \/ script[t].at = "idle"
  BY <1>2, <1>13
<1>. QED BY <1>4, <1>7, <1>8, <1>10, <1>11, <1>12, <1>14, <1>15, <1>16, <1>17, OnePlayer

LEMMA ArrestKeeps ==
    ASSUME Inductive, NEW p \in Players, Arrest(p)
    PROVE  Inductive'
<1>. USE DEF Inductive
<1>1. Flags /\ Data
  BY Types
<1>2. /\ unit[p] = "spawned" /\ arrests' = arrests + 1
      /\ jail' = [jail EXCEPT ![p] = Sentence]
      /\ Save(p, [saved[p] EXCEPT !.jail = Sentence], FALSE) /\ Record(p, "jail", Sentence)
      /\ owed' = [owed EXCEPT ![p] = Sentence] /\ free' = [free EXCEPT ![p] = FALSE]
      /\ UNCHANGED <<unit, client, worn, lost, online, script, saver, warden, dead>>
  BY DEF Arrest, bounds, truth, world
<1>3. Sentence \in Nat /\ Sentence > 0 /\ Sentence # None
  BY SentenceType, NoneIsNobody
<1>4. /\ saved' \in [Players -> Rows] /\ doubtful' \subseteq Players /\ Sure' \subseteq Sure
      /\ \A q \in Others(p) : saved'[q] = saved[q]
      /\ p \in Sure' => saved'[p].alive = saved[p].alive /\ saved'[p].gear = saved[p].gear
           /\ saved'[p].jail = Sentence
  BY <1>1, <1>2, <1>3, Elements, SaveJailWrites
<1>5. /\ record' \in [Players -> Rows \cup {None}]
      /\ \A q \in Others(p) : record'[q] = record[q]
      /\ record'[p] = None <=> record[p] = None
      /\ record[p] # None => record'[p].alive = record[p].alive /\ record'[p].gear = record[p].gear
           /\ record'[p].jail = Sentence
  BY <1>1, <1>2, <1>3, Elements, RecordJailWrites
<1>6. /\ jail'[p] = Sentence /\ owed'[p] = Sentence /\ free'[p] = FALSE
      /\ \A q \in Others(p) : jail'[q] = jail[q] /\ owed'[q] = owed[q] /\ free'[q] = free[q]
  BY <1>1, <1>2, <1>3 DEF Flags, Data, Others
<1>7. \A q \in Others(p) : Untouched(q)
  BY <1>2, <1>4, <1>5, <1>3, <1>6 DEF Untouched, Others
<1>8. Flags'
  BY <1>1, <1>2, Zenon DEF Flags
<1>10. Data'
  BY <1>1, <1>2, <1>4, <1>5, <1>3, <1>6 DEF Data
<1>11. SaverInv'
  BY <1>1, <1>2, <1>4, <1>3, <1>6 DEF SaverInv, Others, Unworn
<1>12. UnitInv(p)'
  BY <1>1, <1>2, <1>5, <1>3, <1>6 DEF UnitInv, Present
<1>13. WrittenOff(p)' = WrittenOff(p) /\ SentBack(p)' = SentBack(p)
  BY <1>2 DEF WrittenOff, SentBack, WritesOff, SendsBack
<1>14. p \in Sure' => GearInv(p)'
  BY <1>2, <1>4, <1>5, <1>3, <1>6, <1>13 DEF GearInv, Unworn, Present
<1>15. p \in Sure' => TermInv(p)'
  BY <1>1, <1>2, <1>4, <1>5, <1>3, <1>6, <1>13 DEF TermInv, Present
<1>16. \A t \in Scripts : script[t].p = p \/ script'[t] # script[t] => ScriptInv(t)' /\ LivedInv(t)'
  BY <1>2, <1>4, <1>5, <1>3, <1>6, <1>13 DEF ScriptInv, LivedInv, Unworn, Living, Lived
<1>17. \A t \in Scripts : script[t].p # p => script'[t] = script[t] \/ script[t].at = "idle"
  BY <1>2, <1>3, <1>6, <1>13
<1>. QED BY <1>3, <1>4, <1>7, <1>8, <1>10, <1>11, <1>12, <1>14, <1>15, <1>16, <1>17, OnePlayer

LEMMA BailKeeps ==
    ASSUME Inductive, NEW p \in Players, Bail(p)
    PROVE  Inductive'
<1>. USE DEF Inductive
<1>1. Flags /\ Data
  BY Types
<1>2. /\ jail[p] # None
      /\ jail' = [jail EXCEPT ![p] = None]
      /\ Save(p, [saved[p] EXCEPT !.jail = 0], FALSE) /\ Record(p, "jail", 0)
      /\ owed' = [owed EXCEPT ![p] = 0] /\ free' = [free EXCEPT ![p] = TRUE]
      /\ UNCHANGED <<unit, client, worn, lost, online, script, saver, warden, arrests, dead>>
  BY DEF Bail, bounds, truth, world
<1>4. /\ saved' \in [Players -> Rows] /\ doubtful' \subseteq Players /\ Sure' \subseteq Sure
      /\ \A q \in Others(p) : saved'[q] = saved[q]
      /\ p \in Sure' => saved'[p].alive = saved[p].alive /\ saved'[p].gear = saved[p].gear
           /\ saved'[p].jail = 0
  BY <1>1, <1>2, Elements, SaveJailWrites
<1>5. /\ record' \in [Players -> Rows \cup {None}]
      /\ \A q \in Others(p) : record'[q] = record[q]
      /\ record'[p] = None <=> record[p] = None
      /\ record[p] # None => record'[p].alive = record[p].alive /\ record'[p].gear = record[p].gear
           /\ record'[p].jail = 0
  BY <1>1, <1>2, Elements, RecordJailWrites
<1>6. /\ jail'[p] = None /\ owed'[p] = 0 /\ free'[p] = TRUE
      /\ \A q \in Others(p) : jail'[q] = jail[q] /\ owed'[q] = owed[q] /\ free'[q] = free[q]
  BY <1>1, <1>2 DEF Flags, Data, Others
<1>7. \A q \in Others(p) : Untouched(q)
  BY <1>2, <1>4, <1>5, <1>6 DEF Untouched, Others
<1>8. Flags'
  BY <1>1, <1>2, Zenon DEF Flags
<1>10. Data'
  BY <1>1, <1>2, <1>4, <1>5, <1>6 DEF Data
<1>11. SaverInv'
  BY <1>1, <1>2, <1>4, <1>6 DEF SaverInv, Others, Unworn
<1>12. UnitInv(p)'
  BY <1>1, <1>2, <1>5, <1>6 DEF UnitInv, Present
<1>13. WrittenOff(p)' = WrittenOff(p) /\ SentBack(p)' = SentBack(p)
  BY <1>2 DEF WrittenOff, SentBack, WritesOff, SendsBack
<1>14. p \in Sure' => GearInv(p)'
  BY <1>2, <1>4, <1>5, <1>6, <1>13 DEF GearInv, Unworn, Present
<1>15. p \in Sure' => TermInv(p)'
  BY <1>1, <1>2, <1>4, <1>5, <1>6, <1>13 DEF TermInv, Present
<1>16. \A t \in Scripts : script[t].p = p \/ script'[t] # script[t] => ScriptInv(t)' /\ LivedInv(t)'
  BY <1>2, <1>4, <1>5, <1>6, <1>13 DEF ScriptInv, LivedInv, Unworn, Living, Lived
<1>17. \A t \in Scripts : script[t].p # p => script'[t] = script[t] \/ script[t].at = "idle"
  BY <1>2, <1>6, <1>13
<1>. QED BY <1>4, <1>7, <1>8, <1>10, <1>11, <1>12, <1>14, <1>15, <1>16, <1>17, OnePlayer

LEMMA LookAtPrisonerKeeps ==
    ASSUME Inductive, NEW p \in Players, LookAtPrisoner(p)
    PROVE  Inductive'
<1>. USE DEF Inductive
<1>1. Flags /\ Data
  BY Types
<1>2. /\ jail[p] # None
      /\ warden' = [at |-> "act", p |-> p, left |-> jail[p]]
      /\ UNCHANGED <<saved, record, unit, client, worn, lost, jail, online, script, saver, faults,
           arrests, dead, owed, free, doubtful>>
  BY DEF LookAtPrisoner, bounds, truth, world
<1>4. /\ saved' \in [Players -> Rows] /\ doubtful' \subseteq Players /\ Sure' \subseteq Sure
      /\ \A q \in Players : saved'[q] = saved[q]
  BY <1>1, <1>2 DEF Data, Sure
<1>5. record' \in [Players -> Rows \cup {None}] /\ record' = record
  BY <1>1, <1>2 DEF Data
<1>7. \A q \in Others(p) : Untouched(q)
  BY <1>2, <1>4, <1>5 DEF Untouched, Others
<1>8. Flags'
  BY <1>1, <1>2, Zenon DEF Flags
<1>10. Data'
  BY <1>1, <1>2, <1>4, <1>5 DEF Data
<1>11. SaverInv'
  BY <1>1, <1>2, <1>4 DEF SaverInv, Others, Unworn
<1>12. UnitInv(p)'
  BY <1>1, <1>2, <1>5 DEF UnitInv, Present
<1>13. WrittenOff(p)' = WrittenOff(p) /\ SentBack(p)' = SentBack(p)
  BY <1>2 DEF WrittenOff, SentBack, WritesOff, SendsBack
<1>14. p \in Sure' => GearInv(p)'
  BY <1>2, <1>4, <1>5, <1>13 DEF GearInv, Unworn, Present
<1>15. p \in Sure' => TermInv(p)'
  BY <1>1, <1>2, <1>4, <1>5, <1>13 DEF TermInv, Present
<1>16. \A t \in Scripts : script[t].p = p \/ script'[t] # script[t] => ScriptInv(t)' /\ LivedInv(t)'
  BY <1>2, <1>4, <1>5, <1>13 DEF ScriptInv, LivedInv, Unworn, Living, Lived
<1>17. \A t \in Scripts : script[t].p # p => script'[t] = script[t] \/ script[t].at = "idle"
  BY <1>2, <1>13
<1>. QED BY <1>4, <1>7, <1>8, <1>10, <1>11, <1>12, <1>14, <1>15, <1>16, <1>17, OnePlayer

-----------------------------------------------------------------------------
(* A script begins.                                                          *)

LEMMA AskSessionKeeps ==
    ASSUME Inductive, NEW p \in Players, NEW s \in Scripts, AskSession(p, s)
    PROVE  Inductive'
<1>. USE DEF Inductive
<1>1. Flags /\ Data
  BY Types
<1>2. /\ client[p] = "loading" /\ script[s] = Idle
      /\ script' = [script EXCEPT ![s] = [Idle EXCEPT !.at = "load", !.p = p, !.here = TRUE]]
      /\ UNCHANGED <<saved, record, unit, client, worn, lost, jail, online, saver, warden, faults,
           arrests, dead, owed, free, doubtful>>
  BY DEF AskSession, bounds, truth, world
<1>4. /\ saved' \in [Players -> Rows] /\ doubtful' \subseteq Players /\ Sure' \subseteq Sure
      /\ \A q \in Players : saved'[q] = saved[q]
  BY <1>1, <1>2 DEF Data, Sure
<1>5. record' \in [Players -> Rows \cup {None}] /\ record' = record
  BY <1>1, <1>2 DEF Data
<1>7. \A q \in Others(p) : Untouched(q)
  BY <1>2, <1>4, <1>5 DEF Untouched, Others
<1>8. Flags'
  BY <1>1, <1>2, Zenon DEF Flags
<1>9. /\ script' \in [Scripts -> Script] /\ \A t \in Scripts \ {s} : script'[t] = script[t]
      /\ script'[s].at = "load" /\ script'[s].p = p /\ script'[s].own = FALSE
  <2>. DEFINE new == [Idle EXCEPT !.at = "load", !.p = p, !.here = TRUE]
  <2>1. new \in Script /\ new.at = "load" /\ new.p = p /\ new.own = FALSE
    BY <1>1, Elements DEF Script, Idle, Rows
  <2>2. script' = [script EXCEPT ![s] = new]
    BY <1>2
  <2>. HIDE DEF new
  <2>. QED
  BY <1>1, <2>1, <2>2, NewScript
<1>10. Data'
  BY <1>1, <1>2, <1>4, <1>5, <1>9 DEF Data
<1>11. SaverInv'
  BY <1>1, <1>2, <1>4, <1>9 DEF SaverInv, Others, Unworn
<1>12. UnitInv(p)'
  BY <1>1, <1>2, <1>5, <1>9 DEF UnitInv, Present
<1>13. (WrittenOff(p)' <=> WrittenOff(p) \/ FALSE) /\ (SentBack(p)' <=> SentBack(p) \/ FALSE)
  BY <1>2, <1>9 DEF WrittenOff, SentBack, WritesOff, SendsBack, Idle
<1>14. p \in Sure' => GearInv(p)'
  BY <1>2, <1>4, <1>5, <1>9, <1>13 DEF GearInv, Unworn, Present
<1>15. p \in Sure' => TermInv(p)'
  BY <1>1, <1>2, <1>4, <1>5, <1>9, <1>13 DEF TermInv, Present
<1>16. \A t \in Scripts : script[t].p = p \/ script'[t] # script[t] => ScriptInv(t)' /\ LivedInv(t)'
  BY <1>2, <1>4, <1>5, <1>9 DEF ScriptInv, LivedInv, Unworn, Living, Lived, Idle
<1>17. \A t \in Scripts : script[t].p # p => script'[t] = script[t] \/ script[t].at = "idle"
  BY <1>2, <1>9, IdleType
<1>. QED BY <1>4, <1>7, <1>8, <1>10, <1>11, <1>12, <1>14, <1>15, <1>16, <1>17, OnePlayer

LEMMA PickKeeps ==
    ASSUME Inductive, NEW p \in Players, NEW s \in Scripts, Pick(p, s)
    PROVE  Inductive'
<1>. USE DEF Inductive
<1>1. Flags /\ Data
  BY Types
<1>2. /\ script[s] = Idle /\ record[p] # None
      /\ script' = [script EXCEPT ![s] = [at |-> IF record[p].alive THEN "alive" ELSE "life", p |-> p,
           row |-> record[p], own |-> TRUE, here |-> TRUE]]
      /\ unit' = [unit EXCEPT ![p] = "spawned"] /\ client' = [client EXCEPT ![p] = "pending"]
      /\ dead' = [dead EXCEPT ![p] = FALSE]
      /\ UNCHANGED <<saved, record, worn, lost, jail, online, saver, warden, faults, arrests, owed,
           free, doubtful>>
  BY DEF Pick, bounds, truth, world
<1>3. record[p] \in Rows /\ record[p].alive \in BOOLEAN /\ record[p].jail \in Nat /\ owed[p] \in Nat
  BY <1>1, <1>2, Elements DEF Rows
<1>4. /\ saved' \in [Players -> Rows] /\ doubtful' \subseteq Players /\ Sure' \subseteq Sure
      /\ \A q \in Players : saved'[q] = saved[q]
  BY <1>1, <1>2 DEF Data, Sure
<1>5. record' \in [Players -> Rows \cup {None}] /\ record' = record
  BY <1>1, <1>2 DEF Data
<1>6. /\ unit'[p] = "spawned" /\ dead'[p] = FALSE
      /\ \A q \in Others(p) : unit'[q] = unit[q] /\ dead'[q] = dead[q]
  BY <1>1, <1>2, <1>3 DEF Flags, Data, Others
<1>7. \A q \in Others(p) : Untouched(q)
  BY <1>2, <1>4, <1>5, <1>3, <1>6 DEF Untouched, Others
<1>8. Flags'
  BY <1>1, <1>2, Zenon DEF Flags
<1>9. /\ script' \in [Scripts -> Script] /\ \A t \in Scripts \ {s} : script'[t] = script[t]
      /\ script'[s].at = (IF record[p].alive THEN "alive" ELSE "life") /\ script'[s].p = p
           /\ script'[s].row = record[p] /\ script'[s].own = TRUE /\ script'[s].here = TRUE
  <2>. DEFINE new == [at |-> IF record[p].alive THEN "alive" ELSE "life", p |-> p, row |-> record[p],
         own |-> TRUE, here |-> TRUE]
  <2>1. new \in Script /\ new.at = (IF record[p].alive THEN "alive" ELSE "life") /\ new.p = p
          /\ new.row = record[p] /\ new.own = TRUE /\ new.here = TRUE
    BY <1>1, <1>3, Elements DEF Script, Idle, Rows
  <2>2. script' = [script EXCEPT ![s] = new]
    BY <1>2
  <2>. HIDE DEF new
  <2>. QED
  BY <1>1, <2>1, <2>2, NewScript
<1>10. Data'
  BY <1>1, <1>2, <1>4, <1>5, <1>3, <1>6, <1>9 DEF Data
<1>11. SaverInv'
  BY <1>1, <1>2, <1>4, <1>3, <1>6, <1>9 DEF SaverInv, Others, Unworn
<1>12. UnitInv(p)'
  BY <1>1, <1>2, <1>5, <1>3, <1>6, <1>9 DEF UnitInv, Present
<1>13. (WrittenOff(p)' <=> WrittenOff(p) \/ ~record[p].alive)
         /\ (SentBack(p)' <=> SentBack(p) \/ record[p].jail > 0)
  BY <1>2, <1>9 DEF WrittenOff, SentBack, WritesOff, SendsBack, Idle
<1>14. p \in Sure' => GearInv(p)'
  BY <1>2, <1>4, <1>5, <1>3, <1>6, <1>9, <1>13 DEF GearInv, Unworn, Present
<1>15. p \in Sure' => TermInv(p)'
  BY <1>1, <1>2, <1>4, <1>5, <1>3, <1>6, <1>9, <1>13 DEF TermInv, Present, UnitInv
<1>16. \A t \in Scripts : script[t].p = p \/ script'[t] # script[t] => ScriptInv(t)' /\ LivedInv(t)'
  BY <1>2, <1>3, <1>4, <1>5, <1>6, <1>9 DEF ScriptInv, LivedInv, GearInv, Unworn, Living, Lived, Idle
<1>17. \A t \in Scripts : script[t].p # p => script'[t] = script[t] \/ script[t].at = "idle"
  BY <1>2, <1>9, IdleType
<1>. QED BY <1>3, <1>4, <1>7, <1>8, <1>10, <1>11, <1>12, <1>14, <1>15, <1>16, <1>17, OnePlayer

LEMMA CompleteReviveKeeps ==
    ASSUME Inductive, NEW p \in Players, NEW s \in Scripts, CompleteRevive(p, s)
    PROVE  Inductive'
<1>. USE DEF Inductive
<1>1. Flags /\ Data
  BY Types
<1>2. /\ unit[p] = "revived" /\ script[s] = Idle
      /\ script' = [script EXCEPT ![s] = [at |-> "raise", p |-> p, own |-> TRUE, here |-> TRUE,
           row |-> [alive |-> TRUE, gear |-> worn[p], jail |-> 0]]]
      /\ unit' = [unit EXCEPT ![p] = "spawned"]
      /\ worn' = [worn EXCEPT ![p] = 0] /\ dead' = [dead EXCEPT ![p] = FALSE]
      /\ UNCHANGED <<saved, record, client, lost, jail, online, saver, warden, faults, arrests, owed,
           free, doubtful>>
  BY DEF CompleteRevive, bounds, truth, world
<1>4. /\ saved' \in [Players -> Rows] /\ doubtful' \subseteq Players /\ Sure' \subseteq Sure
      /\ \A q \in Players : saved'[q] = saved[q]
  BY <1>1, <1>2 DEF Data, Sure
<1>5. record' \in [Players -> Rows \cup {None}] /\ record' = record
  BY <1>1, <1>2 DEF Data
<1>6. /\ unit'[p] = "spawned" /\ worn'[p] = 0 /\ dead'[p] = FALSE
      /\ \A q \in Others(p) : unit'[q] = unit[q] /\ worn'[q] = worn[q] /\ dead'[q] = dead[q]
  BY <1>1, <1>2 DEF Flags, Data, Others
<1>7. \A q \in Others(p) : Untouched(q)
  BY <1>2, <1>4, <1>5, <1>6 DEF Untouched, Others
<1>8. Flags'
  BY <1>1, <1>2, Zenon DEF Flags
<1>9. /\ script' \in [Scripts -> Script] /\ \A t \in Scripts \ {s} : script'[t] = script[t]
      /\ script'[s].at = "raise" /\ script'[s].p = p
           /\ script'[s].row = [alive |-> TRUE, gear |-> worn[p], jail |-> 0] /\ script'[s].own = TRUE
                /\ script'[s].here = TRUE
  <2>. DEFINE new == [at |-> "raise", p |-> p, own |-> TRUE, here |-> TRUE, row |-> [alive |-> TRUE,
         gear |-> worn[p], jail |-> 0]]
  <2>1. new \in Script /\ new.at = "raise" /\ new.p = p
          /\ new.row = [alive |-> TRUE, gear |-> worn[p], jail |-> 0] /\ new.own = TRUE
               /\ new.here = TRUE
    BY <1>1, Elements DEF Script, Idle, Rows
  <2>2. script' = [script EXCEPT ![s] = new]
    BY <1>2
  <2>. HIDE DEF new
  <2>. QED
  BY <1>1, <2>1, <2>2, NewScript
<1>10. Data'
  BY <1>1, <1>2, <1>4, <1>5, <1>6, <1>9 DEF Data
<1>11. SaverInv'
  BY <1>1, <1>2, <1>4, <1>6, <1>9 DEF SaverInv, Others, Unworn
<1>12. UnitInv(p)'
  BY <1>1, <1>2, <1>5, <1>6, <1>9 DEF UnitInv, Present
<1>13. (WrittenOff(p)' <=> WrittenOff(p) \/ FALSE) /\ (SentBack(p)' <=> SentBack(p) \/ FALSE)
         /\ ~WrittenOff(p)
  BY <1>2, <1>9 DEF WrittenOff, SentBack, WritesOff, SendsBack, Idle, UnitInv, ScriptInv, Living
<1>14. p \in Sure' => GearInv(p)'
  BY <1>2, <1>4, <1>5, <1>6, <1>9, <1>13 DEF GearInv, Unworn, Present
<1>15. p \in Sure' => TermInv(p)'
  BY <1>1, <1>2, <1>4, <1>5, <1>6, <1>9, <1>13 DEF TermInv, Present
<1>16. \A t \in Scripts : script[t].p = p \/ script'[t] # script[t] => ScriptInv(t)' /\ LivedInv(t)'
  BY <1>1, <1>2, <1>4, <1>5, <1>6, <1>9, <1>13
     DEF ScriptInv, LivedInv, GearInv, UnitInv, Unworn, Living, Lived, Idle, Present, Rows, Data
<1>17. \A t \in Scripts : script[t].p # p => script'[t] = script[t] \/ script[t].at = "idle"
  BY <1>2, <1>9, IdleType
<1>. QED BY <1>4, <1>7, <1>8, <1>10, <1>11, <1>12, <1>14, <1>15, <1>16, <1>17, OnePlayer

-----------------------------------------------------------------------------
(* What a script does: the session.                                          *)

LEMMA LoadKeeps ==
    ASSUME Inductive, NEW s \in Scripts, NEW p \in Players, script[s].p = p, Load(s)
    PROVE  Inductive'
<1>. USE DEF Inductive
<1>1. Flags /\ Data
  BY Types
<1>2. /\ script[s].at = "load"
      /\ \/ script' = [script EXCEPT ![s].at = "set", ![s].row = saved[p]]
         \/ Ended(s)
      /\ client' = client \/ client' = [client EXCEPT ![p] = "error"]
      /\ UNCHANGED <<saved, record, unit, worn, lost, jail, online, saver, warden, arrests, dead, owed,
           free, doubtful>>
  BY DEF Load, bounds, truth, world, LoadPlayer
<1>4. /\ saved' \in [Players -> Rows] /\ doubtful' \subseteq Players /\ Sure' \subseteq Sure
      /\ \A q \in Players : saved'[q] = saved[q]
  BY <1>1, <1>2 DEF Data, Sure
<1>5. record' \in [Players -> Rows \cup {None}] /\ record' = record
  BY <1>1, <1>2 DEF Data
<1>7. \A q \in Others(p) : Untouched(q)
  BY <1>2, <1>4, <1>5 DEF Untouched, Others
<1>8. Flags'
  BY <1>1, <1>2, Zenon DEF Flags
<1>9. /\ script' \in [Scripts -> Script] /\ \A t \in Scripts \ {s} : script'[t] = script[t]
      /\ \/ /\ script'[s].at = "set" /\ script'[s].p = p /\ script'[s].row = saved[p]
                 /\ script'[s].own = script[s].own
         \/ script'[s] = Idle
  <2>1. CASE script' = [script EXCEPT ![s].at = "set", ![s].row = saved[p]]
    <3>. DEFINE new == [script[s] EXCEPT !.at = "set", !.row = saved[p]]
    <3>1. new \in Script /\ new.at = "set" /\ new.p = p /\ new.row = saved[p] /\ new.own = script[s].own
      BY <1>1, ScriptType, Elements DEF Script
    <3>2. script' = [script EXCEPT ![s] = new]
      BY <2>1
    <3>. HIDE DEF new
    <3>. QED BY <1>1, <3>1, <3>2, NewScript
  <2>2. CASE Ended(s)
    BY <1>1, <2>2, EndedMoves
  <2>. QED
  BY <1>2, <2>1, <2>2
<1>10. Data'
  BY <1>1, <1>2, <1>4, <1>5, <1>9 DEF Data
<1>11. SaverInv'
  BY <1>1, <1>2, <1>4, <1>9 DEF SaverInv, Others, Unworn
<1>12. UnitInv(p)'
  BY <1>1, <1>2, <1>5, <1>9 DEF UnitInv, Present
<1>13. (WrittenOff(p)' <=> WrittenOff(p)) /\ (SentBack(p)' <=> SentBack(p))
  BY <1>2, <1>9 DEF WrittenOff, SentBack, WritesOff, SendsBack, Idle
<1>14. p \in Sure' => GearInv(p)'
  BY <1>2, <1>4, <1>5, <1>9, <1>13 DEF GearInv, Unworn, Present
<1>15. p \in Sure' => TermInv(p)'
  BY <1>1, <1>2, <1>4, <1>5, <1>9, <1>13 DEF TermInv, Present
<1>16. \A t \in Scripts : script[t].p = p \/ script'[t] # script[t] => ScriptInv(t)' /\ LivedInv(t)'
  BY <1>1, <1>2, <1>4, <1>5, <1>9, Elements DEF ScriptInv, LivedInv, Unworn, Living, Lived, Idle
<1>17. \A t \in Scripts : script[t].p # p => script'[t] = script[t] \/ script[t].at = "idle"
  BY <1>2, <1>9
<1>. QED BY <1>4, <1>7, <1>8, <1>10, <1>11, <1>12, <1>14, <1>15, <1>16, <1>17, OnePlayer

LEMMA SetSessionKeeps ==
    ASSUME Inductive, NEW s \in Scripts, NEW p \in Players, script[s].p = p, SetSession(s)
    PROVE  Inductive'
<1>. USE DEF Inductive
<1>1. Flags /\ Data
  BY Types
<1>2. /\ script[s].at = "set" /\ record' = [record EXCEPT ![p] = script[s].row]
      /\ script' = [t \in Scripts |-> IF t = s THEN [script[s] EXCEPT !.at = "online"]
                                        ELSE IF script[t].p = p THEN [script[t] EXCEPT !.own = FALSE]
                                                  ELSE script[t]]
      /\ doubtful' = IF script[s].row # saved[p] \/ \E t \in Scripts : script[t].p = p /\ script[t].own
                    THEN doubtful \cup {p} ELSE doubtful
      /\ UNCHANGED <<saved, unit, client, worn, lost, jail, online, saver, warden, faults, arrests,
           dead, owed, free>>
  BY DEF SetSession, bounds, truth, world
<1>3. script[s].row \in Rows /\ script[s].row # None /\ ~script[s].own
  BY <1>2, LifeAssumption DEF ScriptInv, Living
<1>4. /\ saved' \in [Players -> Rows] /\ doubtful' \subseteq Players /\ Sure' \subseteq Sure
      /\ \A q \in Players : saved'[q] = saved[q]
      /\ p \in Sure' => script[s].row = saved[p] /\ \A t \in Scripts : script[t].p = p => ~script[t].own
  BY <1>1, <1>2 DEF Data, Sure
<1>5. /\ record' \in [Players -> Rows \cup {None}]
      /\ \A q \in Others(p) : record'[q] = record[q]
      /\ record'[p] = script[s].row /\ record'[p] # None
  BY <1>1, <1>2, <1>3 DEF Data, Others
<1>7. \A q \in Others(p) : Untouched(q)
  BY <1>2, <1>4, <1>5, <1>3 DEF Untouched, Others
<1>8. Flags'
  BY <1>1, <1>2, Zenon DEF Flags
<1>9. /\ script' \in [Scripts -> Script]
      /\ \A t \in Scripts : script[t].p # p => script'[t] = script[t]
      /\ script'[s].at = "online" /\ script'[s].p = p /\ ~script'[s].own
      /\ \A t \in Scripts \ {s} : script[t].p = p =>
            /\ script'[t].at = script[t].at /\ script'[t].p = p /\ script'[t].row = script[t].row
            /\ script'[t].here = script[t].here /\ ~script'[t].own
  <2>1. \A t \in Scripts : script'[t] \in Script
    <3>. SUFFICES ASSUME NEW t \in Scripts PROVE script'[t] \in Script
      OBVIOUS
    <3>1. script[t] \in Script /\ script[s] \in Script
      BY <1>1, ScriptType
    <3>2. [script[s] EXCEPT !.at = "online"] \in Script /\ [script[t] EXCEPT !.own = FALSE] \in Script
      BY <3>1 DEF Script
    <3>. QED BY <1>2, <3>1, <3>2
  <2>2. script[s] \in Script /\ \A t \in Scripts : script[t] \in Script
    BY <1>1, ScriptType
  <2>3. script' = [t \in Scripts |-> script'[t]]
    BY <1>2
  <2>4. script'[s] = [script[s] EXCEPT !.at = "online"]
    BY <1>2
  <2>5. \A t \in Scripts \ {s} : script'[t] = IF script[t].p = p THEN [script[t] EXCEPT !.own = FALSE]
          ELSE script[t]
    BY <1>2
  <2>6. script'[s].at = "online" /\ script'[s].p = p /\ ~script'[s].own
    BY <1>3, <2>2, <2>4 DEF Script
  <2>7. \A t \in Scripts \ {s} : script[t].p = p =>
            /\ script'[t].at = script[t].at /\ script'[t].p = p /\ script'[t].row = script[t].row
            /\ script'[t].here = script[t].here /\ ~script'[t].own
    <3>. SUFFICES ASSUME NEW t \in Scripts \ {s}, script[t].p = p
                  PROVE  /\ script'[t].at = script[t].at /\ script'[t].p = p
                              /\ script'[t].row = script[t].row
                         /\ script'[t].here = script[t].here /\ ~script'[t].own
      OBVIOUS
    <3>1. script'[t] = [script[t] EXCEPT !.own = FALSE] /\ script[t] \in Script
      BY <2>2, <2>5
    <3>. QED BY <3>1 DEF Script
  <2>8. script' \in [Scripts -> Script]
    BY <2>1, <2>3
  <2>9. \A t \in Scripts : script[t].p # p => script'[t] = script[t]
    BY <2>5
  <2>. QED
  BY <1>2, <2>6, <2>7, <2>8, <2>9
<1>10. Data'
  BY <1>1, <1>2, <1>4, <1>5, <1>3, <1>9 DEF Data
<1>11. SaverInv'
  BY <1>1, <1>2, <1>4, <1>3, <1>9 DEF SaverInv, Others, Unworn
<1>12. UnitInv(p)'
  BY <1>1, <1>2, <1>5, <1>3, <1>9 DEF UnitInv, Present
<1>13. p \in Sure' => ~WrittenOff(p) /\ ~SentBack(p)
  BY <1>4 DEF WrittenOff, SentBack, WritesOff, SendsBack, Idle
<1>14. p \in Sure' => GearInv(p)'
  BY <1>2, <1>4, <1>5, <1>3, <1>9, <1>13 DEF GearInv, Unworn, Present
<1>15. p \in Sure' => TermInv(p)'
  BY <1>1, <1>2, <1>4, <1>5, <1>3, <1>9, <1>13 DEF TermInv, Present
<1>16. \A t \in Scripts : script[t].p = p \/ script'[t] # script[t] => ScriptInv(t)' /\ LivedInv(t)'
  BY <1>2, <1>3, <1>4, <1>5, <1>9 DEF ScriptInv, LivedInv, Unworn, Living, Lived
<1>17. \A t \in Scripts : script[t].p # p => script'[t] = script[t] \/ script[t].at = "idle"
  BY <1>2, <1>9
<1>. QED BY <1>3, <1>4, <1>7, <1>8, <1>10, <1>11, <1>12, <1>14, <1>15, <1>16, <1>17, OnePlayer

LEMMA GoOnlineKeeps ==
    ASSUME Inductive, NEW s \in Scripts, NEW p \in Players, script[s].p = p, GoOnline(s)
    PROVE  Inductive'
<1>. USE DEF Inductive
<1>1. Flags /\ Data
  BY Types
<1>2. /\ script[s].at = "online"
      /\ RecordSession("start", {p}) \/ online' = online
      /\ client' = client \/ client' = [client EXCEPT ![p] = "menu"]
      /\ Ended(s)
      /\ UNCHANGED <<saved, record, unit, worn, lost, jail, saver, warden, arrests, dead, owed, free,
           doubtful>>
  BY DEF GoOnline, bounds, truth, world
<1>4. /\ saved' \in [Players -> Rows] /\ doubtful' \subseteq Players /\ Sure' \subseteq Sure
      /\ \A q \in Players : saved'[q] = saved[q]
  BY <1>1, <1>2 DEF Data, Sure
<1>5. record' \in [Players -> Rows \cup {None}] /\ record' = record
  BY <1>1, <1>2 DEF Data
<1>7. \A q \in Others(p) : Untouched(q)
  BY <1>2, <1>4, <1>5 DEF Untouched, Others
<1>8. Flags'
  BY <1>1, <1>2, Zenon DEF Flags, RecordSession
<1>9. /\ script' \in [Scripts -> Script] /\ \A t \in Scripts \ {s} : script'[t] = script[t]
      /\ script'[s] = Idle
  BY <1>1, <1>2, EndedMoves
<1>10. Data'
  BY <1>1, <1>2, <1>4, <1>5, <1>9 DEF Data
<1>11. SaverInv'
  BY <1>1, <1>2, <1>4, <1>9 DEF SaverInv, Others, Unworn
<1>12. UnitInv(p)'
  BY <1>1, <1>2, <1>5, <1>9 DEF UnitInv, Present
<1>13. (WrittenOff(p)' <=> WrittenOff(p)) /\ (SentBack(p)' <=> SentBack(p))
  BY <1>2, <1>9 DEF WrittenOff, SentBack, WritesOff, SendsBack, Idle
<1>14. p \in Sure' => GearInv(p)'
  BY <1>2, <1>4, <1>5, <1>9, <1>13 DEF GearInv, Unworn, Present
<1>15. p \in Sure' => TermInv(p)'
  BY <1>1, <1>2, <1>4, <1>5, <1>9, <1>13 DEF TermInv, Present
<1>16. \A t \in Scripts : script[t].p = p \/ script'[t] # script[t] => ScriptInv(t)' /\ LivedInv(t)'
  BY <1>1, <1>2, <1>4, <1>5, <1>9, <1>13 DEF ScriptInv, LivedInv, Unworn, Living, Lived, Idle
<1>17. \A t \in Scripts : script[t].p # p => script'[t] = script[t] \/ script[t].at = "idle"
  BY <1>2, <1>9
<1>. QED BY <1>4, <1>7, <1>8, <1>10, <1>11, <1>12, <1>14, <1>15, <1>16, <1>17, OnePlayer

-----------------------------------------------------------------------------
(* What a script does: a life begins, or goes on.                            *)

LEMMA NewLifeKeeps ==
    ASSUME Inductive, NEW s \in Scripts, NEW p \in Players, script[s].p = p, NewLife(s)
    PROVE  Inductive'
<1>. USE DEF Inductive
<1>1. Flags /\ Data
  BY Types
<1>2. /\ script[s].at = "life"
      /\ IF script[s].own THEN record' = [record EXCEPT ![p].gear = 0] ELSE UNCHANGED record
      /\ Save(p, [saved[p] EXCEPT !.gear = 0], FALSE)
      /\ script' = [script EXCEPT ![s].at = "alive", ![s].row.gear = 0]
      /\ UNCHANGED <<unit, client, worn, lost, jail, online, saver, warden, arrests, dead, owed, free>>
  BY DEF NewLife, bounds, truth, world
<1>3. script[s].row \in Rows /\ ~dead[p] /\ (script[s].own => record[p] # None)
  BY <1>2 DEF ScriptInv, Living
<1>4. /\ saved' \in [Players -> Rows] /\ doubtful' \subseteq Players /\ Sure' \subseteq Sure
      /\ \A q \in Others(p) : saved'[q] = saved[q]
      /\ p \in Sure' => saved'[p].alive = saved[p].alive /\ saved'[p].gear = 0
           /\ saved'[p].jail = saved[p].jail
  BY <1>1, <1>2, <1>3, Elements, SaveGearWrites
<1>5. /\ record' \in [Players -> Rows \cup {None}]
      /\ \A q \in Others(p) : record'[q] = record[q]
      /\ record'[p] = None <=> record[p] = None
      /\ ~script[s].own => record'[p] = record[p]
      /\ script[s].own => record'[p].alive = record[p].alive /\ record'[p].gear = 0
           /\ record'[p].jail = record[p].jail
  <2>1. CASE script[s].own
    <3>1. Record(p, "gear", 0)
      BY <1>2, <1>3, <2>1 DEF Record
    <3>. QED BY <1>1, <1>3, <2>1, <3>1, RecordGearWrites
  <2>2. CASE ~script[s].own
    BY <1>1, <1>2, <2>2 DEF Data
  <2>. QED
  BY <2>1, <2>2
<1>7. \A q \in Others(p) : Untouched(q)
  BY <1>2, <1>4, <1>5, <1>3 DEF Untouched, Others
<1>8. Flags'
  BY <1>1, <1>2, Zenon DEF Flags
<1>9. /\ script' \in [Scripts -> Script] /\ \A t \in Scripts \ {s} : script'[t] = script[t]
      /\ script'[s].at = "alive" /\ script'[s].row \in Rows /\ script'[s].row.jail = script[s].row.jail
      /\ script'[s].p = p /\ script'[s].own = script[s].own /\ script'[s].here = script[s].here
  <2>. DEFINE new == [script[s] EXCEPT !.at = "alive", !.row = [script[s].row EXCEPT !.gear = 0]]
  <2>1. new \in Script /\ new.at = "alive" /\ new.row \in Rows /\ new.row.jail = script[s].row.jail
      /\ new.p = p /\ new.own = script[s].own /\ new.here = script[s].here
    BY <1>1, <1>2, <1>3, ScriptType DEF Script, Rows
  <2>2. script' = [script EXCEPT ![s] = new]
    BY <1>2
  <2>. HIDE DEF new
  <2>. QED
  BY <1>1, <2>1, <2>2, NewScript
<1>10. Data'
  BY <1>1, <1>2, <1>4, <1>5, <1>3, <1>9 DEF Data
<1>11. SaverInv'
  BY <1>1, <1>2, <1>4, <1>3, <1>9 DEF SaverInv, Others, Unworn
<1>12. UnitInv(p)'
  BY <1>1, <1>2, <1>5, <1>3, <1>9 DEF UnitInv, Present
<1>13. (SentBack(p)' <=> SentBack(p)) /\ (WrittenOff(p)' => WrittenOff(p))
         /\ (~script[s].own => WrittenOff(p)' = WrittenOff(p))
  BY <1>2, <1>9 DEF WrittenOff, SentBack, WritesOff, SendsBack, Idle
<1>14. p \in Sure' => GearInv(p)'
  BY <1>2, <1>4, <1>5, <1>3, <1>9, <1>13 DEF GearInv, Unworn, Present, WrittenOff, WritesOff
<1>15. p \in Sure' => TermInv(p)'
  BY <1>1, <1>2, <1>4, <1>5, <1>3, <1>9, <1>13 DEF TermInv, Present
<1>16. \A t \in Scripts : script[t].p = p \/ script'[t] # script[t] => ScriptInv(t)' /\ LivedInv(t)'
  BY <1>1, <1>2, <1>4, <1>5, <1>9, <1>13 DEF ScriptInv, LivedInv, Unworn, Living, Lived, Idle
<1>17. \A t \in Scripts : script[t].p # p => script'[t] = script[t] \/ script[t].at = "idle"
  BY <1>2, <1>9
<1>. QED BY <1>3, <1>4, <1>7, <1>8, <1>10, <1>11, <1>12, <1>14, <1>15, <1>16, <1>17, OnePlayer

LEMMA SaveAliveKeeps ==
    ASSUME Inductive, NEW s \in Scripts, NEW p \in Players, script[s].p = p, SaveAlive(s)
    PROVE  Inductive'
<1>. USE DEF Inductive
<1>1. Flags /\ Data
  BY Types
<1>2. /\ script[s].at = "alive"
      /\ IF script[s].own THEN record' = [record EXCEPT ![p].alive = TRUE] ELSE UNCHANGED record
      /\ Save(p, [saved[p] EXCEPT !.alive = TRUE], FALSE)
      /\ To(s, "approve")
      /\ UNCHANGED <<unit, client, worn, lost, jail, online, saver, warden, arrests, dead, owed, free>>
  BY DEF SaveAlive, bounds, truth, world
<1>3. script[s].row \in Rows /\ ~dead[p] /\ (script[s].own => record[p] # None)
      /\ (script[s].here \/ script[s].own => script[s].here)
           /\ (script[s].here => script[s].own \/ p \notin Sure)
      /\ (p \in Sure => Unworn(p, saved[p].gear) /\ (script[s].own => Unworn(p, record[p].gear)))
  BY <1>2 DEF ScriptInv, LivedInv, Living, Lived
<1>4. /\ saved' \in [Players -> Rows] /\ doubtful' \subseteq Players /\ Sure' \subseteq Sure
      /\ \A q \in Others(p) : saved'[q] = saved[q]
      /\ p \in Sure' => saved'[p].alive = TRUE /\ saved'[p].gear = saved[p].gear
           /\ saved'[p].jail = saved[p].jail
  BY <1>1, <1>2, <1>3, Elements, SaveAliveWrites
<1>5. /\ record' \in [Players -> Rows \cup {None}]
      /\ \A q \in Others(p) : record'[q] = record[q]
      /\ record'[p] = None <=> record[p] = None
      /\ ~script[s].own => record'[p] = record[p]
      /\ script[s].own => record'[p].alive = TRUE /\ record'[p].gear = record[p].gear
           /\ record'[p].jail = record[p].jail
  <2>1. CASE script[s].own
    <3>1. Record(p, "alive", TRUE)
      BY <1>2, <1>3, <2>1 DEF Record
    <3>. QED BY <1>1, <1>3, <2>1, <3>1, RecordAliveWrites
  <2>2. CASE ~script[s].own
    BY <1>1, <1>2, <2>2 DEF Data
  <2>. QED
  BY <2>1, <2>2
<1>7. \A q \in Others(p) : Untouched(q)
  BY <1>2, <1>4, <1>5, <1>3 DEF Untouched, Others
<1>8. Flags'
  BY <1>1, <1>2, Zenon DEF Flags
<1>9. /\ script' \in [Scripts -> Script] /\ \A t \in Scripts \ {s} : script'[t] = script[t]
      /\ script'[s].at = "approve" /\ script'[s].row = script[s].row /\ script'[s].p = p
           /\ script'[s].own = script[s].own /\ script'[s].here = script[s].here
  BY <1>1, <1>2, ToMoves DEF Stages
<1>10. Data'
  BY <1>1, <1>2, <1>4, <1>5, <1>3, <1>9 DEF Data
<1>11. SaverInv'
  BY <1>1, <1>2, <1>4, <1>3, <1>9 DEF SaverInv, Others, Unworn
<1>12. UnitInv(p)'
  BY <1>1, <1>2, <1>5, <1>3, <1>9 DEF UnitInv, Present
<1>13. (WrittenOff(p)' <=> WrittenOff(p)) /\ (SentBack(p)' <=> SentBack(p))
  BY <1>2, <1>9 DEF WrittenOff, SentBack, WritesOff, SendsBack, Idle
<1>14. p \in Sure' => GearInv(p)'
  BY <1>2, <1>4, <1>5, <1>3, <1>9, <1>13 DEF GearInv, Unworn, Present
<1>15. p \in Sure' => TermInv(p)'
  BY <1>1, <1>2, <1>4, <1>5, <1>3, <1>9, <1>13 DEF TermInv, Present
<1>16. \A t \in Scripts : script[t].p = p \/ script'[t] # script[t] => ScriptInv(t)' /\ LivedInv(t)'
  BY <1>1, <1>2, <1>4, <1>5, <1>9, <1>13 DEF ScriptInv, LivedInv, Unworn, Living, Lived, Idle
<1>17. \A t \in Scripts : script[t].p # p => script'[t] = script[t] \/ script[t].at = "idle"
  BY <1>2, <1>9
<1>. QED BY <1>3, <1>4, <1>7, <1>8, <1>10, <1>11, <1>12, <1>14, <1>15, <1>16, <1>17, OnePlayer

LEMMA ApproveKeeps ==
    ASSUME Inductive, NEW s \in Scripts, NEW p \in Players, script[s].p = p, Approve(s)
    PROVE  Inductive'
<1>. USE DEF Inductive
<1>1. Flags /\ Data
  BY Types
<1>2. /\ script[s].at = "approve"
      /\ client' = client \/ client' = [client EXCEPT ![p] = "playing"]
      /\ \/ worn' = worn
         \/ script[s].here /\ worn' = [worn EXCEPT ![p] = LET gear ==
              IF script[s].own THEN record[p].gear ELSE script[s].row.gear
                                                    IN  IF gear = 0 THEN lost[p] + 1 ELSE gear]
      /\ IF script[s].row.jail > 0 /\ script[s].here THEN To(s, "jail") ELSE Ended(s)
      /\ UNCHANGED <<saved, record, unit, lost, jail, online, saver, warden, faults, arrests, dead,
           owed, free, doubtful>>
  BY DEF Approve, bounds, truth, world, StillServing
<1>3. script[s].row \in Rows /\ ~dead[p] /\ (script[s].own => record[p] # None)
      /\ (script[s].here \/ script[s].own => script[s].here)
           /\ (script[s].here => script[s].own \/ p \notin Sure)
      /\ (p \in Sure => Unworn(p, saved[p].gear) /\ (script[s].own => Unworn(p, record[p].gear)))
  BY <1>2 DEF ScriptInv, LivedInv, Living, Lived
<1>4. /\ saved' \in [Players -> Rows] /\ doubtful' \subseteq Players /\ Sure' \subseteq Sure
      /\ \A q \in Players : saved'[q] = saved[q]
  BY <1>1, <1>2 DEF Data, Sure
<1>5. record' \in [Players -> Rows \cup {None}] /\ record' = record
  BY <1>1, <1>2 DEF Data
<1>6. /\ worn' \in [Players -> Nat] /\ (p \in Sure /\ Unworn(p, worn[p]) => Unworn(p, worn'[p]))
      /\ \A q \in Others(p) : worn'[q] = worn[q]
  <2>1. CASE worn' = worn
    BY <1>1, <2>1 DEF Data
  <2>2. CASE worn' # worn
    <3>. DEFINE gear == IF script[s].own THEN record[p].gear ELSE script[s].row.gear
                new == IF gear = 0 THEN lost[p] + 1 ELSE gear
    <3>1. script[s].here /\ worn' = [worn EXCEPT ![p] = new]
      BY <1>2, <2>2
    <3>2. gear \in Nat /\ lost[p] \in Nat /\ (p \in Sure => gear = 0 \/ gear > lost[p])
      BY <1>1, <1>3, <3>1, Elements DEF Rows, Unworn
    <3>3. new \in Nat /\ (p \in Sure => new > lost[p])
      <4>. HIDE DEF gear
      <4>. QED BY <3>2
    <3>. HIDE DEF new
    <3>4. worn' \in [Players -> Nat] /\ worn'[p] = new /\ \A q \in Others(p) : worn'[q] = worn[q]
      BY <1>1, <3>1, <3>3 DEF Data, Others
    <3>. QED BY <1>2, <3>3, <3>4 DEF Unworn
  <2>. QED BY <2>1, <2>2
<1>7. \A q \in Others(p) : Untouched(q)
  BY <1>2, <1>4, <1>5, <1>3, <1>6 DEF Untouched, Others
<1>8. Flags'
  BY <1>1, <1>2, Zenon DEF Flags
<1>9. /\ script' \in [Scripts -> Script] /\ \A t \in Scripts \ {s} : script'[t] = script[t]
      /\ IF script[s].row.jail > 0 /\ script[s].here
         THEN script'[s].at = "jail" /\ script'[s].row = script[s].row /\ script'[s].p = p
                /\ script'[s].own = script[s].own /\ script'[s].here = script[s].here
         ELSE script'[s] = Idle
  BY <1>1, <1>2, ToMoves, EndedMoves DEF Stages
<1>10. Data'
  BY <1>1, <1>2, <1>4, <1>5, <1>3, <1>6, <1>9 DEF Data
<1>11. SaverInv'
  BY <1>1, <1>2, <1>4, <1>3, <1>6, <1>9 DEF SaverInv, Others, Unworn
<1>12. UnitInv(p)'
  BY <1>1, <1>2, <1>5, <1>3, <1>6, <1>9 DEF UnitInv, Present
<1>13. (WrittenOff(p)' <=> WrittenOff(p)) /\ (SentBack(p)' <=> SentBack(p))
  BY <1>2, <1>9, <1>3 DEF WrittenOff, SentBack, WritesOff, SendsBack, Idle
<1>14. p \in Sure' => GearInv(p)'
  BY <1>2, <1>4, <1>5, <1>3, <1>6, <1>9, <1>13 DEF GearInv, Unworn, Present
<1>15. p \in Sure' => TermInv(p)'
  BY <1>1, <1>2, <1>4, <1>5, <1>3, <1>6, <1>9, <1>13 DEF TermInv, Present
<1>16. \A t \in Scripts : script[t].p = p \/ script'[t] # script[t] => ScriptInv(t)' /\ LivedInv(t)'
  BY <1>1, <1>2, <1>4, <1>5, <1>9, <1>13 DEF ScriptInv, LivedInv, Unworn, Living, Lived, Idle
<1>17. \A t \in Scripts : script[t].p # p => script'[t] = script[t] \/ script[t].at = "idle"
  BY <1>2, <1>9
<1>. QED BY <1>3, <1>4, <1>7, <1>8, <1>10, <1>11, <1>12, <1>14, <1>15, <1>16, <1>17, OnePlayer

LEMMA JailAgainKeeps ==
    ASSUME Inductive, NEW s \in Scripts, NEW p \in Players, script[s].p = p, JailAgain(s)
    PROVE  Inductive'
<1>. USE DEF Inductive
<1>1. Flags /\ Data
  BY Types
<1>2. /\ script[s].at = "jail"
      /\ \/ /\ script[s].here /\ jail' = [jail EXCEPT ![p] = script[s].row.jail] /\ To(s, "term")
            /\ doubtful' = IF TermChanged(s) THEN doubtful \cup {p} ELSE doubtful
         \/ ~script[s].here /\ Ended(s) /\ UNCHANGED <<jail, doubtful>>
      /\ UNCHANGED <<saved, record, unit, client, worn, lost, online, saver, warden, faults, arrests,
           dead, owed, free>>
  BY DEF JailAgain, bounds, truth, world
<1>3. script[s].row \in Rows /\ ~dead[p] /\ (script[s].own => record[p] # None)
      /\ (script[s].here \/ script[s].own => script[s].here)
           /\ (script[s].here => script[s].own \/ p \notin Sure)
      /\ (p \in Sure => Unworn(p, saved[p].gear) /\ (script[s].own => Unworn(p, record[p].gear))
           /\ (script[s].own => owed[p] <= record[p].jail)) /\ script[s].row.jail \in Nat
                /\ script[s].row.jail > 0
  BY <1>2 DEF ScriptInv, LivedInv, Living, Lived, TermInv, Rows
<1>4. /\ saved' \in [Players -> Rows] /\ doubtful' \subseteq Players /\ Sure' \subseteq Sure
      /\ \A q \in Players : saved'[q] = saved[q]
  BY <1>1, <1>2 DEF Data, Sure
<1>5. record' \in [Players -> Rows \cup {None}] /\ record' = record
  BY <1>1, <1>2 DEF Data
<1>6. /\ jail'[p] = (IF script[s].here THEN script[s].row.jail ELSE jail[p])
      /\ \A q \in Others(p) : jail'[q] = jail[q]
  BY <1>1, <1>2, <1>3 DEF Flags, Data, Others
<1>7. \A q \in Others(p) : Untouched(q)
  BY <1>2, <1>4, <1>5, <1>3, <1>6 DEF Untouched, Others
<1>8. Flags'
  BY <1>1, <1>2, Zenon DEF Flags
<1>9. /\ script' \in [Scripts -> Script] /\ \A t \in Scripts \ {s} : script'[t] = script[t]
      /\ IF script[s].here
         THEN script'[s].at = "term" /\ script'[s].row = script[s].row /\ script'[s].p = p
                /\ script'[s].own = script[s].own /\ script'[s].here = script[s].here
         ELSE script'[s] = Idle
  BY <1>1, <1>2, ToMoves, EndedMoves DEF Stages
<1>10. Data'
  BY <1>1, <1>2, <1>4, <1>5, <1>3, <1>6, <1>9 DEF Data
<1>11. SaverInv'
  BY <1>1, <1>2, <1>4, <1>3, <1>6, <1>9 DEF SaverInv, Others, Unworn
<1>12. UnitInv(p)'
  BY <1>1, <1>2, <1>5, <1>3, <1>6, <1>9 DEF UnitInv, Present
<1>13. (WrittenOff(p)' <=> WrittenOff(p)) /\ (SentBack(p)' => SentBack(p))
         /\ (~script[s].here => SentBack(p)' = SentBack(p))
  BY <1>2, <1>3, <1>9 DEF WrittenOff, SentBack, WritesOff, SendsBack, Idle
<1>14. p \in Sure' => GearInv(p)'
  BY <1>2, <1>4, <1>5, <1>3, <1>6, <1>9, <1>13 DEF GearInv, Unworn, Present
<1>15. p \in Sure' => TermInv(p)'
  <2>. SUFFICES ASSUME p \in Sure' PROVE TermInv(p)'
    OBVIOUS
  <2>1. p \in Sure /\ TermInv(p)
    BY <1>4
  <2>2. CASE script[s].here
    <3>1. script[s].own /\ record[p].jail = script[s].row.jail
      BY <1>1, <1>2, <1>3, <2>1, <2>2 DEF TermChanged, Sure
    <3>2. jail'[p] = record[p].jail /\ record[p].jail > 0 /\ record[p].jail # None /\ record[p] # None
      BY <1>3, <1>6, <2>2, <3>1, NoneIsNobody
    <3>. QED BY <1>2, <1>4, <1>5, <2>1, <3>2 DEF TermInv
  <2>3. CASE ~script[s].here
    BY <1>2, <1>4, <1>5, <1>6, <1>13, <2>1, <2>3 DEF TermInv
  <2>. QED BY <2>2, <2>3
<1>16. \A t \in Scripts : script[t].p = p \/ script'[t] # script[t] => ScriptInv(t)' /\ LivedInv(t)'
  BY <1>1, <1>2, <1>4, <1>5, <1>9, <1>13 DEF ScriptInv, LivedInv, Unworn, Living, Lived, Idle
<1>17. \A t \in Scripts : script[t].p # p => script'[t] = script[t] \/ script[t].at = "idle"
  BY <1>2, <1>9
<1>. QED BY <1>3, <1>4, <1>7, <1>8, <1>10, <1>11, <1>12, <1>14, <1>15, <1>16, <1>17, OnePlayer

LEMMA SaveTermKeeps ==
    ASSUME Inductive, NEW s \in Scripts, NEW p \in Players, script[s].p = p, SaveTerm(s)
    PROVE  Inductive'
<1>. USE DEF Inductive
<1>1. Flags /\ Data
  BY Types
<1>2. /\ script[s].at = "term"
      /\ Save(p, [saved[p] EXCEPT !.jail = script[s].row.jail], TermChanged(s))
           /\ Record(p, "jail", script[s].row.jail)
      /\ Ended(s)
      /\ UNCHANGED <<unit, client, worn, lost, jail, online, saver, warden, arrests, dead, owed, free>>
  BY DEF SaveTerm, bounds, truth, world
<1>3. script[s].row \in Rows /\ ~dead[p] /\ (script[s].own => record[p] # None)
      /\ (script[s].here \/ script[s].own => script[s].here)
           /\ (script[s].here => script[s].own \/ p \notin Sure)
      /\ (p \in Sure => Unworn(p, saved[p].gear) /\ (script[s].own => Unworn(p, record[p].gear)))
           /\ script[s].row.jail \in Nat
  BY <1>2 DEF ScriptInv, LivedInv, Living, Lived, Rows
<1>4. /\ saved' \in [Players -> Rows] /\ doubtful' \subseteq Players /\ Sure' \subseteq Sure
      /\ \A q \in Others(p) : saved'[q] = saved[q]
      /\ p \in Sure' => saved'[p].alive = saved[p].alive /\ saved'[p].gear = saved[p].gear
           /\ saved'[p].jail = script[s].row.jail /\ ~(TermChanged(s))
  BY <1>1, <1>2, <1>3, Elements, SaveJailWrites
<1>5. /\ record' \in [Players -> Rows \cup {None}]
      /\ \A q \in Others(p) : record'[q] = record[q]
      /\ record'[p] = None <=> record[p] = None
      /\ record[p] # None => record'[p].alive = record[p].alive /\ record'[p].gear = record[p].gear
           /\ record'[p].jail = script[s].row.jail
  BY <1>1, <1>2, <1>3, Elements, RecordJailWrites
<1>7. \A q \in Others(p) : Untouched(q)
  BY <1>2, <1>4, <1>5, <1>3 DEF Untouched, Others
<1>8. Flags'
  BY <1>1, <1>2, Zenon DEF Flags
<1>9. /\ script' \in [Scripts -> Script] /\ \A t \in Scripts \ {s} : script'[t] = script[t]
      /\ script'[s] = Idle
  BY <1>1, <1>2, EndedMoves
<1>10. Data'
  BY <1>1, <1>2, <1>4, <1>5, <1>3, <1>9 DEF Data
<1>11. SaverInv'
  BY <1>1, <1>2, <1>4, <1>3, <1>9 DEF SaverInv, Others, Unworn
<1>12. UnitInv(p)'
  BY <1>1, <1>2, <1>5, <1>3, <1>9 DEF UnitInv, Present
<1>13. (WrittenOff(p)' <=> WrittenOff(p)) /\ (SentBack(p)' <=> SentBack(p))
  BY <1>2, <1>9 DEF WrittenOff, SentBack, WritesOff, SendsBack, Idle
<1>14. p \in Sure' => GearInv(p)'
  BY <1>2, <1>4, <1>5, <1>3, <1>9, <1>13 DEF GearInv, Unworn, Present
<1>15. p \in Sure' => TermInv(p)'
  BY <1>1, <1>2, <1>4, <1>5, <1>3, <1>9, <1>13 DEF TermInv, Present, TermChanged
<1>16. \A t \in Scripts : script[t].p = p \/ script'[t] # script[t] => ScriptInv(t)' /\ LivedInv(t)'
  BY <1>1, <1>2, <1>4, <1>5, <1>9, <1>13 DEF ScriptInv, LivedInv, Unworn, Living, Lived, Idle
<1>17. \A t \in Scripts : script[t].p # p => script'[t] = script[t] \/ script[t].at = "idle"
  BY <1>2, <1>9
<1>. QED BY <1>3, <1>4, <1>7, <1>8, <1>10, <1>11, <1>12, <1>14, <1>15, <1>16, <1>17, OnePlayer

LEMMA RaiseKeeps ==
    ASSUME Inductive, NEW s \in Scripts, NEW p \in Players, script[s].p = p, Raise(s)
    PROVE  Inductive'
<1>. USE DEF Inductive
<1>1. Flags /\ Data
  BY Types
<1>2. /\ script[s].at = "raise"
      /\ IF script[s].own THEN Record(p, "alive", TRUE) ELSE UNCHANGED record
      /\ Save(p, [saved[p] EXCEPT !.alive = TRUE], FALSE)
      /\ Ended(s)
      /\ client' = client \/ client' = [client EXCEPT ![p] = "playing"]
      /\ worn' = worn \/ (script[s].here /\ worn' = [worn EXCEPT ![p] = script[s].row.gear])
      /\ UNCHANGED <<unit, lost, jail, online, saver, warden, arrests, dead, owed, free>>
  BY DEF Raise, bounds, truth, world
<1>3. script[s].row \in Rows /\ ~dead[p] /\ (script[s].own => record[p] # None)
      /\ (script[s].here \/ script[s].own => script[s].here)
           /\ (script[s].here => script[s].own \/ p \notin Sure)
      /\ (p \in Sure => Unworn(p, saved[p].gear) /\ (script[s].own => Unworn(p, record[p].gear))
           /\ (script[s].here => Unworn(p, script[s].row.gear))) /\ script[s].row.gear \in Nat
  BY <1>2 DEF ScriptInv, LivedInv, Living, Lived, Rows
<1>4. /\ saved' \in [Players -> Rows] /\ doubtful' \subseteq Players /\ Sure' \subseteq Sure
      /\ \A q \in Others(p) : saved'[q] = saved[q]
      /\ p \in Sure' => saved'[p].alive = TRUE /\ saved'[p].gear = saved[p].gear
           /\ saved'[p].jail = saved[p].jail
  BY <1>1, <1>2, <1>3, Elements, SaveAliveWrites
<1>5. /\ record' \in [Players -> Rows \cup {None}]
      /\ \A q \in Others(p) : record'[q] = record[q]
      /\ record'[p] = None <=> record[p] = None
      /\ ~script[s].own => record'[p] = record[p]
      /\ script[s].own => record'[p].alive = TRUE /\ record'[p].gear = record[p].gear
           /\ record'[p].jail = record[p].jail
  <2>1. CASE script[s].own
    <3>1. Record(p, "alive", TRUE)
      BY <1>2, <2>1
    <3>. QED BY <1>1, <1>3, <2>1, <3>1, RecordAliveWrites
  <2>2. CASE ~script[s].own
    BY <1>1, <1>2, <2>2 DEF Data
  <2>. QED
  BY <2>1, <2>2
<1>6. /\ worn' \in [Players -> Nat] /\ (p \in Sure /\ Unworn(p, worn[p]) => Unworn(p, worn'[p]))
      /\ \A q \in Others(p) : worn'[q] = worn[q]
  BY <1>1, <1>2, <1>3 DEF Flags, Data, Others
<1>7. \A q \in Others(p) : Untouched(q)
  BY <1>2, <1>4, <1>5, <1>3, <1>6 DEF Untouched, Others
<1>8. Flags'
  BY <1>1, <1>2, Zenon DEF Flags
<1>9. /\ script' \in [Scripts -> Script] /\ \A t \in Scripts \ {s} : script'[t] = script[t]
      /\ script'[s] = Idle
  BY <1>1, <1>2, EndedMoves
<1>10. Data'
  BY <1>1, <1>2, <1>4, <1>5, <1>3, <1>6, <1>9 DEF Data
<1>11. SaverInv'
  BY <1>1, <1>2, <1>4, <1>3, <1>6, <1>9 DEF SaverInv, Others, Unworn
<1>12. UnitInv(p)'
  BY <1>1, <1>2, <1>5, <1>3, <1>6, <1>9 DEF UnitInv, Present
<1>13. (WrittenOff(p)' <=> WrittenOff(p)) /\ (SentBack(p)' <=> SentBack(p))
  BY <1>2, <1>9 DEF WrittenOff, SentBack, WritesOff, SendsBack, Idle
<1>14. p \in Sure' => GearInv(p)'
  BY <1>2, <1>4, <1>5, <1>3, <1>6, <1>9, <1>13 DEF GearInv, Unworn, Present
<1>15. p \in Sure' => TermInv(p)'
  BY <1>1, <1>2, <1>4, <1>5, <1>3, <1>6, <1>9, <1>13 DEF TermInv, Present
<1>16. \A t \in Scripts : script[t].p = p \/ script'[t] # script[t] => ScriptInv(t)' /\ LivedInv(t)'
  BY <1>1, <1>2, <1>4, <1>5, <1>9, <1>13 DEF ScriptInv, LivedInv, Unworn, Living, Lived, Idle
<1>17. \A t \in Scripts : script[t].p # p => script'[t] = script[t] \/ script[t].at = "idle"
  BY <1>2, <1>9
<1>. QED BY <1>3, <1>4, <1>7, <1>8, <1>10, <1>11, <1>12, <1>14, <1>15, <1>16, <1>17, OnePlayer

-----------------------------------------------------------------------------
(* The autosave and the warden.                                              *)

LEMMA AutosaveAliveKeeps ==
    ASSUME Inductive, NEW p \in Players, saver.p = p, AutosaveAlive
    PROVE  Inductive'
<1>. USE DEF Inductive
<1>1. Flags /\ Data
  BY Types
<1>2. /\ saver.at = "alive"
      /\ Save(p, [saved[p] EXCEPT !.alive = TRUE], saver.old /\ ~saved[p].alive)
      /\ saver' = [saver EXCEPT !.at = "look"]
      /\ UNCHANGED <<record, unit, client, worn, lost, jail, online, script, warden, arrests, dead,
           owed, free>>
  BY DEF AutosaveAlive, bounds, truth, world
<1>3. (p \in Sure => GearInv(p)) /\ UnitInv(p) /\ (~saver.old => unit[p] = "spawned")
  BY <1>2 DEF SaverInv
<1>4. /\ saved' \in [Players -> Rows] /\ doubtful' \subseteq Players /\ Sure' \subseteq Sure
      /\ \A q \in Others(p) : saved'[q] = saved[q]
      /\ p \in Sure' => saved'[p].alive = TRUE /\ saved'[p].gear = saved[p].gear
           /\ saved'[p].jail = saved[p].jail /\ ~(saver.old /\ ~saved[p].alive)
  BY <1>1, <1>2, <1>3, Elements, SaveAliveWrites
<1>5. record' \in [Players -> Rows \cup {None}] /\ record' = record
  BY <1>1, <1>2 DEF Data
<1>7. \A q \in Others(p) : Untouched(q)
  BY <1>2, <1>4, <1>5, <1>3 DEF Untouched, Others
<1>8. Flags'
  BY <1>1, <1>2, Zenon DEF Flags
<1>10. Data'
  BY <1>1, <1>2, <1>4, <1>5, <1>3 DEF Data
<1>11. SaverInv'
  BY <1>1, <1>2, <1>4, <1>3 DEF SaverInv, Others, Unworn
<1>12. UnitInv(p)'
  BY <1>1, <1>2, <1>5, <1>3 DEF UnitInv, Present
<1>13. WrittenOff(p)' = WrittenOff(p) /\ SentBack(p)' = SentBack(p)
  BY <1>2 DEF WrittenOff, SentBack, WritesOff, SendsBack
<1>14. p \in Sure' => GearInv(p)'
  BY <1>2, <1>4, <1>5, <1>3, <1>13 DEF GearInv, Unworn, Present, UnitInv
<1>15. p \in Sure' => TermInv(p)'
  BY <1>1, <1>2, <1>4, <1>5, <1>3, <1>13 DEF TermInv, Present
<1>16. \A t \in Scripts : script[t].p = p \/ script'[t] # script[t] => ScriptInv(t)' /\ LivedInv(t)'
  BY <1>1, <1>2, <1>3, <1>4, <1>5, <1>13 DEF ScriptInv, LivedInv, Unworn, Living, Lived
<1>17. \A t \in Scripts : script[t].p # p => script'[t] = script[t] \/ script[t].at = "idle"
  BY <1>2
<1>. QED BY <1>3, <1>4, <1>7, <1>8, <1>10, <1>11, <1>12, <1>14, <1>15, <1>16, <1>17, OnePlayer

LEMMA LookAtGearKeeps ==
    ASSUME Inductive, NEW p \in Players, saver.p = p, LookAtGear
    PROVE  Inductive'
<1>. USE DEF Inductive
<1>1. Flags /\ Data
  BY Types
<1>2. /\ saver.at = "look"
      /\ saver' = IF saver.old THEN NoSave ELSE [saver EXCEPT !.at = "gear", !.gear = worn[p]]
      /\ UNCHANGED <<saved, record, unit, client, worn, lost, jail, online, script, warden, faults,
           arrests, dead, owed, free, doubtful>>
  BY DEF LookAtGear, bounds, truth, world
<1>3. (p \in Sure => GearInv(p)) /\ UnitInv(p) /\ (~saver.old => unit[p] = "spawned") /\ worn[p] \in Nat
  BY <1>1, <1>2, Elements DEF SaverInv
<1>4. /\ saved' \in [Players -> Rows] /\ doubtful' \subseteq Players /\ Sure' \subseteq Sure
      /\ \A q \in Players : saved'[q] = saved[q]
  BY <1>1, <1>2 DEF Data, Sure
<1>5. record' \in [Players -> Rows \cup {None}] /\ record' = record
  BY <1>1, <1>2 DEF Data
<1>7. \A q \in Others(p) : Untouched(q)
  BY <1>2, <1>4, <1>5, <1>3 DEF Untouched, Others
<1>8. Flags'
  BY <1>1, <1>2, Zenon DEF Flags
<1>10. Data'
  BY <1>1, <1>2, <1>4, <1>5, <1>3 DEF Data, NoSave
<1>11. SaverInv'
  BY <1>1, <1>2, <1>4, <1>3 DEF SaverInv, Others, Unworn, NoSave, GearInv
<1>12. UnitInv(p)'
  BY <1>1, <1>2, <1>5, <1>3 DEF UnitInv, Present
<1>13. WrittenOff(p)' = WrittenOff(p) /\ SentBack(p)' = SentBack(p)
  BY <1>2 DEF WrittenOff, SentBack, WritesOff, SendsBack
<1>14. p \in Sure' => GearInv(p)'
  BY <1>2, <1>4, <1>5, <1>3, <1>13 DEF GearInv, Unworn, Present
<1>15. p \in Sure' => TermInv(p)'
  BY <1>1, <1>2, <1>4, <1>5, <1>3, <1>13 DEF TermInv, Present
<1>16. \A t \in Scripts : script[t].p = p \/ script'[t] # script[t] => ScriptInv(t)' /\ LivedInv(t)'
  BY <1>1, <1>2, <1>3, <1>4, <1>5, <1>13 DEF ScriptInv, LivedInv, Unworn, Living, Lived
<1>17. \A t \in Scripts : script[t].p # p => script'[t] = script[t] \/ script[t].at = "idle"
  BY <1>2
<1>. QED BY <1>3, <1>4, <1>7, <1>8, <1>10, <1>11, <1>12, <1>14, <1>15, <1>16, <1>17, OnePlayer

LEMMA AutosaveGearKeeps ==
    ASSUME Inductive, NEW p \in Players, saver.p = p, AutosaveGear
    PROVE  Inductive'
<1>. USE DEF Inductive
<1>1. Flags /\ Data
  BY Types
<1>2. /\ saver.at = "gear"
      /\ Save(p, [saved[p] EXCEPT !.gear = saver.gear], saver.old /\ saved[p].gear # saver.gear)
      /\ IF faults' = faults THEN Record(p, "gear", saver.gear) ELSE UNCHANGED record
      /\ saver' = NoSave
      /\ UNCHANGED <<unit, client, worn, lost, jail, online, script, warden, arrests, dead, owed, free>>
  BY DEF AutosaveGear, bounds, truth, world
<1>3. (p \in Sure => GearInv(p)) /\ UnitInv(p) /\ (~saver.old => unit[p] = "spawned")
        /\ saver.gear \in Nat /\ (~saver.old /\ p \in Sure => Unworn(p, saver.gear))
  BY <1>1, <1>2 DEF SaverInv, Data
<1>4. /\ saved' \in [Players -> Rows] /\ doubtful' \subseteq Players /\ Sure' \subseteq Sure
      /\ \A q \in Others(p) : saved'[q] = saved[q]
      /\ p \in Sure' => saved'[p].alive = saved[p].alive /\ saved'[p].gear = saver.gear
           /\ saved'[p].jail = saved[p].jail /\ ~(saver.old /\ saved[p].gear # saver.gear)
  BY <1>1, <1>2, <1>3, Elements, SaveGearWrites
<1>5. /\ record' \in [Players -> Rows \cup {None}]
      /\ \A q \in Others(p) : record'[q] = record[q]
      /\ record'[p] = None <=> record[p] = None
      /\ record[p] # None => /\ record'[p].alive = record[p].alive /\ record'[p].jail = record[p].jail
                          /\ record'[p].gear \in {record[p].gear, saver.gear}
  <2>1. CASE Record(p, "gear", saver.gear)
    BY <1>1, <1>3, <2>1, RecordGearWrites
  <2>2. CASE record' = record
    BY <1>1, <2>2 DEF Data
  <2>. QED
  BY <1>2, <2>1, <2>2
<1>7. \A q \in Others(p) : Untouched(q)
  BY <1>2, <1>4, <1>5, <1>3 DEF Untouched, Others
<1>8. Flags'
  BY <1>1, <1>2, Zenon DEF Flags
<1>10. Data'
  BY <1>1, <1>2, <1>4, <1>5, <1>3 DEF Data, NoSave
<1>11. SaverInv'
  BY <1>1, <1>2, <1>4, <1>3 DEF SaverInv, Others, Unworn, NoSave
<1>12. UnitInv(p)'
  BY <1>1, <1>2, <1>5, <1>3 DEF UnitInv, Present
<1>13. WrittenOff(p)' = WrittenOff(p) /\ SentBack(p)' = SentBack(p)
  BY <1>2 DEF WrittenOff, SentBack, WritesOff, SendsBack
<1>14. p \in Sure' => GearInv(p)'
  BY <1>2, <1>4, <1>5, <1>3, <1>13 DEF GearInv, Unworn, Present
<1>15. p \in Sure' => TermInv(p)'
  BY <1>1, <1>2, <1>4, <1>5, <1>3, <1>13 DEF TermInv, Present
<1>16. \A t \in Scripts : script[t].p = p \/ script'[t] # script[t] => ScriptInv(t)' /\ LivedInv(t)'
  BY <1>1, <1>2, <1>3, <1>4, <1>5, <1>13 DEF ScriptInv, LivedInv, Unworn, Living, Lived
<1>17. \A t \in Scripts : script[t].p # p => script'[t] = script[t] \/ script[t].at = "idle"
  BY <1>2
<1>. QED BY <1>3, <1>4, <1>7, <1>8, <1>10, <1>11, <1>12, <1>14, <1>15, <1>16, <1>17, OnePlayer

LEMMA SaveTimeKeeps ==
    ASSUME Inductive, NEW p \in Players, warden.p = p, SaveTime
    PROVE  Inductive'
<1>. USE DEF Inductive
<1>1. Flags /\ Data
  BY Types
<1>2. /\ warden.at = "act" /\ warden.left > 0
      /\ Save(p, [saved[p] EXCEPT !.jail = warden.left], jail[p] # warden.left)
      /\ warden' = NoCheck
      /\ UNCHANGED <<record, unit, client, worn, lost, jail, online, script, saver, arrests, dead,
           owed, free>>
  BY DEF SaveTime, bounds, truth, world
<1>3. warden.left \in Nat /\ warden.left # None
  BY <1>1, NoneIsNobody DEF Data
<1>4. /\ saved' \in [Players -> Rows] /\ doubtful' \subseteq Players /\ Sure' \subseteq Sure
      /\ \A q \in Others(p) : saved'[q] = saved[q]
      /\ p \in Sure' => saved'[p].alive = saved[p].alive /\ saved'[p].gear = saved[p].gear
           /\ saved'[p].jail = warden.left /\ ~(jail[p] # warden.left)
  BY <1>1, <1>2, <1>3, Elements, SaveJailWrites
<1>5. record' \in [Players -> Rows \cup {None}] /\ record' = record
  BY <1>1, <1>2 DEF Data
<1>7. \A q \in Others(p) : Untouched(q)
  BY <1>2, <1>4, <1>5, <1>3 DEF Untouched, Others
<1>8. Flags'
  BY <1>1, <1>2, Zenon DEF Flags
<1>10. Data'
  BY <1>1, <1>2, <1>4, <1>5, <1>3 DEF Data, NoCheck
<1>11. SaverInv'
  BY <1>1, <1>2, <1>4, <1>3 DEF SaverInv, Others, Unworn, NoCheck
<1>12. UnitInv(p)'
  BY <1>1, <1>2, <1>5, <1>3 DEF UnitInv, Present
<1>13. WrittenOff(p)' = WrittenOff(p) /\ SentBack(p)' = SentBack(p)
  BY <1>2 DEF WrittenOff, SentBack, WritesOff, SendsBack
<1>14. p \in Sure' => GearInv(p)'
  BY <1>2, <1>4, <1>5, <1>3, <1>13 DEF GearInv, Unworn, Present
<1>15. p \in Sure' => TermInv(p)'
  BY <1>1, <1>2, <1>4, <1>5, <1>3, <1>13 DEF TermInv, Present
<1>16. \A t \in Scripts : script[t].p = p \/ script'[t] # script[t] => ScriptInv(t)' /\ LivedInv(t)'
  BY <1>1, <1>2, <1>3, <1>4, <1>5, <1>13 DEF ScriptInv, LivedInv, Unworn, Living, Lived
<1>17. \A t \in Scripts : script[t].p # p => script'[t] = script[t] \/ script[t].at = "idle"
  BY <1>2
<1>. QED BY <1>3, <1>4, <1>7, <1>8, <1>10, <1>11, <1>12, <1>14, <1>15, <1>16, <1>17, OnePlayer

LEMMA ReleaseKeeps ==
    ASSUME Inductive, NEW p \in Players, warden.p = p, Release
    PROVE  Inductive'
<1>. USE DEF Inductive
<1>1. Flags /\ Data
  BY Types
<1>2. /\ warden.at = "act"
      /\ jail' = [jail EXCEPT ![p] = None]
      /\ doubtful' = IF jail[p] \notin {0, None} THEN doubtful \cup {p} ELSE doubtful
      /\ warden' = [warden EXCEPT !.at = "clear"]
      /\ UNCHANGED <<saved, record, unit, client, worn, lost, online, script, saver, faults, arrests,
           dead, owed, free>>
  BY DEF Release, bounds, truth, world
<1>3. warden.left \in Nat /\ owed[p] \in Nat
  BY <1>1, Elements DEF Data
<1>4. /\ saved' \in [Players -> Rows] /\ doubtful' \subseteq Players /\ Sure' \subseteq Sure
      /\ \A q \in Players : saved'[q] = saved[q]
      /\ p \in Sure' => jail[p] \in {0, None}
  BY <1>1, <1>2 DEF Data, Sure
<1>5. record' \in [Players -> Rows \cup {None}] /\ record' = record
  BY <1>1, <1>2 DEF Data
<1>6. /\ jail'[p] = None
      /\ \A q \in Others(p) : jail'[q] = jail[q]
  BY <1>1, <1>2, <1>3 DEF Flags, Data, Others
<1>7. \A q \in Others(p) : Untouched(q)
  BY <1>2, <1>4, <1>5, <1>3, <1>6 DEF Untouched, Others
<1>8. Flags'
  BY <1>1, <1>2, Zenon DEF Flags
<1>10. Data'
  BY <1>1, <1>2, <1>4, <1>5, <1>3, <1>6 DEF Data
<1>11. SaverInv'
  BY <1>1, <1>2, <1>4, <1>3, <1>6 DEF SaverInv, Others, Unworn
<1>12. UnitInv(p)'
  BY <1>1, <1>2, <1>5, <1>3, <1>6 DEF UnitInv, Present
<1>13. WrittenOff(p)' = WrittenOff(p) /\ SentBack(p)' = SentBack(p)
  BY <1>2 DEF WrittenOff, SentBack, WritesOff, SendsBack
<1>14. p \in Sure' => GearInv(p)'
  BY <1>2, <1>4, <1>5, <1>3, <1>6, <1>13 DEF GearInv, Unworn, Present
<1>15. p \in Sure' => TermInv(p)'
  BY <1>1, <1>2, <1>4, <1>5, <1>3, <1>6, <1>13 DEF TermInv, Present
<1>16. \A t \in Scripts : script[t].p = p \/ script'[t] # script[t] => ScriptInv(t)' /\ LivedInv(t)'
  BY <1>1, <1>2, <1>3, <1>4, <1>5, <1>13 DEF ScriptInv, LivedInv, Unworn, Living, Lived
<1>17. \A t \in Scripts : script[t].p # p => script'[t] = script[t] \/ script[t].at = "idle"
  BY <1>2
<1>. QED BY <1>3, <1>4, <1>7, <1>8, <1>10, <1>11, <1>12, <1>14, <1>15, <1>16, <1>17, OnePlayer

LEMMA ClearSentenceKeeps ==
    ASSUME Inductive, NEW p \in Players, warden.p = p, ClearSentence
    PROVE  Inductive'
<1>. USE DEF Inductive
<1>1. Flags /\ Data
  BY Types
<1>2. /\ warden.at = "clear"
      /\ Save(p, [saved[p] EXCEPT !.jail = 0], jail[p] # None) /\ Record(p, "jail", 0)
      /\ owed' = [owed EXCEPT ![p] = 0] /\ free' = [free EXCEPT ![p] = TRUE]
      /\ warden' = NoCheck
      /\ UNCHANGED <<unit, client, worn, lost, jail, online, script, saver, arrests, dead>>
  BY DEF ClearSentence, bounds, truth, world
<1>4. /\ saved' \in [Players -> Rows] /\ doubtful' \subseteq Players /\ Sure' \subseteq Sure
      /\ \A q \in Others(p) : saved'[q] = saved[q]
      /\ p \in Sure' => saved'[p].alive = saved[p].alive /\ saved'[p].gear = saved[p].gear
           /\ saved'[p].jail = 0 /\ ~(jail[p] # None)
  BY <1>1, <1>2, Elements, SaveJailWrites
<1>5. /\ record' \in [Players -> Rows \cup {None}]
      /\ \A q \in Others(p) : record'[q] = record[q]
      /\ record'[p] = None <=> record[p] = None
      /\ record[p] # None => record'[p].alive = record[p].alive /\ record'[p].gear = record[p].gear
           /\ record'[p].jail = 0
  BY <1>1, <1>2, Elements, RecordJailWrites
<1>6. /\ owed'[p] = 0 /\ free'[p] = TRUE
      /\ \A q \in Others(p) : owed'[q] = owed[q] /\ free'[q] = free[q]
  BY <1>1, <1>2 DEF Flags, Data, Others
<1>7. \A q \in Others(p) : Untouched(q)
  BY <1>2, <1>4, <1>5, <1>6 DEF Untouched, Others
<1>8. Flags'
  BY <1>1, <1>2, Zenon DEF Flags
<1>10. Data'
  BY <1>1, <1>2, <1>4, <1>5, <1>6 DEF Data, NoCheck
<1>11. SaverInv'
  BY <1>1, <1>2, <1>4, <1>6 DEF SaverInv, Others, Unworn, NoCheck
<1>12. UnitInv(p)'
  BY <1>1, <1>2, <1>5, <1>6 DEF UnitInv, Present
<1>13. WrittenOff(p)' = WrittenOff(p) /\ SentBack(p)' = SentBack(p)
  BY <1>2 DEF WrittenOff, SentBack, WritesOff, SendsBack
<1>14. p \in Sure' => GearInv(p)'
  BY <1>2, <1>4, <1>5, <1>6, <1>13 DEF GearInv, Unworn, Present
<1>15. p \in Sure' => TermInv(p)'
  BY <1>1, <1>2, <1>4, <1>5, <1>6, <1>13 DEF TermInv, Present
<1>16. \A t \in Scripts : script[t].p = p \/ script'[t] # script[t] => ScriptInv(t)' /\ LivedInv(t)'
  BY <1>1, <1>2, <1>6, <1>4, <1>5, <1>13 DEF ScriptInv, LivedInv, Unworn, Living, Lived
<1>17. \A t \in Scripts : script[t].p # p => script'[t] = script[t] \/ script[t].at = "idle"
  BY <1>2
<1>. QED BY <1>4, <1>7, <1>8, <1>10, <1>11, <1>12, <1>14, <1>15, <1>16, <1>17, OnePlayer

-----------------------------------------------------------------------------
(* Leaving, the restart, and time.                                           *)

\* What is left of the sentence of who leaves.
Time(p) == IF jail[p] = None THEN saved[p].jail ELSE jail[p]

LEMMA LeaveKeeps ==
    ASSUME Inductive, NEW p \in Players, Leave(p)
    PROVE  Inductive'
<1>. USE DEF Inductive
<1>1. Flags /\ Data
  BY Types
<1>2. /\ unit' = [unit EXCEPT ![p] = "gone"] /\ client' = [client EXCEPT ![p] = "off"]
      /\ RecordSession("end", {p})
      /\ jail' = [jail EXCEPT ![p] = None]
      /\ Save(p, IF unit[p] = "spawned" THEN [alive |-> TRUE, gear |-> worn[p], jail |-> Time(p)]
                 ELSE [saved[p] EXCEPT !.jail = Time(p)], FALSE)
      /\ record' = [record EXCEPT ![p] = None]
      /\ lost' = IF unit[p] \in {"dead", "claimed", "revived"} THEN [lost EXCEPT ![p] = worn[p]]
           ELSE lost
      /\ worn' = [worn EXCEPT ![p] = 0] /\ script' = Cut(p) /\ saver' = Aged(p)
      /\ UNCHANGED <<warden, arrests, dead, owed, free>>
  BY DEF Leave, bounds, truth, world, Time, SavedOnLeave
<1>3. Time(p) \in Nat /\ saved[p] \in Rows /\ worn[p] \in Nat /\ lost[p] \in Nat
  BY <1>1, Elements DEF Time, Rows
<1>4. /\ saved' \in [Players -> Rows] /\ doubtful' \subseteq Players /\ Sure' \subseteq Sure
      /\ \A q \in Others(p) : saved'[q] = saved[q]
      /\ p \in Sure' => /\ saved'[p].jail = Time(p)
                       /\ saved'[p].alive = (unit[p] = "spawned" \/ saved[p].alive)
                       /\ saved'[p].gear = IF unit[p] = "spawned" THEN worn[p] ELSE saved[p].gear
  <2>. DEFINE row == IF unit[p] = "spawned" THEN [alive |-> TRUE, gear |-> worn[p], jail |-> Time(p)]
                     ELSE [saved[p] EXCEPT !.jail = Time(p)]
  <2>1. /\ row \in Rows /\ row.jail = Time(p)
        /\ row.alive = (unit[p] = "spawned" \/ saved[p].alive)
        /\ row.gear = IF unit[p] = "spawned" THEN worn[p] ELSE saved[p].gear
    <3>. DEFINE left == [alive |-> TRUE, gear |-> worn[p], jail |-> Time(p)]
                kept == [saved[p] EXCEPT !.jail = Time(p)]
    <3>1. left \in Rows /\ left.jail = Time(p) /\ left.alive = TRUE /\ left.gear = worn[p]
      BY <1>3 DEF Rows
    <3>2. kept \in Rows /\ kept.jail = Time(p) /\ kept.alive = saved[p].alive
            /\ kept.gear = saved[p].gear
      BY <1>3 DEF Rows
    <3>3. saved[p].alive \in BOOLEAN
      BY <1>3 DEF Rows
    <3>. HIDE DEF left, kept
    <3>4. CASE unit[p] = "spawned"
      BY <3>1, <3>4 DEF left
    <3>5. CASE unit[p] # "spawned"
      BY <3>2, <3>3, <3>5 DEF kept
    <3>. QED BY <3>4, <3>5
  <2>2. Save(p, row, FALSE)
    BY <1>2
  <2>. HIDE DEF row
  <2>. QED
  BY <1>1, <2>1, <2>2, SaveWrites
<1>5. /\ record' \in [Players -> Rows \cup {None}]
      /\ \A q \in Others(p) : record'[q] = record[q]
      /\ record'[p] = None
  BY <1>1, <1>2 DEF Data, Others
<1>6. /\ unit'[p] = "gone" /\ jail'[p] = None /\ worn'[p] = 0
           /\ lost'[p] = (IF unit[p] \in {"dead", "claimed", "revived"} THEN worn[p] ELSE lost[p])
      /\ \A q \in Others(p) : unit'[q] = unit[q] /\ jail'[q] = jail[q] /\ worn'[q] = worn[q]
           /\ lost'[q] = lost[q]
  BY <1>1, <1>2, <1>3 DEF Flags, Data, Others
<1>7. \A q \in Others(p) : Untouched(q)
  BY <1>2, <1>4, <1>5, <1>3, <1>6 DEF Untouched, Others
<1>8. Flags'
  BY <1>1, <1>2, Zenon DEF Flags, RecordSession
<1>9. /\ script' \in [Scripts -> Script]
      /\ \A t \in Scripts : script[t].p # p => script'[t] = script[t]
      /\ \A t \in Scripts : script[t].p = p =>
            /\ script'[t].at = script[t].at /\ script'[t].p = p /\ script'[t].row = script[t].row
            /\ ~script'[t].here /\ ~script'[t].own
  <2>1. \A t \in Scripts : script'[t] = IF script[t].p = p THEN [script[t] EXCEPT !.own = FALSE,
          !.here = FALSE] ELSE script[t]
    BY <1>2 DEF Cut
  <2>2. \A t \in Scripts : script[t] \in Script
    BY <1>1, ScriptType
  <2>3. \A t \in Scripts : script'[t] \in Script
    BY <2>1, <2>2 DEF Script
  <2>4. script' \in [Scripts -> Script]
    BY <1>2, <2>3 DEF Cut
  <2>5. ASSUME NEW t \in Scripts, script[t].p = p
        PROVE  /\ script'[t].at = script[t].at /\ script'[t].p = p /\ script'[t].row = script[t].row
               /\ ~script'[t].here /\ ~script'[t].own
    <3>1. script'[t] = [script[t] EXCEPT !.own = FALSE, !.here = FALSE] /\ script[t] \in Script
      BY <2>1, <2>2, <2>5
    <3>. QED BY <2>5, <3>1 DEF Script
  <2>. QED
  BY <2>1, <2>4, <2>5
<1>10. Data'
  BY <1>1, <1>2, <1>4, <1>5, <1>3, <1>6, <1>9, SaverAges DEF Data
<1>11. SaverInv'
  <2>1. CASE saver.p = p
    <3>1. saver'.at = saver.at /\ saver'.p = p /\ saver'.old = TRUE /\ warden' = warden
      BY <1>1, <1>2, <2>1, SaverAges
    <3>. QED BY <3>1 DEF SaverInv
  <2>2. CASE saver.p # p
    <3>1. saver' = saver /\ warden' = warden
      BY <1>1, <1>2, <2>2, SaverAges
    <3>2. saver.p \in Players => unit'[saver.p] = unit[saver.p] /\ lost'[saver.p] = lost[saver.p]
      BY <1>6, <2>2 DEF Others
    <3>. QED BY <1>4, <3>1, <3>2 DEF SaverInv, Unworn
  <2>. QED BY <2>1, <2>2
<1>12. UnitInv(p)'
  BY <1>1, <1>2, <1>5, <1>3, <1>6, <1>9 DEF UnitInv, Present
<1>13. /\ unit[p] \in {"dead", "claimed", "revived"} => dead[p]
            /\ \A t \in Scripts : script[t].p = p => script[t].at \notin Living
       /\ (WrittenOff(p) => unit[p] = "spawned")
  BY <1>2 DEF UnitInv, ScriptInv, WrittenOff, WritesOff
<1>14. p \in Sure' => GearInv(p)'
  BY <1>2, <1>4, <1>5, <1>3, <1>6, <1>9, <1>13 DEF GearInv, Unworn, Present, UnitInv
<1>15. p \in Sure' => TermInv(p)'
  BY <1>1, <1>2, <1>4, <1>5, <1>3, <1>6, <1>9, <1>13 DEF TermInv, Present, Time
<1>16. \A t \in Scripts : script[t].p = p \/ script'[t] # script[t] => ScriptInv(t)' /\ LivedInv(t)'
  BY <1>2, <1>3, <1>4, <1>5, <1>6, <1>9, <1>13 DEF ScriptInv, LivedInv, GearInv, Unworn, Living, Lived
<1>17. \A t \in Scripts : script[t].p # p => script'[t] = script[t] \/ script[t].at = "idle"
  BY <1>2, <1>3, <1>6, <1>9, <1>13
<1>. QED BY <1>3, <1>4, <1>7, <1>8, <1>10, <1>11, <1>12, <1>14, <1>15, <1>16, <1>17, OnePlayer

LEMMA RestartKeeps ==
    ASSUME Inductive, Restart
    PROVE  Inductive'
<1>. USE DEF Inductive
<1>1. Flags /\ Data
  BY Types
<1>2. /\ record' = [p \in Players |-> None]
      /\ unit' = [p \in Players |-> "gone"] /\ client' = [p \in Players |-> "off"]
      /\ worn' = [p \in Players |-> 0] /\ lost' = [p \in Players |-> 0]
      /\ jail' = [p \in Players |-> None] /\ RecordSession("reset", Players)
      /\ script' = [s \in Scripts |-> Idle] /\ saver' = NoSave /\ warden' = NoCheck
      /\ UNCHANGED <<saved, dead, owed, free, doubtful>>
  BY DEF Restart, truth
<1>3. Flags'
  BY <1>1, <1>2, Zenon DEF Flags, RecordSession
<1>4. Data'
  BY <1>1, <1>2, IdleType DEF Data, NoSave, NoCheck
<1>5. SaverInv'
  BY <1>2 DEF SaverInv, NoSave, NoCheck
<1>6. ASSUME NEW s \in Scripts PROVE ScriptInv(s)' /\ LivedInv(s)'
  BY <1>2, IdleScripts
<1>7. ASSUME NEW p \in Players PROVE UnitInv(p)' /\ (p \in Sure' => GearInv(p)' /\ TermInv(p)')
  <2>1. /\ record'[p] = None /\ unit'[p] = "gone" /\ worn'[p] = 0 /\ lost'[p] = 0 /\ jail'[p] = None
        /\ saved'[p] = saved[p] /\ dead'[p] = dead[p] /\ owed'[p] = owed[p] /\ free'[p] = free[p]
        /\ (p \in Sure' <=> p \in Sure)
    BY <1>2 DEF Sure
  <2>2. UnitInv(p)'
    BY <2>1 DEF UnitInv, Present
  <2>3. p \in Sure' => TermInv(p)'
    BY <2>1 DEF TermInv, Present
  <2>4. saved[p].gear \in Nat
    BY <1>1, Elements DEF Rows
  <2>5. p \in Sure' => GearInv(p)'
    BY <2>1, <2>4 DEF GearInv, Present, Unworn
  <2>. QED BY <2>2, <2>3, <2>5
<1>8. TypeOK'
  BY <1>3, <1>4 DEF TypeOK, Flags, Data, Script
<1>. QED BY <1>5, <1>6, <1>7, <1>8

LEMMA TickKeeps ==
    ASSUME Inductive, Tick
    PROVE  Inductive'
<1>. USE DEF Inductive
<1>1. Flags /\ Data
  BY Types
<1>2. /\ jail' = [p \in Players |-> IF jail[p] # None /\ jail[p] > 0 THEN jail[p] - 1 ELSE jail[p]]
      /\ owed' = [p \in Players |-> IF jail[p] # None /\ owed[p] > 0 THEN owed[p] - 1 ELSE owed[p]]
      /\ warden' = IF warden.left > 0 THEN [warden EXCEPT !.left = warden.left - 1] ELSE warden
      /\ UNCHANGED <<saved, record, unit, client, worn, lost, online, script, saver, dead, free,
           doubtful>>
  BY DEF Tick, world
<1>3. Flags'
  BY <1>1, <1>2, Zenon DEF Flags
<1>4. Data'
  <2>1. jail' \in [Players -> Nat \cup {None}]
    BY <1>1, <1>2 DEF Data
  <2>2. owed' \in [Players -> Nat]
    BY <1>1, <1>2 DEF Data
  <2>3. warden' \in [at : {"idle", "act", "clear"}, p : Players \cup {None}, left : Nat]
    BY <1>1, <1>2 DEF Data
  <2>. QED BY <1>1, <1>2, <2>1, <2>2, <2>3 DEF Data
<1>5. SaverInv'
  BY <1>1, <1>2 DEF SaverInv, Sure, Unworn, Data
<1>6. Sure' = Sure
  BY <1>2 DEF Sure
<1>7. ASSUME NEW s \in Scripts PROVE ScriptInv(s)' /\ LivedInv(s)'
  BY <1>2, <1>6 DEF ScriptInv, LivedInv, Unworn
<1>8. ASSUME NEW p \in Players PROVE UnitInv(p)' /\ (p \in Sure' => GearInv(p)' /\ TermInv(p)')
  <2>1. /\ jail'[p] = IF jail[p] # None /\ jail[p] > 0 THEN jail[p] - 1 ELSE jail[p]
        /\ owed'[p] = IF jail[p] # None /\ owed[p] > 0 THEN owed[p] - 1 ELSE owed[p]
        /\ owed[p] \in Nat /\ (jail[p] # None => jail[p] \in Nat)
    BY <1>1, <1>2, Elements
  <2>2. UnitInv(p)'
    BY <1>2, <2>1 DEF UnitInv
  <2>3. GearInv(p) => GearInv(p)'
    BY <1>2 DEF GearInv, Unworn, WrittenOff, WritesOff
  <2>4. SentBack(p)' = SentBack(p)
    BY <1>2 DEF SentBack, SendsBack
  <2>5. saved[p].jail \in Nat /\ (record[p] # None => record[p].jail \in Nat)
    BY <1>1, Elements DEF Rows
  <2>6. TermInv(p) => TermInv(p)'
    <3>. SUFFICES ASSUME TermInv(p) PROVE TermInv(p)'
      OBVIOUS
    <3>1. CASE jail[p] = None
      BY <1>2, <2>1, <2>4, <3>1 DEF TermInv
    <3>2. CASE jail[p] # None
      <4>1. jail[p] \in Nat /\ owed[p] <= jail[p]
        BY <2>1, <3>2 DEF TermInv
      <4>2. jail'[p] \in Nat /\ owed'[p] \in Nat /\ owed'[p] <= jail'[p] /\ owed'[p] <= owed[p]
        BY <2>1, <3>2, <4>1
      <4>3. jail'[p] # None
        BY <4>2, NoneIsNobody
      <4>. QED BY <1>2, <2>1, <2>5, <3>2, <4>2, <4>3 DEF TermInv
    <3>. QED BY <3>1, <3>2
  <2>. QED BY <1>6, <2>2, <2>3, <2>6
<1>9. TypeOK'
  BY <1>3, <1>4 DEF TypeOK, Flags, Data, Script
<1>. QED BY <1>5, <1>7, <1>8, <1>9

-----------------------------------------------------------------------------
(* The invariant, and the properties.                                        *)

LEMMA InitInductive == Init => Inductive
<1>. SUFFICES ASSUME Init PROVE Inductive
  OBVIOUS
<1>1. /\ saved \in [Players -> {[alive |-> TRUE, gear |-> 0, jail |-> 0]}]
      /\ record = [p \in Players |-> None] /\ unit = [p \in Players |-> "gone"]
      /\ worn = [p \in Players |-> 0] /\ lost = [p \in Players |-> 0] /\ jail = [p \in Players |-> None]
      /\ script = [s \in Scripts |-> Idle] /\ saver = NoSave /\ warden = NoCheck
      /\ dead = [p \in Players |-> FALSE] /\ owed = [p \in Players |-> 0]
           /\ free = [p \in Players |-> TRUE]
  BY DEF Init
<1>2. Flags
  BY Zenon DEF Init, Flags
<1>3. Data
  <2>1. [alive |-> TRUE, gear |-> 0, jail |-> 0] \in Rows
    BY DEF Rows
  <2>2. saved \in [Players -> Rows]
    BY <1>1, <2>1
  <2>. QED BY <2>2, IdleType DEF Init, Data, NoSave, NoCheck
<1>4. SaverInv
  BY <1>1 DEF SaverInv, NoSave, NoCheck
<1>5. ASSUME NEW s \in Scripts PROVE ScriptInv(s) /\ LivedInv(s)
  BY <1>1 DEF ScriptInv, LivedInv, Idle, Living
<1>6. ASSUME NEW p \in Players PROVE UnitInv(p) /\ GearInv(p) /\ TermInv(p)
  <2>1. /\ saved[p].gear = 0 /\ saved[p].jail = 0 /\ record[p] = None /\ unit[p] = "gone"
        /\ worn[p] = 0 /\ jail[p] = None /\ ~dead[p] /\ owed[p] = 0
    BY <1>1
  <2>. QED BY <2>1 DEF UnitInv, GearInv, TermInv, Unworn, Present
<1>7. TypeOK
  BY <1>2, <1>3, Types
<1>. QED BY <1>4, <1>5, <1>6, <1>7 DEF Inductive

LEMMA NextInductive ==
    ASSUME Inductive, [Next]_vars
    PROVE  Inductive'
<1>1. ASSUME NEW p \in Players,
             \/ Join(p) \/ Kill(p) \/ Revive(p) \/ Respawn(p) \/ RespawnRevived(p) \/ Leave(p)
             \/ Visit(p) \/ Arrest(p) \/ Bail(p) \/ LookAtPrisoner(p)
      PROVE  Inductive'
  BY <1>1, JoinKeeps, KillKeeps, ReviveKeeps, RespawnKeeps, RespawnRevivedKeeps, LeaveKeeps,
     VisitKeeps, ArrestKeeps, BailKeeps, LookAtPrisonerKeeps
<1>2. ASSUME NEW p \in Players, NEW s \in Scripts, AskSession(p, s) \/ Pick(p, s)
               \/ CompleteRevive(p, s)
      PROVE  Inductive'
  BY <1>2, AskSessionKeeps, PickKeeps, CompleteReviveKeeps
<1>3. ASSUME NEW s \in Scripts,
             \/ Load(s) \/ SetSession(s) \/ GoOnline(s)
             \/ NewLife(s) \/ SaveAlive(s) \/ Approve(s) \/ JailAgain(s) \/ SaveTerm(s) \/ Raise(s)
      PROVE  Inductive'
  <2>1. script[s].at # "idle"
    BY <1>3 DEF Load, SetSession, GoOnline, NewLife, SaveAlive, Approve, JailAgain, SaveTerm, Raise
  <2>2. script[s].p \in Players
    BY <2>1 DEF Inductive, ScriptInv
  <2>. QED BY <1>3, <2>2, LoadKeeps, SetSessionKeeps, GoOnlineKeeps, NewLifeKeeps, SaveAliveKeeps,
         ApproveKeeps,
              JailAgainKeeps, SaveTermKeeps, RaiseKeeps
<1>4. ASSUME AutosaveAlive \/ LookAtGear \/ AutosaveGear
      PROVE  Inductive'
  <2>1. saver.p \in Players
    BY <1>4 DEF AutosaveAlive, LookAtGear, AutosaveGear, Inductive, SaverInv
  <2>. QED BY <1>4, <2>1, AutosaveAliveKeeps, LookAtGearKeeps, AutosaveGearKeeps
<1>5. ASSUME SaveTime \/ Release \/ ClearSentence
      PROVE  Inductive'
  <2>1. warden.p \in Players
    BY <1>5 DEF SaveTime, Release, ClearSentence, Inductive, SaverInv
  <2>. QED BY <1>5, <2>1, SaveTimeKeeps, ReleaseKeeps, ClearSentenceKeeps
<1>6. ASSUME UNCHANGED vars PROVE Inductive'
  <2>1. Sure' = Sure /\ TypeOK'
    BY <1>6 DEF vars, world, truth, bounds, Sure, Inductive, TypeOK
  <2>2. SaverInv'
    BY <1>6, <2>1 DEF vars, world, truth, bounds, Inductive, SaverInv, Unworn
  <2>3. ASSUME NEW p \in Players PROVE UnitInv(p)' /\ (p \in Sure' => GearInv(p)' /\ TermInv(p)')
    <3>1. Untouched(p)
      BY <1>6 DEF vars, world, truth, bounds, Untouched
    <3>2. \A s \in Scripts : script[s].p = p => script'[s] = script[s] \/ script[s].at = "idle"
      BY <1>6 DEF vars
    <3>3. UnitInv(p) /\ (p \in Sure => GearInv(p) /\ TermInv(p))
      BY DEF Inductive
    <3>. QED BY <2>1, <3>1, <3>2, <3>3, PlayerStays
  <2>4. ASSUME NEW s \in Scripts PROVE ScriptInv(s)' /\ LivedInv(s)'
    <3>1. script'[s] = script[s] /\ Untouched(script[s].p) /\ Sure' \subseteq Sure
      BY <1>6, <2>1 DEF vars, world, truth, bounds, Untouched
    <3>. QED BY <3>1, ScriptStays DEF Inductive
  <2>. QED BY <2>1, <2>2, <2>3, <2>4 DEF Inductive
<1>. QED BY <1>1, <1>2, <1>3, <1>4, <1>5, <1>6, TickKeeps, RestartKeeps DEF Next

\* events and sessions: what the row, the record, the body, the jail and the scripts
\* that are suspended somewhere have to do with each other in every state.
THEOREM Invariance == Spec => []Inductive
BY InitInductive, NextInductive, PTL DEF Spec

\* onEntityKilled, revive, spawn and autosave: a life ends once and for good, in the row
\* too, and nobody goes about in what was left on a body.
THEOREM LivedOnce == Spec => []OneLife
<1>1. Inductive => OneLife
  <2>. SUFFICES ASSUME Inductive PROVE OneLife
    OBVIOUS
  <2>1. ASSUME NEW p \in Sure PROVE GearInv(p) /\ worn[p] \in Nat
    BY Types, Elements DEF Inductive, Sure
  <2>. QED BY <2>1 DEF Inductive, OneLife, DeathRecorded, OutfitOnce, GearInv, Unworn
<1>. QED BY <1>1, Invariance, PTL

\* arrest, bail, the jail's loop, leaving and spawning: a sentence is served to its end,
\* whatever happens meanwhile, and once.
THEOREM ServedOnce == Spec => []TermsKept
<1>1. Inductive => TermsKept
  <2>. SUFFICES ASSUME Inductive PROVE TermsKept
    OBVIOUS
  <2>1. ASSUME NEW p \in Sure PROVE TermInv(p)
    BY <2>1 DEF Inductive, Sure
  <2>2. \A p \in Sure : SentBack(p) => RunningFor(p)
    BY DEF SentBack, SendsBack, RunningFor
  <2>. QED BY <2>1, <2>2 DEF TermsKept, SentenceServed, FreeStaysFree, TermInv, Present
<1>. QED BY <1>1, Invariance, PTL
====
