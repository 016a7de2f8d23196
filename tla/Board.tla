--------------------------------- MODULE Board ---------------------------------
(***************************************************************************)
(* The project board of the website: cards in columns, ordered by hand.    *)
(* The order is a number of each card: a card at the end of its column     *)
(* gets the highest plus one, a card dragged before another the mean of    *)
(* that one and the one above it, worked out under a lock of the table.    *)
(* The numbers are doubles; here they are integers of which Unit stands    *)
(* for one, so that a mean is exact Precision times in the same gap.       *)
(*                                                                         *)
(* A statement that writes cards reads what it needs in its snapshot,      *)
(* while others may run, and then writes.                                  *)
(***************************************************************************)
EXTENDS Sequences, FiniteSets, FiniteSetsExt, Naturals, Integers

CONSTANTS
    Benches,        \* requests that run at the same time
    Authors,        \* people with dev.tools
    Columns,        \* of Statuses, "done" among them
    LabelNames, Lower,  \* names for labels, and each name in lower case
    Precision,      \* how often a gap can be halved: about 50 in a double
    MaxCards, MaxMoves, MaxParts

\* No gap is halved until nothing is left of it.
ASSUME BoardAssumption == IsFiniteSet(Benches) /\ Precision \in Nat /\ MaxMoves \in 0..Precision

VARIABLES
    cards,          \* dev_tasks: [there, col, sort, labels, doneAt]
    labels,         \* dev_labels: names
    links,          \* dev_task_links: <<task, other>>
    parts,          \* checklists, their items and comments: [is, of, by, done]
    moves,          \* how often a card was moved or saved
    bench           \* what a request is doing

boardVars == <<cards, labels, links, parts, moves, bench>>

\* The powers of two; a gap of Unit can be halved Precision times.
Power[n \in 0..Precision] == IF n = 0 THEN 1 ELSE 2 * Power[n - 1]
Unit == Power[Precision]
Unbusy == [at |-> "idle"]
Nobody == 0

Card(col, sort, names, doneAt) ==
    [there |-> TRUE, col |-> col, sort |-> sort, labels |-> names, doneAt |-> doneAt]

BoardInit ==
    /\ cards = [c \in 1..2 |-> Card("todo", c * Unit, {}, 0)]
    /\ labels = {} /\ links = {} /\ parts = <<>> /\ moves = 0
    /\ bench = [b \in Benches |-> Unbusy]

Doing(b, next) == bench' = [bench EXCEPT ![b] = next]
There(c) == c \in DOMAIN cards /\ cards[c].there
InColumn(col) == {c \in DOMAIN cards : cards[c].there /\ cards[c].col = col}
Sorts(cs) == {cards[c].sort : c \in cs}
Highest(cs) == IF cs = {} THEN 0 ELSE Max(Sorts(cs))
\* now(), as far as done_at is ordered by it.
Now == 1 + Max({cards[c].doneAt : c \in DOMAIN cards} \cup {0})
DoneAt(col, before) == IF col # "done" THEN 0 ELSE IF before # 0 THEN before ELSE Now

\* Board: by sort and id; what is done by when it was, last first.
Above(col, c, d) ==
    \/ col = "done" /\ cards[c].doneAt > cards[d].doneAt
    \/ /\ col = "done" => cards[c].doneAt = cards[d].doneAt
       /\ cards[c].sort < cards[d].sort \/ (cards[c].sort = cards[d].sort /\ c < d)

-------------------------------------------------------------------------------
\* Create (no task yet) and Update

\* Update looks whether the task is there; matchLabels reads the labels.
TaskForm(b, c, col, names) ==
    /\ bench[b] = Unbusy
    /\ IF c = 0 THEN UNCHANGED moves ELSE There(c) /\ moves < MaxMoves /\ moves' = moves + 1
    /\ Doing(b, IF names = {} THEN [at |-> "ready", task |-> c, col |-> col, names |-> {}]
                ELSE [at |-> "match", task |-> c, col |-> col, names |-> names, saved |-> labels])
    /\ UNCHANGED <<cards, labels, links, parts>>

\* The saved spelling of a name, in a snapshot.
Spelled(n, saved) ==
    IF \E s \in saved : Lower[s] = Lower[n] THEN CHOOSE s \in saved : Lower[s] = Lower[n] ELSE n

\* matchLabels saves what the snapshot did not have, unless it is there by now.
MatchLabels(b) ==
    /\ bench[b].at = "match"
    /\ LET q == bench[b]
           matched == {Spelled(n, q.saved) : n \in q.names}
           new == {n \in matched \ q.saved : \A l \in labels : Lower[l] # Lower[n]}
       IN /\ labels' = labels \cup new
          /\ Doing(b, [at |-> "ready", task |-> q.task, col |-> q.col, names |-> matched])
    /\ UNCHANGED <<cards, links, parts, moves>>

Writing(b) == bench[b].at = "write"
Moving(b) == bench[b].at \in {"place", "move"}

\* The statement begins: it waits for a card that is being moved, and reads the highest
\* number of the column in its snapshot.
BeginWrite(b) ==
    /\ bench[b].at = "ready" /\ ~\E o \in Benches : Moving(o)
    /\ LET q == bench[b] IN
       Doing(b, [at |-> "write", task |-> q.task, col |-> q.col, names |-> q.names, top |-> Highest(InColumn(q.col))])
    /\ UNCHANGED <<cards, labels, links, parts, moves>>

CreateTask(b) ==
    /\ Writing(b) /\ bench[b].task = 0 /\ Len(cards) < MaxCards
    /\ LET q == bench[b] IN cards' = Append(cards, Card(q.col, q.top + Unit, q.names, DoneAt(q.col, 0)))
    /\ Doing(b, Unbusy)
    /\ UNCHANGED <<labels, links, parts, moves>>

\* A task that changes its column goes to the end of it.
UpdateTask(b) ==
    /\ Writing(b) /\ There(bench[b].task)
    /\ LET q == bench[b] c == q.task IN
       cards' = [cards EXCEPT ![c] = Card(q.col, IF cards[c].col = q.col THEN cards[c].sort ELSE q.top + Unit,
                                          q.names, DoneAt(q.col, cards[c].doneAt))]
    /\ Doing(b, Unbusy)
    /\ UNCHANGED <<labels, links, parts, moves>>

Part(is, of, in, by) == [is |-> is, of |-> of, in |-> in, by |-> by, done |-> FALSE]
Removed(rows) == [i \in DOMAIN parts |-> IF i \in rows THEN Part("gone", 0, 0, Nobody) ELSE parts[i]]

\* Delete: what belongs to the card goes with it.
DeleteTask(c) ==
    /\ There(c) /\ ~\E b \in Benches : Moving(b)
    /\ cards' = [cards EXCEPT ![c].there = FALSE]
    /\ links' = {l \in links : c \notin {l[1], l[2]}}
    /\ parts' = Removed({i \in DOMAIN parts : parts[i].of = c})
    /\ UNCHANGED <<labels, moves, bench>>

-------------------------------------------------------------------------------
\* Move

DragTask(b, c, col, before) ==
    /\ bench[b] = Unbusy /\ moves < MaxMoves
    /\ moves' = moves + 1
    /\ Doing(b, [at |-> "lock", task |-> c, col |-> col, before |-> before])
    /\ UNCHANGED <<cards, labels, links, parts>>

\* Mutant: the table is not locked.
LockBoardNot(b) ==
    /\ bench[b].at = "lock"
    /\ Doing(b, [bench[b] EXCEPT !.at = "place"])
    /\ UNCHANGED <<cards, labels, links, parts, moves>>
\* LOCK TABLE dev_tasks: waits for the statements that write, and keeps them waiting.
LockBoard(b) ==
    /\ bench[b].at = "lock" /\ ~\E o \in Benches : Writing(o) \/ Moving(o)
    /\ Doing(b, [bench[b] EXCEPT !.at = "place"])
    /\ UNCHANGED <<cards, labels, links, parts, moves>>

\* The number to land at: of what is above the other card, the mean with the nearest.
Landing(q) ==
    LET others == InColumn(q.col) \ {q.task}
        above == {c \in others : cards[c].sort < cards[q.before].sort}
    IN  IF q.before \in {0, q.task} THEN (IF others = {} THEN Unit ELSE Highest(others) + Unit)
        ELSE IF above = {} THEN cards[q.before].sort - Unit
        ELSE (Max(Sorts(above)) + cards[q.before].sort) \div 2

\* The other card must still be in the column.
FindPlace(b) ==
    /\ bench[b].at = "place"
    /\ LET q == bench[b] IN
       IF q.before \notin {0, q.task} /\ q.before \notin InColumn(q.col) THEN Doing(b, Unbusy)
       ELSE Doing(b, [at |-> "move", task |-> q.task, col |-> q.col, before |-> q.before, sort |-> Landing(q)])
    /\ UNCHANGED <<cards, labels, links, parts, moves>>

MoveTask(b) ==
    /\ bench[b].at = "move" /\ There(bench[b].task)
    /\ LET q == bench[b] c == q.task IN
       cards' = [cards EXCEPT ![c] = Card(q.col, q.sort, cards[c].labels, DoneAt(q.col, cards[c].doneAt))]
    /\ Doing(b, Unbusy)
    /\ UNCHANGED <<labels, links, parts, moves>>

-------------------------------------------------------------------------------
\* Checklists, comments and links

AddChecklist(c) ==
    /\ There(c) /\ Len(parts) < MaxParts
    /\ parts' = Append(parts, Part("list", c, 0, Nobody))
    /\ UNCHANGED <<cards, labels, links, moves, bench>>

\* AddItem, to a checklist of this card; lists are told apart by how many there are.
IsList(c, l) == l \in DOMAIN parts /\ parts[l].is = "list" /\ parts[l].of = c
AddItem(c, l) ==
    /\ IsList(c, l) /\ Len(parts) < MaxParts
    /\ parts' = Append(parts, Part("item", c, l, Nobody))
    /\ UNCHANGED <<cards, labels, links, moves, bench>>

\* SetItem, by whom if it is done.
SetItem(p, i, done) ==
    /\ i \in DOMAIN parts /\ parts[i].is = "item"
    /\ parts' = [parts EXCEPT ![i].done = done, ![i].by = IF done THEN p ELSE Nobody]
    /\ UNCHANGED <<cards, labels, links, moves, bench>>

\* DeleteItem, DeleteChecklist with its items, DeleteComment by its author alone.
DeletePart(p, i) ==
    /\ i \in DOMAIN parts /\ parts[i].is # "gone" /\ (parts[i].is = "comment" => parts[i].by = p)
    /\ parts' = Removed({i} \cup {j \in DOMAIN parts : parts[j].in = i})
    /\ UNCHANGED <<cards, labels, links, moves, bench>>

AddComment(p, c) ==
    /\ There(c) /\ Len(parts) < MaxParts
    /\ parts' = Append(parts, Part("comment", c, 0, p))
    /\ UNCHANGED <<cards, labels, links, moves, bench>>

\* AddLink finds no link between the two, either way round, and then inserts it.
FindLink(b, c, d, reversed) ==
    /\ bench[b] = Unbusy /\ c # d /\ links \cap {<<c, d>>, <<d, c>>} = {}
    /\ Doing(b, [at |-> "link", link |-> IF reversed THEN <<d, c>> ELSE <<c, d>>])
    /\ UNCHANGED <<cards, labels, links, parts, moves>>

AddLink(b) ==
    /\ bench[b].at = "link" /\ bench[b].link \notin links
    /\ There(bench[b].link[1]) /\ There(bench[b].link[2])
    /\ links' = links \cup {bench[b].link}
    /\ Doing(b, Unbusy)
    /\ UNCHANGED <<cards, labels, parts, moves>>

RemoveLink(c, d) ==
    /\ links' = links \ {<<c, d>>, <<d, c>>}
    /\ UNCHANGED <<cards, labels, parts, moves, bench>>

\* SaveLabel: no other label may have the name, whatever its case; a name only seen on
\* cards gets its row; the cards follow a rename.
SaveLabel(old, new) ==
    /\ \A l \in labels \ {old} : Lower[l] # Lower[new]
    /\ labels' = (labels \ {old}) \cup {new}
    /\ cards' = [c \in DOMAIN cards |->
          IF old \notin cards[c].labels THEN cards[c]
          ELSE [cards[c] EXCEPT !.labels = (cards[c].labels \ {old}) \cup {new}]]
    /\ UNCHANGED <<links, parts, moves, bench>>

DeleteLabel(l) ==
    /\ labels' = labels \ {l}
    /\ cards' = [c \in DOMAIN cards |-> [cards[c] EXCEPT !.labels = cards[c].labels \ {l}]]
    /\ UNCHANGED <<links, parts, moves, bench>>

\* A request is refused, or a statement fails.
Dropped(b) ==
    /\ bench[b] # Unbusy /\ Doing(b, Unbusy)
    /\ UNCHANGED <<cards, labels, links, parts, moves>>

OrderNext ==
    \E b \in Benches :
        \/ \E c \in {0} \cup DOMAIN cards, col \in Columns : TaskForm(b, c, col, {})
        \/ \E c \in DOMAIN cards, col \in Columns, before \in {0} \cup DOMAIN cards : DragTask(b, c, col, before)
        \/ MatchLabels(b) \/ BeginWrite(b) \/ CreateTask(b) \/ UpdateTask(b) \/ Dropped(b)
        \/ LockBoard(b) \/ FindPlace(b) \/ MoveTask(b)

PartsNext ==
    \/ \E c \in DOMAIN cards, p \in Authors :
          \/ AddChecklist(c) \/ AddComment(p, c) \/ DeleteTask(c)
          \/ \E i \in DOMAIN parts : \/ AddItem(c, i) \/ DeletePart(p, i)
                                     \/ \E done \in BOOLEAN : SetItem(p, i, done)
    \/ \E c, d \in DOMAIN cards : \/ RemoveLink(c, d)
                                  \/ \E b \in Benches, reversed \in BOOLEAN : FindLink(b, c, d, reversed)
    \/ \E b \in Benches : AddLink(b) \/ Dropped(b)

LabelsNext ==
    \/ \E b \in Benches :
          \/ \E c \in {0} \cup DOMAIN cards, names \in SUBSET LabelNames : TaskForm(b, c, "todo", names)
          \/ MatchLabels(b) \/ BeginWrite(b) \/ CreateTask(b) \/ UpdateTask(b) \/ Dropped(b)
    \/ \E l, n \in LabelNames : SaveLabel(l, n) \/ DeleteLabel(l)

-------------------------------------------------------------------------------
Tied(c) == \E d \in InColumn(cards[c].col) \ {c} : cards[d].sort = cards[c].sort
\* The card is last of its column, or next above the other one.
Lands(q) ==
    IF q.before \in {0, q.task} THEN \A c \in InColumn(q.col) \ {q.task} : Above(q.col, c, q.task)
    ELSE \/ Tied(q.before)
         \/ /\ Above(q.col, q.task, q.before)
            /\ ~\E c \in InColumn(q.col) : Above(q.col, q.task, c) /\ Above(q.col, c, q.before)

\* A card that is moved lands directly above the card it was dropped on, or at the end
\* of its column, whoever else moves or adds cards ("Move puts a task in a column, just
\* before the task before (0 = at the end of the column)").
LandsBefore ==
    [][\A b \in Benches : \A q \in {bench[b]} :
          q.at = "move" /\ cards' # cards /\ bench'[b] = Unbusy /\ q.col # "done" => Lands(q)']_boardVars

\* The same of every card and of the column Done too: not so when two cards share a number
\* (two were added at once), and in Done, which is not ordered by hand.
JustBefore ==
    [][\A b \in Benches : \A q \in {bench[b]} :
          q.at = "move" /\ cards' # cards /\ bench'[b] = Unbusy /\ q.before \notin {0, q.task}
          => LET next(c, d) == Above(q.col, c, d) /\ ~\E e \in InColumn(q.col) : Above(q.col, c, e) /\ Above(q.col, e, d)
             IN  next(q.task, q.before)']_boardVars

\* Two cards are linked once ("These cards are already linked; remove that link first to
\* change it", AddLink); not so when both are linked to one another at once.
LinkedOnce == \A l \in links : <<l[2], l[1]>> \notin links

===============================================================================
